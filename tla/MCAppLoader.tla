---------------------------- MODULE MCAppLoader ----------------------------
(* The instances of AppLoader that TLC checks.  The identities of fetchers *)
(* are interchangeable, so the runs of safety properties take a symmetry.  *)
EXTENDS AppLoader, TLC

Symmetry == Permutations(Fetchers)
=============================================================================
