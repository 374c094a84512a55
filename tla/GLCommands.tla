------------------------------ MODULE GLCommands ------------------------------
(***************************************************************************)
(* What an EXGL context promises to JavaScript, whatever threads, batches  *)
(* and flushes are behind it: the commands issued are performed one by one *)
(* in the order they were issued, none twice, and a call that waits for an *)
(* answer returns only after its own command was performed.  Commands are  *)
(* numbered as they are issued; destroying the context abandons those not  *)
(* yet performed.                                                          *)
(***************************************************************************)
EXTENDS Integers

VARIABLES
  open,       \* the context exists
  issued,     \* number of the last command issued
  performed,  \* number of the last command performed
  waiting     \* the command whose answer JavaScript waits for, 0 if none

vars == <<open, issued, performed, waiting>>

TypeOK == open \in BOOLEAN /\ {issued, performed, waiting} \subseteq Nat

Init == open = FALSE /\ issued = 0 /\ performed = 0 /\ waiting = 0

\* a new context has one command of its own, which sets it up
Open ==
  /\ ~open /\ issued = 0
  /\ open' = TRUE /\ issued' = 1
  /\ UNCHANGED <<performed, waiting>>

Issue ==
  /\ open /\ waiting = 0
  /\ issued' = issued + 1
  /\ UNCHANGED <<open, performed, waiting>>

IssueAndWait ==
  /\ open /\ waiting = 0
  /\ issued' = issued + 1 /\ waiting' = issued + 1
  /\ UNCHANGED <<open, performed>>

Perform ==
  /\ performed < issued
  /\ performed' = performed + 1
  /\ UNCHANGED <<open, issued, waiting>>

Return ==
  /\ waiting # 0 /\ waiting <= performed
  /\ waiting' = 0
  /\ UNCHANGED <<open, issued, performed>>

Close ==
  /\ open
  /\ open' = FALSE
  /\ UNCHANGED <<issued, performed, waiting>>

Next == Open \/ Issue \/ IssueAndWait \/ Perform \/ Return \/ Close

Spec == Init /\ [][Next]_vars
=============================================================================
