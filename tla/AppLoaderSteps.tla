--------------------------- MODULE AppLoaderSteps ---------------------------
EXTENDS AppLoaderEffects

(***************************************************************************)
(* What each callback does, from the device state before it to the one     *)
(* after it, in the terms above.                                           *)
(***************************************************************************)
DeviceFieldsAre(s) ==
  /\ s.disk = disk /\ s.loader = loader /\ s.fetchers = fetchers
  /\ s.updates = updates /\ s.delegate = delegate

LEMMA DeviceFields == DeviceFieldsAre(Device)
BY DEF Device, DeviceFieldsAre

\* The typed part of the inductive invariant, as the lemmas on device states need it.
LEMMA TypedDevice ==
  ASSUME IInv
  PROVE  /\ Device \in DeviceType /\ Device \in Safe
         /\ server \in Revs /\ server \in Nat
         /\ spent \in [launches : Nat, requests : Nat, updates : Nat]
         /\ cachedReads \subseteq [request : Nat, rev : Revs]
         /\ \A f \in Fetchers : fetchers[f] \in Fetcher /\ FetcherSafe(disk, fetchers[f])
BY DEF IInv, TypeOK, Safe, DeviceType, Device, FetchersSafe, Revs

\* _finishWithError: of the timer, of the network, of a bundle.
NetEnds(s, t, f, err) == \E u \in DeviceType : Ended(s, u, f, err) /\ EndedAs(s, u, t, f)

\* The request of fetcher f has ended, and nothing else has happened yet.
AnsweredTo(a, f) == Swapped(Device, a, f, [fetchers[f] EXCEPT !.pending = Idle, !.resource = "none"])

LEMMA NetEndsEffect ==
  ASSUME NEW s \in DeviceType, NEW f \in Fetchers, NEW err \in BOOLEAN,
         s.fetchers[f].kind # "none", NEW free \in Free(s)
  PROVE  /\ NetEnds(s, WithTimeoutFinish(s, f, err), f, err)
         /\ WithTimeoutFinish(s, f, err) \in DeviceType
<1> DEFINE t == WithTimeoutFinish(s, f, err)
<1>1. PICK u \in DeviceType : Ended(s, u, f, err) /\ EndedAs(s, u, t, f)
  BY WithTimeoutFinishEffect
<1> HIDE DEF t
<1>2. t \in DeviceType
  BY <1>1 DEF EndedAs, Finished, FellBack, CacheOnlyStarted, Failed, Kept
<1> QED BY <1>1, <1>2 DEF NetEnds, t

LEMMA TimeOutEffect ==
  ASSUME IInv, NEW f \in Fetchers, TimeOut(f)
  PROVE  /\ fetchers[f].timer /\ fetchers[f].kind = "withTimeout"
         /\ UNCHANGED <<server, recovering, cachedReads, spent>>
         /\ \E t \in DeviceType : NetEnds(Device, t, f, FALSE) /\ Freed(t, Device')
<1> DEFINE t == WithTimeoutFinish(Device, f, FALSE)
<1>1. /\ fetchers[f].timer /\ Become(t) /\ Room(Device)
      /\ UNCHANGED <<server, recovering, cachedReads, spent>>
  BY DEF TimeOut
<1>2. PICK free \in Free(Device) : TRUE
  BY <1>1 DEF Room
<1>3. fetchers[f].kind = "withTimeout" /\ Device.fetchers = fetchers /\ Device \in DeviceType
  BY <1>1, TypedDevice, DeviceFields DEF FetcherSafe, DeviceFieldsAre
<1>4. NetEnds(Device, t, f, FALSE) /\ t \in DeviceType
  BY <1>2, <1>3, NetEndsEffect, Zenon
<1> HIDE DEF t
<1>5. Freed(t, Device')
  BY <1>1, <1>4, BecomeEffect
<1> QED BY <1>1, <1>3, <1>4, <1>5

LEMMA AnsweredToEffect ==
  ASSUME IInv, NEW f \in Fetchers
  PROVE  /\ AnsweredTo(Answered(f), f) /\ Answered(f) \in DeviceType
         /\ fetchers[f] \in Fetcher
         /\ Answered(f).fetchers[f] = [fetchers[f] EXCEPT !.pending = Idle, !.resource = "none"]
         /\ \A g \in Fetchers \ {f} : g \in Free(Device) => g \in Free(Answered(f))
<1>1. AnsweredTo(Answered(f), f)
  BY TypedDevice, AnsweredEffect DEF AnsweredTo
<1>2. /\ Answered(f) \in DeviceType
      /\ Answered(f).fetchers[f] = [fetchers[f] EXCEPT !.pending = Idle, !.resource = "none"]
      /\ \A g \in Fetchers \ {f} : Answered(f).fetchers[g] = Device.fetchers[g]
  BY <1>1 DEF AnsweredTo, Swapped, OthersKept
<1> QED BY <1>1, <1>2, TypedDevice DEF Free

\* The data of a manifest request of fetcher f.
LEMMA WithManifestDataEffect ==
  ASSUME IInv, NEW f \in Fetchers, fetchers[f].pending.op = "manifest",
         NEW m \in Answers(fetchers[f].pending)
  PROVE  /\ m \in Revs /\ m \in Nat
         /\ DataArrived(Answered(f), WithManifestData(f, m), fetchers[f].resource, m)
         /\ WithManifestData(f, m) \in DeviceType
         /\ WithManifestData(f, m).fetchers = Answered(f).fetchers
         /\ Free(WithManifestData(f, m)) = Free(Answered(f))
<1>1. /\ fetchers[f].pending \in Pending /\ fetchers[f].pending.rev \in Revs
      /\ fetchers[f].resource \in ResourceRoles /\ server \in Revs
  BY TypedDevice DEF FetcherSafe, Fetcher
<1>2. m \in Revs /\ m \in Rev0 /\ m \in Nat
  BY <1>1, AnswersRevs DEF Revs, Rev0
<1>3. DataArrived(Answered(f), WithManifestData(f, m), fetchers[f].resource, m)
  BY <1>1, <1>2, AnsweredToEffect, ManifestDataEffect DEF WithManifestData
<1> QED BY <1>2, <1>3 DEF DataArrived, Free

\* The device states these end in have their type.
LEMMA BundleWantedType ==
  ASSUME NEW s, NEW t, NEW f, BundleTaken(s, t, f) \/ BundleWanted(s, t, f)
  PROVE  t \in DeviceType
<1>1. CASE BundleTaken(s, t, f)
  BY <1>1 DEF BundleTaken, Written
<1>2. CASE BundleWanted(s, t, f) /\ ~BundleTaken(s, t, f)
  BY <1>2 DEF BundleWanted, Swapped
<1> QED BY <1>1, <1>2

LEMMA ManifestTakenType ==
  ASSUME NEW s, NEW t, NEW f, NEW m, ManifestTaken(s, t, f, m)
  PROVE  t \in DeviceType
BY BundleWantedType DEF ManifestTaken, DevStarted, Kept

LEMMA NetRequestedType ==
  ASSUME NEW s, NEW t, NEW new, NEW zero, NetRequested(s, t, new, zero)
  PROVE  t \in DeviceType /\ new \in Fetchers
BY DEF NetRequested, Requested

\* The manifest m that the server has sent to the fetcher f.
ManifestCame(t, f, m) ==
  \E a \in DeviceType :
    /\ AnsweredTo(a, f)
    /\ \/ /\ fetchers[f].kind = "withTimeout"
          /\ \E d \in DeviceType : DataArrived(a, d, fetchers[f].resource, m) /\ ManifestTaken(d, t, f, m)
       \/ /\ fetchers[f].kind = "dev"
          /\ Swapped(a, t, f, [a.fetchers[f] EXCEPT !.manifest = m])

LEMMA ManifestArrivesEffect ==
  ASSUME IInv, NEW f \in Fetchers, ManifestArrives(f)
  PROVE  /\ fetchers[f].pending.op = "manifest"
         /\ UNCHANGED <<server, recovering, cachedReads, spent>>
         /\ \E m \in Answers(fetchers[f].pending) \ RefusedRevs, t \in DeviceType :
              m \in Revs /\ ManifestCame(t, f, m) /\ Freed(t, Device')
<1>1. /\ fetchers[f].pending.op = "manifest"
      /\ UNCHANGED <<server, recovering, cachedReads, spent>>
  BY DEF ManifestArrives
<1>2. PICK free \in Free(Device) \ {f} : free \in Fetchers
  BY OtherFree DEF ManifestArrives
<1>3. PICK m \in Answers(fetchers[f].pending) \ RefusedRevs :
        \/ /\ fetchers[f].kind = "withTimeout"
           /\ Become(WithTimeoutManifest(WithManifestData(f, m), f, m))
        \/ /\ fetchers[f].kind = "dev"
           /\ Become([Answered(f) EXCEPT !.fetchers[f].manifest = m])
  BY DEF ManifestArrives
<1>4. /\ AnsweredTo(Answered(f), f) /\ Answered(f) \in DeviceType /\ fetchers[f] \in Fetcher
      /\ Answered(f).fetchers[f] = [fetchers[f] EXCEPT !.pending = Idle, !.resource = "none"]
      /\ free \in Free(Answered(f))
  BY <1>2, AnsweredToEffect
<1>5. /\ m \in Revs /\ WithManifestData(f, m) \in DeviceType
      /\ DataArrived(Answered(f), WithManifestData(f, m), fetchers[f].resource, m)
      /\ WithManifestData(f, m).fetchers = Answered(f).fetchers
      /\ free \in Free(WithManifestData(f, m))
  BY <1>1, <1>4, WithManifestDataEffect
<1> SUFFICES \E t \in DeviceType : ManifestCame(t, f, m) /\ Freed(t, Device')
  BY <1>1, <1>5
<1>6. CASE /\ fetchers[f].kind = "withTimeout"
           /\ Become(WithTimeoutManifest(WithManifestData(f, m), f, m))
  <2> DEFINE d == WithManifestData(f, m)
             t == WithTimeoutManifest(d, f, m)
  <2>1. d.fetchers[f].kind # "none" /\ server \in Revs
    BY <1>4, <1>5, <1>6, TypedDevice DEF Fetcher
  <2> HIDE DEF d
  <2>2. ManifestTaken(d, t, f, m)
    BY <1>5, <2>1, WithTimeoutManifestEffect DEF d
  <2>3. t \in DeviceType
    BY <2>2, ManifestTakenType
  <2>4. Freed(t, Device')
    BY <1>6, <2>3, BecomeEffect DEF d
  <2> QED BY <1>4, <1>5, <1>6, <2>2, <2>3, <2>4 DEF ManifestCame, d
<1>7. CASE fetchers[f].kind = "dev" /\ Become([Answered(f) EXCEPT !.fetchers[f].manifest = m])
  <2> DEFINE a == Answered(f)
             x == [a.fetchers[f] EXCEPT !.manifest = m]
             t == [a EXCEPT !.fetchers[f].manifest = m]
  <2>1. t = [a EXCEPT !.fetchers = [a.fetchers EXCEPT ![f] = x]]
    BY <1>4 DEF DeviceType
  <2>2. x \in Fetcher
    BY <1>4, <1>5 DEF DeviceType, Fetcher, Revs, Rev0
  <2>3. Become(t) /\ a \in DeviceType
    BY <1>4, <1>7
  <2> HIDE DEF a, x, t
  <2>4. Swapped(a, t, f, x) /\ t \in DeviceType
    BY <2>1, <2>2, <2>3, SwapEffect DEF Swapped
  <2>5. Freed(t, Device')
    BY <2>3, <2>4, BecomeEffect
  <2> QED BY <1>4, <1>7, <2>4, <2>5 DEF ManifestCame, a, x, t
<1> QED BY <1>3, <1>6, <1>7

\* The request of fetcher f has failed in device state d, or the manifest it got is refused.
RequestFailed(d, t, f) ==
  \/ fetchers[f].kind = "withTimeout" /\ NetEnds(d, t, f, TRUE)
  \/ fetchers[f].kind = "dev" /\ Failed(d, t, f)

LEMMA ManifestFailsEffect ==
  ASSUME IInv, NEW f \in Fetchers, ManifestFails(f)
  PROVE  /\ fetchers[f].pending.op = "manifest"
         /\ UNCHANGED <<server, recovering, cachedReads, spent>>
         /\ \E a, d, t \in DeviceType :
              /\ AnsweredTo(a, f)
              /\ \/ d = a
                 \/ \E m \in Answers(fetchers[f].pending) \cap RefusedRevs :
                      DataArrived(a, d, fetchers[f].resource, m)
              /\ RequestFailed(d, t, f) /\ Freed(t, Device')
<1> DEFINE a == Answered(f)
<1>1. /\ fetchers[f].pending.op = "manifest"
      /\ UNCHANGED <<server, recovering, cachedReads, spent>>
  BY DEF ManifestFails
<1>2. PICK free \in Free(Device) \ {f} : free \in Fetchers
  BY OtherFree DEF ManifestFails
<1>3. PICK d \in {Answered(f)} \cup
                {WithManifestData(f, m) : m \in Answers(fetchers[f].pending) \cap RefusedRevs} :
        \/ fetchers[f].kind = "withTimeout" /\ Become(WithTimeoutFinish(d, f, TRUE))
        \/ fetchers[f].kind = "dev" /\ Become(DidFailWithError(d, f, TRUE))
  BY DEF ManifestFails
<1>4. /\ AnsweredTo(a, f) /\ a \in DeviceType /\ fetchers[f] \in Fetcher
      /\ a.fetchers[f] = [fetchers[f] EXCEPT !.pending = Idle, !.resource = "none"]
      /\ free \in Free(a)
  BY <1>2, AnsweredToEffect
<1>5. /\ \/ d = a
         \/ \E m \in Answers(fetchers[f].pending) \cap RefusedRevs :
              DataArrived(a, d, fetchers[f].resource, m)
      /\ d \in DeviceType /\ d.fetchers = a.fetchers /\ free \in Free(d)
  <2>1. CASE d = a
    BY <1>4, <2>1
  <2>2. ASSUME NEW m \in Answers(fetchers[f].pending) \cap RefusedRevs, d = WithManifestData(f, m)
        PROVE  /\ DataArrived(a, d, fetchers[f].resource, m)
               /\ d \in DeviceType /\ d.fetchers = a.fetchers /\ free \in Free(d)
    BY <1>1, <1>4, <2>2, WithManifestDataEffect
  <2> QED BY <1>3, <2>1, <2>2
<1>6. d.fetchers[f].kind = fetchers[f].kind
  BY <1>4, <1>5 DEF Fetcher
<1> HIDE DEF a
<1>7. CASE fetchers[f].kind = "withTimeout" /\ Become(WithTimeoutFinish(d, f, TRUE))
  <2> DEFINE t == WithTimeoutFinish(d, f, TRUE)
  <2>1. NetEnds(d, t, f, TRUE) /\ t \in DeviceType
    BY <1>5, <1>6, <1>7, NetEndsEffect, Zenon
  <2>2. Become(t)
    BY <1>7
  <2> HIDE DEF t
  <2>3. Freed(t, Device')
    BY <2>1, <2>2, BecomeEffect
  <2>4. RequestFailed(d, t, f)
    BY <1>7, <2>1, Zenon DEF RequestFailed
  <2> QED BY <1>1, <1>4, <1>5, <2>1, <2>3, <2>4
<1>8. CASE fetchers[f].kind = "dev" /\ Become(DidFailWithError(d, f, TRUE))
  <2> DEFINE t == DidFailWithError(d, f, TRUE)
  <2>1. Failed(d, t, f)
    BY <1>5, FailEffect
  <2>2. Become(t)
    BY <1>8
  <2> HIDE DEF t
  <2>3. t \in DeviceType
    BY <2>1 DEF Failed, Kept
  <2>4. Freed(t, Device')
    BY <2>2, <2>3, BecomeEffect
  <2>5. RequestFailed(d, t, f)
    BY <1>8, <2>1 DEF RequestFailed
  <2> QED BY <1>1, <1>4, <1>5, <2>3, <2>4, <2>5
<1> QED BY <1>3, <1>7, <1>8

LEMMA CacheOnlyManifestVerifiedEffect ==
  ASSUME IInv, NEW f \in Fetchers, CacheOnlyManifestVerified(f)
  PROVE  /\ fetchers[f].pending.op = "cached" /\ fetchers[f].pending.rev \in Revs \ RefusedRevs
         /\ UNCHANGED <<server, recovering, cachedReads, spent>>
         /\ \E a, s, t \in DeviceType :
              /\ AnsweredTo(a, f)
              /\ Swapped(a, s, f, [a.fetchers[f] EXCEPT !.manifest = fetchers[f].pending.rev])
              /\ TookFromCache(s, t, f) /\ Freed(t, Device')
<1> DEFINE a == Answered(f)
           m == fetchers[f].pending.rev
           x == [a.fetchers[f] EXCEPT !.manifest = m]
           s == [a EXCEPT !.fetchers = [a.fetchers EXCEPT ![f] = x]]
           t == CacheOnlyFetchBundle(s, f)
<1>1. /\ fetchers[f].pending.op = "cached" /\ m \notin RefusedRevs
      /\ UNCHANGED <<server, recovering, cachedReads, spent>>
      /\ Become(CacheOnlyFetchBundle([a EXCEPT !.fetchers[f].manifest = m], f))
  BY DEF CacheOnlyManifestVerified
<1>2. /\ AnsweredTo(a, f) /\ a \in DeviceType
  BY AnsweredToEffect
<1>3. a.fetchers[f] \in Fetcher /\ m \in Revs
  BY <1>1, <1>2, TypedDevice DEF DeviceType, FetcherSafe
<1>4. s = [a EXCEPT !.fetchers[f].manifest = m]
  BY <1>2 DEF DeviceType
<1>5. x \in Fetcher /\ x.manifest = m
  BY <1>3 DEF Fetcher, Revs, Rev0
<1>6. Become(t)
  BY <1>1, <1>4
<1> HIDE DEF a, x, m
<1>7. Swapped(a, s, f, x)
  BY <1>2, <1>5, SwapEffect
<1> HIDE DEF s
<1>8. s \in DeviceType /\ s.fetchers[f].manifest \in Revs
  BY <1>3, <1>5, <1>7 DEF Swapped
<1>9. TookFromCache(s, t, f)
  BY <1>8, CacheOnlyFetchBundleEffect
<1> HIDE DEF t
<1>10. t \in DeviceType
  BY <1>9, Zenon DEF TookFromCache, Kept
<1>11. Freed(t, Device')
  BY <1>6, <1>10, BecomeEffect
<1> QED BY <1>1, <1>2, <1>3, <1>7, <1>8, <1>9, <1>10, <1>11 DEF m, x

LEMMA CacheOnlyManifestRejectedEffect ==
  ASSUME IInv, NEW f \in Fetchers, CacheOnlyManifestRejected(f)
  PROVE  /\ fetchers[f].pending.op = "cached" /\ fetchers[f].pending.rev \in RefusedRevs
         /\ UNCHANGED <<server, recovering, cachedReads, spent>>
         /\ \E a, t \in DeviceType :
              AnsweredTo(a, f) /\ Failed(a, t, f) /\ Freed(t, Device')
<1> DEFINE a == Answered(f)
           t == DidFailWithError(a, f, TRUE)
<1>1. /\ fetchers[f].pending.op = "cached" /\ fetchers[f].pending.rev \in RefusedRevs
      /\ UNCHANGED <<server, recovering, cachedReads, spent>> /\ Become(t)
  BY DEF CacheOnlyManifestRejected
<1>2. AnsweredTo(a, f) /\ a \in DeviceType
  BY AnsweredToEffect
<1> HIDE DEF a
<1>3. Failed(a, t, f)
  BY <1>2, FailEffect
<1> HIDE DEF t
<1>4. t \in DeviceType
  BY <1>3 DEF Failed, Kept
<1>5. Freed(t, Device')
  BY <1>1, <1>4, BecomeEffect
<1> QED BY <1>1, <1>2, <1>3, <1>4, <1>5

\* The bundle of fetcher f has been stored in device state s.
BundleCame(s, t, f) ==
  \/ fetchers[f].kind = "none" /\ t = s
  \/ fetchers[f].kind = "withTimeout" /\ BundleTaken(s, t, f)
  \/ /\ fetchers[f].kind \in {"cacheOnly", "dev"}
     /\ \E b \in DeviceType :
          /\ Swapped(s, b, f, [s.fetchers[f] EXCEPT !.bundle = fetchers[f].manifest])
          /\ Finished(b, t, f)

LEMMA BundleArrivesEffect ==
  ASSUME IInv, NEW f \in Fetchers, BundleArrives(f)
  PROVE  /\ fetchers[f].pending.op = "bundle" /\ fetchers[f].pending.rev \in Revs
         /\ UNCHANGED <<server, recovering, cachedReads, spent>>
         /\ \E a, s, t \in DeviceType :
              /\ AnsweredTo(a, f) /\ Stored(a, s, fetchers[f].pending.rev)
              /\ BundleCame(s, t, f) /\ Freed(t, Device')
<1> DEFINE a == Answered(f)
           m == fetchers[f].pending.rev
           s == StoreBundle(a, m)
           x == [s.fetchers[f] EXCEPT !.bundle = fetchers[f].manifest]
<1>1. PICK free \in Free(Device) \ {f} : free \in Fetchers
  BY OtherFree DEF BundleArrives
<1>2. fetchers[f].pending.op = "bundle" /\ UNCHANGED <<server, recovering, cachedReads, spent>>
  BY DEF BundleArrives
<1>3. \/ fetchers[f].kind = "none" /\ Become(s)
      \/ fetchers[f].kind = "withTimeout" /\ Become(WithTimeoutBundle(s, f))
      \/ /\ fetchers[f].kind \in {"cacheOnly", "dev"}
         /\ Become(DidFinishLoading([s EXCEPT !.fetchers[f].bundle = fetchers[f].manifest], f))
  BY Zenon DEF BundleArrives
<1>4. m \in Revs /\ fetchers[f].manifest \in Rev0
  BY <1>2, TypedDevice DEF FetcherSafe, Fetcher
<1>5. /\ AnsweredTo(a, f) /\ a \in DeviceType /\ fetchers[f] \in Fetcher
      /\ a.fetchers[f] = [fetchers[f] EXCEPT !.pending = Idle, !.resource = "none"]
      /\ free \in Free(a)
  BY <1>1, AnsweredToEffect
<1>6. a.fetchers[f].kind = fetchers[f].kind
  BY <1>5 DEF Fetcher
<1> HIDE DEF a, m
<1>7. Stored(a, s, m)
  BY <1>4, <1>5, StoreBundleEffect
<1> HIDE DEF s
<1>8. /\ s \in DeviceType /\ s.fetchers = a.fetchers /\ free \in Free(s)
      /\ s.fetchers[f].kind = fetchers[f].kind
  BY <1>5, <1>6, <1>7 DEF Stored, Free
<1> SUFFICES \E t \in DeviceType : BundleCame(s, t, f) /\ Freed(t, Device')
  BY <1>2, <1>4, <1>5, <1>7, <1>8 DEF m
<1>9. CASE fetchers[f].kind = "none" /\ Become(s)
  <2>1. Freed(s, Device')
    BY <1>8, <1>9, BecomeEffect
  <2>2. BundleCame(s, s, f)
    BY <1>9 DEF BundleCame
  <2> QED BY <1>8, <2>1, <2>2
<1>10. CASE fetchers[f].kind = "withTimeout" /\ Become(WithTimeoutBundle(s, f))
  <2> DEFINE t == WithTimeoutBundle(s, f)
  <2>1. BundleTaken(s, t, f)
    BY <1>8, <1>10, WithTimeoutBundleEffect
  <2>2. Become(t)
    BY <1>10
  <2> HIDE DEF t
  <2>3. t \in DeviceType
    BY <2>1, BundleWantedType
  <2>4. Freed(t, Device')
    BY <2>2, <2>3, BecomeEffect
  <2>5. BundleCame(s, t, f)
    BY <1>10, <2>1 DEF BundleCame
  <2> QED BY <2>3, <2>4, <2>5
<1>11. CASE /\ fetchers[f].kind \in {"cacheOnly", "dev"}
            /\ Become(DidFinishLoading([s EXCEPT !.fetchers[f].bundle = fetchers[f].manifest], f))
  <2> DEFINE b == [s EXCEPT !.fetchers = [s.fetchers EXCEPT ![f] = x]]
             t == DidFinishLoading(b, f)
  <2>1. x \in Fetcher
    BY <1>4, <1>8 DEF DeviceType, Fetcher
  <2>2. b = [s EXCEPT !.fetchers[f].bundle = fetchers[f].manifest]
    BY <1>8 DEF DeviceType
  <2>3. Become(t)
    BY <1>11, <2>2
  <2>4. Swapped(s, b, f, x)
    BY <1>8, <2>1, SwapEffect
  <2> HIDE DEF b
  <2>5. b \in DeviceType
    BY <2>4 DEF Swapped
  <2>6. Finished(b, t, f)
    BY <2>5, FinishEffect
  <2> HIDE DEF t
  <2>7. t \in DeviceType
    BY <2>6 DEF Finished, Kept
  <2>8. Freed(t, Device')
    BY <2>3, <2>7, BecomeEffect
  <2>9. BundleCame(s, t, f)
    BY <1>11, <2>4, <2>5, <2>6 DEF BundleCame
  <2> QED BY <2>7, <2>8, <2>9
<1> QED BY <1>3, <1>9, <1>10, <1>11

\* The request of a bundle of fetcher f has failed in device state a.
BundleFailed(a, t, f) ==
  \/ fetchers[f].kind = "none" /\ t = a
  \/ fetchers[f].kind = "withTimeout" /\ NetEnds(a, t, f, TRUE)
  \/ fetchers[f].kind \in {"cacheOnly", "dev"} /\ Failed(a, t, f)

LEMMA BundleFailsEffect ==
  ASSUME IInv, NEW f \in Fetchers, BundleFails(f)
  PROVE  /\ fetchers[f].pending.op = "bundle"
         /\ UNCHANGED <<server, recovering, cachedReads, spent>>
         /\ \E a, t \in DeviceType :
              AnsweredTo(a, f) /\ BundleFailed(a, t, f) /\ Freed(t, Device')
<1> DEFINE a == Answered(f)
<1>1. PICK free \in Free(Device) \ {f} : free \in Fetchers
  BY OtherFree DEF BundleFails
<1>2. fetchers[f].pending.op = "bundle" /\ UNCHANGED <<server, recovering, cachedReads, spent>>
  BY DEF BundleFails
<1>3. \/ fetchers[f].kind = "none" /\ Become(a)
      \/ fetchers[f].kind = "withTimeout" /\ Become(WithTimeoutFinish(a, f, TRUE))
      \/ fetchers[f].kind \in {"cacheOnly", "dev"} /\ Become(DidFailWithError(a, f, TRUE))
  BY Zenon DEF BundleFails
<1>4. /\ AnsweredTo(a, f) /\ a \in DeviceType /\ fetchers[f] \in Fetcher
      /\ a.fetchers[f] = [fetchers[f] EXCEPT !.pending = Idle, !.resource = "none"]
      /\ free \in Free(a)
  BY <1>1, AnsweredToEffect
<1>5. a.fetchers[f].kind = fetchers[f].kind
  BY <1>4 DEF Fetcher
<1> HIDE DEF a
<1> SUFFICES \E t \in DeviceType : BundleFailed(a, t, f) /\ Freed(t, Device')
  BY <1>2, <1>4
<1>6. CASE fetchers[f].kind = "none" /\ Become(a)
  <2>1. Freed(a, Device')
    BY <1>4, <1>6, BecomeEffect
  <2>2. BundleFailed(a, a, f)
    BY <1>6 DEF BundleFailed
  <2> QED BY <1>4, <2>1, <2>2
<1>7. CASE fetchers[f].kind = "withTimeout" /\ Become(WithTimeoutFinish(a, f, TRUE))
  <2> DEFINE t == WithTimeoutFinish(a, f, TRUE)
  <2>1. NetEnds(a, t, f, TRUE) /\ t \in DeviceType
    BY <1>4, <1>5, <1>7, NetEndsEffect, Zenon
  <2>2. Become(t)
    BY <1>7
  <2> HIDE DEF t
  <2>3. Freed(t, Device')
    BY <2>1, <2>2, BecomeEffect
  <2>4. BundleFailed(a, t, f)
    BY <1>7, <2>1, Zenon DEF BundleFailed
  <2> QED BY <2>1, <2>3, <2>4
<1>8. CASE fetchers[f].kind \in {"cacheOnly", "dev"} /\ Become(DidFailWithError(a, f, TRUE))
  <2> DEFINE t == DidFailWithError(a, f, TRUE)
  <2>1. Failed(a, t, f)
    BY <1>4, FailEffect
  <2>2. Become(t)
    BY <1>8
  <2> HIDE DEF t
  <2>3. t \in DeviceType
    BY <2>1 DEF Failed, Kept
  <2>4. Freed(t, Device')
    BY <2>2, <2>3, BecomeEffect
  <2>5. BundleFailed(a, t, f)
    BY <1>8, <2>1 DEF BundleFailed
  <2> QED BY <2>3, <2>4, <2>5
<1> QED BY <1>3, <1>6, <1>7, <1>8

LEMMA ForceBundleReloadEffect ==
  ASSUME IInv, ForceBundleReload
  PROVE  LET f == loader.fetcher
         IN /\ f \in Fetchers /\ fetchers[f].kind = "dev" /\ fetchers[f].manifest \in DevRevs
            /\ fetchers[f].pending = Idle
            /\ UNCHANGED <<server, recovering, cachedReads, spent>>
            /\ \E t \in DeviceType :
                 /\ Swapped(Device, t, f,
                      [fetchers[f] EXCEPT !.bundle = None,
                         !.pending = [op |-> "bundle", rev |-> fetchers[f].manifest]])
                 /\ Freed(t, Device')
<1> DEFINE f == loader.fetcher
           asked == [op |-> "bundle", rev |-> fetchers[f].manifest]
           x == [fetchers[f] EXCEPT !.bundle = None, !.pending = asked]
           t == [Device EXCEPT !.fetchers = [Device.fetchers EXCEPT ![f] = x]]
<1>1. Device \in DeviceType /\ Device.fetchers = fetchers /\ Device.loader = loader
  BY TypedDevice, DeviceFields DEF DeviceFieldsAre
<1>2. f \in Fetchers /\ fetchers[f] \in Fetcher /\ fetchers[f].manifest \in Revs
  BY <1>1, PoliciesAssumption DEF ForceBundleReload, DeviceType, Loader
<1>3. /\ fetchers[f].kind = "dev" /\ fetchers[f].manifest \in DevRevs /\ fetchers[f].pending = Idle
      /\ Become([Device EXCEPT !.fetchers[f].bundle = None, !.fetchers[f].pending = asked])
      /\ UNCHANGED <<server, recovering, cachedReads, spent>>
  BY Zenon DEF ForceBundleReload
<1>4. asked \in Pending
  BY <1>2 DEF Pending, Ops, Revs, Rev0
<1>5. t = [Device EXCEPT !.fetchers[f].bundle = None, !.fetchers[f].pending = asked]
  BY <1>1, <1>2 DEF DeviceType
<1>6. Become(t)
  BY <1>3, <1>5
<1> HIDE DEF asked, f
<1>7. x \in Fetcher
  BY <1>2, <1>4 DEF Fetcher, None, Rev0
<1> HIDE DEF x
<1>8. Swapped(Device, t, f, x)
  BY <1>1, <1>2, <1>7, SwapEffect
<1> HIDE DEF t
<1>9. t \in DeviceType
  BY <1>8 DEF Swapped
<1>10. Freed(t, Device')
  BY <1>6, <1>9, BecomeEffect
<1> QED BY <1>2, <1>3, <1>8, <1>9, <1>10, Zenon DEF x, asked, f

-----------------------------------------------------------------------------
\* A new cacheOnly fetcher for the manifest m becomes the loader's.
CacheRequested(s, t, m) ==
  \E new \in Fetchers : s.fetchers[new] = NoObject /\ CacheOnlyStarted(s, t, new, m)
DevRequested(s, t) ==
  \E new \in Fetchers : s.fetchers[new] = NoObject /\ DevStarted(s, t, new, None)

LEMMA DevRequestedEffect ==
  ASSUME NEW s \in DeviceType, NEW free \in Free(s), server \in Revs, Become(StartDevelopmentMode(s, None))
  PROVE  \E t \in DeviceType : DevRequested(s, t) /\ Freed(t, Device')
<1> DEFINE t == StartDevelopmentMode(s, None)
<1>1. /\ Unused(s) \in Fetchers /\ s.fetchers[Unused(s)] = NoObject
      /\ DevStarted(s, t, Unused(s), None)
  BY StartDevelopmentModeEffect DEF None, Rev0
<1>2. Become(t)
  OBVIOUS
<1> HIDE DEF t
<1>3. t \in DeviceType
  BY <1>1 DEF DevStarted, Kept
<1>4. Freed(t, Device')
  BY <1>2, <1>3, BecomeEffect
<1> QED BY <1>1, <1>3, <1>4 DEF DevRequested

LEMMA CacheRequestedEffect ==
  ASSUME NEW s \in DeviceType, NEW free \in Free(s), NEW m \in Rev0, Become(StartCacheOnly(s, m))
  PROVE  \E t \in DeviceType : CacheRequested(s, t, m) /\ Freed(t, Device')
<1> DEFINE t == StartCacheOnly(s, m)
<1>1. /\ Unused(s) \in Fetchers /\ s.fetchers[Unused(s)] = NoObject
      /\ CacheOnlyStarted(s, t, Unused(s), m)
  BY StartCacheOnlyEffect
<1>2. Become(t)
  OBVIOUS
<1> HIDE DEF t
<1>3. t \in DeviceType
  BY <1>1, Zenon DEF CacheOnlyStarted, Kept
<1>4. Freed(t, Device')
  BY <1>2, <1>3, BecomeEffect
<1> QED BY <1>1, <1>3, <1>4 DEF CacheRequested

LEMMA NetRequestEffect ==
  ASSUME NEW s \in DeviceType, Room(s), NEW zero \in BOOLEAN, server \in Revs,
         Become(StartWithTimeout(s, zero))
  PROVE  \E t \in DeviceType, new \in Fetchers : NetRequested(s, t, new, zero) /\ Freed(t, Device')
<1> DEFINE t == StartWithTimeout(s, zero)
<1>1. NetRequested(s, t, Unused(s), zero)
  BY StartWithTimeoutEffect
<1>2. Become(t)
  OBVIOUS
<1> HIDE DEF t
<1>3. t \in DeviceType /\ Unused(s) \in Fetchers
  BY <1>1, NetRequestedType
<1>4. Freed(t, Device')
  BY <1>2, <1>3, BecomeEffect
<1> QED BY <1>1, <1>3, <1>4

LEMMA RequestEffect ==
  ASSUME IInv, NEW cacheOnly \in BOOLEAN, Request(cacheOnly)
  PROVE  LET m == LocalManifest(disk)
         IN /\ spent.requests \in Nat /\ spent'.requests = spent.requests + 1
            /\ spent'.updates = spent.updates /\ UNCHANGED <<server, recovering>>
            /\ \E s \in DeviceType :
                 /\ WasReset(Device, s, cacheOnly)
                 /\ \/ /\ m # None /\ Freed(s, Device')
                       /\ cachedReads' = cachedReads \cup {[request |-> spent.requests, rev |-> m]}
                    \/ /\ UNCHANGED cachedReads
                       /\ \E t \in DeviceType : DevRequested(s, t) /\ Freed(t, Device')
                    \/ /\ m = None /\ UNCHANGED cachedReads
                       /\ \E t \in DeviceType, new \in Fetchers :
                            NetRequested(s, t, new, FALSE) /\ Freed(t, Device')
<1> DEFINE s == Reset(Device, cacheOnly)
           m == LocalManifest(disk)
<1>1. /\ Device \in DeviceType /\ server \in Revs
      /\ spent \in [launches : Nat, requests : Nat, updates : Nat]
  BY TypedDevice
<1>2. WasReset(Device, s, cacheOnly) /\ s \in DeviceType
  BY <1>1, ResetEffect DEF WasReset
<1>3. /\ Room(Device) /\ UNCHANGED <<server, recovering>>
      /\ spent' = [spent EXCEPT !.requests = @ + 1]
      /\ \/ Become(StartDevelopmentMode(s, None)) /\ UNCHANGED cachedReads
         \/ m = None /\ Become(StartWithTimeout(s, FALSE)) /\ UNCHANGED cachedReads
         \/ /\ m # None /\ Become(s)
            /\ cachedReads' = cachedReads \cup {[request |-> spent.requests, rev |-> m]}
  BY Zenon DEF Request
<1> HIDE DEF s, m
<1>4. Room(s)
  BY <1>2, <1>3 DEF WasReset, Room
<1>5. PICK free \in Free(s) : TRUE
  BY <1>4 DEF Room
<1>6. /\ spent.requests \in Nat /\ spent'.requests = spent.requests + 1
      /\ spent'.updates = spent.updates /\ UNCHANGED <<server, recovering>>
  BY <1>1, <1>3
<1>7. CASE Become(StartDevelopmentMode(s, None)) /\ UNCHANGED cachedReads
  <2>1. \E t \in DeviceType : DevRequested(s, t) /\ Freed(t, Device')
    BY <1>1, <1>2, <1>5, <1>7, DevRequestedEffect
  <2> QED BY <1>2, <1>6, <1>7, <2>1 DEF m
<1>8. CASE m = None /\ Become(StartWithTimeout(s, FALSE)) /\ UNCHANGED cachedReads
  <2>1. \E t \in DeviceType, new \in Fetchers :
          NetRequested(s, t, new, FALSE) /\ Freed(t, Device')
    BY <1>1, <1>2, <1>4, <1>8, NetRequestEffect
  <2> QED BY <1>2, <1>6, <1>8, <2>1 DEF m
<1>9. CASE /\ m # None /\ Become(s)
           /\ cachedReads' = cachedReads \cup {[request |-> spent.requests, rev |-> m]}
  <2>1. Freed(s, Device')
    BY <1>2, <1>9, BecomeEffect
  <2> QED BY <1>2, <1>6, <1>9, <2>1 DEF m
<1> QED BY <1>3, <1>7, <1>8, <1>9

\* The read c of the cached manifest ends and is verified.
LEMMA CachedManifestVerifiedEffect ==
  ASSUME IInv, NEW c \in cachedReads, CachedManifestVerified(c)
  PROVE  /\ c.rev \in Revs \ RefusedRevs /\ cachedReads' = cachedReads \ {c}
         /\ UNCHANGED <<server, recovering, spent>>
         /\ \E s, t \in DeviceType :
              /\ CacheRead(Device, s, c.rev) /\ Freed(t, Device')
              /\ \/ c.rev \in DevRevs /\ DevRequested(s, t)
                 \/ /\ c.rev \notin DevRevs /\ ~loader.cacheOnly /\ ~UpdatesDisabled
                    /\ \E new \in Fetchers : NetRequested(s, t, new, c.rev \in ZeroTimeoutRevs)
                 \/ c.rev \notin DevRevs /\ CacheRequested(s, t, c.rev)
<1> DEFINE s == [Device EXCEPT !.loader.cached = c.rev]
           m == c.rev
<1>1. /\ Device \in DeviceType /\ server \in Revs /\ m \in Revs /\ m \in Rev0
      /\ Device.loader = loader /\ Device.fetchers = fetchers
  BY TypedDevice, DeviceFields DEF DeviceFieldsAre, Revs, Rev0
<1>2. /\ m \notin RefusedRevs /\ Room(Device) /\ cachedReads' = cachedReads \ {c}
      /\ UNCHANGED <<server, recovering, spent>>
      /\ Become(FetchBundleWithManifest(s, m))
  BY DEF CachedManifestVerified
<1>3. CacheRead(Device, s, m)
  BY <1>1, CacheReadEffect
<1> HIDE DEF s, m
<1>4. /\ s \in DeviceType /\ Room(s) /\ s.loader.cacheOnly = loader.cacheOnly
  BY <1>1, <1>2, <1>3 DEF CacheRead, Room, Free
<1>5. PICK free \in Free(s) : TRUE
  BY <1>4 DEF Room
<1>6. \/ m \in DevRevs /\ Become(StartDevelopmentMode(s, None))
      \/ /\ m \notin DevRevs /\ ~s.loader.cacheOnly /\ ~UpdatesDisabled
         /\ Become(StartWithTimeout(s, m \in ZeroTimeoutRevs))
      \/ m \notin DevRevs /\ Become(StartCacheOnly(s, m))
  <2> DEFINE check == m \notin RecoveryOnlyRevs \/ ~IsDetached \/ recovering
  <2>1. FetchBundleWithManifest(s, m) =
          CASE m \in DevRevs -> StartDevelopmentMode(s, None)
            [] m \notin DevRevs /\ check /\ ~s.loader.cacheOnly /\ ~UpdatesDisabled ->
                 StartWithTimeout(s, m \in ZeroTimeoutRevs)
            [] OTHER -> StartCacheOnly(s, m)
    BY Zenon DEF FetchBundleWithManifest
  <2> HIDE DEF check
  <2> QED BY <1>2, <2>1
<1> SUFFICES \E t \in DeviceType :
       /\ Freed(t, Device')
       /\ \/ m \in DevRevs /\ DevRequested(s, t)
          \/ /\ m \notin DevRevs /\ ~loader.cacheOnly /\ ~UpdatesDisabled
             /\ \E new \in Fetchers : NetRequested(s, t, new, m \in ZeroTimeoutRevs)
          \/ m \notin DevRevs /\ CacheRequested(s, t, m)
  BY <1>1, <1>2, <1>3, <1>4 DEF m
<1>7. CASE m \in DevRevs /\ Become(StartDevelopmentMode(s, None))
  <2>1. \E t \in DeviceType : DevRequested(s, t) /\ Freed(t, Device')
    BY <1>1, <1>4, <1>5, <1>7, DevRequestedEffect
  <2> QED BY <1>7, <2>1
<1>8. CASE /\ m \notin DevRevs /\ ~s.loader.cacheOnly /\ ~UpdatesDisabled
           /\ Become(StartWithTimeout(s, m \in ZeroTimeoutRevs))
  <2> DEFINE zero == m \in ZeroTimeoutRevs
  <2>1. zero \in BOOLEAN /\ Become(StartWithTimeout(s, zero))
    BY <1>8
  <2> HIDE DEF zero
  <2>2. PICK t \in DeviceType, new \in Fetchers : NetRequested(s, t, new, zero) /\ Freed(t, Device')
    BY <1>1, <1>4, <2>1, NetRequestEffect
  <2> QED BY <1>4, <1>8, <2>2, Zenon DEF zero
<1>9. CASE m \notin DevRevs /\ Become(StartCacheOnly(s, m))
  <2>1. \E t \in DeviceType : CacheRequested(s, t, m) /\ Freed(t, Device')
    BY <1>1, <1>4, <1>5, <1>9, CacheRequestedEffect
  <2> QED BY <1>9, <2>1
<1> QED BY <1>6, <1>7, <1>8, <1>9

LEMMA CachedManifestRejectedEffect ==
  ASSUME IInv, NEW c \in cachedReads, CachedManifestRejected(c)
  PROVE  /\ c.rev \in RefusedRevs /\ cachedReads' = cachedReads \ {c}
         /\ UNCHANGED <<server, recovering, spent>>
         /\ \E t \in DeviceType, new \in Fetchers :
              NetRequested(Device, t, new, FALSE) /\ Freed(t, Device')
<1>1. /\ c.rev \in RefusedRevs /\ cachedReads' = cachedReads \ {c} /\ Room(Device)
      /\ UNCHANGED <<server, recovering, spent>> /\ Become(StartWithTimeout(Device, FALSE))
  BY DEF CachedManifestRejected
<1>2. Device \in DeviceType /\ server \in Revs
  BY TypedDevice
<1>3. \E t \in DeviceType, new \in Fetchers :
        NetRequested(Device, t, new, FALSE) /\ Freed(t, Device')
  BY <1>1, <1>2, NetRequestEffect
<1> QED BY <1>1, <1>3

-----------------------------------------------------------------------------
\* Only the state of the updates manager changes.
UpdatesOnly(s, t) ==
  /\ t \in DeviceType
  /\ t.disk = s.disk /\ t.loader = s.loader /\ t.fetchers = s.fetchers /\ t.delegate = s.delegate

LEMMA UpdatesOnlyEffect ==
  ASSUME NEW s \in DeviceType, NEW u \in Updates
  PROVE  UpdatesOnly(s, [s EXCEPT !.updates = u])
BY DEF DeviceType, UpdatesOnly

LEMMA FetchUpdateEffect ==
  ASSUME IInv, FetchUpdate
  PROVE  /\ delegate.running # None /\ spent.updates \in Nat
         /\ spent'.requests = spent.requests /\ spent'.updates = spent.updates + 1
         /\ UNCHANGED <<server, recovering, cachedReads>>
         /\ \E p, t \in DeviceType :
              Prepared(Device, p) /\ UpdatesOnly(p, t) /\ Freed(t, Device')
<1> DEFINE p == PrepareToCache(Device)
           u == [p.updates EXCEPT !.pending = ManifestRequest, !.resource = "slot", !.hasLoader = TRUE]
           t == [p EXCEPT !.updates = u]
<1>1. /\ Device \in DeviceType /\ server \in Revs
      /\ spent \in [launches : Nat, requests : Nat, updates : Nat]
  BY TypedDevice
<1>2. /\ delegate.running # None /\ spent' = [spent EXCEPT !.updates = @ + 1]
      /\ UNCHANGED <<server, recovering, cachedReads>>
      /\ Become([RequestUpdateManifest(Device) EXCEPT !.updates.hasLoader = TRUE])
  BY Zenon DEF FetchUpdate
<1>3. Prepared(Device, p) /\ p \in DeviceType
  BY <1>1, PrepareToCacheEffect DEF Prepared
<1>4. [RequestUpdateManifest(Device) EXCEPT !.updates.hasLoader = TRUE] = t
  BY <1>3 DEF RequestUpdateManifest, DeviceType
<1> HIDE DEF p
<1>5. ManifestRequest \in Pending
  BY <1>1 DEF ManifestRequest, Pending, Ops, Revs, Rev0
<1>6. u \in Updates
  BY <1>3, <1>5 DEF DeviceType, Updates, ResourceRoles
<1>7. Become(t)
  BY <1>2, <1>4
<1> HIDE DEF u
<1>8. UpdatesOnly(p, t) /\ t \in DeviceType
  BY <1>3, <1>6, UpdatesOnlyEffect DEF UpdatesOnly
<1> HIDE DEF t
<1>9. Freed(t, Device')
  BY <1>7, <1>8, BecomeEffect
<1> QED BY <1>1, <1>2, <1>3, <1>8, <1>9

LEMMA UpdateAnsweredEffect ==
  ASSUME IInv
  PROVE  /\ UpdatesOnly(Device, UpdateAnswered) /\ UpdateAnswered \in DeviceType
         /\ updates \in Updates
         /\ updates.pending.op # "idle" => updates.pending.rev \in Revs
<1> DEFINE u == [updates EXCEPT !.pending = Idle, !.resource = "none"]
<1>1. /\ Device \in DeviceType /\ Device.updates = updates /\ updates \in Updates
      /\ updates.pending.op # "idle" => updates.pending.rev \in Revs
  BY UpdateAnsweredSafe, TypedDevice, DeviceFields DEF DeviceFieldsAre
<1>2. u \in Updates
  BY <1>1 DEF Updates, Idle, Pending, Ops, None, Rev0, ResourceRoles
<1>3. UpdateAnswered = [Device EXCEPT !.updates = u]
  BY <1>1 DEF UpdateAnswered, DeviceType
<1> HIDE DEF u
<1>4. UpdatesOnly(Device, UpdateAnswered)
  BY <1>1, <1>2, <1>3, UpdatesOnlyEffect
<1> QED BY <1>1, <1>4 DEF UpdatesOnly

LEMMA UpdateManifestEffect ==
  ASSUME IInv, UpdateManifestArrives \/ UpdateManifestFails
  PROVE  /\ updates.pending.op = "manifest"
         /\ UNCHANGED <<server, recovering, cachedReads, spent>>
         /\ \E a, d, t \in DeviceType :
              /\ UpdatesOnly(Device, a)
              /\ \/ d = a
                 \/ \E m \in Answers(updates.pending) : DataArrived(a, d, updates.resource, m)
              /\ UpdatesOnly(d, t) /\ Freed(t, Device')
<1> DEFINE a == UpdateAnswered
<1>1. /\ updates.pending.op = "manifest"
      /\ UNCHANGED <<server, recovering, cachedReads, spent>>
  BY DEF UpdateManifestArrives, UpdateManifestFails
<1>2. /\ UpdatesOnly(Device, a) /\ a \in DeviceType /\ server \in Revs
      /\ updates.resource \in ResourceRoles /\ updates.pending \in Pending
      /\ updates.pending.rev \in Revs
  BY <1>1, TypedDevice, UpdateAnsweredEffect DEF Updates
<1>3. ASSUME NEW m \in Answers(updates.pending)
      PROVE  /\ m \in Revs /\ WithUpdateData(m) \in DeviceType
             /\ DataArrived(a, WithUpdateData(m), updates.resource, m)
  <2>1. m \in Revs /\ m \in Rev0
    BY <1>2, AnswersRevs DEF Revs, Rev0
  <2>2. DataArrived(a, WithUpdateData(m), updates.resource, m)
    BY <1>2, <2>1, ManifestDataEffect DEF WithUpdateData
  <2> QED BY <2>1, <2>2 DEF DataArrived
<1> HIDE DEF a
<1>4. ASSUME NEW d \in DeviceType, Become(d),
             d = a \/ \E m \in Answers(updates.pending) : DataArrived(a, d, updates.resource, m)
      PROVE  \E e, t \in DeviceType :
               /\ e = a \/ \E m \in Answers(updates.pending) : DataArrived(a, e, updates.resource, m)
               /\ UpdatesOnly(e, t) /\ Freed(t, Device')
  <2>1. Freed(d, Device') /\ UpdatesOnly(d, d)
    BY <1>4, BecomeEffect DEF UpdatesOnly
  <2> QED BY <1>4, <2>1
<1>5. ASSUME NEW m \in Answers(updates.pending), NEW op \in {"bundle", "lost"},
             Become([WithUpdateData(m) EXCEPT !.updates.pending = [op |-> op, rev |-> m]])
      PROVE  \E e, t \in DeviceType :
               /\ e = a \/ \E n \in Answers(updates.pending) : DataArrived(a, e, updates.resource, n)
               /\ UpdatesOnly(e, t) /\ Freed(t, Device')
  <2> DEFINE w == WithUpdateData(m)
             asked == [op |-> op, rev |-> m]
             u == [w.updates EXCEPT !.pending = asked]
             t == [w EXCEPT !.updates = u]
  <2>1. w \in DeviceType /\ m \in Revs /\ DataArrived(a, w, updates.resource, m)
    BY <1>3
  <2>2. asked \in Pending
    BY <1>5, <2>1 DEF Pending, Ops, Revs, Rev0
  <2>3. Become([w EXCEPT !.updates.pending = asked])
    BY <1>5
  <2> HIDE DEF w, asked
  <2>4. [w EXCEPT !.updates.pending = asked] = t
    BY <2>1 DEF DeviceType
  <2>5. u \in Updates
    BY <2>1, <2>2 DEF DeviceType, Updates
  <2>6. Become(t)
    BY <2>3, <2>4
  <2> HIDE DEF u
  <2>7. UpdatesOnly(w, t) /\ t \in DeviceType
    BY <2>1, <2>5, UpdatesOnlyEffect DEF UpdatesOnly
  <2> HIDE DEF t
  <2>8. Freed(t, Device')
    BY <2>6, <2>7, BecomeEffect
  <2> QED BY <2>1, <2>7, <2>8
<1> SUFFICES \E e, t \in DeviceType :
       /\ e = a \/ \E m \in Answers(updates.pending) : DataArrived(a, e, updates.resource, m)
       /\ UpdatesOnly(e, t) /\ Freed(t, Device')
  BY <1>1, <1>2
<1>6. CASE UpdateManifestArrives
  <2>1. PICK m \in Answers(updates.pending) :
          \/ Become(WithUpdateData(m))
          \/ Become([WithUpdateData(m) EXCEPT !.updates.pending = [op |-> "bundle", rev |-> m]])
          \/ Become([WithUpdateData(m) EXCEPT !.updates.pending = [op |-> "lost", rev |-> m]])
    BY <1>6, Zenon DEF UpdateManifestArrives
  <2>2. CASE Become(WithUpdateData(m))
    BY <1>3, <1>4, <2>2
  <2>3. CASE Become([WithUpdateData(m) EXCEPT !.updates.pending = [op |-> "bundle", rev |-> m]])
    BY <1>5, <2>3
  <2>4. CASE Become([WithUpdateData(m) EXCEPT !.updates.pending = [op |-> "lost", rev |-> m]])
    BY <1>5, <2>4
  <2> QED BY <2>1, <2>2, <2>3, <2>4
<1>7. CASE UpdateManifestFails
  <2>1. PICK d \in {a} \cup {WithUpdateData(m) : m \in Answers(updates.pending) \cap RefusedRevs} :
          Become(d)
    BY <1>7 DEF UpdateManifestFails, a
  <2>2. /\ d \in DeviceType
        /\ d = a \/ \E m \in Answers(updates.pending) : DataArrived(a, d, updates.resource, m)
    BY <1>2, <1>3
  <2> QED BY <1>4, <2>1, <2>2
<1> QED BY <1>6, <1>7

LEMMA UpdateBundleEffect ==
  ASSUME IInv, UpdateBundleArrives \/ UpdateBundleFails
  PROVE  /\ updates.pending.op = "bundle"
         /\ UNCHANGED <<server, recovering, cachedReads, spent>>
         /\ \E a, s, w, t \in DeviceType :
              /\ UpdatesOnly(Device, a)
              /\ s = a \/ Stored(a, s, updates.pending.rev)
              /\ w = s \/ Written(s, w)
              /\ UpdatesOnly(w, t) /\ Freed(t, Device')
<1> DEFINE a == UpdateAnswered
<1>1. /\ updates.pending.op = "bundle"
      /\ UNCHANGED <<server, recovering, cachedReads, spent>>
  BY DEF UpdateBundleArrives, UpdateBundleFails
<1>2. /\ UpdatesOnly(Device, a) /\ a \in DeviceType /\ updates.pending.rev \in Revs
  BY <1>1, UpdateAnsweredEffect
<1>3. ASSUME NEW w \in DeviceType, Become([w EXCEPT !.updates.hasLoader = FALSE])
      PROVE  \E t \in DeviceType : UpdatesOnly(w, t) /\ Freed(t, Device')
  <2> DEFINE u == [w.updates EXCEPT !.hasLoader = FALSE]
             t == [w EXCEPT !.updates = u]
  <2>1. [w EXCEPT !.updates.hasLoader = FALSE] = t
    BY DEF DeviceType
  <2>2. u \in Updates
    BY DEF DeviceType, Updates
  <2>3. Become(t)
    BY <1>3, <2>1
  <2> HIDE DEF u
  <2>4. UpdatesOnly(w, t) /\ t \in DeviceType
    BY <2>2, UpdatesOnlyEffect DEF UpdatesOnly
  <2> HIDE DEF t
  <2>5. Freed(t, Device')
    BY <2>3, <2>4, BecomeEffect
  <2> QED BY <2>4, <2>5
<1>4. CASE UpdateBundleArrives
  <2> DEFINE s == StoreBundle(a, updates.pending.rev)
             w == IF updates.hasLoader THEN WriteManifestToCache(s) ELSE s
  <2>1. Become([w EXCEPT !.updates.hasLoader = FALSE])
    BY <1>4, Zenon DEF UpdateBundleArrives
  <2> HIDE DEF a
  <2>2. Stored(a, s, updates.pending.rev)
    BY <1>2, StoreBundleEffect
  <2> HIDE DEF s
  <2>3. s \in DeviceType
    BY <2>2 DEF Stored
  <2>4. w = s \/ Written(s, w)
    BY <2>3, WriteManifestToCacheEffect
  <2> HIDE DEF w
  <2>5. w \in DeviceType
    BY <2>3, <2>4 DEF Written
  <2> QED BY <1>1, <1>2, <1>3, <2>1, <2>2, <2>3, <2>4, <2>5
<1>5. CASE UpdateBundleFails
  <2>1. Become([a EXCEPT !.updates.hasLoader = FALSE])
    BY <1>5, Zenon DEF UpdateBundleFails
  <2> HIDE DEF a
  <2> QED BY <1>1, <1>2, <1>3, <2>1
<1> QED BY <1>4, <1>5

\* The process is killed: the manifest on disk stays, and so do the bundles.
LEMMA RelaunchEffect ==
  ASSUME IInv, Relaunch
  PROVE  /\ disk'.manifest = disk.manifest /\ disk.bundles \subseteq disk'.bundles
         /\ spent'.requests = 0 /\ cachedReads' = {} /\ server' = server
         /\ loader' = NewLoader /\ fetchers' = [f \in Fetchers |-> NoObject]
         /\ updates' = NoUpdate /\ delegate' = NothingTold
<1>1. Device \in DeviceType /\ Device.disk = disk
  BY TypedDevice, DeviceFields DEF DeviceFieldsAre
<1>2. /\ disk' = disk \/ \E r : disk' = StoreBundle(Device, r).disk
      /\ spent'.requests = 0 /\ cachedReads' = {} /\ server' = server
      /\ loader' = NewLoader /\ fetchers' = [f \in Fetchers |-> NoObject]
      /\ updates' = NoUpdate /\ delegate' = NothingTold
  BY DEF Relaunch
<1>3. ASSUME NEW r, disk' = StoreBundle(Device, r).disk
      PROVE  disk'.manifest = disk.manifest /\ disk.bundles \subseteq disk'.bundles
  BY <1>1, <1>3 DEF StoreBundle, DeviceType, Disk
<1> QED BY <1>2, <1>3
=============================================================================
