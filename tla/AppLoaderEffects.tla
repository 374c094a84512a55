-------------------------- MODULE AppLoaderEffects --------------------------
(***************************************************************************)
(* What each operator of AppLoader does to a device state: one predicate   *)
(* on the states before and after, and one lemma that the operator obeys   *)
(* it.  The invariants of the other proof modules are shown to be kept     *)
(* from these predicates, without unfolding the operators again.           *)
(***************************************************************************)
EXTENDS AppLoaderProofs

\* The caches, the requests of the app and most of the loader are left alone.
Kept(s, t) ==
  /\ t \in DeviceType
  /\ t.disk = s.disk /\ t.updates = s.updates
  /\ t.loader.cached = s.loader.cached /\ t.loader.cacheOnly = s.loader.cacheOnly
  /\ t.loader.slot = s.loader.slot /\ t.loader.slotData = s.loader.slotData

OthersKept(s, t, f) == \A g \in Fetchers \ {f} : t.fetchers[g] = s.fetchers[g]

\* Two fetchers that differ in their error only.
Alike(x, y) ==
  /\ y.kind = x.kind /\ y.manifest = x.manifest /\ y.bundle = x.bundle
  /\ y.hasFinished = x.hasFinished /\ y.timer = x.timer
  /\ y.pending = x.pending /\ y.resource = x.resource

\* The app that runs is the first one the delegate is given, unless the request failed with an
\* error.
RunningAfter(s, m) ==
  IF s.delegate.running = None /\ ~s.loader.error THEN m ELSE s.delegate.running

PreviousWithout(s, f) == IF s.loader.previous = f THEN NoFetcher ELSE s.loader.previous

\* didFinishLoading
Finished(s, t, f) ==
  /\ Kept(s, t)
  /\ t.fetchers = s.fetchers
  /\ t.loader.confirmed = s.fetchers[f].manifest
  /\ t.loader.fetcher = s.loader.fetcher /\ t.loader.previous = s.loader.previous
  /\ t.delegate.announced = s.delegate.announced /\ t.delegate.failed = s.delegate.failed
  /\ t.delegate.running = RunningAfter(s, s.fetchers[f].manifest)

\* didFailWithError
Failed(s, t, f) ==
  /\ Kept(s, t)
  /\ OthersKept(s, t, f) /\ Alike(s.fetchers[f], t.fetchers[f])
  /\ t.loader.confirmed = s.loader.confirmed
  /\ t.loader.fetcher = s.loader.fetcher /\ t.loader.previous = PreviousWithout(s, f)
  /\ t.delegate.announced = s.delegate.announced /\ t.delegate.failed
  /\ t.delegate.running = s.delegate.running

AnnouncedAfter(s, f, err) ==
  IF err \/ IsCacheUpToDate(s, f) THEN s.delegate.announced
  ELSE s.delegate.announced \cup {s.fetchers[f].manifest}

\* didResolveUpdatedBundle
Resolved(s, t, f, err) ==
  /\ Kept(s, t)
  /\ t.fetchers = s.fetchers
  /\ t.loader.confirmed = s.loader.confirmed
  /\ t.loader.fetcher = s.loader.fetcher /\ t.loader.previous = PreviousWithout(s, f)
  /\ t.delegate.announced = AnnouncedAfter(s, f, err)
  /\ t.delegate.failed = s.delegate.failed /\ t.delegate.running = s.delegate.running

LEMMA FinishEffect ==
  ASSUME NEW s \in DeviceType, NEW f \in Fetchers
  PROVE  Finished(s, DidFinishLoading(s, f), f)
BY DEF DidFinishLoading, DeviceType, Loader, Delegate, Fetcher, Kept, Finished, RunningAfter

LEMMA FailEffect ==
  ASSUME NEW s \in DeviceType, NEW f \in Fetchers, NEW err \in BOOLEAN
  PROVE  Failed(s, DidFailWithError(s, f, err), f)
<1> DEFINE F == [s.fetchers EXCEPT ![f].error = err]
           L == [s.loader EXCEPT !.error = err, !.previous = IF @ = f THEN NoFetcher ELSE @]
           D == [s.delegate EXCEPT !.failed = TRUE]
           t == DidFailWithError(s, f, err)
<1> SUFFICES Failed(s, t, f)
  OBVIOUS
<1>1. F \in [Fetchers -> Fetcher]
  BY DEF DeviceType, Fetcher
<1>2. /\ L \in Loader
      /\ L.cached = s.loader.cached /\ L.cacheOnly = s.loader.cacheOnly
      /\ L.slot = s.loader.slot /\ L.slotData = s.loader.slotData
      /\ L.confirmed = s.loader.confirmed /\ L.fetcher = s.loader.fetcher
      /\ L.previous = PreviousWithout(s, f)
  BY DEF DeviceType, Loader, PreviousWithout
<1>3. /\ D \in Delegate /\ D.announced = s.delegate.announced
      /\ D.failed /\ D.running = s.delegate.running
  BY DEF DeviceType, Delegate
<1>4. t = [s EXCEPT !.fetchers = F, !.loader = L, !.delegate = D]
  BY DEF DidFailWithError, DeviceType
<1>5. Alike(s.fetchers[f], F[f]) /\ \A g \in Fetchers \ {f} : F[g] = s.fetchers[g]
  BY DEF DeviceType, Fetcher, Alike
<1> HIDE DEF F, L, D, t
<1>6. /\ t \in DeviceType /\ t.disk = s.disk /\ t.updates = s.updates
      /\ t.fetchers = F /\ t.loader = L /\ t.delegate = D
  BY <1>1, <1>2, <1>3, <1>4 DEF DeviceType
<1> QED BY <1>2, <1>3, <1>5, <1>6 DEF Kept, Failed, OthersKept

LEMMA ResolveEffect ==
  ASSUME NEW s \in DeviceType, NEW f \in Fetchers, NEW err \in BOOLEAN
  PROVE  Resolved(s, DidResolveUpdatedBundle(s, f, err), f, err)
<1> DEFINE A == AnnouncedAfter(s, f, err)
           L == [s.loader EXCEPT !.previous = IF @ = f THEN NoFetcher ELSE @]
           D == [s.delegate EXCEPT !.resolved = TRUE, !.announced = A]
           t == DidResolveUpdatedBundle(s, f, err)
<1> SUFFICES Resolved(s, t, f, err)
  OBVIOUS
<1>1. A \in SUBSET Rev0
  BY DEF DeviceType, Fetcher, Delegate, AnnouncedAfter
<1>2. /\ L \in Loader
      /\ L.cached = s.loader.cached /\ L.cacheOnly = s.loader.cacheOnly
      /\ L.slot = s.loader.slot /\ L.slotData = s.loader.slotData
      /\ L.confirmed = s.loader.confirmed /\ L.fetcher = s.loader.fetcher
      /\ L.previous = PreviousWithout(s, f)
  BY DEF DeviceType, Loader, PreviousWithout
<1>3. t = [s EXCEPT !.loader = L, !.delegate = D]
  BY DEF DidResolveUpdatedBundle, DeviceType, Delegate, AnnouncedAfter
<1> HIDE DEF A, L, t
<1>4. /\ D \in Delegate /\ D.announced = A
      /\ D.failed = s.delegate.failed /\ D.running = s.delegate.running
  BY <1>1 DEF DeviceType, Delegate
<1> HIDE DEF D
<1>5. /\ t \in DeviceType /\ t.disk = s.disk /\ t.updates = s.updates
      /\ t.fetchers = s.fetchers /\ t.loader = L /\ t.delegate = D
  BY <1>2, <1>3, <1>4 DEF DeviceType
<1> QED BY <1>2, <1>4, <1>5 DEF Kept, Resolved, A

-----------------------------------------------------------------------------
\* The fetcher f has a manifest and takes its bundle from the cache: it asks for the bundle
\* (developer tools), has it and finishes, or fails.
TookFromCache(s, t, f) ==
  LET m == s.fetchers[f].manifest
      x == s.fetchers[f]
      y == t.fetchers[f]
  IN /\ Kept(s, t)
     /\ t.loader.fetcher = s.loader.fetcher
     /\ \A g \in Fetchers \ {f} : s.loader.previous = g => t.loader.previous = g
     /\ t.delegate.announced = s.delegate.announced
     /\ OthersKept(s, t, f)
     /\ y.kind = x.kind /\ y.manifest = m /\ y.resource = x.resource
     /\ y.hasFinished = x.hasFinished /\ y.timer = x.timer
     /\ \/ /\ m \in DevRevs
           /\ y.pending = [op |-> "bundle", rev |-> m] /\ y.bundle = x.bundle
           /\ t.loader.confirmed = s.loader.confirmed /\ t.delegate = s.delegate
        \/ /\ m \notin DevRevs /\ HasBundle(s.disk, m)
           /\ y.pending = x.pending /\ y.bundle = m
           /\ t.loader.confirmed = m /\ t.delegate.failed = s.delegate.failed
           /\ t.delegate.running = RunningAfter(s, m)
        \/ /\ m \notin DevRevs /\ ~HasBundle(s.disk, m)
           /\ y.pending = x.pending /\ y.bundle = x.bundle
           /\ t.loader.confirmed = s.loader.confirmed /\ t.delegate.failed
           /\ t.delegate.running = s.delegate.running

LEMMA CacheOnlyFetchBundleEffect ==
  ASSUME NEW s \in DeviceType, NEW f \in Fetchers, s.fetchers[f].manifest \in Revs
  PROVE  TookFromCache(s, CacheOnlyFetchBundle(s, f), f)
<1> DEFINE m == s.fetchers[f].manifest
           x == [s.fetchers[f] EXCEPT !.pending = [op |-> "bundle", rev |-> m]]
           y == [s.fetchers[f] EXCEPT !.bundle = m]
           u == [s EXCEPT !.fetchers[f] = y]
           t == CacheOnlyFetchBundle(s, f)
<1> SUFFICES TookFromCache(s, t, f)
  OBVIOUS
<1>1. s.fetchers[f] \in Fetcher /\ m \in Rev0
  BY DEF DeviceType, Revs, Rev0
<1>2. CASE m \in DevRevs
  <2>1. /\ x \in Fetcher /\ x.pending = [op |-> "bundle", rev |-> m]
        /\ x.kind = s.fetchers[f].kind /\ x.manifest = m /\ x.bundle = s.fetchers[f].bundle
        /\ x.resource = s.fetchers[f].resource /\ x.hasFinished = s.fetchers[f].hasFinished
        /\ x.timer = s.fetchers[f].timer
    BY <1>1 DEF Fetcher, Pending, Ops
  <2>2. t = [s EXCEPT !.fetchers = [s.fetchers EXCEPT ![f] = x]]
    BY <1>2 DEF CacheOnlyFetchBundle, DeviceType
  <2> HIDE DEF x, t
  <2>3. /\ Kept(s, t) /\ t.loader = s.loader /\ t.delegate = s.delegate
        /\ t.fetchers = [s.fetchers EXCEPT ![f] = x]
    BY <2>1, <2>2 DEF Kept, DeviceType
  <2>4. t.fetchers[f] = x /\ \A g \in Fetchers \ {f} : t.fetchers[g] = s.fetchers[g]
    BY <2>3 DEF DeviceType
  <2> QED BY <1>2, <2>1, <2>3, <2>4 DEF TookFromCache, OthersKept
<1>3. CASE m \notin DevRevs /\ HasBundle(s.disk, m)
  <2>1. /\ y \in Fetcher /\ y.bundle = m /\ y.pending = s.fetchers[f].pending
        /\ y.kind = s.fetchers[f].kind /\ y.manifest = m
        /\ y.resource = s.fetchers[f].resource /\ y.hasFinished = s.fetchers[f].hasFinished
        /\ y.timer = s.fetchers[f].timer
    BY <1>1 DEF Fetcher
  <2>2. t = DidFinishLoading(u, f)
    <3>1. u = [s EXCEPT !.fetchers[f].bundle = m]
      BY DEF DeviceType
    <3> QED BY <1>3, <3>1, Zenon DEF CacheOnlyFetchBundle
  <2> HIDE DEF y, t
  <2>3. /\ Kept(s, u) /\ u \in DeviceType /\ u.loader = s.loader /\ u.delegate = s.delegate
        /\ u.fetchers = [s.fetchers EXCEPT ![f] = y]
    BY <2>1 DEF Kept, DeviceType
  <2>4. u.fetchers[f] = y /\ \A g \in Fetchers \ {f} : u.fetchers[g] = s.fetchers[g]
    BY <2>3 DEF DeviceType
  <2> HIDE DEF u
  <2>5. Finished(u, t, f)
    BY <2>2, <2>3, FinishEffect
  <2> QED BY <1>3, <2>1, <2>3, <2>4, <2>5 DEF TookFromCache, Kept, Finished, OthersKept, RunningAfter
<1>4. CASE m \notin DevRevs /\ ~HasBundle(s.disk, m)
  <2>1. t = DidFailWithError(s, f, TRUE)
    BY <1>4, Zenon DEF CacheOnlyFetchBundle
  <2> HIDE DEF t
  <2>2. Failed(s, t, f)
    BY <2>1, FailEffect
  <2> QED BY <1>4, <2>2 DEF TookFromCache, Failed, Alike, PreviousWithout
<1> QED BY <1>2, <1>3, <1>4

\* A new fetcher of the cache, for the manifest m or whichever one is cached.
CacheOnlyStarted(s, t, new, m) ==
  LET y == t.fetchers[new]
      read == LocalManifest(s.disk)
  IN /\ Kept(s, t)
     /\ t.loader.fetcher = new
     /\ t.delegate.announced = s.delegate.announced
     /\ OthersKept(s, t, new)
     /\ y.kind = "cacheOnly" /\ y.manifest = m /\ y.resource = "none"
     /\ ~y.hasFinished /\ ~y.timer
     /\ \/ /\ m # None /\ m \in DevRevs
           /\ y.pending = [op |-> "bundle", rev |-> m] /\ y.bundle = None
           /\ t.loader.confirmed = s.loader.confirmed /\ t.delegate = s.delegate
        \/ /\ m # None /\ m \notin DevRevs /\ HasBundle(s.disk, m)
           /\ y.pending = Idle /\ y.bundle = m
           /\ t.loader.confirmed = m /\ t.delegate.failed = s.delegate.failed
           /\ t.delegate.running = RunningAfter(s, m)
        \/ /\ m = None /\ read # None
           /\ y.pending = [op |-> "cached", rev |-> read] /\ y.bundle = None
           /\ t.loader.confirmed = s.loader.confirmed /\ t.delegate = s.delegate
        \/ /\ (m = None /\ read = None) \/ (m # None /\ ~HasBundle(s.disk, m))
           /\ y.pending = Idle /\ y.bundle = None
           /\ t.loader.confirmed = s.loader.confirmed /\ t.delegate.failed
           /\ t.delegate.running = s.delegate.running

\* The device with a new fetcher x as the loader's fetcher.
LEMMA StartedEffect ==
  ASSUME NEW s \in DeviceType, NEW new \in Fetchers, NEW x \in Fetcher
  PROVE  LET t == Started(s, new, x)
         IN /\ Kept(s, t) /\ t.delegate = s.delegate
            /\ t.loader.confirmed = s.loader.confirmed /\ t.loader.previous = s.loader.previous
            /\ t.loader.fetcher = new /\ t.loader.error = s.loader.error
            /\ t.fetchers[new] = x
            /\ \A g \in Fetchers \ {new} : t.fetchers[g] = s.fetchers[g]
<1> DEFINE F == [s.fetchers EXCEPT ![new] = x]
           L == [s.loader EXCEPT !.fetcher = new]
           t == Started(s, new, x)
<1>1. F \in [Fetchers -> Fetcher] /\ F[new] = x /\ \A g \in Fetchers \ {new} : F[g] = s.fetchers[g]
  BY DEF DeviceType
<1>2. /\ L \in Loader
      /\ L.cached = s.loader.cached /\ L.cacheOnly = s.loader.cacheOnly
      /\ L.slot = s.loader.slot /\ L.slotData = s.loader.slotData
      /\ L.confirmed = s.loader.confirmed /\ L.previous = s.loader.previous /\ L.fetcher = new
      /\ L.error = s.loader.error
  BY DEF DeviceType, Loader
<1>3. t = [s EXCEPT !.fetchers = F, !.loader = L]
  BY DEF Started, DeviceType
<1> HIDE DEF F, L, t
<1>4. /\ t.fetchers = F /\ t.loader = L /\ t.delegate = s.delegate
      /\ t.disk = s.disk /\ t.updates = s.updates /\ t \in DeviceType
  BY <1>1, <1>2, <1>3 DEF DeviceType
<1>5. Kept(s, t)
  BY <1>2, <1>4 DEF Kept
<1>6. /\ t.delegate = s.delegate
      /\ t.loader.confirmed = s.loader.confirmed /\ t.loader.previous = s.loader.previous
      /\ t.loader.fetcher = new /\ t.loader.error = s.loader.error
      /\ t.fetchers[new] = x
      /\ \A g \in Fetchers \ {new} : t.fetchers[g] = s.fetchers[g]
  BY <1>1, <1>2, <1>4
<1> QED BY <1>5, <1>6 DEF t

LEMMA StartCacheOnlyEffect ==
  ASSUME NEW s \in DeviceType, NEW free \in Free(s), NEW m \in Rev0
  PROVE  /\ Unused(s) \in Fetchers /\ s.fetchers[Unused(s)] = NoObject
         /\ CacheOnlyStarted(s, StartCacheOnly(s, m), Unused(s), m)
         /\ \A g \in Fetchers \ {Unused(s)} :
              s.loader.previous = g => StartCacheOnly(s, m).loader.previous = g
<1> DEFINE new == Unused(s)
           x == NewFetcher("cacheOnly", m)
           u == Started(s, new, x)
           read == LocalManifest(s.disk)
           y == [x EXCEPT !.pending = [op |-> "cached", rev |-> read]]
           t == StartCacheOnly(s, m)
<1> SUFFICES /\ new \in Fetchers /\ s.fetchers[new] = NoObject
             /\ CacheOnlyStarted(s, t, new, m)
             /\ \A g \in Fetchers \ {new} : s.loader.previous = g => t.loader.previous = g
  OBVIOUS
<1>1. new \in Fetchers /\ s.fetchers[new] = NoObject
  BY UnusedFree
<1>2. /\ x \in Fetcher /\ x.kind = "cacheOnly" /\ x.manifest = m /\ x.bundle = None
      /\ x.pending = Idle /\ x.resource = "none" /\ ~x.hasFinished /\ ~x.timer
  BY NewFetcherSafe DEF NewFetcher
<1>3. t = CacheOnlyStart(u, new)
  BY Zenon DEF StartCacheOnly, Started
<1>4. read \in Rev0
  BY EnvironmentAssumption DEF DeviceType, Disk, LocalManifest, Rev0
<1> HIDE DEF new, x, t
<1>5. /\ Kept(s, u) /\ u \in DeviceType /\ u.delegate = s.delegate /\ u.disk = s.disk
      /\ u.loader.confirmed = s.loader.confirmed /\ u.loader.previous = s.loader.previous
      /\ u.loader.fetcher = new /\ u.loader.error = s.loader.error
      /\ u.fetchers[new] = x
      /\ \A g \in Fetchers \ {new} : u.fetchers[g] = s.fetchers[g]
  BY <1>1, <1>2, StartedEffect DEF Kept
<1> HIDE DEF u
<1>6. CASE m # None
  <2>1. t = CacheOnlyFetchBundle(u, new)
    BY <1>2, <1>3, <1>5, <1>6 DEF CacheOnlyStart
  <2>2. u.fetchers[new].manifest \in Revs
    BY <1>2, <1>5, <1>6 DEF Revs, Rev0
  <2>3. TookFromCache(u, t, new)
    BY <1>1, <1>5, <2>1, <2>2, CacheOnlyFetchBundleEffect
  <2> QED BY <1>1, <1>2, <1>5, <1>6, <2>3 DEF TookFromCache, CacheOnlyStarted, Kept, OthersKept, RunningAfter
<1>7. CASE m = None /\ read # None
  <2>1. t = [u EXCEPT !.fetchers[new].pending = [op |-> "cached", rev |-> read]]
    BY <1>2, <1>3, <1>5, <1>7 DEF CacheOnlyStart
  <2>2. t = [u EXCEPT !.fetchers = [u.fetchers EXCEPT ![new] = y]]
    BY <1>1, <1>5, <2>1 DEF DeviceType
  <2>3. /\ y \in Fetcher /\ y.kind = "cacheOnly" /\ y.manifest = m /\ y.bundle = None
        /\ y.pending = [op |-> "cached", rev |-> read] /\ y.resource = "none"
        /\ ~y.hasFinished /\ ~y.timer
    BY <1>2, <1>4 DEF Fetcher, Pending, Ops
  <2> HIDE DEF y, read
  <2>4. /\ Kept(u, t) /\ t.loader = u.loader /\ t.delegate = u.delegate
        /\ t.fetchers = [u.fetchers EXCEPT ![new] = y]
    BY <1>5, <2>2, <2>3 DEF Kept, DeviceType
  <2>5. t.fetchers[new] = y /\ \A g \in Fetchers \ {new} : t.fetchers[g] = u.fetchers[g]
    BY <1>1, <1>5, <2>4 DEF DeviceType
  <2> QED BY <1>1, <1>5, <1>7, <2>3, <2>4, <2>5 DEF CacheOnlyStarted, Kept, OthersKept, read
<1>8. CASE m = None /\ read = None
  <2>1. t = DidFailWithError(u, new, TRUE)
    BY <1>2, <1>3, <1>5, <1>8 DEF CacheOnlyStart
  <2>2. Failed(u, t, new)
    BY <1>1, <1>5, <2>1, FailEffect
  <2> QED BY <1>1, <1>2, <1>5, <1>8, <2>2
      DEF CacheOnlyStarted, Kept, Failed, Alike, OthersKept, PreviousWithout
<1> QED BY <1>1, <1>2, <1>6, <1>7, <1>8

\* A new fetcher in development mode: it asks for a manifest if it is not given one.
DevStarted(s, t, new, m) ==
  LET y == t.fetchers[new]
  IN /\ Kept(s, t) /\ t.delegate = s.delegate
     /\ t.loader.confirmed = s.loader.confirmed /\ t.loader.previous = s.loader.previous
     /\ t.loader.fetcher = new
     /\ OthersKept(s, t, new)
     /\ y.kind = "dev" /\ y.manifest = m /\ y.bundle = None /\ y.resource = "none"
     /\ ~y.hasFinished /\ ~y.timer
     /\ y.pending = IF m = None THEN ManifestRequest ELSE Idle

LEMMA StartDevelopmentModeEffect ==
  ASSUME NEW s \in DeviceType, NEW free \in Free(s), NEW m \in Rev0, server \in Revs
  PROVE  /\ Unused(s) \in Fetchers /\ s.fetchers[Unused(s)] = NoObject
         /\ DevStarted(s, StartDevelopmentMode(s, m), Unused(s), m)
<1> DEFINE new == Unused(s)
           x == NewFetcher("dev", m)
           y == [x EXCEPT !.pending = ManifestRequest]
           u == Started(s, new, x)
           t == StartDevelopmentMode(s, m)
<1> SUFFICES /\ new \in Fetchers /\ s.fetchers[new] = NoObject
             /\ DevStarted(s, t, new, m)
  OBVIOUS
<1>1. new \in Fetchers /\ s.fetchers[new] = NoObject
  BY UnusedFree
<1>2. /\ x \in Fetcher /\ x.kind = "dev" /\ x.manifest = m /\ x.bundle = None
      /\ x.pending = Idle /\ x.resource = "none" /\ ~x.hasFinished /\ ~x.timer
  BY NewFetcherSafe DEF NewFetcher
<1>3. t = IF m # None THEN u ELSE [u EXCEPT !.fetchers[new].pending = ManifestRequest]
  BY Zenon DEF StartDevelopmentMode, Started
<1>4. ManifestRequest \in Pending
  BY DEF ManifestRequest, Pending, Ops, Revs, Rev0
<1> HIDE DEF new, x, t
<1>5. /\ Kept(s, u) /\ u \in DeviceType /\ u.delegate = s.delegate
      /\ u.loader.confirmed = s.loader.confirmed /\ u.loader.previous = s.loader.previous
      /\ u.loader.fetcher = new /\ u.loader.error = s.loader.error
      /\ u.fetchers[new] = x
      /\ \A g \in Fetchers \ {new} : u.fetchers[g] = s.fetchers[g]
  BY <1>1, <1>2, StartedEffect DEF Kept
<1> HIDE DEF u
<1>6. CASE m # None
  BY <1>2, <1>3, <1>5, <1>6, <1>1 DEF DevStarted, OthersKept
<1>7. CASE m = None
  <2>1. t = [u EXCEPT !.fetchers = [u.fetchers EXCEPT ![new] = y]]
    BY <1>1, <1>3, <1>5, <1>7 DEF DeviceType
  <2>2. /\ y \in Fetcher /\ y.kind = "dev" /\ y.manifest = m /\ y.bundle = None
        /\ y.pending = ManifestRequest /\ y.resource = "none" /\ ~y.hasFinished /\ ~y.timer
    BY <1>2, <1>4 DEF Fetcher
  <2> HIDE DEF y
  <2>3. /\ Kept(u, t) /\ t.loader = u.loader /\ t.delegate = u.delegate
        /\ t.fetchers = [u.fetchers EXCEPT ![new] = y]
    BY <1>5, <2>1, <2>2 DEF Kept, DeviceType
  <2>4. t.fetchers[new] = y /\ \A g \in Fetchers \ {new} : t.fetchers[g] = u.fetchers[g]
    BY <1>1, <1>5, <2>3 DEF DeviceType
  <2> QED BY <1>1, <1>5, <1>7, <2>2, <2>3, <2>4 DEF DevStarted, Kept, OthersKept
<1> QED BY <1>1, <1>6, <1>7

-----------------------------------------------------------------------------
\* The first half of _finishWithError: the timer stops, the delegate hears of an update if
\* the fetcher had already finished, and the fetcher has finished.
Ended(s, u, f, err) ==
  LET x == s.fetchers[f]
      y == u.fetchers[f]
      again == x.hasFinished /\ x.manifest # None
  IN /\ Kept(s, u)
     /\ u.loader.confirmed = s.loader.confirmed /\ u.loader.fetcher = s.loader.fetcher
     /\ u.loader.previous = IF again THEN PreviousWithout(s, f) ELSE s.loader.previous
     /\ u.delegate.announced = IF again THEN AnnouncedAfter(s, f, err) ELSE s.delegate.announced
     /\ u.delegate.failed = s.delegate.failed /\ u.delegate.running = s.delegate.running
     /\ OthersKept(s, u, f)
     /\ y.kind = x.kind /\ y.manifest = x.manifest /\ y.bundle = x.bundle
     /\ y.pending = x.pending /\ y.resource = x.resource
     /\ y.hasFinished /\ ~y.timer

\* The fetcher f that has timed out becomes the previous one, and new takes over from the cache.
FellBack(u, t, new, f) ==
  /\ new \in Fetchers \ {f} /\ u.fetchers[new] = NoObject
  /\ CacheOnlyStarted(u, t, new, u.loader.cached)
  /\ t.loader.previous = f

\* _finishWithError
EndedAs(s, u, t, f) ==
  \/ s.fetchers[f].bundle # None /\ Finished(u, t, f)
  \/ s.fetchers[f].bundle = None /\ Manifest(u) # None /\ \E new \in Fetchers : FellBack(u, t, new, f)
  \/ s.fetchers[f].bundle = None /\ Manifest(u) = None /\ Failed(u, t, f)

LEMMA FallBackToCacheEffect ==
  ASSUME NEW s \in DeviceType, NEW f \in Fetchers, s.fetchers[f] # NoObject, NEW free \in Free(s)
  PROVE  \E new \in Fetchers : FellBack(s, FallBackToCache(s, f), new, f)
<1> DEFINE L == [s.loader EXCEPT !.previous = f]
           v == [s EXCEPT !.loader = L]
           m == s.loader.cached
           new == Unused(v)
           t == StartCacheOnly(v, m)
<1>1. /\ L \in Loader /\ m \in Rev0 /\ L.previous = f
      /\ L.cached = s.loader.cached /\ L.cacheOnly = s.loader.cacheOnly
      /\ L.slot = s.loader.slot /\ L.slotData = s.loader.slotData
      /\ L.confirmed = s.loader.confirmed /\ L.error = s.loader.error
  BY DEF DeviceType, Loader
<1>2. FallBackToCache(s, f) = t
  <2>1. v = [s EXCEPT !.loader.previous = f]
    BY DEF DeviceType
  <2> QED BY <2>1, Zenon DEF FallBackToCache
<1> HIDE DEF L
<1>3. /\ v \in DeviceType /\ v.fetchers = s.fetchers /\ v.delegate = s.delegate
      /\ v.disk = s.disk /\ v.updates = s.updates /\ v.loader = L
  BY <1>1 DEF DeviceType
<1> HIDE DEF v, m
<1>4. free \in Free(v)
  BY <1>3 DEF Free
<1>5. /\ new \in Fetchers /\ v.fetchers[new] = NoObject
      /\ CacheOnlyStarted(v, t, new, m)
      /\ \A g \in Fetchers \ {new} : v.loader.previous = g => t.loader.previous = g
  BY <1>1, <1>3, <1>4, StartCacheOnlyEffect
<1> HIDE DEF new, t
<1>6. CacheOnlyStarted(s, t, new, m)
  BY <1>1, <1>3, <1>5 DEF CacheOnlyStarted, Kept, OthersKept, RunningAfter
<1>7. new # f /\ s.fetchers[new] = NoObject
  BY <1>3, <1>5
<1>8. FellBack(s, t, new, f)
  BY <1>1, <1>3, <1>5, <1>6, <1>7 DEF FellBack, m
<1> QED BY <1>2, <1>5, <1>8

LEMMA WithTimeoutFinishEffect ==
  ASSUME NEW s \in DeviceType, NEW f \in Fetchers, NEW err \in BOOLEAN,
         s.fetchers[f].kind # "none", NEW free \in Free(s)
  PROVE  \E u \in DeviceType : Ended(s, u, f, err) /\ EndedAs(s, u, WithTimeoutFinish(s, f, err), f)
<1> DEFINE x == [s.fetchers[f] EXCEPT !.timer = FALSE]
           stopped == [s EXCEPT !.fetchers = [s.fetchers EXCEPT ![f] = x]]
           again == s.fetchers[f].hasFinished /\ s.fetchers[f].manifest # None
           told == IF again THEN DidResolveUpdatedBundle(stopped, f, err) ELSE stopped
           y == [x EXCEPT !.hasFinished = TRUE]
           u == [told EXCEPT !.fetchers[f].hasFinished = TRUE]
           t == WithTimeoutFinish(s, f, err)
<1>0. s.fetchers[f] \in Fetcher
  BY DEF DeviceType
<1>1. /\ x \in Fetcher /\ x.kind = s.fetchers[f].kind /\ x.manifest = s.fetchers[f].manifest
      /\ x.bundle = s.fetchers[f].bundle /\ x.pending = s.fetchers[f].pending
      /\ x.resource = s.fetchers[f].resource /\ ~x.timer
      /\ x.hasFinished = s.fetchers[f].hasFinished
  BY <1>0 DEF Fetcher
<1>2. stopped = StopTimer(s, f)
  BY DEF StopTimer, DeviceType
<1>3. t = CASE u.fetchers[f].bundle # None -> DidFinishLoading(u, f)
            [] u.fetchers[f].bundle = None /\ Manifest(u) # None -> FallBackToCache(u, f)
            [] OTHER -> DidFailWithError(u, f, err)
  BY <1>2, Zenon DEF WithTimeoutFinish
<1>4. /\ y \in Fetcher /\ y.kind = x.kind /\ y.manifest = x.manifest /\ y.bundle = x.bundle
      /\ y.pending = x.pending /\ y.resource = x.resource
      /\ y.hasFinished /\ ~y.timer
  BY <1>1 DEF Fetcher
<1>5. y = [x EXCEPT !.hasFinished = TRUE]
  OBVIOUS
<1> HIDE DEF x, y, t
<1>6. /\ stopped \in DeviceType /\ stopped.disk = s.disk /\ stopped.updates = s.updates
      /\ stopped.loader = s.loader /\ stopped.delegate = s.delegate
      /\ stopped.fetchers = [s.fetchers EXCEPT ![f] = x]
  BY <1>1 DEF DeviceType
<1>7. stopped.fetchers[f] = x /\ \A g \in Fetchers \ {f} : stopped.fetchers[g] = s.fetchers[g]
  BY <1>6 DEF DeviceType
<1> HIDE DEF stopped
<1>8. again => Resolved(stopped, told, f, err)
  BY <1>6, ResolveEffect
<1>9. ~again => told = stopped
  OBVIOUS
<1>10. AnnouncedAfter(stopped, f, err) = AnnouncedAfter(s, f, err)
  BY <1>1, <1>6, <1>7 DEF AnnouncedAfter, IsCacheUpToDate
<1>11. PreviousWithout(stopped, f) = PreviousWithout(s, f)
  BY <1>6 DEF PreviousWithout
<1> HIDE DEF told
<1>12. /\ Kept(s, told) /\ told \in DeviceType /\ told.fetchers = stopped.fetchers
       /\ told.loader.confirmed = s.loader.confirmed /\ told.loader.fetcher = s.loader.fetcher
       /\ told.loader.previous = IF again THEN PreviousWithout(s, f) ELSE s.loader.previous
       /\ told.delegate.announced = IF again THEN AnnouncedAfter(s, f, err) ELSE s.delegate.announced
       /\ told.delegate.failed = s.delegate.failed /\ told.delegate.running = s.delegate.running
  <2> HIDE DEF again
  <2> QED BY <1>6, <1>8, <1>9, <1>10, <1>11 DEF Resolved, Kept
<1>13. u = [told EXCEPT !.fetchers = [told.fetchers EXCEPT ![f] = y]]
  BY <1>5, <1>6, <1>7, <1>12 DEF DeviceType
<1> HIDE DEF u
<1>14. /\ u \in DeviceType /\ u.disk = told.disk /\ u.updates = told.updates
       /\ u.loader = told.loader /\ u.delegate = told.delegate
       /\ u.fetchers = [told.fetchers EXCEPT ![f] = y]
  BY <1>4, <1>12, <1>13 DEF DeviceType
<1>15. u.fetchers[f] = y /\ \A g \in Fetchers \ {f} : u.fetchers[g] = s.fetchers[g]
  BY <1>7, <1>12, <1>14 DEF DeviceType
<1>16. Ended(s, u, f, err)
  BY <1>1, <1>4, <1>12, <1>14, <1>15 DEF Ended, Kept, OthersKept
<1>17. u.fetchers[f].bundle = s.fetchers[f].bundle
  BY <1>1, <1>4, <1>15
<1>18. CASE s.fetchers[f].bundle # None
  <2>1. Finished(u, t, f)
    BY <1>3, <1>14, <1>17, <1>18, FinishEffect
  <2> QED BY <1>14, <1>16, <1>18, <2>1 DEF EndedAs, t
<1>19. CASE s.fetchers[f].bundle = None /\ Manifest(u) # None
  <2>1. t = FallBackToCache(u, f)
    BY <1>3, <1>17, <1>19
  <2>2. free \in Free(u) /\ u.fetchers[f] # NoObject
    BY <1>1, <1>4, <1>15 DEF Free, NoObject, NewFetcher
  <2>3. \E new \in Fetchers : FellBack(u, t, new, f)
    BY <1>14, <2>1, <2>2, FallBackToCacheEffect
  <2> QED BY <1>14, <1>16, <1>19, <2>3 DEF EndedAs, t
<1>20. CASE s.fetchers[f].bundle = None /\ Manifest(u) = None
  <2>1. t = DidFailWithError(u, f, err)
    BY <1>3, <1>17, <1>20
  <2>2. Failed(u, t, f)
    BY <1>14, <2>1, FailEffect
  <2> QED BY <1>14, <1>16, <1>20, <2>2 DEF EndedAs, t
<1> QED BY <1>18, <1>19, <1>20

-----------------------------------------------------------------------------
\* The record of one fetcher is replaced.
Swapped(s, t, f, x) ==
  /\ t \in DeviceType
  /\ t.disk = s.disk /\ t.loader = s.loader /\ t.updates = s.updates /\ t.delegate = s.delegate
  /\ t.fetchers[f] = x /\ OthersKept(s, t, f)

LEMMA SwapEffect ==
  ASSUME NEW s \in DeviceType, NEW f \in Fetchers, NEW x \in Fetcher
  PROVE  Swapped(s, [s EXCEPT !.fetchers = [s.fetchers EXCEPT ![f] = x]], f, x)
<1> DEFINE F == [s.fetchers EXCEPT ![f] = x]
           t == [s EXCEPT !.fetchers = F]
<1>1. F \in [Fetchers -> Fetcher] /\ F[f] = x /\ \A g \in Fetchers \ {f} : F[g] = s.fetchers[g]
  BY DEF DeviceType
<1> HIDE DEF F
<1>2. /\ t \in DeviceType /\ t.disk = s.disk /\ t.loader = s.loader /\ t.updates = s.updates
      /\ t.delegate = s.delegate /\ t.fetchers = F
  BY <1>1 DEF DeviceType
<1> HIDE DEF t
<1>3. Swapped(s, t, f, x)
  BY <1>1, <1>2 DEF Swapped, OthersKept
<1> QED BY <1>3 DEF t, F

\* Two holders of a manifest request that differ in the role of its resource.
Relabelled(x, y, from, to) ==
  /\ y.pending = x.pending
  /\ y.resource = IF x.resource = from THEN to ELSE x.resource

FetcherRelabelled(x, y, from, to) ==
  /\ Relabelled(x, y, from, to)
  /\ y.kind = x.kind /\ y.manifest = x.manifest /\ y.bundle = x.bundle
  /\ y.hasFinished = x.hasFinished /\ y.timer = x.timer

\* All of the loader but its _manifestResource.
LoaderButSlot(s, t) ==
  /\ t.loader.confirmed = s.loader.confirmed /\ t.loader.cached = s.loader.cached
  /\ t.loader.fetcher = s.loader.fetcher /\ t.loader.previous = s.loader.previous
  /\ t.loader.cacheOnly = s.loader.cacheOnly

\* writeManifestToCache
Written(s, t) ==
  /\ t \in DeviceType
  /\ LoaderButSlot(s, t) /\ t.delegate = s.delegate /\ t.disk.bundles = s.disk.bundles
  /\ t.loader.slot = "none"
  /\ t.updates.hasLoader = s.updates.hasLoader
  /\ t.loader.slotData = IF s.loader.slot = "none" THEN s.loader.slotData ELSE None
  /\ t.disk.manifest = IF s.loader.slot = "loaded" THEN s.loader.slotData ELSE s.disk.manifest
  /\ IF s.loader.slot = "loading"
     THEN /\ \A g \in Fetchers : FetcherRelabelled(s.fetchers[g], t.fetchers[g], "slot", "write")
          /\ Relabelled(s.updates, t.updates, "slot", "write")
     ELSE t.fetchers = s.fetchers /\ t.updates = s.updates

LEMMA WriteManifestToCacheEffect ==
  ASSUME NEW s \in DeviceType
  PROVE  Written(s, WriteManifestToCache(s))
<1> DEFINE role(x) == IF x.resource = "slot" THEN [x EXCEPT !.resource = "write"] ELSE x
           L == [s.loader EXCEPT !.slot = "none", !.slotData = None]
           done == [s EXCEPT !.loader = L]
           D == [s.disk EXCEPT !.manifest = s.loader.slotData]
           F == [f \in Fetchers |-> role(s.fetchers[f])]
           U == role(s.updates)
           t == WriteManifestToCache(s)
<1> SUFFICES Written(s, t)
  OBVIOUS
<1>1. /\ L \in Loader /\ L.slot = "none" /\ L.slotData = None
      /\ L.confirmed = s.loader.confirmed /\ L.cached = s.loader.cached
      /\ L.fetcher = s.loader.fetcher /\ L.previous = s.loader.previous
      /\ L.cacheOnly = s.loader.cacheOnly
  BY DEF DeviceType, Loader, Rev0, None
<1>2. done = [s EXCEPT !.loader.slot = "none", !.loader.slotData = None]
  BY DEF DeviceType
<1>3. D \in Disk /\ D.bundles = s.disk.bundles /\ D.manifest = s.loader.slotData
  BY DEF DeviceType, Disk, Loader
<1>4. \A x \in Fetcher : role(x) \in Fetcher /\ FetcherRelabelled(x, role(x), "slot", "write")
  BY DEF Fetcher, ResourceRoles, FetcherRelabelled, Relabelled
<1>5. /\ F \in [Fetchers -> Fetcher]
      /\ \A f \in Fetchers : FetcherRelabelled(s.fetchers[f], F[f], "slot", "write")
  BY <1>4 DEF DeviceType
<1>6. /\ U \in Updates /\ Relabelled(s.updates, U, "slot", "write")
      /\ U.hasLoader = s.updates.hasLoader
  BY DEF DeviceType, Updates, ResourceRoles, Relabelled
<1>7. t = CASE s.loader.slot = "loaded"  -> [done EXCEPT !.disk.manifest = s.loader.slotData]
            [] s.loader.slot = "loading" -> [done EXCEPT !.updates = U, !.fetchers = F]
            [] OTHER -> s
  BY <1>2, Zenon DEF WriteManifestToCache
<1> HIDE DEF L, F, U, role, t
<1>8. /\ done \in DeviceType /\ done.loader = L /\ done.disk = s.disk /\ done.updates = s.updates
      /\ done.fetchers = s.fetchers /\ done.delegate = s.delegate
  BY <1>1 DEF DeviceType
<1>9. CASE s.loader.slot = "loaded"
  <2>1. t = [done EXCEPT !.disk = D]
    BY <1>7, <1>8, <1>9 DEF DeviceType
  <2> HIDE DEF done, D
  <2>2. /\ t \in DeviceType /\ t.loader = L /\ t.disk = D /\ t.updates = s.updates
        /\ t.fetchers = s.fetchers /\ t.delegate = s.delegate
    BY <1>3, <1>8, <2>1 DEF DeviceType
  <2> QED BY <1>1, <1>3, <1>9, <2>2 DEF Written, LoaderButSlot
<1>10. CASE s.loader.slot = "loading"
  <2>1. t = [done EXCEPT !.updates = U, !.fetchers = F]
    BY <1>7, <1>10
  <2> HIDE DEF done
  <2>2. /\ t \in DeviceType /\ t.loader = L /\ t.disk = s.disk /\ t.updates = U
        /\ t.fetchers = F /\ t.delegate = s.delegate
    BY <1>5, <1>6, <1>8, <2>1 DEF DeviceType
  <2> QED BY <1>1, <1>5, <1>6, <1>10, <2>2 DEF Written, LoaderButSlot
<1>11. CASE s.loader.slot = "none"
  BY <1>7, <1>11 DEF Written, LoaderButSlot
<1> QED BY <1>9, <1>10, <1>11 DEF DeviceType, Loader

\* The loader forgets its _manifestResource, whoever it was made for.
UnlinkedFrom(s, t) ==
  /\ \A g \in Fetchers : FetcherRelabelled(s.fetchers[g], t.fetchers[g], "slot", "none")
  /\ Relabelled(s.updates, t.updates, "slot", "none")
  /\ t.updates.hasLoader = s.updates.hasLoader

LEMMA UnlinkedEffect ==
  ASSUME NEW s \in DeviceType
  PROVE  /\ UnlinkedFrom(s, Unlinked(s))
         /\ Unlinked(s) \in DeviceType
         /\ Unlinked(s).disk = s.disk /\ Unlinked(s).loader = s.loader
         /\ Unlinked(s).delegate = s.delegate
<1> DEFINE role(x) == IF x.resource = "slot" THEN [x EXCEPT !.resource = "none"] ELSE x
           F == [f \in Fetchers |-> role(s.fetchers[f])]
           U == role(s.updates)
           t == Unlinked(s)
<1>1. \A x \in Fetcher : role(x) \in Fetcher /\ FetcherRelabelled(x, role(x), "slot", "none")
  BY DEF Fetcher, ResourceRoles, FetcherRelabelled, Relabelled
<1>2. /\ F \in [Fetchers -> Fetcher]
      /\ \A f \in Fetchers : FetcherRelabelled(s.fetchers[f], F[f], "slot", "none")
  BY <1>1 DEF DeviceType
<1>3. /\ U \in Updates /\ Relabelled(s.updates, U, "slot", "none")
      /\ U.hasLoader = s.updates.hasLoader
  BY DEF DeviceType, Updates, ResourceRoles, Relabelled
<1>4. t = [s EXCEPT !.fetchers = F, !.updates = U]
  BY DEF Unlinked
<1> HIDE DEF F, U, role, t
<1>5. /\ t \in DeviceType /\ t.loader = s.loader /\ t.disk = s.disk /\ t.updates = U
      /\ t.fetchers = F /\ t.delegate = s.delegate
  BY <1>2, <1>3, <1>4 DEF DeviceType
<1>6. UnlinkedFrom(s, t)
  BY <1>2, <1>3, <1>5 DEF UnlinkedFrom
<1> QED BY <1>5, <1>6 DEF t

\* EXManifestPrepareToCache
Prepared(s, t) ==
  /\ t \in DeviceType /\ UnlinkedFrom(s, t)
  /\ t.disk = s.disk /\ t.delegate = s.delegate
  /\ LoaderButSlot(s, t) /\ t.loader.slot = "loading" /\ t.loader.slotData = None

LEMMA PrepareToCacheEffect ==
  ASSUME NEW s \in DeviceType
  PROVE  Prepared(s, PrepareToCache(s))
<1> DEFINE u == Unlinked(s)
           L == [u.loader EXCEPT !.slot = "loading", !.slotData = None]
           t == PrepareToCache(s)
<1> SUFFICES Prepared(s, t)
  OBVIOUS
<1>1. /\ UnlinkedFrom(s, u) /\ u \in DeviceType
      /\ u.disk = s.disk /\ u.loader = s.loader /\ u.delegate = s.delegate
  BY UnlinkedEffect
<1>2. t = [u EXCEPT !.loader = L]
  BY <1>1 DEF PrepareToCache, DeviceType
<1> HIDE DEF u, t
<1>3. /\ L \in Loader /\ L.slot = "loading" /\ L.slotData = None
      /\ L.confirmed = s.loader.confirmed /\ L.cached = s.loader.cached
      /\ L.fetcher = s.loader.fetcher /\ L.previous = s.loader.previous
      /\ L.cacheOnly = s.loader.cacheOnly
  BY <1>1 DEF DeviceType, Loader, Rev0, None
<1> HIDE DEF L
<1>4. /\ t \in DeviceType /\ t.loader = L /\ t.disk = s.disk /\ t.updates = u.updates
      /\ t.fetchers = u.fetchers /\ t.delegate = s.delegate
  BY <1>1, <1>2, <1>3 DEF DeviceType
<1>5. UnlinkedFrom(s, t)
  BY <1>1, <1>4 DEF UnlinkedFrom
<1> QED BY <1>3, <1>4, <1>5 DEF Prepared, LoaderButSlot

\* A fetcher asks the server for the manifest, and the loader keeps the resource.
Requested(s, t, f) ==
  LET x == s.fetchers[f]
      y == t.fetchers[f]
  IN /\ t \in DeviceType
     /\ t.disk = s.disk /\ t.delegate = s.delegate
     /\ LoaderButSlot(s, t) /\ t.loader.slot = "loading" /\ t.loader.slotData = None
     /\ \A g \in Fetchers \ {f} : FetcherRelabelled(s.fetchers[g], t.fetchers[g], "slot", "none")
     /\ Relabelled(s.updates, t.updates, "slot", "none")
     /\ t.updates.hasLoader = s.updates.hasLoader
     /\ y.kind = x.kind /\ y.manifest = x.manifest /\ y.bundle = x.bundle
     /\ y.hasFinished = x.hasFinished /\ y.timer = x.timer
     /\ y.pending = ManifestRequest /\ y.resource = "slot"

LEMMA RequestManifestEffect ==
  ASSUME NEW s \in DeviceType, NEW f \in Fetchers, server \in Revs
  PROVE  Requested(s, RequestManifest(s, f), f)
<1> DEFINE u == PrepareToCache(s)
           x == [u.fetchers[f] EXCEPT !.pending = ManifestRequest, !.resource = "slot"]
           t == RequestManifest(s, f)
<1> SUFFICES Requested(s, t, f)
  OBVIOUS
<1>1. Prepared(s, u) /\ u \in DeviceType
  BY PrepareToCacheEffect DEF Prepared
<1>2. t = [u EXCEPT !.fetchers = [u.fetchers EXCEPT ![f] = x]]
  BY <1>1 DEF RequestManifest, DeviceType
<1>3. ManifestRequest \in Pending
  BY DEF ManifestRequest, Pending, Ops, Revs, Rev0
<1> HIDE DEF u, t
<1>4. u.fetchers[f] \in Fetcher /\ FetcherRelabelled(s.fetchers[f], u.fetchers[f], "slot", "none")
  BY <1>1 DEF DeviceType, Prepared, UnlinkedFrom
<1>5. /\ x \in Fetcher /\ x.kind = s.fetchers[f].kind /\ x.manifest = s.fetchers[f].manifest
      /\ x.bundle = s.fetchers[f].bundle /\ x.hasFinished = s.fetchers[f].hasFinished
      /\ x.timer = s.fetchers[f].timer /\ x.pending = ManifestRequest /\ x.resource = "slot"
  BY <1>3, <1>4 DEF Fetcher, ResourceRoles, FetcherRelabelled
<1> HIDE DEF x
<1>6. Swapped(u, t, f, x)
  BY <1>1, <1>2, <1>5, SwapEffect
<1> QED BY <1>1, <1>5, <1>6 DEF Requested, Swapped, OthersKept, Prepared, UnlinkedFrom, LoaderButSlot

-----------------------------------------------------------------------------
\* A fetcher x that the loader has just created.
Began(s, u, new, x) ==
  /\ Kept(s, u) /\ u.delegate = s.delegate
  /\ u.loader.confirmed = s.loader.confirmed /\ u.loader.previous = s.loader.previous
  /\ u.loader.fetcher = new
  /\ u.fetchers[new] = x /\ OthersKept(s, u, new)

\* EXAppFetcherWithTimeout: with no time to wait it finishes at once, else its timer starts.
NetStarted(s, v, new, zero) ==
  \/ /\ ~zero
     /\ Began(s, v, new, [NewFetcher("withTimeout", None) EXCEPT !.timer = TRUE])
  \/ /\ zero
     /\ \E u, w \in DeviceType :
          /\ Began(s, u, new, NewFetcher("withTimeout", None))
          /\ Ended(u, w, new, FALSE) /\ EndedAs(u, w, v, new)

\* ... and then it asks for the manifest.
NetRequested(s, t, new, zero) ==
  /\ new \in Fetchers /\ s.fetchers[new] = NoObject
  /\ \E v \in DeviceType : NetStarted(s, v, new, zero) /\ Requested(v, t, new)

LEMMA StartWithTimeoutEffect ==
  ASSUME NEW s \in DeviceType, NEW zero \in BOOLEAN, Room(s), server \in Revs
  PROVE  NetRequested(s, StartWithTimeout(s, zero), Unused(s), zero)
<1> DEFINE new == Unused(s)
           x == NewFetcher("withTimeout", None)
           y == [x EXCEPT !.timer = TRUE]
           u == Started(s, new, x)
           v == IF zero THEN WithTimeoutFinish(u, new, FALSE)
                ELSE [u EXCEPT !.fetchers[new].timer = TRUE]
           t == StartWithTimeout(s, zero)
<1> SUFFICES NetRequested(s, t, new, zero)
  OBVIOUS
<1>1. PICK free \in Free(s) : free # new
  BY DEF Room
<1>2. new \in Fetchers /\ s.fetchers[new] = NoObject /\ free \in Fetchers /\ s.fetchers[free] = NoObject
  BY UnusedFree DEF Free
<1>3. /\ x \in Fetcher /\ x.bundle = None /\ x.kind = "withTimeout"
  BY NewFetcherSafe DEF None, Rev0
<1>4. y \in Fetcher
  BY <1>3 DEF Fetcher
<1>5. t = RequestManifest(v, new)
  BY Zenon DEF StartWithTimeout, Started
<1>6. y = [NewFetcher("withTimeout", None) EXCEPT !.timer = TRUE]
  OBVIOUS
<1>7. x = NewFetcher("withTimeout", None)
  OBVIOUS
<1> HIDE DEF new, x, t
<1>8. u \in DeviceType /\ Began(s, u, new, x)
  BY <1>2, <1>3, StartedEffect DEF Kept, Began, OthersKept
<1> HIDE DEF u
<1>9. v \in DeviceType /\ NetStarted(s, v, new, zero)
  <2>1. CASE zero
    <3>1. v = WithTimeoutFinish(u, new, FALSE)
      BY <2>1
    <3>2. free \in Free(u) /\ u.fetchers[new].kind # "none"
      BY <1>1, <1>2, <1>3, <1>8 DEF Free, Began, OthersKept
    <3> HIDE DEF v
    <3>3. PICK w \in DeviceType : Ended(u, w, new, FALSE) /\ EndedAs(u, w, v, new)
      BY <1>2, <1>8, <3>1, <3>2, WithTimeoutFinishEffect
    <3>4. v \in DeviceType
      BY <3>3 DEF EndedAs, Finished, FellBack, CacheOnlyStarted, Failed, Kept
    <3> QED BY <1>7, <1>8, <2>1, <3>3, <3>4 DEF NetStarted
  <2>2. CASE ~zero
    <3>1. v = [u EXCEPT !.fetchers = [u.fetchers EXCEPT ![new] = y]]
      BY <1>2, <1>8, <2>2 DEF Began, OthersKept, DeviceType
    <3> HIDE DEF v, y
    <3>2. Swapped(u, v, new, y)
      BY <1>2, <1>4, <1>8, <3>1, SwapEffect
    <3>3. Began(s, v, new, y) /\ v \in DeviceType
      BY <1>8, <3>2 DEF Began, Swapped, OthersKept, Kept
    <3> QED BY <1>6, <2>2, <3>3 DEF NetStarted
  <2> QED BY <2>1, <2>2
<1> HIDE DEF v
<1>10. Requested(v, t, new)
  BY <1>2, <1>5, <1>9, RequestManifestEffect
<1> QED BY <1>2, <1>9, <1>10 DEF NetRequested

\* The fetcher f has its bundle: it finishes, and the manifest may be cached.
BundleTaken(s, t, f) ==
  \E b, u, v \in DeviceType :
    /\ Swapped(s, b, f, [s.fetchers[f] EXCEPT !.bundle = s.fetchers[f].manifest])
    /\ Ended(b, u, f, FALSE) /\ EndedAs(b, u, v, f)
    /\ Written(v, t)

LEMMA WithTimeoutBundleEffect ==
  ASSUME NEW s \in DeviceType, NEW f \in Fetchers, s.fetchers[f].kind # "none", NEW free \in Free(s)
  PROVE  BundleTaken(s, WithTimeoutBundle(s, f), f)
<1> DEFINE x == [s.fetchers[f] EXCEPT !.bundle = s.fetchers[f].manifest]
           b == [s EXCEPT !.fetchers = [s.fetchers EXCEPT ![f] = x]]
           v == WithTimeoutFinish(b, f, FALSE)
           t == WithTimeoutBundle(s, f)
<1> SUFFICES BundleTaken(s, t, f)
  OBVIOUS
<1>1. x \in Fetcher /\ x.kind = s.fetchers[f].kind
  BY DEF DeviceType, Fetcher
<1>2. t = WriteManifestToCache(v)
  <2>1. b = [s EXCEPT !.fetchers[f].bundle = s.fetchers[f].manifest]
    BY DEF DeviceType
  <2> QED BY <2>1, Zenon DEF WithTimeoutBundle
<1>3. x = [s.fetchers[f] EXCEPT !.bundle = s.fetchers[f].manifest]
  OBVIOUS
<1> HIDE DEF x, t
<1>4. Swapped(s, b, f, x)
  BY <1>1, SwapEffect
<1> HIDE DEF b
<1>5. b \in DeviceType /\ b.fetchers[f].kind # "none" /\ free \in Free(b)
  BY <1>1, <1>4 DEF Swapped, OthersKept, Free, NoObject, NewFetcher
<1>6. PICK u \in DeviceType : Ended(b, u, f, FALSE) /\ EndedAs(b, u, v, f)
  BY <1>5, WithTimeoutFinishEffect
<1> HIDE DEF v
<1>7. v \in DeviceType
  BY <1>6 DEF EndedAs, Finished, FellBack, CacheOnlyStarted, Failed, Kept
<1>8. Written(v, t)
  BY <1>2, <1>7, WriteManifestToCacheEffect
<1> QED BY <1>3, <1>4, <1>5, <1>6, <1>7, <1>8 DEF BundleTaken

UpToDate(s, f) ==
  s.fetchers[f].manifest \notin DevRevs /\ IsCacheUpToDate(s, f) /\ HasBundle(s.disk, s.fetchers[f].manifest)

\* The fetcher f has the newest manifest.
BundleWanted(s, t, f) ==
  \/ UpToDate(s, f) /\ BundleTaken(s, t, f)
  \/ /\ ~UpToDate(s, f)
     /\ Swapped(s, t, f,
          [s.fetchers[f] EXCEPT !.pending = [op |-> "bundle", rev |-> s.fetchers[f].manifest]])

LEMMA WithTimeoutFetchBundleEffect ==
  ASSUME NEW s \in DeviceType, NEW f \in Fetchers, s.fetchers[f].kind # "none", NEW free \in Free(s)
  PROVE  BundleWanted(s, WithTimeoutFetchBundle(s, f), f)
<1> DEFINE m == s.fetchers[f].manifest
           x == [s.fetchers[f] EXCEPT !.pending = [op |-> "bundle", rev |-> m]]
           t == WithTimeoutFetchBundle(s, f)
<1> SUFFICES BundleWanted(s, t, f)
  OBVIOUS
<1>1. CASE UpToDate(s, f)
  <2>1. t = WithTimeoutBundle(s, f)
    BY <1>1 DEF WithTimeoutFetchBundle, UpToDate
  <2> QED BY <1>1, <2>1, WithTimeoutBundleEffect DEF BundleWanted
<1>2. CASE ~UpToDate(s, f)
  <2>1. t = [s EXCEPT !.fetchers = [s.fetchers EXCEPT ![f] = x]]
    BY <1>2 DEF WithTimeoutFetchBundle, UpToDate, DeviceType
  <2>2. x \in Fetcher
    BY DEF DeviceType, Fetcher, Pending, Ops
  <2>3. x = [s.fetchers[f] EXCEPT !.pending = [op |-> "bundle", rev |-> s.fetchers[f].manifest]]
    OBVIOUS
  <2> HIDE DEF x, t
  <2>4. Swapped(s, t, f, x)
    BY <2>1, <2>2, SwapEffect
  <2> QED BY <1>2, <2>3, <2>4 DEF BundleWanted
<1> QED BY <1>1, <1>2

\* The fetcher f is given the manifest m.  With developer tools a fetcher in development mode
\* takes over, unless f has timed out.
ManifestTaken(s, t, f, m) ==
  \E u \in DeviceType :
    /\ Swapped(s, u, f, [s.fetchers[f] EXCEPT !.manifest = m])
    /\ \/ /\ m \in DevRevs /\ s.fetchers[f].timer
          /\ \E v \in DeviceType, new \in Fetchers \ {f} :
               /\ Swapped(u, v, f, [u.fetchers[f] EXCEPT !.timer = FALSE])
               /\ v.fetchers[new] = NoObject /\ DevStarted(v, t, new, m)
       \/ ~(m \in DevRevs /\ s.fetchers[f].timer) /\ BundleWanted(u, t, f)

LEMMA WithTimeoutManifestEffect ==
  ASSUME NEW s \in DeviceType, NEW f \in Fetchers, s.fetchers[f].kind # "none", NEW free \in Free(s),
         NEW m \in Revs, server \in Revs
  PROVE  ManifestTaken(s, WithTimeoutManifest(s, f, m), f, m)
<1> DEFINE x == [s.fetchers[f] EXCEPT !.manifest = m]
           u == [s EXCEPT !.fetchers = [s.fetchers EXCEPT ![f] = x]]
           y == [u.fetchers[f] EXCEPT !.timer = FALSE]
           v == StopTimer(u, f)
           t == WithTimeoutManifest(s, f, m)
<1> SUFFICES ManifestTaken(s, t, f, m)
  OBVIOUS
<1>1. /\ x \in Fetcher /\ x.kind = s.fetchers[f].kind /\ x.timer = s.fetchers[f].timer
      /\ m \in Rev0
  BY DEF DeviceType, Fetcher, Revs, Rev0
<1>2. t = IF m \in DevRevs /\ u.fetchers[f].timer
          THEN StartDevelopmentMode(v, m) ELSE WithTimeoutFetchBundle(u, f)
  <2>1. u = [s EXCEPT !.fetchers[f].manifest = m]
    BY DEF DeviceType
  <2> QED BY <2>1, Zenon DEF WithTimeoutManifest
<1>3. x = [s.fetchers[f] EXCEPT !.manifest = m]
  OBVIOUS
<1> HIDE DEF x, t
<1>4. Swapped(s, u, f, x)
  BY <1>1, SwapEffect
<1> HIDE DEF u
<1>5. u \in DeviceType /\ u.fetchers[f] = x /\ free \in Free(u)
  BY <1>1, <1>4 DEF Swapped, OthersKept, Free, NoObject, NewFetcher
<1>6. CASE m \in DevRevs /\ s.fetchers[f].timer
  <2>1. t = StartDevelopmentMode(v, m)
    BY <1>1, <1>2, <1>5, <1>6
  <2>2. v = [u EXCEPT !.fetchers = [u.fetchers EXCEPT ![f] = y]]
    BY <1>5 DEF StopTimer, DeviceType
  <2>3. y \in Fetcher /\ y.kind = x.kind
    BY <1>1, <1>5 DEF DeviceType, Fetcher
  <2>4. y = [u.fetchers[f] EXCEPT !.timer = FALSE]
    OBVIOUS
  <2> HIDE DEF v, y
  <2>5. Swapped(u, v, f, y)
    BY <1>5, <2>2, <2>3, SwapEffect
  <2>6. v \in DeviceType /\ free \in Free(v) /\ v.fetchers[f] # NoObject
    BY <1>1, <1>5, <2>3, <2>5 DEF Swapped, OthersKept, Free, NoObject, NewFetcher
  <2>7. /\ Unused(v) \in Fetchers /\ v.fetchers[Unused(v)] = NoObject
        /\ DevStarted(v, t, Unused(v), m)
    BY <1>1, <2>1, <2>6, StartDevelopmentModeEffect
  <2>8. Unused(v) # f
    BY <2>6, <2>7
  <2> QED BY <1>3, <1>4, <1>5, <1>6, <2>4, <2>5, <2>6, <2>7, <2>8 DEF ManifestTaken
<1>7. CASE ~(m \in DevRevs /\ s.fetchers[f].timer)
  <2>1. t = WithTimeoutFetchBundle(u, f)
    BY <1>1, <1>2, <1>5, <1>7
  <2>2. BundleWanted(u, t, f)
    BY <1>1, <1>5, <2>1, WithTimeoutFetchBundleEffect
  <2> QED BY <1>3, <1>4, <1>5, <1>7, <2>2 DEF ManifestTaken
<1> QED BY <1>6, <1>7

-----------------------------------------------------------------------------
\* The cached manifest m has been verified.
CacheRead(s, t, m) ==
  /\ t \in DeviceType
  /\ t.disk = s.disk /\ t.fetchers = s.fetchers /\ t.updates = s.updates /\ t.delegate = s.delegate
  /\ t.loader.cached = m
  /\ t.loader.confirmed = s.loader.confirmed /\ t.loader.cacheOnly = s.loader.cacheOnly
  /\ t.loader.fetcher = s.loader.fetcher /\ t.loader.previous = s.loader.previous
  /\ t.loader.slot = s.loader.slot /\ t.loader.slotData = s.loader.slotData

LEMMA CacheReadEffect ==
  ASSUME NEW s \in DeviceType, NEW m \in Rev0
  PROVE  CacheRead(s, [s EXCEPT !.loader.cached = m], m)
<1> DEFINE L == [s.loader EXCEPT !.cached = m]
           t == [s EXCEPT !.loader.cached = m]
<1> SUFFICES CacheRead(s, t, m)
  OBVIOUS
<1>1. /\ L \in Loader /\ L.cached = m
      /\ L.confirmed = s.loader.confirmed /\ L.cacheOnly = s.loader.cacheOnly
      /\ L.fetcher = s.loader.fetcher /\ L.previous = s.loader.previous
      /\ L.slot = s.loader.slot /\ L.slotData = s.loader.slotData
  BY DEF DeviceType, Loader
<1>2. t = [s EXCEPT !.loader = L]
  BY DEF DeviceType
<1> HIDE DEF L, t
<1>3. /\ t \in DeviceType /\ t.loader = L /\ t.disk = s.disk /\ t.updates = s.updates
      /\ t.fetchers = s.fetchers /\ t.delegate = s.delegate
  BY <1>1, <1>2 DEF DeviceType
<1> QED BY <1>1, <1>3 DEF CacheRead

\* The data of a manifest request whose resource has the given role.
DataArrived(s, t, role, m) ==
  /\ t \in DeviceType
  /\ t.fetchers = s.fetchers /\ t.updates = s.updates /\ t.delegate = s.delegate
  /\ LoaderButSlot(s, t) /\ t.disk.bundles = s.disk.bundles
  /\ t.loader.slot = IF role = "slot" THEN "loaded" ELSE s.loader.slot
  /\ t.loader.slotData = IF role = "slot" THEN m ELSE s.loader.slotData
  /\ t.disk.manifest = IF role = "write" THEN m ELSE s.disk.manifest

LEMMA ManifestDataEffect ==
  ASSUME NEW s \in DeviceType, NEW role \in ResourceRoles, NEW m \in Rev0
  PROVE  DataArrived(s, ManifestData(s, role, m), role, m)
<1> DEFINE L == [s.loader EXCEPT !.slot = "loaded", !.slotData = m]
           D == [s.disk EXCEPT !.manifest = m]
           t == ManifestData(s, role, m)
<1> SUFFICES DataArrived(s, t, role, m)
  OBVIOUS
<1>1. CASE role = "slot"
  <2>1. /\ L \in Loader /\ L.slot = "loaded" /\ L.slotData = m
        /\ L.confirmed = s.loader.confirmed /\ L.cached = s.loader.cached
        /\ L.fetcher = s.loader.fetcher /\ L.previous = s.loader.previous
        /\ L.cacheOnly = s.loader.cacheOnly
    BY DEF DeviceType, Loader
  <2>2. t = [s EXCEPT !.loader = L]
    BY <1>1 DEF ManifestData, DeviceType
  <2> HIDE DEF L, t
  <2>3. /\ t \in DeviceType /\ t.loader = L /\ t.disk = s.disk /\ t.updates = s.updates
        /\ t.fetchers = s.fetchers /\ t.delegate = s.delegate
    BY <2>1, <2>2 DEF DeviceType
  <2> QED BY <1>1, <2>1, <2>3 DEF DataArrived, LoaderButSlot
<1>2. CASE role = "write"
  <2>1. D \in Disk /\ D.bundles = s.disk.bundles /\ D.manifest = m
    BY DEF DeviceType, Disk
  <2>2. t = [s EXCEPT !.disk = D]
    BY <1>2 DEF ManifestData, DeviceType
  <2> HIDE DEF D, t
  <2>3. /\ t \in DeviceType /\ t.loader = s.loader /\ t.disk = D /\ t.updates = s.updates
        /\ t.fetchers = s.fetchers /\ t.delegate = s.delegate
    BY <2>1, <2>2 DEF DeviceType
  <2> QED BY <1>2, <2>1, <2>3 DEF DataArrived, LoaderButSlot
<1>3. CASE role = "none"
  BY <1>3 DEF ManifestData, DataArrived, LoaderButSlot
<1> QED BY <1>1, <1>2, <1>3 DEF ResourceRoles

\* A bundle is stored, unless it is one of the packager.
Stored(s, t, m) ==
  /\ t \in DeviceType
  /\ t.loader = s.loader /\ t.fetchers = s.fetchers /\ t.updates = s.updates
  /\ t.delegate = s.delegate /\ t.disk.manifest = s.disk.manifest
  /\ t.disk.bundles = IF m \in DevRevs THEN s.disk.bundles ELSE s.disk.bundles \cup {m}

LEMMA StoreBundleEffect ==
  ASSUME NEW s \in DeviceType, NEW m \in Revs
  PROVE  Stored(s, StoreBundle(s, m), m)
<1> DEFINE D == [s.disk EXCEPT !.bundles = @ \cup {m}]
           t == StoreBundle(s, m)
<1> SUFFICES Stored(s, t, m)
  OBVIOUS
<1>1. CASE m \in DevRevs
  BY <1>1 DEF StoreBundle, Stored
<1>2. CASE m \notin DevRevs
  <2>1. D \in Disk /\ D.bundles = s.disk.bundles \cup {m} /\ D.manifest = s.disk.manifest
    BY DEF DeviceType, Disk
  <2>2. t = [s EXCEPT !.disk = D]
    BY <1>2 DEF StoreBundle, DeviceType
  <2> HIDE DEF D, t
  <2>3. /\ t \in DeviceType /\ t.loader = s.loader /\ t.disk = D /\ t.updates = s.updates
        /\ t.fetchers = s.fetchers /\ t.delegate = s.delegate
    BY <2>1, <2>2 DEF DeviceType
  <2> QED BY <1>2, <2>1, <2>3 DEF Stored
<1> QED BY <1>1, <1>2

\* _reset
WasReset(s, t, cacheOnly) ==
  /\ t \in DeviceType
  /\ t.disk = s.disk /\ t.loader = [NewLoader EXCEPT !.cacheOnly = cacheOnly]
  /\ t.delegate = NothingTold /\ UnlinkedFrom(s, t)
  /\ \A g \in Free(s) : g \in Free(t)

LEMMA ResetEffect ==
  ASSUME NEW s \in DeviceType, NEW cacheOnly \in BOOLEAN
  PROVE  WasReset(s, Reset(s, cacheOnly), cacheOnly)
<1> DEFINE u == Unlinked(s)
           L == [NewLoader EXCEPT !.cacheOnly = cacheOnly]
           t == Reset(s, cacheOnly)
<1> SUFFICES WasReset(s, t, cacheOnly)
  OBVIOUS
<1>1. /\ UnlinkedFrom(s, u) /\ u \in DeviceType /\ u.disk = s.disk
  BY UnlinkedEffect
<1>2. \A f \in Free(s) : f \in Free(u)
  BY DEF DeviceType, Free, Unlinked, NoObject, NewFetcher
<1>3. L \in Loader
  BY DEF NewLoader, Loader, None, Rev0
<1>4. NothingTold \in Delegate
  BY DEF NothingTold, Delegate, None, Rev0
<1>5. t = [u EXCEPT !.loader = L, !.delegate = NothingTold]
  BY Zenon DEF Reset
<1>6. L = [NewLoader EXCEPT !.cacheOnly = cacheOnly]
  OBVIOUS
<1> HIDE DEF u, L, t
<1>7. /\ t \in DeviceType /\ t.loader = L /\ t.disk = s.disk /\ t.updates = u.updates
      /\ t.fetchers = u.fetchers /\ t.delegate = NothingTold
  BY <1>1, <1>3, <1>4, <1>5 DEF DeviceType
<1>8. UnlinkedFrom(s, t) /\ \A f \in Free(s) : f \in Free(t)
  BY <1>1, <1>2, <1>7 DEF UnlinkedFrom, Free
<1> QED BY <1>6, <1>7, <1>8 DEF WasReset

\* The end of a callback: fetchers that nothing holds are deallocated.
GoneFrom(x, y) ==
  /\ y.kind = "none" /\ y.manifest = None /\ y.bundle = None /\ y.resource = "none"
  /\ ~y.hasFinished /\ ~y.timer /\ y.pending = x.pending

Freed(s, t) ==
  /\ t \in DeviceType
  /\ t.disk = s.disk /\ t.loader = s.loader /\ t.updates = s.updates /\ t.delegate = s.delegate
  /\ \A g \in Fetchers : IF Alive(s, g) THEN t.fetchers[g] = s.fetchers[g]
                          ELSE GoneFrom(s.fetchers[g], t.fetchers[g])

LEMMA BecomeEffect ==
  ASSUME NEW s \in DeviceType, Become(s)
  PROVE  Freed(s, Device')
<1> DEFINE gone(f) == [NoObject EXCEPT !.pending = s.fetchers[f].pending]
           F == [f \in Fetchers |-> IF Alive(s, f) THEN s.fetchers[f] ELSE gone(f)]
           r == Released(s)
<1>1. \A f \in Fetchers : s.fetchers[f] \in Fetcher
  BY DEF DeviceType
<1>2. \A f \in Fetchers : gone(f) \in Fetcher /\ GoneFrom(s.fetchers[f], gone(f))
  BY <1>1 DEF NoObject, NewFetcher, Fetcher, GoneFrom, None, Rev0, ResourceRoles
<1>3. /\ F \in [Fetchers -> Fetcher]
      /\ \A g \in Fetchers : IF Alive(s, g) THEN F[g] = s.fetchers[g] ELSE GoneFrom(s.fetchers[g], F[g])
  BY <1>1, <1>2
<1>4. r = [s EXCEPT !.fetchers = F]
  BY Zenon DEF Released
<1>5. /\ disk' = r.disk /\ loader' = r.loader /\ fetchers' = r.fetchers
      /\ updates' = r.updates /\ delegate' = r.delegate
  BY DEF Become
<1> HIDE DEF F, r
<1>6. /\ r \in DeviceType /\ r.disk = s.disk /\ r.loader = s.loader /\ r.fetchers = F
      /\ r.updates = s.updates /\ r.delegate = s.delegate
  BY <1>3, <1>4 DEF DeviceType
<1>7. Device' = r
  BY <1>5, <1>6 DEF Device, DeviceType
<1> HIDE DEF gone
<1> QED BY <1>3, <1>6, <1>7 DEF Freed

\* A request of fetcher f ends.
LEMMA AnsweredEffect ==
  ASSUME Device \in DeviceType, NEW f \in Fetchers
  PROVE  Swapped(Device, Answered(f), f, [fetchers[f] EXCEPT !.pending = Idle, !.resource = "none"])
<1> DEFINE x == [fetchers[f] EXCEPT !.pending = Idle, !.resource = "none"]
<1>1. fetchers[f] \in Fetcher /\ Device.fetchers = fetchers /\ fetchers \in [Fetchers -> Fetcher]
  BY DEF Device, DeviceType
<1>2. x \in Fetcher
  BY <1>1 DEF Fetcher, Idle, Pending, Ops, None, Rev0, ResourceRoles
<1>3. Answered(f) = [Device EXCEPT !.fetchers = [Device.fetchers EXCEPT ![f] = x]]
  BY <1>1 DEF Answered, DeviceType
<1> QED BY <1>2, <1>3, SwapEffect
=============================================================================
