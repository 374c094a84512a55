--------------------------- MODULE AppLoaderProofs ---------------------------
(***************************************************************************)
(* Theorems about AppLoader, for every value of its constants: its type    *)
(* invariant, and that a confirmed manifest has its bundle on the device.  *)
(*                                                                         *)
(* The operators of AppLoader map a device state to a device state, so     *)
(* most of the work is one lemma per operator: it keeps a device state in  *)
(* Safe, the device states that are well typed and obey the strengthening  *)
(* of the two safety invariants.                                           *)
(***************************************************************************)
EXTENDS AppLoader, TLAPS

DeviceType ==
  [disk : Disk, loader : Loader, fetchers : [Fetchers -> Fetcher],
   updates : Updates, delegate : Delegate]

FetcherSafe(d, x) ==
  /\ x.bundle # None => x.bundle = x.manifest /\ OnDevice(d, x.manifest)
  /\ x.timer => /\ ~x.hasFinished /\ x.bundle = None
                /\ x.kind = "withTimeout" /\ x.pending.op # "cached"
  /\ x.pending.op # "idle" => x.pending.rev \in Revs
  /\ x.pending.op \in {"cached", "manifest"} => x.bundle = None
  /\ x.pending.op = "cached" => x.kind = "cacheOnly"
  /\ x.pending.op = "bundle" /\ x.kind # "none" => x.pending.rev = x.manifest

ConfirmedSafe(s) == s.loader.confirmed # None => OnDevice(s.disk, s.loader.confirmed)
UpdatesSafe(s) == s.updates.pending.op # "idle" => s.updates.pending.rev \in Revs
FetchersSafe(s) == \A f \in Fetchers : FetcherSafe(s.disk, s.fetchers[f])

Safe == {s \in DeviceType : ConfirmedSafe(s) /\ UpdatesSafe(s) /\ FetchersSafe(s)}

\* The inductive invariant.
IInv == TypeOK /\ Device \in Safe

-----------------------------------------------------------------------------
LEMMA UnlinkedSafe ==
  ASSUME NEW s \in Safe
  PROVE  /\ Unlinked(s) \in Safe
         /\ \A f \in Fetchers : Unlinked(s).fetchers[f].bundle = s.fetchers[f].bundle
<1> DEFINE role(x) == IF x.resource = "slot" THEN [x EXCEPT !.resource = "none"] ELSE x
           F == [f \in Fetchers |-> role(s.fetchers[f])]
           U == role(s.updates)
           t == [s EXCEPT !.fetchers = F, !.updates = U]
<1>0. s \in DeviceType /\ ConfirmedSafe(s) /\ UpdatesSafe(s) /\ FetchersSafe(s)
  BY DEF Safe
<1>1. \A x \in Fetcher : role(x) \in Fetcher /\ \A d : FetcherSafe(d, x) => FetcherSafe(d, role(x))
  BY DEF Fetcher, ResourceRoles, FetcherSafe
<1>2. F \in [Fetchers -> Fetcher]
  BY <1>0, <1>1 DEF DeviceType
<1>3. U \in Updates /\ U.pending = s.updates.pending
  BY <1>0 DEF DeviceType, Updates, ResourceRoles
<1>4. \A f \in Fetchers : FetcherSafe(s.disk, F[f])
  BY <1>0, <1>1 DEF DeviceType, FetchersSafe
<1>5. Unlinked(s) = t
  BY DEF Unlinked
<1> HIDE DEF role, F, U
<1>6. t \in DeviceType /\ t.disk = s.disk /\ t.loader = s.loader /\ t.fetchers = F /\ t.updates = U
  BY <1>0, <1>2, <1>3 DEF DeviceType
<1>7. \A f \in Fetchers : F[f].bundle = s.fetchers[f].bundle
  BY <1>0 DEF DeviceType, Fetcher, F, role
<1> QED BY <1>0, <1>3, <1>4, <1>5, <1>6, <1>7 DEF Safe, ConfirmedSafe, UpdatesSafe, FetchersSafe

\* Replacing the record of one fetcher by a safe one keeps the device safe.
LEMMA SetFetcher ==
  ASSUME NEW s \in Safe, NEW f \in Fetchers, NEW x \in Fetcher, FetcherSafe(s.disk, x)
  PROVE  [s EXCEPT !.fetchers[f] = x] \in Safe
<1> DEFINE F == [s.fetchers EXCEPT ![f] = x]
           t == [s EXCEPT !.fetchers = F]
<1>0. s \in DeviceType /\ ConfirmedSafe(s) /\ UpdatesSafe(s) /\ FetchersSafe(s)
  BY DEF Safe
<1>1. F \in [Fetchers -> Fetcher] /\ \A g \in Fetchers : FetcherSafe(s.disk, F[g])
  BY <1>0 DEF DeviceType, FetchersSafe
<1> HIDE DEF F
<1>2. t \in DeviceType /\ t.disk = s.disk /\ t.loader = s.loader /\ t.fetchers = F /\ t.updates = s.updates
  BY <1>0, <1>1 DEF DeviceType
<1>3. t \in Safe
  BY <1>0, <1>1, <1>2 DEF Safe, ConfirmedSafe, UpdatesSafe, FetchersSafe
<1> QED BY <1>3 DEF F

\* Replacing the loader's record by one with a safe confirmed manifest keeps the device safe.
LEMMA SetLoader ==
  ASSUME NEW s \in Safe, NEW l \in Loader, l.confirmed # None => OnDevice(s.disk, l.confirmed)
  PROVE  [s EXCEPT !.loader = l] \in Safe
<1> DEFINE t == [s EXCEPT !.loader = l]
<1>0. s \in DeviceType /\ ConfirmedSafe(s) /\ UpdatesSafe(s) /\ FetchersSafe(s)
  BY DEF Safe
<1>2. t \in DeviceType /\ t.disk = s.disk /\ t.loader = l /\ t.fetchers = s.fetchers /\ t.updates = s.updates
  BY <1>0 DEF DeviceType
<1> QED BY <1>0, <1>2 DEF Safe, ConfirmedSafe, UpdatesSafe, FetchersSafe

LEMMA SetUpdates ==
  ASSUME NEW s \in Safe, NEW u \in Updates, u.pending.op # "idle" => u.pending.rev \in Revs
  PROVE  [s EXCEPT !.updates = u] \in Safe
<1> DEFINE t == [s EXCEPT !.updates = u]
<1>0. s \in DeviceType /\ ConfirmedSafe(s) /\ UpdatesSafe(s) /\ FetchersSafe(s)
  BY DEF Safe
<1>2. t \in DeviceType /\ t.disk = s.disk /\ t.loader = s.loader /\ t.fetchers = s.fetchers /\ t.updates = u
  BY <1>0 DEF DeviceType
<1> QED BY <1>0, <1>2 DEF Safe, ConfirmedSafe, UpdatesSafe, FetchersSafe

LEMMA SetDelegate ==
  ASSUME NEW s \in Safe, NEW d \in Delegate
  PROVE  [s EXCEPT !.delegate = d] \in Safe
<1> DEFINE t == [s EXCEPT !.delegate = d]
<1>0. s \in DeviceType /\ ConfirmedSafe(s) /\ UpdatesSafe(s) /\ FetchersSafe(s)
  BY DEF Safe
<1>2. t \in DeviceType /\ t.disk = s.disk /\ t.loader = s.loader /\ t.fetchers = s.fetchers /\ t.updates = s.updates
  BY <1>0 DEF DeviceType
<1> QED BY <1>0, <1>2 DEF Safe, ConfirmedSafe, UpdatesSafe, FetchersSafe

\* The caches only gain bundles.
LEMMA SetDisk ==
  ASSUME NEW s \in Safe, NEW d \in Disk, s.disk.bundles \subseteq d.bundles
  PROVE  [s EXCEPT !.disk = d] \in Safe
<1> DEFINE t == [s EXCEPT !.disk = d]
<1>0. s \in DeviceType /\ ConfirmedSafe(s) /\ UpdatesSafe(s) /\ FetchersSafe(s)
  BY DEF Safe
<1>1. \A r : OnDevice(s.disk, r) => OnDevice(d, r)
  BY DEF OnDevice, HasBundle
<1>2. \A x \in Fetcher : FetcherSafe(s.disk, x) => FetcherSafe(d, x)
  BY <1>1 DEF FetcherSafe
<1>3. t \in DeviceType /\ t.disk = d /\ t.loader = s.loader /\ t.fetchers = s.fetchers /\ t.updates = s.updates
  BY <1>0 DEF DeviceType
<1>4. FetchersSafe(t)
  BY <1>0, <1>2, <1>3 DEF FetchersSafe, DeviceType
<1> QED BY <1>0, <1>1, <1>3, <1>4 DEF Safe, ConfirmedSafe, UpdatesSafe

-----------------------------------------------------------------------------
LEMMA PrepareToCacheSafe ==
  ASSUME NEW s \in Safe
  PROVE  /\ PrepareToCache(s) \in Safe
         /\ \A f \in Fetchers : PrepareToCache(s).fetchers[f].bundle = s.fetchers[f].bundle
<1> DEFINE u == Unlinked(s)
           L == [u.loader EXCEPT !.slot = "loading", !.slotData = None]
<1>1. /\ u \in Safe /\ u \in DeviceType /\ ConfirmedSafe(u)
      /\ \A f \in Fetchers : u.fetchers[f].bundle = s.fetchers[f].bundle
  BY UnlinkedSafe DEF Safe
<1>2. u.loader \in Loader
  BY <1>1 DEF DeviceType
<1>3. L \in Loader /\ L.confirmed = u.loader.confirmed
  BY <1>2 DEF Loader, None, Rev0
<1>4. PrepareToCache(s) = [u EXCEPT !.loader = L]
  BY <1>1 DEF PrepareToCache, DeviceType
<1> HIDE DEF L, u
<1>5. [u EXCEPT !.loader = L].fetchers = u.fetchers
  BY <1>1 DEF DeviceType
<1> QED BY <1>1, <1>3, <1>4, <1>5, SetLoader DEF ConfirmedSafe

LEMMA RequestManifestSafe ==
  ASSUME NEW s \in Safe, NEW f \in Fetchers, server \in Revs, s.fetchers[f].bundle = None
  PROVE  RequestManifest(s, f) \in Safe
<1> DEFINE u == PrepareToCache(s)
           x == [u.fetchers[f] EXCEPT !.pending = ManifestRequest, !.resource = "slot"]
<1>1. u \in Safe /\ u \in DeviceType /\ FetchersSafe(u) /\ u.fetchers[f].bundle = None
  BY PrepareToCacheSafe DEF Safe
<1>2. u.fetchers[f] \in Fetcher /\ FetcherSafe(u.disk, u.fetchers[f])
  BY <1>1 DEF DeviceType, FetchersSafe
<1>3. ManifestRequest \in Pending /\ ManifestRequest.op = "manifest" /\ ManifestRequest.rev \in Revs
  BY DEF ManifestRequest, Pending, Ops, Revs, Rev0
<1>4. x \in Fetcher
  BY <1>2, <1>3 DEF Fetcher, ResourceRoles
<1>5. FetcherSafe(u.disk, x)
  BY <1>1, <1>2, <1>3 DEF Fetcher, FetcherSafe
<1>6. RequestManifest(s, f) = [u EXCEPT !.fetchers[f] = x]
  BY <1>1 DEF RequestManifest, DeviceType
<1> HIDE DEF u, x
<1> QED BY <1>1, <1>4, <1>5, <1>6, SetFetcher

LEMMA RequestUpdateManifestSafe ==
  ASSUME NEW s \in Safe, server \in Revs
  PROVE  RequestUpdateManifest(s) \in Safe
<1> DEFINE u == PrepareToCache(s)
           x == [u.updates EXCEPT !.pending = ManifestRequest, !.resource = "slot"]
<1>1. u \in Safe /\ u \in DeviceType
  BY PrepareToCacheSafe DEF Safe
<1>3. ManifestRequest \in Pending /\ ManifestRequest.rev \in Revs
  BY DEF ManifestRequest, Pending, Ops, Revs, Rev0
<1>4. x \in Updates /\ x.pending.rev \in Revs
  BY <1>1, <1>3 DEF DeviceType, Updates, ResourceRoles
<1>6. RequestUpdateManifest(s) = [u EXCEPT !.updates = x]
  BY <1>1 DEF RequestUpdateManifest, DeviceType
<1> HIDE DEF u, x
<1> QED BY <1>1, <1>4, <1>6, SetUpdates

LEMMA ManifestDataSafe ==
  ASSUME NEW s \in Safe, NEW role \in ResourceRoles, NEW m \in Revs
  PROVE  /\ ManifestData(s, role, m) \in Safe
         /\ ManifestData(s, role, m).fetchers = s.fetchers
         /\ ManifestData(s, role, m).updates = s.updates
<1>0. s \in DeviceType /\ ConfirmedSafe(s)
  BY DEF Safe
<1>1. CASE role = "slot"
  <2> DEFINE L == [s.loader EXCEPT !.slot = "loaded", !.slotData = m]
  <2>1. L \in Loader /\ L.confirmed = s.loader.confirmed
    BY <1>0 DEF DeviceType, Loader, Rev0, Revs
  <2>2. ManifestData(s, role, m) = [s EXCEPT !.loader = L]
    BY <1>0, <1>1 DEF ManifestData, DeviceType
  <2> HIDE DEF L
  <2>3. [s EXCEPT !.loader = L] \in Safe
    BY <1>0, <2>1, SetLoader DEF ConfirmedSafe
  <2> QED BY <1>0, <2>2, <2>3 DEF DeviceType
<1>2. CASE role = "write"
  <2> DEFINE D == [s.disk EXCEPT !.manifest = m]
  <2>1. D \in Disk /\ s.disk.bundles \subseteq D.bundles
    BY <1>0 DEF DeviceType, Disk, Rev0, Revs
  <2>2. ManifestData(s, role, m) = [s EXCEPT !.disk = D]
    BY <1>0, <1>2 DEF ManifestData, DeviceType
  <2> HIDE DEF D
  <2>3. [s EXCEPT !.disk = D] \in Safe
    BY <2>1, SetDisk
  <2> QED BY <1>0, <2>2, <2>3 DEF DeviceType
<1>3. CASE role = "none"
  BY <1>3 DEF ManifestData
<1> QED BY <1>1, <1>2, <1>3 DEF ResourceRoles

LEMMA WriteManifestToCacheSafe ==
  ASSUME NEW s \in Safe
  PROVE  WriteManifestToCache(s) \in Safe
<1> DEFINE role(x) == IF x.resource = "slot" THEN [x EXCEPT !.resource = "write"] ELSE x
           L == [s.loader EXCEPT !.slot = "none", !.slotData = None]
           done == [s EXCEPT !.loader = L]
           D == [s.disk EXCEPT !.manifest = s.loader.slotData]
           F == [f \in Fetchers |-> role(s.fetchers[f])]
           U == role(s.updates)
<1>0. s \in DeviceType /\ ConfirmedSafe(s) /\ UpdatesSafe(s) /\ FetchersSafe(s)
  BY DEF Safe
<1>1. L \in Loader /\ L.confirmed = s.loader.confirmed
  BY <1>0 DEF DeviceType, Loader, Rev0, None
<1>2. done = [s EXCEPT !.loader.slot = "none", !.loader.slotData = None]
  BY <1>0 DEF DeviceType
<1>3. D \in Disk /\ s.disk.bundles \subseteq D.bundles
  BY <1>0 DEF DeviceType, Disk, Loader
<1>4. \A x \in Fetcher : role(x) \in Fetcher /\ \A d : FetcherSafe(d, x) => FetcherSafe(d, role(x))
  BY DEF Fetcher, ResourceRoles, FetcherSafe
<1>5. F \in [Fetchers -> Fetcher] /\ \A f \in Fetchers : FetcherSafe(s.disk, F[f])
  BY <1>0, <1>4 DEF DeviceType, FetchersSafe
<1>6. U \in Updates /\ U.pending = s.updates.pending
  BY <1>0 DEF DeviceType, Updates, ResourceRoles
<1>7. done \in Safe /\ done.disk = s.disk /\ done.loader = L
  <2> HIDE DEF L
  <2> QED BY <1>0, <1>1, SetLoader DEF ConfirmedSafe, DeviceType
<1>8. CASE s.loader.slot = "loaded"
  <2>1. WriteManifestToCache(s) = [done EXCEPT !.disk = D]
    BY <1>0, <1>2, <1>8 DEF WriteManifestToCache, DeviceType
  <2> HIDE DEF done, D
  <2> QED BY <1>3, <1>7, <2>1, SetDisk
<1>9. CASE s.loader.slot = "loading"
  <2>1. WriteManifestToCache(s) = [done EXCEPT !.updates = U, !.fetchers = F]
    BY <1>2, <1>9, Zenon DEF WriteManifestToCache
  <2> HIDE DEF F, U
  <2>2. [done EXCEPT !.updates = U, !.fetchers = F] \in Safe
    <3> DEFINE t == [done EXCEPT !.updates = U, !.fetchers = F]
    <3>1. done \in DeviceType /\ ConfirmedSafe(done)
      BY <1>7 DEF Safe
    <3> HIDE DEF done
    <3>2. t \in DeviceType /\ t.disk = done.disk /\ t.loader = done.loader /\ t.fetchers = F /\ t.updates = U
      BY <1>5, <1>6, <3>1 DEF DeviceType
    <3> QED BY <1>0, <1>5, <1>6, <1>7, <3>1, <3>2 DEF Safe, ConfirmedSafe, UpdatesSafe, FetchersSafe
  <2> HIDE DEF done
  <2> QED BY <2>1, <2>2
<1>10. CASE s.loader.slot = "none"
  BY <1>10 DEF WriteManifestToCache
<1> QED BY <1>0, <1>8, <1>9, <1>10 DEF DeviceType, Loader

LEMMA StoreBundleSafe ==
  ASSUME NEW s \in Safe, NEW m \in Revs
  PROVE  /\ StoreBundle(s, m) \in Safe
         /\ OnDevice(StoreBundle(s, m).disk, m)
         /\ StoreBundle(s, m).fetchers = s.fetchers
         /\ StoreBundle(s, m).updates = s.updates
<1>1. CASE m \in DevRevs
  BY <1>1 DEF StoreBundle, OnDevice
<1>2. CASE m \notin DevRevs
  <2> DEFINE D == [s.disk EXCEPT !.bundles = @ \cup {m}]
  <2>0. s \in DeviceType
    BY DEF Safe
  <2>1. D \in Disk /\ s.disk.bundles \subseteq D.bundles /\ m \in D.bundles
    BY <2>0 DEF DeviceType, Disk
  <2>2. StoreBundle(s, m) = [s EXCEPT !.disk = D]
    BY <2>0, <1>2 DEF StoreBundle, DeviceType
  <2> HIDE DEF D
  <2>3. [s EXCEPT !.disk = D] \in Safe
    BY <2>1, SetDisk
  <2> QED BY <2>0, <2>1, <2>2, <2>3 DEF DeviceType, OnDevice, HasBundle
<1> QED BY <1>1, <1>2

-----------------------------------------------------------------------------
\* What fetchers call on the loader.
LEMMA DidFinishLoadingSafe ==
  ASSUME NEW s \in Safe, NEW f \in Fetchers, s.fetchers[f].bundle # None
  PROVE  /\ DidFinishLoading(s, f) \in Safe
         /\ DidFinishLoading(s, f).fetchers = s.fetchers
<1> DEFINE m == s.fetchers[f].manifest
           L == [s.loader EXCEPT !.confirmed = m]
           D == [s.delegate EXCEPT !.running = IF @ = None /\ ~s.loader.error THEN m ELSE @]
           u == [s EXCEPT !.loader = L]
<1>0. s \in DeviceType /\ FetchersSafe(s)
  BY DEF Safe
<1>1. s.fetchers[f] \in Fetcher /\ FetcherSafe(s.disk, s.fetchers[f])
  BY <1>0 DEF DeviceType, FetchersSafe
<1>2. m \in Rev0 /\ OnDevice(s.disk, m)
  BY <1>1 DEF Fetcher, FetcherSafe
<1> HIDE DEF m
<1>3. L \in Loader /\ L.confirmed = m
  BY <1>0, <1>2 DEF DeviceType, Loader
<1>4. D \in Delegate
  BY <1>0, <1>2 DEF DeviceType, Delegate
<1>5. DidFinishLoading(s, f) = [u EXCEPT !.delegate = D]
  BY <1>0, Zenon DEF DidFinishLoading, m, DeviceType
<1> HIDE DEF L, D
<1>6. u \in Safe /\ u \in DeviceType /\ u.fetchers = s.fetchers
  BY <1>0, <1>2, <1>3, SetLoader DEF Safe, DeviceType
<1> HIDE DEF u
<1>7. [u EXCEPT !.delegate = D] \in Safe
  BY <1>4, <1>6, SetDelegate
<1> QED BY <1>5, <1>6, <1>7 DEF DeviceType

LEMMA DidFailWithErrorSafe ==
  ASSUME NEW s \in Safe, NEW f \in Fetchers, NEW err \in BOOLEAN
  PROVE  /\ DidFailWithError(s, f, err) \in Safe
         /\ \A g \in Fetchers : DidFailWithError(s, f, err).fetchers[g].bundle = s.fetchers[g].bundle
<1> DEFINE x == [s.fetchers[f] EXCEPT !.error = err]
           u == [s EXCEPT !.fetchers[f] = x]
           L == [s.loader EXCEPT !.error = err, !.previous = IF @ = f THEN NoFetcher ELSE @]
           v == [u EXCEPT !.loader = L]
           D == [s.delegate EXCEPT !.failed = TRUE]
<1>0. s \in DeviceType /\ FetchersSafe(s) /\ ConfirmedSafe(s)
  BY DEF Safe
<1>1. s.fetchers[f] \in Fetcher /\ FetcherSafe(s.disk, s.fetchers[f])
  BY <1>0 DEF DeviceType, FetchersSafe
<1>2. x \in Fetcher /\ x.bundle = s.fetchers[f].bundle /\ FetcherSafe(s.disk, x)
  BY <1>1 DEF Fetcher, FetcherSafe
<1>3. L \in Loader /\ L.confirmed = s.loader.confirmed
  BY <1>0 DEF DeviceType, Loader
<1>4. D \in Delegate
  BY <1>0 DEF DeviceType, Delegate
<1>5. DidFailWithError(s, f, err) = [v EXCEPT !.delegate = D]
  <2>1. s.fetchers \in [Fetchers -> Fetcher]
    BY <1>0 DEF DeviceType
  <2> QED BY <1>0, <2>1 DEF DidFailWithError, DeviceType
<1> HIDE DEF x, L, D
<1>6. u \in Safe /\ u.disk = s.disk /\ u.fetchers = [s.fetchers EXCEPT ![f] = x]
  BY <1>0, <1>2, SetFetcher DEF DeviceType
<1>7. \A g \in Fetchers : u.fetchers[g].bundle = s.fetchers[g].bundle
  BY <1>0, <1>2, <1>6 DEF DeviceType
<1> HIDE DEF u
<1>8. v \in Safe /\ v.fetchers = u.fetchers
  BY <1>0, <1>3, <1>6, SetLoader DEF ConfirmedSafe, Safe, DeviceType
<1> HIDE DEF v
<1>9. [v EXCEPT !.delegate = D] \in Safe /\ [v EXCEPT !.delegate = D].fetchers = v.fetchers
  BY <1>4, <1>8, SetDelegate DEF Safe, DeviceType
<1> QED BY <1>5, <1>7, <1>8, <1>9

LEMMA DidResolveUpdatedBundleSafe ==
  ASSUME NEW s \in Safe, NEW f \in Fetchers, NEW err \in BOOLEAN
  PROVE  /\ DidResolveUpdatedBundle(s, f, err) \in Safe
         /\ DidResolveUpdatedBundle(s, f, err).fetchers = s.fetchers
<1> DEFINE D == [s.delegate EXCEPT !.resolved = TRUE,
                   !.announced = IF err \/ IsCacheUpToDate(s, f) THEN @
                                 ELSE @ \cup {s.fetchers[f].manifest}]
           L == [s.loader EXCEPT !.previous = IF @ = f THEN NoFetcher ELSE @]
           u == [s EXCEPT !.delegate = D]
<1>0. s \in DeviceType /\ ConfirmedSafe(s)
  BY DEF Safe
<1>1. s.fetchers[f].manifest \in Rev0
  BY <1>0 DEF DeviceType, Fetcher
<1>2. D \in Delegate
  BY <1>0, <1>1 DEF DeviceType, Delegate
<1>3. L \in Loader /\ L.confirmed = s.loader.confirmed
  BY <1>0 DEF DeviceType, Loader
<1>4. DidResolveUpdatedBundle(s, f, err) = [u EXCEPT !.loader = L]
  BY <1>0 DEF DidResolveUpdatedBundle, DeviceType
<1> HIDE DEF D, L
<1>5. u \in Safe /\ u \in DeviceType /\ u.fetchers = s.fetchers /\ u.disk = s.disk
  BY <1>0, <1>2, SetDelegate DEF Safe, DeviceType
<1> HIDE DEF u
<1>6. [u EXCEPT !.loader = L] \in Safe
  BY <1>0, <1>3, <1>5, SetLoader DEF ConfirmedSafe
<1> QED BY <1>4, <1>5, <1>6 DEF DeviceType

-----------------------------------------------------------------------------
\* The fetcher that only uses the cache.  Fresh: it has not asked for anything yet.
Fresh(x) == x.bundle = None /\ ~x.timer /\ x.pending = Idle

LEMMA CacheOnlyFetchBundleSafe ==
  ASSUME NEW s \in Safe, NEW f \in Fetchers, Fresh(s.fetchers[f]), s.fetchers[f].manifest # None
  PROVE  /\ CacheOnlyFetchBundle(s, f) \in Safe
         /\ \A g \in Fetchers \ {f} :
              CacheOnlyFetchBundle(s, f).fetchers[g].bundle = s.fetchers[g].bundle
<1> DEFINE m == s.fetchers[f].manifest
           x == [s.fetchers[f] EXCEPT !.pending = [op |-> "bundle", rev |-> m]]
           y == [s.fetchers[f] EXCEPT !.bundle = m]
           u == [s EXCEPT !.fetchers[f] = y]
<1>0. s \in DeviceType /\ FetchersSafe(s)
  BY DEF Safe
<1>1. s.fetchers[f] \in Fetcher /\ FetcherSafe(s.disk, s.fetchers[f])
  BY <1>0 DEF DeviceType, FetchersSafe
<1>2. m \in Revs /\ m # None
  BY <1>1 DEF Fetcher, Rev0, Revs
<1>3. CASE m \in DevRevs
  <2>1. x \in Fetcher
    BY <1>1, <1>2 DEF Fetcher, Pending, Ops, Rev0, Revs
  <2>2. FetcherSafe(s.disk, x)
    BY <1>1, <1>2 DEF Fetcher, FetcherSafe, Fresh
  <2>3. CacheOnlyFetchBundle(s, f) = [s EXCEPT !.fetchers[f] = x]
    BY <1>0, <1>3 DEF CacheOnlyFetchBundle, DeviceType
  <2> HIDE DEF x
  <2>4. [s EXCEPT !.fetchers[f] = x] \in Safe
    BY <2>1, <2>2, SetFetcher
  <2> QED BY <1>0, <2>3, <2>4 DEF DeviceType
<1>4. CASE m \notin DevRevs /\ HasBundle(s.disk, m)
  <2>1. y \in Fetcher /\ y.bundle # None
    BY <1>1, <1>2 DEF Fetcher
  <2>2. FetcherSafe(s.disk, y)
    BY <1>1, <1>2, <1>4 DEF Fetcher, FetcherSafe, Fresh, Idle, OnDevice
  <2>3. CacheOnlyFetchBundle(s, f) = DidFinishLoading(u, f)
    <3>1. u = [s EXCEPT !.fetchers[f].bundle = m]
      BY <1>0 DEF DeviceType
    <3> QED BY <1>4, <3>1, Zenon DEF CacheOnlyFetchBundle
  <2> HIDE DEF y
  <2>4. u \in Safe /\ u.fetchers = [s.fetchers EXCEPT ![f] = y]
    BY <1>0, <2>1, <2>2, SetFetcher DEF DeviceType
  <2>5. u.fetchers[f].bundle # None /\ \A g \in Fetchers \ {f} : u.fetchers[g] = s.fetchers[g]
    BY <1>0, <2>1, <2>4 DEF DeviceType
  <2> HIDE DEF u
  <2> QED BY <2>3, <2>4, <2>5, DidFinishLoadingSafe, ZenonT(30)
<1>5. CASE m \notin DevRevs /\ ~HasBundle(s.disk, m)
  <2>1. CacheOnlyFetchBundle(s, f) = DidFailWithError(s, f, TRUE)
    BY <1>5, Zenon DEF CacheOnlyFetchBundle
  <2>2. /\ DidFailWithError(s, f, TRUE) \in Safe
        /\ \A g \in Fetchers : DidFailWithError(s, f, TRUE).fetchers[g].bundle = s.fetchers[g].bundle
    BY DidFailWithErrorSafe, Zenon
  <2> QED BY <2>1, <2>2, Zenon
<1> QED BY <1>3, <1>4, <1>5

LEMMA CacheOnlyStartSafe ==
  ASSUME NEW s \in Safe, NEW f \in Fetchers, Fresh(s.fetchers[f]),
         s.fetchers[f].kind = "cacheOnly"
  PROVE  /\ CacheOnlyStart(s, f) \in Safe
         /\ \A g \in Fetchers \ {f} : CacheOnlyStart(s, f).fetchers[g].bundle = s.fetchers[g].bundle
<1> DEFINE m == LocalManifest(s.disk)
           x == [s.fetchers[f] EXCEPT !.pending = [op |-> "cached", rev |-> m]]
<1>0. s \in DeviceType /\ FetchersSafe(s)
  BY DEF Safe
<1>1. s.fetchers[f] \in Fetcher /\ FetcherSafe(s.disk, s.fetchers[f])
  BY <1>0 DEF DeviceType, FetchersSafe
<1>2. m \in Rev0
  BY <1>0, EnvironmentAssumption DEF DeviceType, Disk, LocalManifest, Rev0
<1> HIDE DEF m
<1>3. CASE s.fetchers[f].manifest # None
  <2>1. CacheOnlyStart(s, f) = CacheOnlyFetchBundle(s, f)
    BY <1>3, Zenon DEF CacheOnlyStart
  <2> QED BY <1>3, <2>1, CacheOnlyFetchBundleSafe
<1>4. CASE s.fetchers[f].manifest = None /\ m # None
  <2>1. x \in Fetcher
    BY <1>1, <1>2 DEF Fetcher, Pending, Ops
  <2>2. FetcherSafe(s.disk, x)
    BY <1>1, <1>2, <1>4 DEF Fetcher, FetcherSafe, Fresh, Rev0, Revs
  <2>3. CacheOnlyStart(s, f) = [s EXCEPT !.fetchers[f] = x]
    BY <1>0, <1>4 DEF CacheOnlyStart, DeviceType, m
  <2> HIDE DEF x
  <2>4. [s EXCEPT !.fetchers[f] = x] \in Safe
    BY <2>1, <2>2, SetFetcher
  <2> QED BY <1>0, <2>3, <2>4 DEF DeviceType
<1>5. CASE s.fetchers[f].manifest = None /\ m = None
  <2>1. CacheOnlyStart(s, f) = DidFailWithError(s, f, TRUE)
    BY <1>5, Zenon DEF CacheOnlyStart, m
  <2>2. /\ DidFailWithError(s, f, TRUE) \in Safe
        /\ \A g \in Fetchers : DidFailWithError(s, f, TRUE).fetchers[g].bundle = s.fetchers[g].bundle
    BY DidFailWithErrorSafe, Zenon
  <2> QED BY <2>1, <2>2, Zenon
<1> QED BY <1>3, <1>4, <1>5

-----------------------------------------------------------------------------
\* Starting fetchers.
LEMMA UnusedFree ==
  ASSUME NEW s, NEW g \in Free(s)
  PROVE  Unused(s) \in Fetchers /\ s.fetchers[Unused(s)] = NoObject
BY DEF Unused, Free

LEMMA NewFetcherSafe ==
  ASSUME NEW kind \in {"cacheOnly", "withTimeout", "dev"}, NEW m \in Rev0, NEW d
  PROVE  /\ NewFetcher(kind, m) \in Fetcher /\ FetcherSafe(d, NewFetcher(kind, m))
         /\ Fresh(NewFetcher(kind, m))
         /\ NewFetcher(kind, m).kind = kind /\ NewFetcher(kind, m).manifest = m
         /\ NewFetcher(kind, m).bundle = None
BY DEF NewFetcher, Fetcher, FetcherSafe, Fresh, Idle, Pending, Ops, ResourceRoles, None, Rev0

\* A new fetcher x becomes the loader's fetcher.
Started(s, new, x) == [s EXCEPT !.fetchers[new] = x, !.loader.fetcher = new]

LEMMA StartedSafe ==
  ASSUME NEW s \in Safe, NEW new \in Fetchers, NEW x \in Fetcher, FetcherSafe(s.disk, x)
  PROVE  /\ Started(s, new, x) \in Safe
         /\ Started(s, new, x).fetchers[new] = x
         /\ \A g \in Fetchers \ {new} : Started(s, new, x).fetchers[g] = s.fetchers[g]
         /\ Started(s, new, x).disk = s.disk
<1> DEFINE u == [s EXCEPT !.fetchers[new] = x]
           L == [s.loader EXCEPT !.fetcher = new]
           t == Started(s, new, x)
<1>0. s \in DeviceType /\ ConfirmedSafe(s)
  BY DEF Safe
<1>1. u \in Safe /\ u.disk = s.disk /\ u.loader = s.loader /\ u.fetchers = [s.fetchers EXCEPT ![new] = x]
  BY <1>0, SetFetcher DEF DeviceType
<1>2. L \in Loader /\ L.confirmed = s.loader.confirmed
  BY <1>0 DEF DeviceType, Loader
<1>3. t = [u EXCEPT !.loader = L]
  BY <1>0 DEF Started, DeviceType
<1>4. u.fetchers[new] = x /\ \A g \in Fetchers \ {new} : u.fetchers[g] = s.fetchers[g]
  BY <1>0, <1>1 DEF DeviceType
<1> HIDE DEF u, L
<1>5. [u EXCEPT !.loader = L] \in Safe
  BY <1>0, <1>1, <1>2, SetLoader DEF ConfirmedSafe
<1>6. /\ [u EXCEPT !.loader = L].fetchers = u.fetchers
      /\ [u EXCEPT !.loader = L].disk = u.disk
  BY <1>1 DEF Safe, DeviceType
<1> QED BY <1>1, <1>3, <1>4, <1>5, <1>6, ZenonT(30)

LEMMA StartCacheOnlySafe ==
  ASSUME NEW s \in Safe, NEW free \in Free(s), NEW m \in Rev0
  PROVE  /\ StartCacheOnly(s, m) \in Safe
         /\ \A g \in Fetchers : s.fetchers[g] # NoObject =>
              StartCacheOnly(s, m).fetchers[g].bundle = s.fetchers[g].bundle
<1> DEFINE new == Unused(s)
           x == NewFetcher("cacheOnly", m)
           t == Started(s, new, x)
<1>1. new \in Fetchers /\ s.fetchers[new] = NoObject
  BY UnusedFree
<1>2. x \in Fetcher /\ FetcherSafe(s.disk, x) /\ Fresh(x) /\ x.kind = "cacheOnly"
  BY NewFetcherSafe
<1>3. StartCacheOnly(s, m) = CacheOnlyStart(t, new)
  BY Zenon DEF StartCacheOnly, Started
<1> HIDE DEF new, x
<1>4. /\ t \in Safe /\ t.fetchers[new] = x
      /\ \A g \in Fetchers \ {new} : t.fetchers[g] = s.fetchers[g]
  BY <1>1, <1>2, StartedSafe
<1> HIDE DEF t
<1>5. /\ CacheOnlyStart(t, new) \in Safe
      /\ \A g \in Fetchers \ {new} : CacheOnlyStart(t, new).fetchers[g].bundle = t.fetchers[g].bundle
  BY <1>1, <1>2, <1>4, CacheOnlyStartSafe, Zenon
<1> QED BY <1>1, <1>3, <1>4, <1>5

LEMMA StartDevelopmentModeSafe ==
  ASSUME NEW s \in Safe, NEW free \in Free(s), NEW m \in Rev0, server \in Revs
  PROVE  StartDevelopmentMode(s, m) \in Safe
<1> DEFINE new == Unused(s)
           x == NewFetcher("dev", m)
           t == Started(s, new, x)
           y == [x EXCEPT !.pending = ManifestRequest]
<1>1. new \in Fetchers
  BY UnusedFree
<1>2. x \in Fetcher /\ FetcherSafe(s.disk, x) /\ x.bundle = None /\ Fresh(x)
  BY NewFetcherSafe
<1>3. ManifestRequest \in Pending /\ ManifestRequest.op = "manifest" /\ ManifestRequest.rev \in Revs
  BY DEF ManifestRequest, Pending, Ops, Revs, Rev0
<1> HIDE DEF new, x
<1>4. /\ t \in Safe /\ t \in DeviceType /\ t.fetchers[new] = x /\ t.disk = s.disk
  BY <1>1, <1>2, StartedSafe DEF Safe
<1>5. CASE m # None
  BY <1>4, <1>5, Zenon DEF StartDevelopmentMode, Started, new, x
<1>6. CASE m = None
  <2>1. y \in Fetcher /\ FetcherSafe(s.disk, y)
    BY <1>2, <1>3 DEF Fetcher, FetcherSafe, Fresh
  <2>2. StartDevelopmentMode(s, m) = [t EXCEPT !.fetchers[new].pending = ManifestRequest]
    BY <1>6, Zenon DEF StartDevelopmentMode, Started, new, x
  <2> HIDE DEF t
  <2>3. [t EXCEPT !.fetchers[new].pending = ManifestRequest] = [t EXCEPT !.fetchers[new] = y]
    BY <1>1, <1>4 DEF DeviceType
  <2> HIDE DEF y
  <2>4. [t EXCEPT !.fetchers[new] = y] \in Safe
    BY <1>1, <1>4, <2>1, SetFetcher
  <2> QED BY <2>2, <2>3, <2>4
<1> QED BY <1>5, <1>6

LEMMA FallBackToCacheSafe ==
  ASSUME NEW s \in Safe, NEW f \in Fetchers, NEW free \in Free(s)
  PROVE  /\ FallBackToCache(s, f) \in Safe
         /\ \A g \in Fetchers : s.fetchers[g] # NoObject =>
              FallBackToCache(s, f).fetchers[g].bundle = s.fetchers[g].bundle
<1> DEFINE L == [s.loader EXCEPT !.previous = f]
           t == [s EXCEPT !.loader = L]
<1>0. s \in DeviceType /\ ConfirmedSafe(s)
  BY DEF Safe
<1>1. L \in Loader /\ L.confirmed = s.loader.confirmed /\ L.cached = s.loader.cached /\ s.loader.cached \in Rev0
  BY <1>0 DEF DeviceType, Loader
<1>2. FallBackToCache(s, f) = StartCacheOnly(t, s.loader.cached)
  <2>1. t = [s EXCEPT !.loader.previous = f]
    BY <1>0 DEF DeviceType
  <2> QED BY <2>1, Zenon DEF FallBackToCache
<1> HIDE DEF L
<1>3. t \in Safe /\ t.fetchers = s.fetchers
  BY <1>0, <1>1, SetLoader DEF ConfirmedSafe, DeviceType
<1> HIDE DEF t
<1>4. free \in Free(t)
  BY <1>3 DEF Free
<1>5. /\ StartCacheOnly(t, s.loader.cached) \in Safe
      /\ \A g \in Fetchers : t.fetchers[g] # NoObject =>
           StartCacheOnly(t, s.loader.cached).fetchers[g].bundle = t.fetchers[g].bundle
  BY <1>1, <1>3, <1>4, StartCacheOnlySafe, Zenon
<1> QED BY <1>2, <1>3, <1>5

LEMMA StopTimerSafe ==
  ASSUME NEW s \in Safe, NEW f \in Fetchers
  PROVE  StopTimer(s, f) \in Safe
<1> DEFINE x == [s.fetchers[f] EXCEPT !.timer = FALSE]
<1>0. s \in DeviceType /\ FetchersSafe(s)
  BY DEF Safe
<1>1. s.fetchers[f] \in Fetcher /\ FetcherSafe(s.disk, s.fetchers[f])
  BY <1>0 DEF DeviceType, FetchersSafe
<1>2. x \in Fetcher /\ FetcherSafe(s.disk, x)
  BY <1>1 DEF Fetcher, FetcherSafe
<1>3. StopTimer(s, f) = [s EXCEPT !.fetchers[f] = x]
  BY <1>0 DEF StopTimer, DeviceType
<1> HIDE DEF x
<1> QED BY <1>2, <1>3, SetFetcher

-----------------------------------------------------------------------------
\* The fetcher with a timeout.  Its bundle may be set while its timer still runs, so the
\* hypothesis is about the state after StopTimer.
LEMMA WithTimeoutFinishSafe ==
  ASSUME NEW s \in DeviceType, NEW f \in Fetchers, NEW err \in BOOLEAN,
         StopTimer(s, f) \in Safe,
         NEW free \in Free(s), free # f
  PROVE  /\ WithTimeoutFinish(s, f, err) \in Safe
         /\ WithTimeoutFinish(s, f, err).fetchers[f].bundle = s.fetchers[f].bundle
<1> DEFINE stopped == StopTimer(s, f)
           resolved == IF s.fetchers[f].hasFinished /\ s.fetchers[f].manifest # None
                       THEN DidResolveUpdatedBundle(stopped, f, err) ELSE stopped
           x == [stopped.fetchers[f] EXCEPT !.hasFinished = TRUE]
           t == [resolved EXCEPT !.fetchers[f].hasFinished = TRUE]
<1>1. /\ stopped.fetchers[f].timer = FALSE
      /\ stopped.fetchers[f].bundle = s.fetchers[f].bundle
      /\ stopped.fetchers[free] = s.fetchers[free]
  BY DEF StopTimer, DeviceType, Fetcher, Free
<1>2. resolved \in Safe /\ resolved.fetchers = stopped.fetchers
  BY DidResolveUpdatedBundleSafe
<1> HIDE DEF stopped, resolved
<1>3. resolved \in DeviceType /\ FetchersSafe(resolved)
  BY <1>2 DEF Safe
<1>4. stopped.fetchers[f] \in Fetcher /\ FetcherSafe(resolved.disk, stopped.fetchers[f])
  BY <1>2, <1>3 DEF DeviceType, FetchersSafe
<1>5. /\ x \in Fetcher /\ FetcherSafe(resolved.disk, x)
      /\ x.bundle = s.fetchers[f].bundle /\ x.hasFinished = TRUE
  BY <1>1, <1>4 DEF Fetcher, FetcherSafe
<1>6. t = [resolved EXCEPT !.fetchers[f] = x]
  BY <1>2, <1>3 DEF DeviceType
<1>7. [resolved EXCEPT !.fetchers[f] = x].fetchers = [stopped.fetchers EXCEPT ![f] = x]
  BY <1>2, <1>3 DEF DeviceType
<1>8. free \in Fetchers /\ s.fetchers[free] = NoObject
  BY DEF Free
<1>9. stopped.fetchers \in [Fetchers -> Fetcher]
  BY <1>2, <1>3 DEF DeviceType
<1>10. WithTimeoutFinish(s, f, err) =
         CASE t.fetchers[f].bundle # None -> DidFinishLoading(t, f)
           [] t.fetchers[f].bundle = None /\ Manifest(t) # None -> FallBackToCache(t, f)
           [] OTHER -> DidFailWithError(t, f, err)
  BY Zenon DEF WithTimeoutFinish, stopped, resolved
<1> HIDE DEF x
<1>11. t \in Safe
  BY <1>2, <1>5, <1>6, SetFetcher
<1>12. t.fetchers = [stopped.fetchers EXCEPT ![f] = x]
  BY <1>6, <1>7
<1> HIDE DEF t
<1>13. t.fetchers[f] = x /\ t.fetchers[free] = NoObject /\ t.fetchers[f] # NoObject
  BY <1>1, <1>5, <1>8, <1>9, <1>12 DEF NoObject, NewFetcher
<1>14. free \in Free(t)
  BY <1>8, <1>13 DEF Free
<1>15. CASE t.fetchers[f].bundle # None
  BY <1>5, <1>10, <1>11, <1>13, <1>15, DidFinishLoadingSafe
<1>16. CASE t.fetchers[f].bundle = None /\ Manifest(t) # None
  <2>1. /\ FallBackToCache(t, f) \in Safe
        /\ FallBackToCache(t, f).fetchers[f].bundle = t.fetchers[f].bundle
    BY <1>11, <1>13, <1>14, FallBackToCacheSafe
  <2> QED BY <1>5, <1>10, <1>13, <1>16, <2>1
<1>17. CASE t.fetchers[f].bundle = None /\ Manifest(t) = None
  <2>1. /\ DidFailWithError(t, f, err) \in Safe
        /\ DidFailWithError(t, f, err).fetchers[f].bundle = t.fetchers[f].bundle
    BY <1>11, DidFailWithErrorSafe
  <2> QED BY <1>5, <1>10, <1>13, <1>17, <2>1
<1> QED BY <1>15, <1>16, <1>17

LEMMA StartWithTimeoutSafe ==
  ASSUME NEW s \in Safe, NEW zero, Room(s), server \in Revs
  PROVE  StartWithTimeout(s, zero) \in Safe
<1> DEFINE new == Unused(s)
           x == NewFetcher("withTimeout", None)
           started == Started(s, new, x)
           y == [x EXCEPT !.timer = TRUE]
<1>1. PICK free \in Free(s) : free # new
  BY DEF Room
<1>2. new \in Fetchers /\ free \in Fetchers /\ s.fetchers[free] = NoObject
  BY UnusedFree DEF Free
<1>3. None \in Rev0
  BY DEF None, Rev0
<1>4. /\ x \in Fetcher /\ FetcherSafe(s.disk, x)
      /\ x.bundle = None /\ x.kind = "withTimeout" /\ Fresh(x) /\ x.hasFinished = FALSE
  BY <1>3, NewFetcherSafe DEF NewFetcher
<1>5. StartWithTimeout(s, zero) =
        RequestManifest(IF zero THEN WithTimeoutFinish(started, new, FALSE)
                        ELSE [started EXCEPT !.fetchers[new].timer = TRUE], new)
  BY Zenon DEF StartWithTimeout, Started
<1> HIDE DEF new, x
<1>6. /\ started \in Safe /\ started \in DeviceType /\ started.fetchers[new] = x
      /\ started.disk = s.disk /\ started.fetchers[free] = s.fetchers[free]
  BY <1>1, <1>2, <1>4, StartedSafe DEF Safe
<1> HIDE DEF started
<1>7. CASE zero
  <2>1. free \in Free(started)
    BY <1>2, <1>6 DEF Free
  <2>2. StopTimer(started, new) \in Safe
    BY <1>2, <1>6, StopTimerSafe
  <2>3. /\ WithTimeoutFinish(started, new, FALSE) \in Safe
        /\ WithTimeoutFinish(started, new, FALSE).fetchers[new].bundle = None
    BY <1>1, <1>2, <1>4, <1>6, <2>1, <2>2, WithTimeoutFinishSafe
  <2> QED BY <1>2, <1>5, <1>7, <2>3, RequestManifestSafe
<1>8. CASE ~zero
  <2>1. y \in Fetcher /\ FetcherSafe(s.disk, y) /\ y.bundle = None
    <3>1. y \in Fetcher
      BY <1>4 DEF Fetcher
    <3>2. y.bundle = None /\ y.pending = Idle /\ y.kind = "withTimeout" /\ y.hasFinished = FALSE
      BY <1>4 DEF Fetcher, Fresh
    <3> HIDE DEF y
    <3> QED BY <3>1, <3>2 DEF FetcherSafe, Idle
  <2>2. [started EXCEPT !.fetchers[new].timer = TRUE] = [started EXCEPT !.fetchers[new] = y]
    BY <1>2, <1>6 DEF DeviceType
  <2>3. [started EXCEPT !.fetchers[new] = y].fetchers[new] = y
    BY <1>2, <1>6 DEF DeviceType
  <2> HIDE DEF y
  <2>4. [started EXCEPT !.fetchers[new] = y] \in Safe
    BY <1>2, <1>6, <2>1, SetFetcher
  <2>5. RequestManifest([started EXCEPT !.fetchers[new] = y], new) \in Safe
    BY <1>2, <2>1, <2>3, <2>4, RequestManifestSafe
  <2> QED BY <1>5, <1>8, <2>2, <2>5
<1> QED BY <1>7, <1>8

LEMMA WithTimeoutBundleSafe ==
  ASSUME NEW s \in Safe, NEW f \in Fetchers, NEW free \in Free(s), free # f,
         s.fetchers[f].pending = Idle,
         s.fetchers[f].manifest # None, OnDevice(s.disk, s.fetchers[f].manifest)
  PROVE  WithTimeoutBundle(s, f) \in Safe
<1> DEFINE m == s.fetchers[f].manifest
           b == [s EXCEPT !.fetchers[f].bundle = s.fetchers[f].manifest]
           x == [s.fetchers[f] EXCEPT !.bundle = m, !.timer = FALSE]
<1>0. s \in DeviceType /\ FetchersSafe(s)
  BY DEF Safe
<1>1. s.fetchers[f] \in Fetcher /\ FetcherSafe(s.disk, s.fetchers[f]) /\ m \in Rev0
  BY <1>0 DEF DeviceType, FetchersSafe, Fetcher
<1>2. x \in Fetcher /\ FetcherSafe(s.disk, x)
  <2>1. x \in Fetcher
    BY <1>1 DEF Fetcher
  <2>2. x.bundle = m /\ x.manifest = m /\ x.timer = FALSE /\ x.pending = Idle
    BY <1>1 DEF Fetcher
  <2>3. OnDevice(s.disk, x.manifest)
    BY <2>2
  <2> HIDE DEF x
  <2> QED BY <2>1, <2>2, <2>3 DEF FetcherSafe, Idle
<1>3. b \in DeviceType /\ b.fetchers[free] = s.fetchers[free]
  <2> DEFINE y == [s.fetchers[f] EXCEPT !.bundle = m]
             F == [s.fetchers EXCEPT ![f] = y]
  <2>1. y \in Fetcher
    BY <1>1 DEF Fetcher
  <2>2. b = [s EXCEPT !.fetchers = F]
    BY <1>0 DEF DeviceType
  <2> HIDE DEF y, b
  <2>3. F \in [Fetchers -> Fetcher] /\ F[f] = y /\ F[free] = s.fetchers[free]
    BY <1>0, <2>1 DEF DeviceType, Free
  <2> HIDE DEF F
  <2> QED BY <1>0, <2>1, <2>2, <2>3 DEF DeviceType
<1>4. free \in Free(b)
  BY <1>3 DEF Free
<1>5. StopTimer(b, f) = [s EXCEPT !.fetchers[f] = x]
  BY <1>0 DEF StopTimer, DeviceType
<1>6. WithTimeoutBundle(s, f) = WriteManifestToCache(WithTimeoutFinish(b, f, FALSE))
  BY Zenon DEF WithTimeoutBundle
<1> HIDE DEF x, b
<1>7. StopTimer(b, f) \in Safe
  BY <1>2, <1>5, SetFetcher
<1>8. WithTimeoutFinish(b, f, FALSE) \in Safe
  BY <1>3, <1>4, <1>7, WithTimeoutFinishSafe
<1> QED BY <1>6, <1>8, WriteManifestToCacheSafe

LEMMA WithTimeoutFetchBundleSafe ==
  ASSUME NEW s \in Safe, NEW f \in Fetchers, NEW free \in Free(s), free # f,
         s.fetchers[f].pending = Idle, s.fetchers[f].manifest # None
  PROVE  WithTimeoutFetchBundle(s, f) \in Safe
<1> DEFINE m == s.fetchers[f].manifest
           x == [s.fetchers[f] EXCEPT !.pending = [op |-> "bundle", rev |-> m]]
<1>0. s \in DeviceType /\ FetchersSafe(s)
  BY DEF Safe
<1>1. s.fetchers[f] \in Fetcher /\ FetcherSafe(s.disk, s.fetchers[f]) /\ m \in Revs
  BY <1>0 DEF DeviceType, FetchersSafe, Fetcher, Revs, Rev0
<1>2. CASE m \notin DevRevs /\ IsCacheUpToDate(s, f) /\ HasBundle(s.disk, m)
  <2>1. WithTimeoutFetchBundle(s, f) = WithTimeoutBundle(s, f)
    BY <1>2 DEF WithTimeoutFetchBundle
  <2>2. OnDevice(s.disk, s.fetchers[f].manifest)
    BY <1>2 DEF OnDevice
  <2> QED BY <2>1, <2>2, WithTimeoutBundleSafe
<1>3. CASE ~(m \notin DevRevs /\ IsCacheUpToDate(s, f) /\ HasBundle(s.disk, m))
  <2>1. x \in Fetcher /\ FetcherSafe(s.disk, x)
    BY <1>1 DEF Fetcher, FetcherSafe, Pending, Ops, Rev0, Revs
  <2>2. WithTimeoutFetchBundle(s, f) = [s EXCEPT !.fetchers[f] = x]
    BY <1>0, <1>3 DEF WithTimeoutFetchBundle, DeviceType
  <2> HIDE DEF x
  <2> QED BY <2>1, <2>2, SetFetcher
<1> QED BY <1>2, <1>3

LEMMA WithTimeoutManifestSafe ==
  ASSUME NEW s \in Safe, NEW f \in Fetchers, NEW m \in Revs, NEW free \in Free(s), free # f,
         s.fetchers[f].pending = Idle, s.fetchers[f].bundle = None,
         server \in Revs
  PROVE  WithTimeoutManifest(s, f, m) \in Safe
<1> DEFINE t == [s EXCEPT !.fetchers[f].manifest = m]
           x == [s.fetchers[f] EXCEPT !.manifest = m]
<1>0. s \in DeviceType /\ FetchersSafe(s)
  BY DEF Safe
<1>1. s.fetchers[f] \in Fetcher /\ FetcherSafe(s.disk, s.fetchers[f])
  BY <1>0 DEF DeviceType, FetchersSafe
<1>2. m \in Rev0 /\ m # None
  BY DEF Revs, Rev0
<1>3. /\ x \in Fetcher /\ FetcherSafe(s.disk, x)
      /\ x.manifest = m /\ x.pending = Idle
  BY <1>1, <1>2 DEF Fetcher, FetcherSafe, Idle
<1>4. t = [s EXCEPT !.fetchers[f] = x]
  BY <1>0 DEF DeviceType
<1>5. t.fetchers[f] = x /\ t.fetchers[free] = s.fetchers[free]
  BY <1>0, <1>4 DEF DeviceType, Free
<1>6. WithTimeoutManifest(s, f, m) =
        IF m \in DevRevs /\ t.fetchers[f].timer
        THEN StartDevelopmentMode(StopTimer(t, f), m) ELSE WithTimeoutFetchBundle(t, f)
  BY Zenon DEF WithTimeoutManifest
<1> HIDE DEF x
<1>7. t \in Safe
  BY <1>3, <1>4, SetFetcher
<1> HIDE DEF t
<1>8. free \in Free(t)
  BY <1>5 DEF Free
<1>9. StopTimer(t, f) \in Safe
  BY <1>7, StopTimerSafe
<1>10. free \in Free(StopTimer(t, f))
  BY <1>7, <1>8 DEF Free, StopTimer, Safe, DeviceType
<1>11. StartDevelopmentMode(StopTimer(t, f), m) \in Safe
  BY <1>2, <1>9, <1>10, StartDevelopmentModeSafe
<1>12. WithTimeoutFetchBundle(t, f) \in Safe
  BY <1>2, <1>3, <1>5, <1>7, <1>8, WithTimeoutFetchBundleSafe
<1> QED BY <1>6, <1>11, <1>12

-----------------------------------------------------------------------------
\* Requests of the loader, and the end of a callback.
LEMMA FetchBundleWithManifestSafe ==
  ASSUME NEW s \in Safe, NEW m \in Revs, Room(s), server \in Revs
  PROVE  FetchBundleWithManifest(s, m) \in Safe
<1>1. PICK free \in Free(s) : TRUE
  BY DEF Room
<1>2. None \in Rev0 /\ m \in Rev0
  BY DEF None, Rev0, Revs
<1>3. StartDevelopmentMode(s, None) \in Safe
  BY <1>2, StartDevelopmentModeSafe
<1>4. StartWithTimeout(s, m \in ZeroTimeoutRevs) \in Safe
  BY StartWithTimeoutSafe, Zenon
<1>5. StartCacheOnly(s, m) \in Safe
  BY <1>2, StartCacheOnlySafe
<1> QED BY <1>3, <1>4, <1>5, Zenon DEF FetchBundleWithManifest

LEMMA ResetSafe ==
  ASSUME NEW s \in Safe, NEW cacheOnly \in BOOLEAN
  PROVE  Reset(s, cacheOnly) \in Safe /\ (Room(s) => Room(Reset(s, cacheOnly)))
<1> DEFINE u == Unlinked(s)
           L == [NewLoader EXCEPT !.cacheOnly = cacheOnly]
           v == [u EXCEPT !.loader = L]
<1>1. u \in Safe /\ u \in DeviceType
  BY UnlinkedSafe DEF Safe
<1>2. \A f \in Free(s) : f \in Free(u)
  BY DEF Safe, DeviceType, Free, Unlinked, NoObject, NewFetcher
<1>3. L \in Loader /\ L.confirmed = None
  BY DEF NewLoader, Loader, None, Rev0
<1>4. NothingTold \in Delegate
  BY DEF NothingTold, Delegate, None, Rev0
<1>5. Reset(s, cacheOnly) = [v EXCEPT !.delegate = NothingTold]
  BY Zenon DEF Reset
<1> HIDE DEF u, L
<1>6. v \in Safe /\ v \in DeviceType /\ v.fetchers = u.fetchers
  BY <1>1, <1>3, SetLoader DEF Safe, DeviceType
<1> HIDE DEF v
<1>7. [v EXCEPT !.delegate = NothingTold] \in Safe
  BY <1>4, <1>6, SetDelegate
<1>8. [v EXCEPT !.delegate = NothingTold].fetchers = u.fetchers
  BY <1>6 DEF DeviceType
<1> QED BY <1>2, <1>5, <1>7, <1>8 DEF Room, Free

LEMMA ReleasedSafe ==
  ASSUME NEW s \in Safe
  PROVE  Released(s) \in Safe
<1> DEFINE gone(f) == [NoObject EXCEPT !.pending = s.fetchers[f].pending]
           F == [f \in Fetchers |-> IF Alive(s, f) THEN s.fetchers[f] ELSE gone(f)]
           t == [s EXCEPT !.fetchers = F]
<1>0. s \in DeviceType /\ ConfirmedSafe(s) /\ UpdatesSafe(s) /\ FetchersSafe(s)
  BY DEF Safe
<1>1. \A f \in Fetchers : s.fetchers[f] \in Fetcher /\ FetcherSafe(s.disk, s.fetchers[f])
  BY <1>0 DEF DeviceType, FetchersSafe
<1>2. ASSUME NEW f \in Fetchers, ~Alive(s, f)
      PROVE  gone(f) \in Fetcher /\ FetcherSafe(s.disk, gone(f))
  <2>1. s.fetchers[f].pending.op # "cached"
    BY <1>2 DEF Alive
  <2> QED BY <1>1, <2>1 DEF NoObject, NewFetcher, Fetcher, FetcherSafe, None, Rev0, ResourceRoles
<1>3. F \in [Fetchers -> Fetcher] /\ \A f \in Fetchers : FetcherSafe(s.disk, F[f])
  BY <1>1, <1>2
<1>4. Released(s) = t
  BY Zenon DEF Released
<1> HIDE DEF F
<1>5. t \in DeviceType /\ t.disk = s.disk /\ t.loader = s.loader /\ t.fetchers = F /\ t.updates = s.updates
  BY <1>0, <1>3 DEF DeviceType
<1> QED BY <1>0, <1>3, <1>4, <1>5 DEF Safe, ConfirmedSafe, UpdatesSafe, FetchersSafe

LEMMA BecomeSafe ==
  ASSUME NEW s \in Safe, Become(s)
  PROVE  /\ Device' \in Safe
         /\ disk' \in Disk /\ loader' \in Loader /\ fetchers' \in [Fetchers -> Fetcher]
         /\ updates' \in Updates /\ delegate' \in Delegate
<1> DEFINE r == Released(s)
<1>1. r \in Safe /\ r \in DeviceType
  BY ReleasedSafe DEF Safe
<1>2. /\ disk' = r.disk /\ loader' = r.loader /\ fetchers' = r.fetchers
      /\ updates' = r.updates /\ delegate' = r.delegate
  BY DEF Become
<1> HIDE DEF r
<1>3. Device' = r
  BY <1>1, <1>2 DEF Device, DeviceType
<1> QED BY <1>1, <1>2, <1>3 DEF DeviceType

\* A callback that ends in Become and leaves the rest alone keeps the invariant.
LEMMA BecomeInvariant ==
  ASSUME IInv, NEW s \in Safe, Become(s), server' \in Revs,
         recovering' \in BOOLEAN /\ localhost' \in BOOLEAN,
         cachedReads' \subseteq [request : Nat, rev : Revs],
         spent' \in [launches : Nat, requests : Nat, updates : Nat]
  PROVE  IInv'
BY BecomeSafe DEF IInv, TypeOK

LEMMA AnswerInvariant ==
  ASSUME IInv, NEW s \in Safe, Become(s), UNCHANGED <<server, localhost, recovering, cachedReads, spent>>
  PROVE  IInv'
<1>1. /\ server' \in Revs /\ recovering' \in BOOLEAN /\ localhost' \in BOOLEAN
      /\ cachedReads' \subseteq [request : Nat, rev : Revs]
      /\ spent' \in [launches : Nat, requests : Nat, updates : Nat]
  BY DEF IInv, TypeOK
<1> QED BY <1>1, BecomeInvariant

\* A request of fetcher f ends.
LEMMA AnsweredSafe ==
  ASSUME IInv, NEW f \in Fetchers
  PROVE  /\ Answered(f) \in Safe
         /\ Answered(f).disk = disk
         /\ Answered(f).fetchers[f] = [fetchers[f] EXCEPT !.pending = Idle, !.resource = "none"]
         /\ \A g \in Fetchers \ {f} : Answered(f).fetchers[g] = fetchers[g]
         /\ fetchers[f] \in Fetcher /\ FetcherSafe(disk, fetchers[f])
<1> DEFINE x == [fetchers[f] EXCEPT !.pending = Idle, !.resource = "none"]
<1>1. Device \in Safe /\ Device \in DeviceType /\ FetchersSafe(Device)
      /\ Device.fetchers = fetchers /\ Device.disk = disk
  BY DEF IInv, Safe, Device
<1>2. fetchers[f] \in Fetcher /\ FetcherSafe(disk, fetchers[f]) /\ fetchers \in [Fetchers -> Fetcher]
  BY <1>1 DEF DeviceType, FetchersSafe
<1>3. x \in Fetcher
  BY <1>2 DEF Fetcher, Idle, Pending, Ops, None, Rev0, ResourceRoles
<1>4. FetcherSafe(disk, x)
  BY <1>2 DEF Fetcher, FetcherSafe, Idle
<1>5. Answered(f) = [Device EXCEPT !.fetchers[f] = x]
  BY <1>1 DEF Answered, DeviceType
<1> HIDE DEF x
<1>6. [Device EXCEPT !.fetchers[f] = x] \in Safe
  BY <1>1, <1>3, <1>4, SetFetcher
<1>7. /\ [Device EXCEPT !.fetchers[f] = x].disk = disk
      /\ [Device EXCEPT !.fetchers[f] = x].fetchers = [fetchers EXCEPT ![f] = x]
  BY <1>1 DEF DeviceType
<1>8. x = [fetchers[f] EXCEPT !.pending = Idle, !.resource = "none"]
  BY DEF x
<1> QED BY <1>2, <1>5, <1>6, <1>7, <1>8

LEMMA OtherFree ==
  ASSUME Room(Device), NEW f \in Fetchers
  PROVE  \E free \in Free(Device) \ {f} : free \in Fetchers /\ fetchers[free] = NoObject
BY DEF Room, Free, Device

-----------------------------------------------------------------------------
\* One lemma for each action, in the order of Next.
LEMMA InitInvariant == Init => IInv
<1> SUFFICES ASSUME Init PROVE IInv
  OBVIOUS
<1>1. NoObject \in Fetcher /\ \A d : FetcherSafe(d, NoObject)
  BY DEF NoObject, NewFetcher, Fetcher, FetcherSafe, Idle, Pending, Ops, ResourceRoles, None, Rev0
<1>2. fetchers \in [Fetchers -> Fetcher] /\ \A f \in Fetchers : FetcherSafe(disk, fetchers[f])
  BY <1>1 DEF Init
<1>3. loader \in Loader /\ loader.confirmed = None
  BY DEF Init, NewLoader, Loader, None, Rev0
<1>4. updates \in Updates /\ updates.pending.op = "idle"
  BY DEF Init, NoUpdate, Updates, Idle, Pending, Ops, ResourceRoles, None, Rev0
<1>5. delegate \in Delegate
  BY DEF Init, NothingTold, Delegate, None, Rev0
<1>6. disk \in Disk
  BY DEF Init, Disk, Rev0, Revs, None
<1>7. server \in Revs
  <2>1. MaxRev \in Nat
    BY BoundsAssumption
  <2> QED BY <2>1 DEF Init, Revs, None
<1>8. /\ recovering \in BOOLEAN /\ localhost \in BOOLEAN /\ cachedReads = {}
      /\ spent \in [launches : Nat, requests : Nat, updates : Nat]
  BY EnvironmentAssumption DEF Init
<1> QED BY <1>2, <1>3, <1>4, <1>5, <1>6, <1>7, <1>8
  DEF IInv, TypeOK, Safe, DeviceType, Device, ConfirmedSafe, UpdatesSafe, FetchersSafe

LEMMA RequestInvariant ==
  ASSUME IInv, NEW cacheOnly \in BOOLEAN, Request(cacheOnly)
  PROVE  IInv'
<1> DEFINE s == Reset(Device, cacheOnly)
           m == LocalManifest(disk)
<1>0. /\ Device \in Safe /\ server \in Revs /\ recovering \in BOOLEAN /\ localhost \in BOOLEAN /\ disk \in Disk
      /\ spent \in [launches : Nat, requests : Nat, updates : Nat]
      /\ cachedReads \subseteq [request : Nat, rev : Revs]
  BY DEF IInv, TypeOK
<1>1. s \in Safe /\ Room(s)
  BY <1>0, ResetSafe DEF Request
<1>2. PICK free \in Free(s) : TRUE
  BY <1>1 DEF Room
<1>3. None \in Rev0 /\ m \in Rev0
  BY <1>0, EnvironmentAssumption DEF Disk, LocalManifest, Rev0, None
<1>4. /\ server' = server /\ recovering' = recovering /\ localhost' = localhost
      /\ spent' \in [launches : Nat, requests : Nat, updates : Nat]
  BY <1>0 DEF Request
<1> HIDE DEF s, m
<1>5. CASE Become(StartDevelopmentMode(s, None)) /\ UNCHANGED cachedReads
  <2>1. StartDevelopmentMode(s, None) \in Safe
    BY <1>0, <1>1, <1>2, <1>3, StartDevelopmentModeSafe
  <2> QED BY <1>0, <1>4, <1>5, <2>1, BecomeInvariant
<1>6. CASE Become(StartWithTimeout(s, FALSE)) /\ UNCHANGED cachedReads
  <2>1. StartWithTimeout(s, FALSE) \in Safe
    BY <1>0, <1>1, StartWithTimeoutSafe
  <2> QED BY <1>0, <1>4, <1>6, <2>1, BecomeInvariant
<1>7. CASE /\ m # None /\ Become(s)
           /\ cachedReads' = cachedReads \cup {[request |-> spent.requests, rev |-> m]}
  <2>1. cachedReads' \subseteq [request : Nat, rev : Revs]
    BY <1>0, <1>3, <1>7 DEF Rev0, Revs
  <2> QED BY <1>0, <1>1, <1>4, <1>7, <2>1, BecomeInvariant
<1> QED BY <1>5, <1>6, <1>7, Zenon DEF Request, s, m

LEMMA CachedManifestInvariant ==
  ASSUME IInv, NEW c \in cachedReads, CachedManifestVerified(c) \/ CachedManifestRejected(c)
  PROVE  IInv'
<1> DEFINE L == [loader EXCEPT !.cached = c.rev]
           s == [Device EXCEPT !.loader.cached = c.rev]
<1>0. /\ Device \in Safe /\ server \in Revs /\ recovering \in BOOLEAN /\ localhost \in BOOLEAN /\ loader \in Loader
      /\ spent \in [launches : Nat, requests : Nat, updates : Nat]
      /\ cachedReads \subseteq [request : Nat, rev : Revs]
      /\ ConfirmedSafe(Device) /\ Device.loader = loader /\ Device \in DeviceType
  BY DEF IInv, TypeOK, Safe, Device
<1>1. c.rev \in Revs
  BY <1>0
<1>2. /\ Room(Device) /\ server' = server /\ recovering' = recovering /\ localhost' = localhost /\ spent' = spent
      /\ cachedReads' \subseteq [request : Nat, rev : Revs]
  BY <1>0 DEF CachedManifestVerified, CachedManifestRejected
<1>3. s \in Safe /\ Room(s)
  <2>1. L \in Loader /\ L.confirmed = loader.confirmed
    BY <1>0, <1>1 DEF Loader, Rev0, Revs
  <2>2. s = [Device EXCEPT !.loader = L]
    BY <1>0
  <2> HIDE DEF L
  <2>3. [Device EXCEPT !.loader = L] \in Safe /\ [Device EXCEPT !.loader = L].fetchers = Device.fetchers
    BY <1>0, <2>1, SetLoader DEF ConfirmedSafe, DeviceType
  <2> HIDE DEF s
  <2> QED BY <1>2, <2>2, <2>3 DEF Room, Free
<1> HIDE DEF s
<1>4. CASE CachedManifestVerified(c)
  <2>1. FetchBundleWithManifest(s, c.rev) \in Safe
    BY <1>0, <1>1, <1>3, FetchBundleWithManifestSafe
  <2>2. Become(FetchBundleWithManifest(s, c.rev))
    BY <1>4, Zenon DEF CachedManifestVerified, s
  <2> QED BY <1>0, <1>2, <2>1, <2>2, BecomeInvariant
<1>5. CASE CachedManifestRejected(c)
  <2>1. StartWithTimeout(Device, FALSE) \in Safe
    BY <1>0, <1>2, StartWithTimeoutSafe
  <2>2. Become(StartWithTimeout(Device, FALSE))
    BY <1>5, Zenon DEF CachedManifestRejected
  <2> QED BY <1>0, <1>2, <2>1, <2>2, BecomeInvariant
<1> QED BY <1>4, <1>5

LEMMA RelaunchInvariant ==
  ASSUME IInv, Relaunch
  PROVE  IInv'
<1>0. /\ Device \in Safe /\ server \in Revs /\ localhost \in BOOLEAN /\ disk \in Disk
      /\ spent \in [launches : Nat, requests : Nat, updates : Nat]
      /\ UpdatesSafe(Device) /\ FetchersSafe(Device)
      /\ Device.updates = updates /\ Device.fetchers = fetchers
  BY DEF IInv, TypeOK, Safe, Device
<1>1. disk' \in Disk
  <2>1. CASE disk' = disk
    BY <1>0, <2>1
  <2>2. CASE \E f \in Fetchers : /\ fetchers[f].pending.op = "bundle"
                                 /\ disk' = StoreBundle(Device, fetchers[f].pending.rev).disk
    <3>1. PICK f \in Fetchers : /\ fetchers[f].pending.op = "bundle"
                                /\ disk' = StoreBundle(Device, fetchers[f].pending.rev).disk
      BY <2>2
    <3>2. fetchers[f].pending.rev \in Revs
      BY <1>0, <3>1 DEF FetchersSafe, FetcherSafe
    <3>3. StoreBundle(Device, fetchers[f].pending.rev) \in Safe
      BY <1>0, <3>2, StoreBundleSafe
    <3> QED BY <3>1, <3>3 DEF Safe, DeviceType
  <2>3. CASE updates.pending.op = "bundle" /\ disk' = StoreBundle(Device, updates.pending.rev).disk
    <3>1. updates.pending.rev \in Revs
      BY <1>0, <2>3 DEF UpdatesSafe
    <3>2. StoreBundle(Device, updates.pending.rev) \in Safe
      BY <1>0, <3>1, StoreBundleSafe
    <3> QED BY <2>3, <3>2 DEF Safe, DeviceType
  <2> QED BY <2>1, <2>2, <2>3, Zenon DEF Relaunch
<1>2. NoObject \in Fetcher /\ \A d : FetcherSafe(d, NoObject)
  BY DEF NoObject, NewFetcher, Fetcher, FetcherSafe, Idle, Pending, Ops, ResourceRoles, None, Rev0
<1>3. fetchers' \in [Fetchers -> Fetcher] /\ \A f \in Fetchers : FetcherSafe(disk', fetchers'[f])
  BY <1>2 DEF Relaunch
<1>4. loader' \in Loader /\ loader'.confirmed = None
  BY DEF Relaunch, NewLoader, Loader, None, Rev0
<1>5. updates' \in Updates /\ updates'.pending.op = "idle"
  BY DEF Relaunch, NoUpdate, Updates, Idle, Pending, Ops, ResourceRoles, None, Rev0
<1>6. delegate' \in Delegate
  BY DEF Relaunch, NothingTold, Delegate, None, Rev0
<1>7. /\ server' \in Revs /\ recovering' \in BOOLEAN /\ localhost' \in BOOLEAN /\ cachedReads' = {}
      /\ spent' \in [launches : Nat, requests : Nat, updates : Nat]
  <2>1. /\ server' = server /\ recovering' = FALSE /\ localhost' = localhost /\ cachedReads' = {}
        /\ spent' = [launches |-> spent.launches + 1, requests |-> 0, updates |-> 0]
    BY Zenon DEF Relaunch
  <2>2. spent.launches + 1 \in Nat
    BY <1>0
  <2>3. spent' \in [launches : Nat, requests : Nat, updates : Nat]
    BY <2>1, <2>2
  <2> QED BY <1>0, <2>1, <2>3
<1> QED BY <1>1, <1>3, <1>4, <1>5, <1>6, <1>7
  DEF IInv, TypeOK, Safe, DeviceType, Device, ConfirmedSafe, UpdatesSafe, FetchersSafe

LEMMA TimeOutInvariant ==
  ASSUME IInv, NEW f \in Fetchers, TimeOut(f)
  PROVE  IInv'
<1>1. Device \in Safe /\ Device \in DeviceType
  BY DEF IInv, Safe
<1>2. PICK free \in Free(Device) \ {f} : TRUE
  BY OtherFree DEF TimeOut
<1>3. StopTimer(Device, f) \in Safe
  BY <1>1, StopTimerSafe
<1>4. WithTimeoutFinish(Device, f, FALSE) \in Safe
  BY <1>1, <1>2, <1>3, WithTimeoutFinishSafe
<1> QED BY <1>4, AnswerInvariant DEF TimeOut

\* The data of a manifest of fetcher f reaches its resource.
LEMMA WithManifestDataSafe ==
  ASSUME IInv, NEW f \in Fetchers, NEW m \in Revs
  PROVE  WithManifestData(f, m) \in Safe /\ WithManifestData(f, m).fetchers = Answered(f).fetchers
<1>1. Answered(f) \in Safe /\ fetchers[f].resource \in ResourceRoles
  BY AnsweredSafe DEF Fetcher
<1> QED BY <1>1, ManifestDataSafe DEF WithManifestData

\* A manifest request that is pending is answered with a revision.
LEMMA AnswersRevs ==
  ASSUME NEW request \in Pending, request.rev \in Revs, server \in Revs, NEW m \in Answers(request)
  PROVE  m \in Revs
<1>1. server \in Nat /\ request.rev \in Nat /\ request.rev > 0
  BY DEF Revs, None
<1>2. m \in request.rev..server
  BY DEF Answers
<1> QED BY <1>1, <1>2 DEF Revs, None

LEMMA ManifestArrivesInvariant ==
  ASSUME IInv, NEW f \in Fetchers, ManifestArrives(f)
  PROVE  IInv'
<1>0. server \in Revs
  BY DEF IInv, TypeOK
<1>1. PICK free \in Free(Device) \ {f} : free \in Fetchers /\ fetchers[free] = NoObject
  BY OtherFree DEF ManifestArrives
<1>2. /\ fetchers[f] \in Fetcher /\ FetcherSafe(disk, fetchers[f])
      /\ Answered(f).fetchers[f] = [fetchers[f] EXCEPT !.pending = Idle, !.resource = "none"]
      /\ Answered(f).fetchers[free] = NoObject
      /\ Answered(f) \in Safe
  BY <1>1, AnsweredSafe
<1>3. /\ Answered(f).fetchers[f].pending = Idle
      /\ Answered(f).fetchers[f].bundle = None
      /\ fetchers[f].pending \in Pending /\ fetchers[f].pending.rev \in Revs
  BY <1>2 DEF ManifestArrives, FetcherSafe, Fetcher
<1>4. PICK m \in Answers(fetchers[f].pending) \ RefusedRevs :
        \/ /\ fetchers[f].kind = "withTimeout"
           /\ Become(WithTimeoutManifest(WithManifestData(f, m), f, m))
        \/ /\ fetchers[f].kind = "dev"
           /\ Become([Answered(f) EXCEPT !.fetchers[f].manifest = m])
  BY DEF ManifestArrives
<1>5. m \in Revs
  BY <1>0, <1>3, <1>4, AnswersRevs
<1>6. UNCHANGED <<server, localhost, recovering, cachedReads, spent>>
  BY DEF ManifestArrives
<1>7. CASE Become(WithTimeoutManifest(WithManifestData(f, m), f, m))
  <2>1. WithManifestData(f, m) \in Safe /\ WithManifestData(f, m).fetchers = Answered(f).fetchers
    BY <1>5, WithManifestDataSafe
  <2>2. free \in Free(WithManifestData(f, m)) /\ free # f
    BY <1>1, <1>2, <2>1 DEF Free
  <2>3. WithTimeoutManifest(WithManifestData(f, m), f, m) \in Safe
    BY <1>0, <1>3, <1>5, <2>1, <2>2, WithTimeoutManifestSafe
  <2> QED BY <1>6, <1>7, <2>3, AnswerInvariant
<1>8. CASE Become([Answered(f) EXCEPT !.fetchers[f].manifest = m])
  <2> DEFINE a == Answered(f)
             x == [a.fetchers[f] EXCEPT !.manifest = m]
  <2>1. a \in DeviceType /\ FetchersSafe(a)
    BY <1>2 DEF Safe
  <2>2. a.fetchers[f] \in Fetcher /\ FetcherSafe(a.disk, a.fetchers[f])
    BY <2>1 DEF DeviceType, FetchersSafe
  <2>3. [a EXCEPT !.fetchers[f].manifest = m] = [a EXCEPT !.fetchers[f] = x]
    BY <2>1 DEF DeviceType
  <2>4. a.fetchers[f].pending = Idle /\ a.fetchers[f].bundle = None
    BY <1>3
  <2> HIDE DEF a
  <2>5. x \in Fetcher
    BY <1>5, <2>2 DEF Fetcher, Revs, Rev0
  <2>6. FetcherSafe(a.disk, x)
    BY <2>2, <2>4 DEF Fetcher, FetcherSafe, Idle
  <2> HIDE DEF x
  <2>7. [a EXCEPT !.fetchers[f] = x] \in Safe
    BY <1>2, <2>5, <2>6, SetFetcher DEF a
  <2>8. Become([a EXCEPT !.fetchers[f] = x])
    BY <1>8, <2>3 DEF a
  <2> QED BY <1>6, <2>7, <2>8, AnswerInvariant
<1> QED BY <1>4, <1>7, <1>8

LEMMA ManifestFailsInvariant ==
  ASSUME IInv, NEW f \in Fetchers, ManifestFails(f)
  PROVE  IInv'
<1>0. server \in Revs
  BY DEF IInv, TypeOK
<1>1. PICK free \in Free(Device) \ {f} : free \in Fetchers /\ fetchers[free] = NoObject
  BY OtherFree DEF ManifestFails
<1>2. /\ fetchers[f] \in Fetcher /\ FetcherSafe(disk, fetchers[f])
      /\ Answered(f).fetchers[free] = NoObject /\ Answered(f) \in Safe
  BY <1>1, AnsweredSafe
<1>3. fetchers[f].pending \in Pending /\ fetchers[f].pending.rev \in Revs
  BY <1>2 DEF ManifestFails, FetcherSafe, Fetcher
<1>4. PICK s \in {Answered(f)} \cup
                {WithManifestData(f, m) : m \in Answers(fetchers[f].pending) \cap RefusedRevs} :
        \/ fetchers[f].kind = "withTimeout" /\ Become(WithTimeoutFinish(s, f, TRUE))
        \/ fetchers[f].kind = "dev" /\ Become(DidFailWithError(s, f, TRUE))
  BY DEF ManifestFails
<1>5. s \in Safe /\ s.fetchers[free] = NoObject
  <2>1. CASE s = Answered(f)
    BY <1>2, <2>1
  <2>2. ASSUME NEW m \in Answers(fetchers[f].pending), s = WithManifestData(f, m)
        PROVE  s \in Safe /\ s.fetchers[free] = NoObject
    BY <1>0, <1>2, <1>3, <2>2, AnswersRevs, WithManifestDataSafe
  <2> QED BY <1>4, <2>1, <2>2
<1>6. UNCHANGED <<server, localhost, recovering, cachedReads, spent>>
  BY DEF ManifestFails
<1>7. WithTimeoutFinish(s, f, TRUE) \in Safe
  <2>1. StopTimer(s, f) \in Safe /\ s \in DeviceType
    BY <1>5, StopTimerSafe DEF Safe
  <2>2. free \in Free(s) /\ free # f
    BY <1>1, <1>5 DEF Free
  <2> QED BY <2>1, <2>2, WithTimeoutFinishSafe, Zenon
<1>8. DidFailWithError(s, f, TRUE) \in Safe
  BY <1>5, DidFailWithErrorSafe, Zenon
<1> QED BY <1>4, <1>6, <1>7, <1>8, AnswerInvariant

\* Giving fetcher f a manifest or a bundle while it waits for nothing.
LEMMA CacheOnlyManifestInvariant ==
  ASSUME IInv, NEW f \in Fetchers, CacheOnlyManifestVerified(f) \/ CacheOnlyManifestRejected(f)
  PROVE  IInv'
<1> DEFINE a == Answered(f)
           m == fetchers[f].pending.rev
           x == [a.fetchers[f] EXCEPT !.manifest = m]
           s == [a EXCEPT !.fetchers[f] = x]
<1>1. /\ fetchers[f] \in Fetcher /\ FetcherSafe(disk, fetchers[f]) /\ a \in Safe
      /\ a.fetchers[f] = [fetchers[f] EXCEPT !.pending = Idle, !.resource = "none"]
  BY AnsweredSafe
<1>2. a \in DeviceType /\ FetchersSafe(a)
  BY <1>1 DEF Safe
<1>3. a.fetchers[f] \in Fetcher /\ FetcherSafe(a.disk, a.fetchers[f])
  BY <1>2 DEF DeviceType, FetchersSafe
<1>4. fetchers[f].pending.op = "cached" /\ UNCHANGED <<server, localhost, recovering, cachedReads, spent>>
  BY DEF CacheOnlyManifestVerified, CacheOnlyManifestRejected
<1>5. m \in Revs /\ Fresh(a.fetchers[f])
  BY <1>1, <1>4 DEF Fetcher, FetcherSafe, Fresh
<1>6. CASE CacheOnlyManifestVerified(f)
  <2>1. Become(CacheOnlyFetchBundle([a EXCEPT !.fetchers[f].manifest = m], f))
    BY <1>6 DEF CacheOnlyManifestVerified
  <2>2. [a EXCEPT !.fetchers[f].manifest = m] = s
    BY <1>2 DEF DeviceType
  <2> HIDE DEF a, m
  <2>3. x \in Fetcher /\ FetcherSafe(a.disk, x) /\ Fresh(x) /\ x.manifest # None
    BY <1>3, <1>5 DEF Fetcher, FetcherSafe, Fresh, Idle, Revs, Rev0
  <2>4. s.fetchers[f] = x
    BY <1>2 DEF DeviceType
  <2> HIDE DEF x
  <2>5. s \in Safe
    BY <1>1, <2>3, SetFetcher
  <2> HIDE DEF s
  <2>6. CacheOnlyFetchBundle(s, f) \in Safe
    BY <2>3, <2>4, <2>5, CacheOnlyFetchBundleSafe
  <2>7. Become(CacheOnlyFetchBundle(s, f))
    BY <2>1, <2>2
  <2> QED BY <1>4, <2>6, <2>7, AnswerInvariant
<1>7. CASE CacheOnlyManifestRejected(f)
  <2>1. DidFailWithError(a, f, TRUE) \in Safe
    BY <1>1, DidFailWithErrorSafe, Zenon
  <2>2. Become(DidFailWithError(a, f, TRUE))
    BY <1>7, Zenon DEF CacheOnlyManifestRejected
  <2> QED BY <1>4, <2>1, <2>2, AnswerInvariant
<1> QED BY <1>6, <1>7

LEMMA BundleArrivesInvariant ==
  ASSUME IInv, NEW f \in Fetchers, BundleArrives(f)
  PROVE  IInv'
<1> DEFINE a == Answered(f)
           m == fetchers[f].pending.rev
           s == StoreBundle(a, m)
           x == [s.fetchers[f] EXCEPT !.bundle = fetchers[f].manifest]
<1>1. PICK free \in Free(Device) \ {f} : free \in Fetchers /\ fetchers[free] = NoObject
  BY OtherFree DEF BundleArrives
<1>2. /\ fetchers[f] \in Fetcher /\ FetcherSafe(disk, fetchers[f]) /\ a \in Safe
      /\ a.fetchers[f] = [fetchers[f] EXCEPT !.pending = Idle, !.resource = "none"]
      /\ a.fetchers[free] = NoObject
  BY <1>1, AnsweredSafe
<1>3. fetchers[f].pending.op = "bundle" /\ UNCHANGED <<server, localhost, recovering, cachedReads, spent>>
  BY DEF BundleArrives
<1>4. /\ m \in Revs /\ (fetchers[f].kind # "none" => m = fetchers[f].manifest)
      /\ a.fetchers[f].pending = Idle /\ a.fetchers[f].manifest = fetchers[f].manifest
      /\ a.fetchers[f].kind = fetchers[f].kind /\ a.fetchers[f].timer = fetchers[f].timer
  BY <1>2, <1>3 DEF Fetcher, FetcherSafe
<1>5. \/ fetchers[f].kind = "none" /\ Become(s)
      \/ fetchers[f].kind = "withTimeout" /\ Become(WithTimeoutBundle(s, f))
      \/ /\ fetchers[f].kind \in {"cacheOnly", "dev"}
         /\ Become(DidFinishLoading([s EXCEPT !.fetchers[f].bundle = fetchers[f].manifest], f))
  BY Zenon DEF BundleArrives
<1> HIDE DEF a, m
<1>6. s \in Safe /\ OnDevice(s.disk, m) /\ s.fetchers = a.fetchers
  BY <1>2, <1>4, StoreBundleSafe
<1> HIDE DEF s
<1>7. CASE fetchers[f].kind = "none" /\ Become(s)
  BY <1>3, <1>6, <1>7, AnswerInvariant
<1>8. CASE fetchers[f].kind = "withTimeout" /\ Become(WithTimeoutBundle(s, f))
  <2>1. free \in Free(s) /\ free # f
    BY <1>1, <1>2, <1>6 DEF Free
  <2>2. s.fetchers[f].manifest # None /\ OnDevice(s.disk, s.fetchers[f].manifest)
    BY <1>4, <1>6, <1>8 DEF Revs
  <2>3. WithTimeoutBundle(s, f) \in Safe
    BY <1>4, <1>6, <2>1, <2>2, WithTimeoutBundleSafe
  <2> QED BY <1>3, <1>8, <2>3, AnswerInvariant
<1>9. CASE /\ fetchers[f].kind \in {"cacheOnly", "dev"}
           /\ Become(DidFinishLoading([s EXCEPT !.fetchers[f].bundle = fetchers[f].manifest], f))
  <2>1. s \in DeviceType /\ FetchersSafe(s)
    BY <1>6 DEF Safe
  <2>2. s.fetchers[f] \in Fetcher /\ FetcherSafe(s.disk, s.fetchers[f])
    BY <2>1 DEF DeviceType, FetchersSafe
  <2>3. fetchers[f].manifest = m /\ m # None /\ m \in Rev0
    BY <1>4, <1>9 DEF Revs, Rev0
  <2>4. s.fetchers[f].timer = FALSE /\ s.fetchers[f].pending = Idle /\ s.fetchers[f].manifest = m
    <3>1. fetchers[f].timer = FALSE
      BY <1>2, <1>9 DEF Fetcher, FetcherSafe
    <3> QED BY <1>4, <1>6, <2>3, <3>1
  <2>5. x \in Fetcher /\ x.bundle # None
    BY <2>2, <2>3 DEF Fetcher
  <2>6. FetcherSafe(s.disk, x)
    BY <1>6, <2>2, <2>3, <2>4 DEF Fetcher, FetcherSafe, Idle
  <2>7. [s EXCEPT !.fetchers[f].bundle = fetchers[f].manifest] = [s EXCEPT !.fetchers[f] = x]
    BY <2>1 DEF DeviceType
  <2> HIDE DEF x
  <2>8. [s EXCEPT !.fetchers[f] = x] \in Safe /\ [s EXCEPT !.fetchers[f] = x].fetchers[f] = x
    BY <1>6, <2>1, <2>5, <2>6, SetFetcher DEF DeviceType
  <2>9. DidFinishLoading([s EXCEPT !.fetchers[f] = x], f) \in Safe
    BY <2>5, <2>8, DidFinishLoadingSafe
  <2> QED BY <1>3, <1>9, <2>7, <2>9, AnswerInvariant
<1> QED BY <1>5, <1>7, <1>8, <1>9

LEMMA BundleFailsInvariant ==
  ASSUME IInv, NEW f \in Fetchers, BundleFails(f)
  PROVE  IInv'
<1>1. PICK free \in Free(Device) \ {f} : free \in Fetchers /\ fetchers[free] = NoObject
  BY OtherFree DEF BundleFails
<1>2. Answered(f) \in Safe /\ Answered(f).fetchers[free] = NoObject
  BY <1>1, AnsweredSafe
<1>3. UNCHANGED <<server, localhost, recovering, cachedReads, spent>>
  BY DEF BundleFails
<1>4. WithTimeoutFinish(Answered(f), f, TRUE) \in Safe
  <2>1. StopTimer(Answered(f), f) \in Safe /\ Answered(f) \in DeviceType
    BY <1>2, StopTimerSafe DEF Safe
  <2>2. free \in Free(Answered(f)) /\ free # f
    BY <1>1, <1>2 DEF Free
  <2> QED BY <2>1, <2>2, WithTimeoutFinishSafe, Zenon
<1>5. DidFailWithError(Answered(f), f, TRUE) \in Safe
  BY <1>2, DidFailWithErrorSafe, Zenon
<1>6. \/ Become(Answered(f)) \/ Become(WithTimeoutFinish(Answered(f), f, TRUE))
      \/ Become(DidFailWithError(Answered(f), f, TRUE))
  BY Zenon DEF BundleFails
<1> QED BY <1>2, <1>3, <1>4, <1>5, <1>6, AnswerInvariant

LEMMA ForceBundleReloadInvariant ==
  ASSUME IInv, ForceBundleReload
  PROVE  IInv'
<1> DEFINE f == loader.fetcher
           asked == [op |-> "bundle", rev |-> fetchers[f].manifest]
           x == [fetchers[f] EXCEPT !.bundle = None, !.pending = asked]
<1>1. Device \in Safe /\ Device \in DeviceType /\ FetchersSafe(Device)
      /\ Device.fetchers = fetchers /\ Device.disk = disk /\ Device.loader = loader
  BY DEF IInv, Safe, Device
<1>2. f \in Fetchers /\ fetchers[f].manifest \in Revs
  BY <1>1, PoliciesAssumption DEF ForceBundleReload, DeviceType, Loader
<1>3. fetchers[f] \in Fetcher /\ FetcherSafe(disk, fetchers[f])
  BY <1>1, <1>2 DEF DeviceType, FetchersSafe
<1>4. asked \in Pending /\ asked.op = "bundle" /\ asked.rev = fetchers[f].manifest
  BY <1>2 DEF Pending, Ops, Revs, Rev0
<1>5. fetchers[f].kind = "dev"
  BY DEF ForceBundleReload
<1>6. /\ Become([Device EXCEPT !.fetchers[f].bundle = None, !.fetchers[f].pending = asked])
      /\ UNCHANGED <<server, localhost, recovering, cachedReads, spent>>
  BY Zenon DEF ForceBundleReload
<1>7. [Device EXCEPT !.fetchers[f].bundle = None, !.fetchers[f].pending = asked]
        = [Device EXCEPT !.fetchers[f] = x]
  BY <1>1, <1>2 DEF DeviceType
<1> HIDE DEF asked, f
<1>8. x \in Fetcher
  BY <1>3, <1>4 DEF Fetcher, None, Rev0
<1>9. FetcherSafe(disk, x)
  BY <1>2, <1>3, <1>4, <1>5 DEF Fetcher, FetcherSafe
<1> HIDE DEF x
<1>10. [Device EXCEPT !.fetchers[f] = x] \in Safe
  BY <1>1, <1>2, <1>8, <1>9, SetFetcher
<1> QED BY <1>6, <1>7, <1>10, AnswerInvariant

LEMMA FetchUpdateInvariant ==
  ASSUME IInv, FetchUpdate
  PROVE  IInv'
<1> DEFINE r == RequestUpdateManifest(Device)
           u == [r.updates EXCEPT !.hasLoader = TRUE]
           s == [r EXCEPT !.updates.hasLoader = TRUE]
<1>1. /\ Device \in Safe /\ server \in Revs /\ recovering \in BOOLEAN /\ localhost \in BOOLEAN
      /\ cachedReads \subseteq [request : Nat, rev : Revs]
      /\ spent \in [launches : Nat, requests : Nat, updates : Nat]
  BY DEF IInv, TypeOK
<1>2. r \in Safe /\ r \in DeviceType /\ UpdatesSafe(r)
  BY <1>1, RequestUpdateManifestSafe DEF Safe
<1>3. Become(s) /\ spent' = [spent EXCEPT !.updates = @ + 1]
      /\ UNCHANGED <<server, localhost, recovering, cachedReads>>
  BY Zenon DEF FetchUpdate
<1> HIDE DEF r
<1>4. s = [r EXCEPT !.updates = u]
  BY <1>2 DEF DeviceType
<1>5. u \in Updates /\ (u.pending.op # "idle" => u.pending.rev \in Revs)
  BY <1>2 DEF DeviceType, Updates, UpdatesSafe
<1> HIDE DEF u, s
<1>6. s \in Safe
  BY <1>2, <1>4, <1>5, SetUpdates
<1>7. spent.updates + 1 \in Nat
  BY <1>1
<1>8. spent' \in [launches : Nat, requests : Nat, updates : Nat]
  BY <1>1, <1>3, <1>7
<1> QED BY <1>1, <1>3, <1>6, <1>8, BecomeInvariant

\* A request of the updates manager ends; its data reaches its resource.
LEMMA UpdateAnsweredSafe ==
  ASSUME IInv
  PROVE  /\ UpdateAnswered \in Safe
         /\ UpdateAnswered.updates = [updates EXCEPT !.pending = Idle, !.resource = "none"]
         /\ updates \in Updates
         /\ updates.pending.op # "idle" => updates.pending.rev \in Revs
         /\ \A m \in Revs : /\ WithUpdateData(m) \in Safe
                            /\ WithUpdateData(m).updates = UpdateAnswered.updates
<1> DEFINE u == [updates EXCEPT !.pending = Idle, !.resource = "none"]
<1>1. /\ Device \in Safe /\ Device \in DeviceType /\ UpdatesSafe(Device)
      /\ Device.updates = updates
  BY DEF IInv, Safe, Device
<1>2. updates \in Updates /\ (updates.pending.op # "idle" => updates.pending.rev \in Revs)
  BY <1>1 DEF DeviceType, UpdatesSafe
<1>3. u \in Updates /\ u.pending.op = "idle"
  BY <1>2 DEF Updates, Idle, Pending, Ops, None, Rev0, ResourceRoles
<1>4. UpdateAnswered = [Device EXCEPT !.updates = u]
  BY <1>1 DEF UpdateAnswered, DeviceType
<1> HIDE DEF u
<1>5. [Device EXCEPT !.updates = u] \in Safe /\ [Device EXCEPT !.updates = u].updates = u
  BY <1>1, <1>3, SetUpdates DEF DeviceType
<1>6. updates.resource \in ResourceRoles
  BY <1>2 DEF Updates
<1>7. ASSUME NEW m \in Revs
      PROVE  WithUpdateData(m) \in Safe /\ WithUpdateData(m).updates = UpdateAnswered.updates
  BY <1>4, <1>5, <1>6, ManifestDataSafe DEF WithUpdateData
<1>8. u = [updates EXCEPT !.pending = Idle, !.resource = "none"]
  BY DEF u
<1> QED BY <1>2, <1>4, <1>5, <1>7, <1>8

LEMMA UpdateManifestInvariant ==
  ASSUME IInv, UpdateManifestArrives \/ UpdateManifestFails
  PROVE  IInv'
<1>1. /\ UpdateAnswered \in Safe /\ updates \in Updates /\ server \in Revs
      /\ updates.pending.op = "manifest"
      /\ UNCHANGED <<server, localhost, recovering, cachedReads, spent>>
  BY UpdateAnsweredSafe DEF UpdateManifestArrives, UpdateManifestFails, IInv, TypeOK
<1>2. updates.pending \in Pending /\ updates.pending.rev \in Revs
  BY <1>1, UpdateAnsweredSafe DEF Updates
<1>3. ASSUME NEW m \in Answers(updates.pending)
      PROVE  m \in Revs /\ WithUpdateData(m) \in Safe
  BY <1>1, <1>2, AnswersRevs, UpdateAnsweredSafe
<1>4. ASSUME NEW m \in Answers(updates.pending), NEW op \in {"bundle", "lost"}
      PROVE  [WithUpdateData(m) EXCEPT !.updates.pending = [op |-> op, rev |-> m]] \in Safe
  <2> DEFINE w == WithUpdateData(m)
             asked == [op |-> op, rev |-> m]
             u == [w.updates EXCEPT !.pending = asked]
  <2>1. w \in Safe /\ w \in DeviceType /\ m \in Revs
    BY <1>3 DEF Safe
  <2>2. asked \in Pending /\ asked.rev \in Revs
    BY <1>4, <2>1 DEF Pending, Ops, Revs, Rev0
  <2> HIDE DEF w, asked
  <2>3. [w EXCEPT !.updates.pending = asked] = [w EXCEPT !.updates = u]
    BY <2>1 DEF DeviceType
  <2>4. u \in Updates /\ u.pending.rev \in Revs
    BY <2>1, <2>2 DEF DeviceType, Updates
  <2> HIDE DEF u
  <2>5. [w EXCEPT !.updates.pending = asked] \in Safe
    BY <2>1, <2>3, <2>4, SetUpdates
  <2> QED BY <2>5 DEF w, asked
<1>5. CASE UpdateManifestArrives
  <2>1. PICK m \in Answers(updates.pending) :
          \/ Become(WithUpdateData(m))
          \/ Become([WithUpdateData(m) EXCEPT !.updates.pending = [op |-> "bundle", rev |-> m]])
          \/ Become([WithUpdateData(m) EXCEPT !.updates.pending = [op |-> "lost", rev |-> m]])
    BY <1>5, Zenon DEF UpdateManifestArrives
  <2>2. /\ WithUpdateData(m) \in Safe
        /\ [WithUpdateData(m) EXCEPT !.updates.pending = [op |-> "bundle", rev |-> m]] \in Safe
        /\ [WithUpdateData(m) EXCEPT !.updates.pending = [op |-> "lost", rev |-> m]] \in Safe
    BY <1>3, <1>4
  <2> QED BY <1>1, <2>1, <2>2, AnswerInvariant
<1>6. CASE UpdateManifestFails
  <2>1. PICK s \in {UpdateAnswered} \cup
               {WithUpdateData(m) : m \in Answers(updates.pending) \cap RefusedRevs} : Become(s)
    BY <1>6 DEF UpdateManifestFails
  <2>2. s \in Safe
    BY <1>1, <1>3
  <2> QED BY <1>1, <2>1, <2>2, AnswerInvariant
<1> QED BY <1>5, <1>6

LEMMA UpdateBundleInvariant ==
  ASSUME IInv, UpdateBundleArrives \/ UpdateBundleFails
  PROVE  IInv'
<1>1. /\ UpdateAnswered \in Safe /\ updates.pending.rev \in Revs
      /\ UNCHANGED <<server, localhost, recovering, cachedReads, spent>>
  BY UpdateAnsweredSafe DEF UpdateBundleArrives, UpdateBundleFails
<1>2. ASSUME NEW t \in Safe
      PROVE  [t EXCEPT !.updates.hasLoader = FALSE] \in Safe
  <2> DEFINE u == [t.updates EXCEPT !.hasLoader = FALSE]
  <2>1. t \in DeviceType /\ UpdatesSafe(t)
    BY <1>2 DEF Safe
  <2>2. [t EXCEPT !.updates.hasLoader = FALSE] = [t EXCEPT !.updates = u]
    BY <2>1 DEF DeviceType
  <2>3. u \in Updates /\ (u.pending.op # "idle" => u.pending.rev \in Revs)
    BY <2>1 DEF DeviceType, Updates, UpdatesSafe
  <2> HIDE DEF u
  <2> QED BY <1>2, <2>2, <2>3, SetUpdates
<1>3. CASE UpdateBundleArrives
  <2> DEFINE s == StoreBundle(UpdateAnswered, updates.pending.rev)
             t == IF updates.hasLoader THEN WriteManifestToCache(s) ELSE s
  <2>1. s \in Safe
    BY <1>1, StoreBundleSafe
  <2>2. t \in Safe
    BY <2>1, WriteManifestToCacheSafe
  <2>3. Become([t EXCEPT !.updates.hasLoader = FALSE])
    BY <1>3, Zenon DEF UpdateBundleArrives
  <2> HIDE DEF t
  <2> QED BY <1>1, <1>2, <2>2, <2>3, AnswerInvariant
<1>4. CASE UpdateBundleFails
  <2>1. Become([UpdateAnswered EXCEPT !.updates.hasLoader = FALSE])
    BY <1>4, Zenon DEF UpdateBundleFails
  <2> QED BY <1>1, <1>2, <2>1, AnswerInvariant
<1> QED BY <1>3, <1>4

\* Steps that leave the device alone.
LEMMA DeviceUnchangedInvariant ==
  ASSUME IInv, UNCHANGED <<disk, loader, fetchers, updates, delegate>>,
         server' \in Revs, recovering' \in BOOLEAN /\ localhost' \in BOOLEAN,
         UNCHANGED <<cachedReads, spent>>
  PROVE  IInv'
<1>1. Device' = Device
  BY DEF Device
<1> QED BY <1>1 DEF IInv, TypeOK

LEMMA PublishInvariant ==
  ASSUME IInv, Publish
  PROVE  IInv'
<1>1. server' \in Revs /\ recovering' \in BOOLEAN /\ localhost' \in BOOLEAN
  BY DEF IInv, TypeOK, Publish, Revs, None
<1> QED BY <1>1, DeviceUnchangedInvariant DEF Publish

-----------------------------------------------------------------------------
\* Every step of the loader, its fetchers, the updates manager, the server and the user keeps
\* the inductive invariant.
THEOREM Inductive == IInv /\ [Next]_vars => IInv'
<1> SUFFICES ASSUME IInv, [Next]_vars PROVE IInv'
  OBVIOUS
<1>1. CASE Publish
  BY <1>1, PublishInvariant
<1>2. CASE Relaunch
  BY <1>2, RelaunchInvariant
<1>3. ASSUME NEW cacheOnly \in BOOLEAN, Request(cacheOnly)
      PROVE  IInv'
  BY <1>3, RequestInvariant
<1>4. CASE ReadAnswer
  BY <1>4, CachedManifestInvariant DEF ReadAnswer
<1>5. ASSUME NEW f \in Fetchers, FetcherAnswer(f)
      PROVE  IInv'
  BY <1>5, TimeOutInvariant, ManifestArrivesInvariant, ManifestFailsInvariant,
     CacheOnlyManifestInvariant, BundleArrivesInvariant, BundleFailsInvariant DEF FetcherAnswer
<1>6. CASE UpdateAnswer
  BY <1>6, UpdateManifestInvariant, UpdateBundleInvariant DEF UpdateAnswer
<1>7. CASE ForceBundleReload
  BY <1>7, ForceBundleReloadInvariant
<1>8. CASE FetchUpdate
  BY <1>8, FetchUpdateInvariant
<1>9. CASE ExperienceFails \/ ExperienceFinishedLoading
  <2>1. /\ UNCHANGED <<server, localhost, cachedReads, spent, disk, loader, fetchers, updates, delegate>>
        /\ server \in Revs /\ recovering' \in BOOLEAN /\ localhost' \in BOOLEAN
    BY <1>9 DEF ExperienceFails, ExperienceFinishedLoading, IInv, TypeOK
  <2> QED BY <2>1, DeviceUnchangedInvariant
<1>10. CASE UNCHANGED vars
  <2>1. /\ UNCHANGED <<cachedReads, spent, disk, loader, fetchers, updates, delegate>>
        /\ server' \in Revs /\ recovering' \in BOOLEAN /\ localhost' \in BOOLEAN
    BY <1>10 DEF vars, IInv, TypeOK
  <2> QED BY <2>1, DeviceUnchangedInvariant
<1> QED
  BY <1>1, <1>2, <1>3, <1>4, <1>5, <1>6, <1>7, <1>8, <1>9, <1>10 DEF Next

\* The inductive invariant holds in every reachable state.
THEOREM Invariant == Spec => []IInv
<1> QED BY InitInvariant, Inductive, PTL DEF Spec

\* Every reachable state of the loader, its fetchers, the caches and the updates manager is
\* well typed.
THEOREM TypeCorrect == Spec => []TypeOK
<1>1. IInv => TypeOK
  BY DEF IInv
<1> QED BY <1>1, Invariant, PTL

\* Whatever answers, timeouts, reloads, updates and restarts interleave, a manifest that
\* the loader has confirmed has its bundle on the device (or is served by the packager).
THEOREM ConfirmedManifestHasBundle == Spec => []ConfirmedHasBundle
<1>1. IInv => ConfirmedHasBundle
  BY DEF IInv, Safe, ConfirmedSafe, ConfirmedHasBundle, Device
<1> QED BY <1>1, Invariant, PTL

\* The fallbackToCacheTimeout timer never runs for a fetcher that has its bundle or has
\* finished: StopTimer is called on every way out.
THEOREM TimerRacesNothing == Spec => []TimerOnlyWhileUnanswered
<1>1. IInv => TimerOnlyWhileUnanswered
  BY DEF IInv, Safe, FetchersSafe, FetcherSafe, TimerOnlyWhileUnanswered, Device
<1> QED BY <1>1, Invariant, PTL
=============================================================================
