------------------------------ MODULE AppLoader ------------------------------
(***************************************************************************)
(* How the iOS kernel loads one app: an EXAppLoader, the EXAppFetchers it  *)
(* starts (network first with a timeout, cache only, development mode),    *)
(* the manifest and bundle caches on the device, the server that publishes *)
(* new revisions, and the update calls the running app makes itself.       *)
(*                                                                         *)
(* A manifest is its revision number; None (0) is "nil".  Revision r has   *)
(* one bundle, at a url of its own, also written r.  Every callback        *)
(* (network answer, verification, timer) is one action that runs to its    *)
(* end.  The calls it makes are operators from a device state s (a record  *)
(* of the variables the callback may touch) to the device state after it.  *)
(***************************************************************************)
EXTENDS Integers, FiniteSets

CONSTANTS
  Fetchers,              \* identities of EXAppFetcher objects (bounds how many coexist)
  NoFetcher,             \* nil
  MaxRev,                \* bound: revisions the server publishes
  MaxLaunches,           \* bound: times the process is started
  MaxReloads,            \* bound: reloads of the app within one run of the process
  MaxUpdates,            \* bound: fetchUpdateAsync calls within one run of the process
  IsDetached,            \* EXEnvironment.isDetached: a standalone app
  RemoteUpdatesEnabled,  \* EXEnvironment.areRemoteUpdatesEnabled
  OnLocalhost,           \* the values that localhost may have
  Embedded,              \* revision shipped in the app binary, None in the Expo client
  DevRevs,               \* revisions whose manifest enables developer tools
  ZeroTimeoutRevs,       \* updates.fallbackToCacheTimeout = 0
  RecoveryOnlyRevs,      \* updates.checkAutomatically = ON_ERROR_RECOVERY
  RefusedRevs            \* manifests this build cannot use (unreadable, no supported SDK version)

None == 0
Revs == Nat \ {None}
Rev0 == Nat

ASSUME FetchersAssumption == NoFetcher \notin Fetchers
ASSUME BoundsAssumption == {MaxRev, MaxLaunches, MaxReloads, MaxUpdates} \subseteq Nat
ASSUME EnvironmentAssumption ==
  /\ {IsDetached, RemoteUpdatesEnabled} \cup OnLocalhost \subseteq BOOLEAN
  /\ Embedded \in Nat /\ (Embedded # None => IsDetached)
ASSUME PoliciesAssumption ==
  \A revs \in {DevRevs, ZeroTimeoutRevs, RecoveryOnlyRevs, RefusedRevs} : revs \subseteq Revs

VARIABLES
  server,       \* the newest revision published
  localhost,    \* the manifest url is on localhost, or a debug build of a standalone app, fixed
  recovering,   \* EXErrorRecoveryManager: the experience is recovering from an error
  cachedReads,  \* cached manifests whose verification was started by _fetchCachedManifest
  spent,        \* what has been used of the bounds: [launches, requests, updates]
  disk,         \* the caches: [manifest, bundles]
  loader,       \* the EXAppLoader
  fetchers,     \* the EXAppFetchers
  updates,      \* EXUpdatesManager and the fetchUpdateAsync call in progress
  delegate      \* what the loader told its delegate about the current request

vars == <<server, localhost, recovering, cachedReads, spent, disk, loader, fetchers, updates,
          delegate>>

(***************************************************************************)
(* Data.                                                                   *)
(***************************************************************************)
Ops == {"idle", "cached", "manifest", "bundle", "lost"}
Pending == [op : Ops, rev : Rev0]      \* what a requester waits for
Idle == [op |-> "idle", rev |-> None]
\* where the EXManifestResource of a request under way stands: it is the one the
\* loader holds, or the loader has already let it write itself to the cache
ResourceRoles == {"none", "slot", "write"}

Fetcher ==
  [kind : {"none", "cacheOnly", "withTimeout", "dev"},
   manifest : Rev0, bundle : Rev0, error : BOOLEAN,
   hasFinished : BOOLEAN, timer : BOOLEAN,
   pending : Pending, resource : ResourceRoles]

Loader ==
  [confirmed : Rev0, cached : Rev0, error : BOOLEAN,
   fetcher : Fetchers \cup {NoFetcher}, previous : Fetchers \cup {NoFetcher},
   cacheOnly : BOOLEAN,
   slot : {"none", "loading", "loaded"}, slotData : Rev0]   \* _manifestResource

Updates == [pending : Pending, resource : ResourceRoles, hasLoader : BOOLEAN]

Disk == [manifest : Rev0, bundles : SUBSET Revs]

\* running: the app given to the bridge; resolved, announced: didResolveUpdatedBundle
Delegate == [running : Rev0, failed : BOOLEAN, resolved : BOOLEAN, announced : SUBSET Rev0]

TypeOK ==
  /\ server \in Revs
  /\ localhost \in BOOLEAN /\ recovering \in BOOLEAN
  /\ cachedReads \subseteq [request : Nat, rev : Revs]
  /\ spent \in [launches : Nat, requests : Nat, updates : Nat]
  /\ disk \in Disk
  /\ loader \in Loader
  /\ fetchers \in [Fetchers -> Fetcher]
  /\ updates \in Updates
  /\ delegate \in Delegate

NewFetcher(kind, manifest) ==
  [kind |-> kind, manifest |-> manifest, bundle |-> None, error |-> FALSE,
   hasFinished |-> FALSE, timer |-> FALSE, pending |-> Idle, resource |-> "none"]
NoObject == NewFetcher("none", None)
NewLoader ==
  [confirmed |-> None, cached |-> None, error |-> FALSE, fetcher |-> NoFetcher,
   previous |-> NoFetcher, cacheOnly |-> FALSE, slot |-> "none", slotData |-> None]
NoUpdate == [pending |-> Idle, resource |-> "none", hasLoader |-> FALSE]
NothingTold == [running |-> None, failed |-> FALSE, resolved |-> FALSE, announced |-> {}]

\* the device state a callback works on, and the end of a callback
Device == [disk |-> disk, loader |-> loader, fetchers |-> fetchers,
           updates |-> updates, delegate |-> delegate]

(***************************************************************************)
(* The caches.  A standalone app carries the manifest and bundle of the    *)
(* revision it was built with, and prefers the newer of embedded and cached. *)
(***************************************************************************)
LocalManifest(d) == IF Embedded > d.manifest THEN Embedded ELSE d.manifest
HasBundle(d, r) == r \in d.bundles \/ r = Embedded
UpdatesDisabled == IsDetached /\ ~RemoteUpdatesEnabled

\* mutant: all manifest requests of the loader share one resource
MutUnlinked(s) == s

\* the requests whose resource was the loader's _manifestResource lose that role
Unlinked(s) ==
  LET role(x) == IF x.resource = "slot" THEN [x EXCEPT !.resource = "none"] ELSE x
  IN [s EXCEPT !.fetchers = [f \in Fetchers |-> role(s.fetchers[f])],
               !.updates = role(s.updates)]

\* a manifest request is answered with a revision that was the newest between its sending
\* and its answer, so two of them may be answered out of order
ManifestRequest == [op |-> "manifest", rev |-> server]
Answers(request) == request.rev..server

\* fetchManifestWithCacheBehavior:EXManifestPrepareToCache, by a fetcher or the app
PrepareToCache(s) ==
  LET u == Unlinked(s) IN [u EXCEPT !.loader.slot = "loading", !.loader.slotData = None]
RequestManifest(s, f) ==
  [PrepareToCache(s) EXCEPT !.fetchers[f].pending = ManifestRequest,
                            !.fetchers[f].resource = "slot"]
RequestUpdateManifest(s) ==
  [PrepareToCache(s) EXCEPT !.updates.pending = ManifestRequest,
                            !.updates.resource = "slot"]

\* mutant: the manifest is cached as soon as it is downloaded
MutManifestData(s, role, m) ==
  IF role = "none" THEN s ELSE [s EXCEPT !.disk.manifest = m]

\* the data of a manifest request arrives: its resource keeps it, and writes it
\* at once if writeToCache was already called
ManifestData(s, role, m) ==
  CASE role = "slot"  -> [s EXCEPT !.loader.slot = "loaded", !.loader.slotData = m]
    [] role = "write" -> [s EXCEPT !.disk.manifest = m]
    [] OTHER          -> s

WriteManifestToCache(s) ==
  LET role(x) == IF x.resource = "slot" THEN [x EXCEPT !.resource = "write"] ELSE x
      done == [s EXCEPT !.loader.slot = "none", !.loader.slotData = None]
  IN CASE s.loader.slot = "loaded"  -> [done EXCEPT !.disk.manifest = s.loader.slotData]
       [] s.loader.slot = "loading" -> [done EXCEPT !.updates = role(s.updates),
             !.fetchers = [f \in Fetchers |-> role(s.fetchers[f])]]
       [] OTHER -> s

\* mutant: the cache has room for one bundle of the app
MutStoreBundle(s, m) ==
  IF m \in DevRevs THEN s ELSE [s EXCEPT !.disk.bundles = {m}]

\* a downloaded bundle is stored, except what the packager serves to developer tools
StoreBundle(s, m) ==
  IF m \in DevRevs THEN s ELSE [s EXCEPT !.disk.bundles = @ \cup {m}]

(***************************************************************************)
(* EXAppLoader: getters and what fetchers call on it.  It never compares   *)
(* the calling fetcher with the one it holds.                              *)
(***************************************************************************)
Current(s) ==
  IF s.loader.fetcher = NoFetcher THEN NoObject ELSE s.fetchers[s.loader.fetcher]

Status(s) ==
  CASE s.loader.error \/ Current(s).error -> "Error"
    [] ~(s.loader.error \/ Current(s).error)
         /\ Current(s).bundle # None /\ s.loader.confirmed # None -> "HasManifestAndBundle"
    [] ~(s.loader.error \/ Current(s).error)
         /\ ~(Current(s).bundle # None /\ s.loader.confirmed # None)
         /\ (s.loader.cached # None \/ Current(s).manifest # None) -> "HasManifest"
    [] OTHER -> "New"

Manifest(s) ==
  CASE s.loader.confirmed # None -> s.loader.confirmed
    [] s.loader.confirmed = None /\ Current(s).manifest # None -> Current(s).manifest
    [] OTHER -> s.loader.cached

IsCacheUpToDate(s, f) ==
  s.loader.cached # None /\ s.fetchers[f].manifest = s.loader.cached

\* mutant: the fetcher is released once it has finished
MutDidFinishLoading(s, f) ==
  [s EXCEPT !.loader.confirmed = s.fetchers[f].manifest,
            !.loader.fetcher = NoFetcher,
            !.delegate.running =
              IF @ = None /\ ~s.loader.error THEN s.fetchers[f].manifest ELSE @]

DidFinishLoading(s, f) ==
  [s EXCEPT !.loader.confirmed = s.fetchers[f].manifest,
            !.delegate.running =
              IF @ = None /\ ~s.loader.error THEN s.fetchers[f].manifest ELSE @]

\* mutant: the error is only told to the delegate
MutDidFailWithError(s, f, err) ==
  [s EXCEPT !.delegate.failed = TRUE, !.loader.previous = IF @ = f THEN NoFetcher ELSE @]

DidFailWithError(s, f, err) ==
  [s EXCEPT !.fetchers[f].error = err, !.loader.error = err, !.delegate.failed = TRUE,
            !.loader.previous = IF @ = f THEN NoFetcher ELSE @]

\* mutant: the fetcher is released, and the delegate not told
MutDidResolveUpdatedBundle(s, f, err) ==
  [s EXCEPT !.loader.previous = IF @ = f THEN NoFetcher ELSE @]

DidResolveUpdatedBundle(s, f, err) ==
  [s EXCEPT !.delegate.resolved = TRUE,
            !.delegate.announced =
              IF err \/ IsCacheUpToDate(s, f) THEN @ ELSE @ \cup {s.fetchers[f].manifest},
            !.loader.previous = IF @ = f THEN NoFetcher ELSE @]

(***************************************************************************)
(* EXAppFetcherCacheOnly.                                                  *)
(***************************************************************************)
\* mutant: the bundle of a cached manifest is assumed to be cached
MutCacheOnlyFetchBundle(s, f) ==
  LET m == s.fetchers[f].manifest
  IN IF m \in DevRevs THEN [s EXCEPT !.fetchers[f].pending = [op |-> "bundle", rev |-> m]]
     ELSE DidFinishLoading([s EXCEPT !.fetchers[f].bundle = m], f)

CacheOnlyFetchBundle(s, f) ==
  LET m == s.fetchers[f].manifest
  IN CASE m \in DevRevs -> [s EXCEPT !.fetchers[f].pending = [op |-> "bundle", rev |-> m]]
       [] m \notin DevRevs /\ HasBundle(s.disk, m) ->
            DidFinishLoading([s EXCEPT !.fetchers[f].bundle = m], f)
       [] OTHER -> DidFailWithError(s, f, TRUE)

CacheOnlyStart(s, f) ==
  LET m == LocalManifest(s.disk)
  IN CASE s.fetchers[f].manifest # None -> CacheOnlyFetchBundle(s, f)
       [] s.fetchers[f].manifest = None /\ m # None ->
            [s EXCEPT !.fetchers[f].pending = [op |-> "cached", rev |-> m]]
       [] OTHER -> DidFailWithError(s, f, TRUE)

(***************************************************************************)
(* Objects.  An EXAppFetcher is alive while the loader holds it, its timer *)
(* retains it, or the block of a manifest request captures it; bundle      *)
(* requests only hold it weakly, except for the progress block of          *)
(* development mode.  Free(s) are the identities not in use.               *)
(***************************************************************************)
Alive(s, f) ==
  \/ f \in {s.loader.fetcher, s.loader.previous}
  \/ s.fetchers[f].timer
  \/ s.fetchers[f].pending.op \in {"manifest", "cached"}
  \/ s.fetchers[f].kind = "dev" /\ s.fetchers[f].pending.op = "bundle"

Released(s) ==
  [s EXCEPT !.fetchers =
     [f \in Fetchers |->
        IF Alive(s, f) THEN s.fetchers[f]
        ELSE [NoObject EXCEPT !.pending = s.fetchers[f].pending]]]

Free(s) == {f \in Fetchers : s.fetchers[f] = NoObject}
Unused(s) == CHOOSE f \in Free(s) : TRUE

StartCacheOnly(s, m) ==
  LET new == Unused(s)
  IN CacheOnlyStart([s EXCEPT !.fetchers[new] = NewFetcher("cacheOnly", m),
                              !.loader.fetcher = new], new)

StartDevelopmentMode(s, m) ==
  LET new == Unused(s)
      started == [s EXCEPT !.fetchers[new] = NewFetcher("dev", m), !.loader.fetcher = new]
  IN IF m # None THEN started
     ELSE [started EXCEPT !.fetchers[new].pending = ManifestRequest]

(***************************************************************************)
(* EXAppFetcherWithTimeout.                                                *)
(***************************************************************************)
\* mutant: the timer is not stopped
MutStopTimer(s, f) == s

StopTimer(s, f) == [s EXCEPT !.fetchers[f].timer = FALSE]

\* mutant: the current fetcher is not retained
MutFallBackToCache(s, f) == StartCacheOnly(s, s.loader.cached)
\* mutant: the cache is asked for the loader's manifest, which may be the new one
MutFallBackToNewManifest(s, f) ==
  StartCacheOnly([s EXCEPT !.loader.previous = f], Manifest(s))

FallBackToCache(s, f) ==
  StartCacheOnly([s EXCEPT !.loader.previous = f], s.loader.cached)

\* mutant: an error of the network ends the request
MutWithTimeoutFinish(s, f, err) ==
  LET stopped == StopTimer(s, f)
      resolved == IF s.fetchers[f].hasFinished /\ s.fetchers[f].manifest # None
                  THEN DidResolveUpdatedBundle(stopped, f, err) ELSE stopped
      t == [resolved EXCEPT !.fetchers[f].hasFinished = TRUE]
  IN CASE t.fetchers[f].bundle # None -> DidFinishLoading(t, f)
       [] t.fetchers[f].bundle = None /\ ~err /\ Manifest(t) # None -> FallBackToCache(t, f)
       [] OTHER -> DidFailWithError(t, f, err)

WithTimeoutFinish(s, f, err) ==
  LET stopped == StopTimer(s, f)
      resolved == IF s.fetchers[f].hasFinished /\ s.fetchers[f].manifest # None
                  THEN DidResolveUpdatedBundle(stopped, f, err) ELSE stopped
      t == [resolved EXCEPT !.fetchers[f].hasFinished = TRUE]
  IN CASE t.fetchers[f].bundle # None -> DidFinishLoading(t, f)
       [] t.fetchers[f].bundle = None /\ Manifest(t) # None -> FallBackToCache(t, f)
       [] OTHER -> DidFailWithError(t, f, err)

StartWithTimeout(s, zero) ==
  LET new == Unused(s)
      started == [s EXCEPT !.fetchers[new] = NewFetcher("withTimeout", None),
                           !.loader.fetcher = new]
  IN RequestManifest(
       IF zero THEN WithTimeoutFinish(started, new, FALSE)
       ELSE [started EXCEPT !.fetchers[new].timer = TRUE], new)

\* mutant: the manifest is not written to the cache
MutWithTimeoutBundle(s, f) ==
  WithTimeoutFinish([s EXCEPT !.fetchers[f].bundle = s.fetchers[f].manifest], f, FALSE)

WithTimeoutBundle(s, f) ==
  WriteManifestToCache(WithTimeoutFinish(
    [s EXCEPT !.fetchers[f].bundle = s.fetchers[f].manifest], f, FALSE))

\* mutant: the bundle of the cached manifest is requested
MutWithTimeoutFetchBundle(s, f) ==
  [s EXCEPT !.fetchers[f].pending = [op |-> "bundle", rev |-> s.loader.cached]]

WithTimeoutFetchBundle(s, f) ==
  LET m == s.fetchers[f].manifest
  IN IF m \notin DevRevs /\ IsCacheUpToDate(s, f) /\ HasBundle(s.disk, m)
     THEN WithTimeoutBundle(s, f)
     ELSE [s EXCEPT !.fetchers[f].pending = [op |-> "bundle", rev |-> m]]

WithTimeoutManifest(s, f, m) ==
  LET t == [s EXCEPT !.fetchers[f].manifest = m]
  IN IF m \in DevRevs /\ t.fetchers[f].timer
     THEN StartDevelopmentMode(StopTimer(t, f), m)
     ELSE WithTimeoutFetchBundle(t, f)

(***************************************************************************)
(* EXAppLoader: requests.                                                  *)
(***************************************************************************)
\* mutant: the cache behaviour of the request is ignored
MutFetchBundleWithManifest(s, m) ==
  LET checkOnLaunch == m \notin RecoveryOnlyRevs \/ ~IsDetached \/ recovering
  IN CASE m \in DevRevs -> StartDevelopmentMode(s, None)
       [] m \notin DevRevs /\ checkOnLaunch /\ ~UpdatesDisabled ->
            StartWithTimeout(s, m \in ZeroTimeoutRevs)
       [] OTHER -> StartCacheOnly(s, m)

FetchBundleWithManifest(s, m) ==
  LET checkOnLaunch == m \notin RecoveryOnlyRevs \/ ~IsDetached \/ recovering
  IN CASE m \in DevRevs -> StartDevelopmentMode(s, None)
       [] m \notin DevRevs /\ checkOnLaunch /\ ~s.loader.cacheOnly /\ ~UpdatesDisabled ->
            StartWithTimeout(s, m \in ZeroTimeoutRevs)
       [] OTHER -> StartCacheOnly(s, m)

Reset(s, cacheOnly) ==
  [Unlinked(s) EXCEPT !.loader = [NewLoader EXCEPT !.cacheOnly = cacheOnly],
                      !.delegate = NothingTold]

-----------------------------------------------------------------------------
Room(s) == \E f, g \in Free(s) : f # g     \* bound: a callback creates at most two fetchers

Become(s) ==
  \E t \in {s} : \E r \in {Released(t)} :
    /\ disk' = r.disk
    /\ loader' = r.loader
    /\ fetchers' = r.fetchers
    /\ updates' = r.updates
    /\ delegate' = r.delegate

Init ==
  /\ server \in 1..MaxRev /\ server >= Embedded
  /\ \E r \in 0..server :
       disk = [manifest |-> r, bundles |-> {r} \ (DevRevs \cup {None})]
  /\ localhost \in OnLocalhost
  /\ recovering = FALSE
  /\ cachedReads = {}
  /\ spent = [launches |-> 0, requests |-> 0, updates |-> 0]
  /\ loader = NewLoader
  /\ fetchers = [f \in Fetchers |-> NoObject]
  /\ updates = NoUpdate
  /\ delegate = NothingTold

Publish ==
  /\ server < MaxRev
  /\ server' = server + 1
  /\ UNCHANGED <<localhost, recovering, cachedReads, spent, disk, loader, fetchers, updates,
                 delegate>>

\* the process is killed and started again: only the caches survive.  It may be killed in the
\* callback of a bundle request, between storing the bundle and the manifest
Relaunch ==
  /\ spent.launches < MaxLaunches
  /\ spent' = [launches |-> spent.launches + 1, requests |-> 0, updates |-> 0]
  /\ disk' \in {disk} \cup {StoreBundle(Device, p.rev).disk :
                            p \in {q \in {fetchers[f].pending : f \in Fetchers}
                                          \cup {updates.pending} : q.op = "bundle"}}
  /\ recovering' = FALSE
  /\ cachedReads' = {}
  /\ loader' = NewLoader
  /\ fetchers' = [f \in Fetchers |-> NoObject]
  /\ updates' = NoUpdate
  /\ delegate' = NothingTold
  /\ UNCHANGED <<server, localhost>>

\* request and requestFromCache; requests after the first are reloads
Request(cacheOnly) ==
  LET s == Reset(Device, cacheOnly)
      m == LocalManifest(disk)
  IN /\ spent.requests <= MaxReloads
     /\ Room(Device)
     /\ spent' = [spent EXCEPT !.requests = @ + 1]
     /\ \/ /\ localhost
           /\ Become(StartDevelopmentMode(s, None))
           /\ UNCHANGED cachedReads
        \/ /\ ~localhost
           /\ m = None
           /\ Become(StartWithTimeout(s, FALSE))
           /\ UNCHANGED cachedReads
        \/ /\ ~localhost
           /\ m # None
           /\ cachedReads' = cachedReads \cup {[request |-> spent.requests, rev |-> m]}
           /\ Become(s)
     /\ UNCHANGED <<server, localhost, recovering>>

CachedManifestVerified(c) ==
  /\ c \in cachedReads /\ c.rev \notin RefusedRevs
  /\ Room(Device)
  /\ cachedReads' = cachedReads \ {c}
  /\ Become(FetchBundleWithManifest([Device EXCEPT !.loader.cached = c.rev], c.rev))
  /\ UNCHANGED <<server, localhost, recovering, spent>>

CachedManifestRejected(c) ==
  /\ c \in cachedReads /\ c.rev \in RefusedRevs
  /\ Room(Device)
  /\ cachedReads' = cachedReads \ {c}
  /\ Become(StartWithTimeout(Device, FALSE))
  /\ UNCHANGED <<server, localhost, recovering, spent>>

TimeOut(f) ==
  /\ fetchers[f].timer
  /\ Room(Device)
  /\ Become(WithTimeoutFinish(Device, f, FALSE))
  /\ UNCHANGED <<server, localhost, recovering, cachedReads, spent>>

-----------------------------------------------------------------------------
\* Answers to fetchers.  A request that ends is no longer pending.
Answered(f) == [Device EXCEPT !.fetchers[f].pending = Idle, !.fetchers[f].resource = "none"]
WithManifestData(f, m) == ManifestData(Answered(f), fetchers[f].resource, m)

ManifestArrives(f) ==
  /\ fetchers[f].pending.op = "manifest"
  /\ Room(Device)
  /\ \E m \in Answers(fetchers[f].pending) \ RefusedRevs :
       \/ /\ fetchers[f].kind = "withTimeout"
          /\ Become(WithTimeoutManifest(WithManifestData(f, m), f, m))
       \/ /\ fetchers[f].kind = "dev"
          /\ Become([Answered(f) EXCEPT !.fetchers[f].manifest = m])
  /\ UNCHANGED <<server, localhost, recovering, cachedReads, spent>>

\* no answer, or a manifest that is refused after its resource has kept the data
ManifestFails(f) ==
  /\ fetchers[f].pending.op = "manifest"
  /\ Room(Device)
  /\ \E s \in {Answered(f)} \cup
             {WithManifestData(f, m) : m \in Answers(fetchers[f].pending) \cap RefusedRevs} :
       \/ fetchers[f].kind = "withTimeout" /\ Become(WithTimeoutFinish(s, f, TRUE))
       \/ fetchers[f].kind = "dev" /\ Become(DidFailWithError(s, f, TRUE))
  /\ UNCHANGED <<server, localhost, recovering, cachedReads, spent>>

CacheOnlyManifestVerified(f) ==
  /\ fetchers[f].pending.op = "cached" /\ fetchers[f].pending.rev \notin RefusedRevs
  /\ Become(CacheOnlyFetchBundle(
       [Answered(f) EXCEPT !.fetchers[f].manifest = fetchers[f].pending.rev], f))
  /\ UNCHANGED <<server, localhost, recovering, cachedReads, spent>>

CacheOnlyManifestRejected(f) ==
  /\ fetchers[f].pending.op = "cached" /\ fetchers[f].pending.rev \in RefusedRevs
  /\ Become(DidFailWithError(Answered(f), f, TRUE))
  /\ UNCHANGED <<server, localhost, recovering, cachedReads, spent>>

\* the bundle is stored even if the fetcher that asked for it is gone
BundleArrives(f) ==
  LET s == StoreBundle(Answered(f), fetchers[f].pending.rev)
  IN /\ fetchers[f].pending.op = "bundle"
     /\ Room(Device)
     /\ \/ fetchers[f].kind = "none" /\ Become(s)
        \/ fetchers[f].kind = "withTimeout" /\ Become(WithTimeoutBundle(s, f))
        \/ /\ fetchers[f].kind \in {"cacheOnly", "dev"}
           /\ Become(DidFinishLoading(
                [s EXCEPT !.fetchers[f].bundle = fetchers[f].manifest], f))
     /\ UNCHANGED <<server, localhost, recovering, cachedReads, spent>>

BundleFails(f) ==
  /\ fetchers[f].pending.op = "bundle"
  /\ Room(Device)
  /\ \/ fetchers[f].kind = "none" /\ Become(Answered(f))
     \/ fetchers[f].kind = "withTimeout" /\ Become(WithTimeoutFinish(Answered(f), f, TRUE))
     \/ /\ fetchers[f].kind \in {"cacheOnly", "dev"}
        /\ Become(DidFailWithError(Answered(f), f, TRUE))
  /\ UNCHANGED <<server, localhost, recovering, cachedReads, spent>>

\* the bridge (re)loads an app whose manifest enables developer tools, and only such an app.
\* Bound: one packager request at a time
ForceBundleReload ==
  LET f == loader.fetcher
  IN /\ f # NoFetcher
     /\ fetchers[f].kind = "dev" /\ fetchers[f].manifest \in DevRevs
     /\ fetchers[f].pending = Idle
     /\ Become([Device EXCEPT !.fetchers[f].bundle = None,
                  !.fetchers[f].pending = [op |-> "bundle", rev |-> fetchers[f].manifest]])
     /\ UNCHANGED <<server, localhost, recovering, cachedReads, spent>>

-----------------------------------------------------------------------------
\* Updates.fetchUpdateAsync, called by the app once a bundle runs.  The manifest it knows is the
\* one the bridge was created with, which may be an earlier one than delegate.running: whether
\* that has developer tools, and whether an answer is news to it, is left open
FetchUpdate ==
  /\ delegate.running # None
  /\ ~UpdatesDisabled
  /\ updates.pending = Idle
  /\ spent.updates < MaxUpdates
  /\ spent' = [spent EXCEPT !.updates = @ + 1]
  /\ Become([RequestUpdateManifest(Device) EXCEPT !.updates.hasLoader = TRUE])
  /\ UNCHANGED <<server, localhost, recovering, cachedReads>>

UpdateAnswered == [Device EXCEPT !.updates.pending = Idle, !.updates.resource = "none"]
WithUpdateData(m) == ManifestData(UpdateAnswered, updates.resource, m)

\* the revision the bridge was created with: nothing to do.  Otherwise the bundle is asked of
\* the loader's current fetcher; with none, the message goes to nil and is lost
UpdateManifestArrives ==
  /\ updates.pending.op = "manifest"
  /\ \E m \in Answers(updates.pending) \ RefusedRevs :
       \/ Become(WithUpdateData(m))
       \/ /\ loader.fetcher # NoFetcher
          /\ Become([WithUpdateData(m) EXCEPT !.updates.pending = [op |-> "bundle", rev |-> m]])
       \/ /\ loader.fetcher = NoFetcher
          /\ Become([WithUpdateData(m) EXCEPT !.updates.pending = [op |-> "lost", rev |-> m]])
  /\ UNCHANGED <<server, localhost, recovering, cachedReads, spent>>

UpdateManifestFails ==
  /\ updates.pending.op = "manifest"
  /\ \E s \in {UpdateAnswered} \cup
             {WithUpdateData(m) : m \in Answers(updates.pending) \cap RefusedRevs} :
       Become(s)
  /\ UNCHANGED <<server, localhost, recovering, cachedReads, spent>>

UpdateBundleArrives ==
  LET s == StoreBundle(UpdateAnswered, updates.pending.rev)
      t == IF updates.hasLoader THEN WriteManifestToCache(s) ELSE s
  IN /\ updates.pending.op = "bundle"
     /\ Become([t EXCEPT !.updates.hasLoader = FALSE])
     /\ UNCHANGED <<server, localhost, recovering, cachedReads, spent>>

UpdateBundleFails ==
  /\ updates.pending.op = "bundle"
  /\ Become([UpdateAnswered EXCEPT !.updates.hasLoader = FALSE])
  /\ UNCHANGED <<server, localhost, recovering, cachedReads, spent>>

\* what the running app tells EXErrorRecoveryManager
ExperienceFails ==
  /\ delegate.running # None \/ delegate.failed
  /\ recovering' = TRUE
  /\ UNCHANGED <<server, localhost, cachedReads, spent, disk, loader, fetchers, updates, delegate>>

ExperienceFinishedLoading ==
  /\ delegate.running # None
  /\ recovering' = FALSE
  /\ UNCHANGED <<server, localhost, cachedReads, spent, disk, loader, fetchers, updates, delegate>>

-----------------------------------------------------------------------------
FetcherAnswer(f) ==
  \/ TimeOut(f)
  \/ ManifestArrives(f) \/ ManifestFails(f)
  \/ CacheOnlyManifestVerified(f) \/ CacheOnlyManifestRejected(f)
  \/ BundleArrives(f) \/ BundleFails(f)
ReadAnswer == \E c \in cachedReads : CachedManifestVerified(c) \/ CachedManifestRejected(c)
UpdateAnswer ==
  \/ UpdateManifestArrives \/ UpdateManifestFails
  \/ UpdateBundleArrives \/ UpdateBundleFails

Next ==
  \/ Publish
  \/ Relaunch
  \/ \E cacheOnly \in BOOLEAN : Request(cacheOnly)
  \/ ReadAnswer
  \/ \E f \in Fetchers : FetcherAnswer(f)
  \/ UpdateAnswer
  \/ ForceBundleReload
  \/ FetchUpdate
  \/ ExperienceFails \/ ExperienceFinishedLoading

Spec == Init /\ [][Next]_vars

\* every network request is answered or fails (NSURLSession times out), timers fire
\* and verifications end; nothing obliges the user, the app or the server to act
Fairness ==
  /\ WF_vars(ReadAnswer)
  /\ \A f \in Fetchers : WF_vars(FetcherAnswer(f))
  /\ WF_vars(UpdateAnswer)
FairSpec == Spec /\ Fairness

-----------------------------------------------------------------------------
\* An app that is loaded and neither reloaded nor told to fetch an update.
Undisturbed == spent.requests <= 1 /\ spent.updates = 0

OnDevice(d, r) == r \in DevRevs \/ HasBundle(d, r)

\* The manifest in the cache is one whose bundle is on the device too, at every moment,
\* so also if the process is killed there.
CacheIsLoadable == disk.manifest # None => OnDevice(disk, disk.manifest)

\* The same of the manifest the loader may fall back to (cachedManifest).
CachedManifestHasBundle == loader.cached # None => OnDevice(disk, loader.cached)

\* A manifest the loader has confirmed is one whose bundle is on the device, whichever
\* fetcher confirmed it and for whichever request.
ConfirmedHasBundle == loader.confirmed # None => OnDevice(disk, loader.confirmed)

\* When a background update replaces the confirmed manifest under a running app, the
\* delegate has been told of that update.  (After a reload it may be the update of a fetcher of
\* the earlier request, announced to nobody.)
UpdateIsAnnounced ==
  spent.requests <= 1 /\ Status(Device) = "HasManifestAndBundle"
    => loader.confirmed \in {Current(Device).bundle} \cup delegate.announced

\* An update announced as downloaded is in the cache, manifest and bundle.
AnnouncedIsStored ==
  \A m \in delegate.announced \ DevRevs : HasBundle(disk, m) /\ LocalManifest(disk) >= m

\* A timer runs only for a fetcher that has not answered yet: a timeout cannot follow the
\* bundle or the failure it raced with.
TimerOnlyWhileUnanswered ==
  \A f \in Fetchers : fetchers[f].timer => ~fetchers[f].hasFinished /\ fetchers[f].bundle = None

\* No fetcher is deallocated while it still downloads a bundle.
DownloadIsHeld == \A f \in Fetchers : fetchers[f].pending.op = "bundle" => fetchers[f].kind # "none"

\* With a verified cached manifest, the app starts whatever the network does, unless it
\* turned into one with developer tools.
CachedAppStarts == loader.cached # None /\ Manifest(Device) \notin DevRevs => ~delegate.failed

\* With a cached manifest at hand, a request limited to the cache is not checking the network,
\* whatever fetchers of the earlier request still do.  (With a second reload it may: the read of
\* an earlier request is rejected late, and asks the network for the current one.)
CacheOnlyStaysOffline ==
  spent.requests <= 2 /\ (loader.cacheOnly \/ UpdatesDisabled) /\ loader.cached # None
    => Current(Device).kind # "withTimeout"

\* The cached manifest is never replaced by an older revision, whichever of the requests of the
\* launch and of one reload is answered late.  (A second reload may bring an older one back: the
\* first request writes its answer late, after the third.  So may a fetchUpdateAsync call, which
\* shares the loader's manifest resource.)
CacheNeverRollsBack ==
  [][spent.requests <= 2 /\ spent.updates = 0 => disk'.manifest >= disk.manifest]_vars

\* A request does not hang: again and again the loader has a manifest and bundle, an error, or
\* a manifest with developer tools and waits for forceBundleReload.  (As EXAppLoader.h describes
\* a request: one that found developer tools in the cached manifest may hang without them.)
RequestSettles ==
  []<>(\/ spent.requests = 0
       \/ Status(Device) \in {"HasManifestAndBundle", "Error"}
       \/ Current(Device).kind = "dev" /\ Current(Device).manifest \in DevRevs)

\* What the code does instead: a request hangs at most when the developer tools of its cached
\* manifest, or the host, made it one of development mode and the server sent another manifest.
RequestSettlesOrLosesDevTools ==
  []<>(\/ spent.requests = 0
       \/ Status(Device) \in {"HasManifestAndBundle", "Error"}
       \/ /\ Current(Device).kind = "dev" /\ Current(Device).manifest # None
          /\ Current(Device).manifest \in DevRevs \/ loader.cached \in DevRevs \/ localhost)

\* The running app hears of the update its timed out fetcher goes on downloading.
BackgroundUpdateResolves ==
  \A f \in Fetchers :
    (fetchers[f].kind = "withTimeout" /\ fetchers[f].hasFinished /\ fetchers[f].pending.op = "bundle")
      ~> (delegate.resolved \/ spent.requests = 0)

\* A fetchUpdateAsync call is answered.
FetchUpdateIsAnswered == (updates.pending # Idle) ~> (updates.pending = Idle)
=============================================================================
