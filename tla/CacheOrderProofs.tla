-------------------------- MODULE CacheOrderProofs --------------------------
(***************************************************************************)
(* Theorems about the caches and the requests of AppLoader, for every      *)
(* value of its constants: the cached manifest is never replaced by an     *)
(* older one, and a request limited to the cache stays off the network,    *)
(* both for an app that is loaded and reloaded once.                       *)
(***************************************************************************)
EXTENDS AppLoaderSteps

(***************************************************************************)
(* Before the verification of the first cached manifest has ended, nothing *)
(* else of the process has begun.                                          *)
(***************************************************************************)
Untouched(x) == x.kind = "none" /\ x.resource = "none" /\ x.pending = Idle /\ ~x.timer

NotBegun(s) ==
  /\ \A g \in Fetchers : Untouched(s.fetchers[g])
  /\ s.loader.fetcher = NoFetcher /\ s.loader.previous = NoFetcher
  /\ s.loader.cached = None /\ s.loader.confirmed = None
  /\ s.loader.slot = "none" /\ s.loader.slotData = None
  /\ s.updates = NoUpdate /\ s.delegate = NothingTold

Waiting == spent.requests = 0 \/ (spent.requests = 1 /\ cachedReads # {})

Begin ==
  /\ spent.requests = 0 => cachedReads = {}
  /\ Waiting => NotBegun(Device)
  /\ spent.requests = 1 =>
       /\ \A c \in cachedReads : c.rev = LocalManifest(disk)
       /\ \A c, d \in cachedReads : c = d

\* Fetchers answer, updates run and bundles are reloaded only once the process has begun.
LEMMA OnlyAfterBegin ==
  ASSUME Begin,
         (\E f \in Fetchers : FetcherAnswer(f)) \/ UpdateAnswer \/ ForceBundleReload \/ FetchUpdate
  PROVE  ~Waiting
<1> SUFFICES ASSUME NotBegun(Device) PROVE FALSE
  BY DEF Begin
<1>1. /\ \A g \in Fetchers : fetchers[g].pending.op = "idle" /\ ~fetchers[g].timer
      /\ loader.fetcher = NoFetcher /\ updates.pending.op = "idle" /\ delegate.running = None
  BY DeviceFields DEF DeviceFieldsAre, NotBegun, Untouched, Idle, NoUpdate, NothingTold
<1>2. CASE \E f \in Fetchers : FetcherAnswer(f)
  BY <1>1, <1>2 DEF FetcherAnswer, TimeOut, ManifestArrives, ManifestFails,
     CacheOnlyManifestVerified, CacheOnlyManifestRejected, BundleArrives, BundleFails
<1>3. CASE UpdateAnswer
  BY <1>1, <1>3 DEF UpdateAnswer, UpdateManifestArrives, UpdateManifestFails,
     UpdateBundleArrives, UpdateBundleFails
<1>4. CASE ForceBundleReload
  BY <1>1, <1>4 DEF ForceBundleReload
<1>5. CASE FetchUpdate
  BY <1>1, <1>5 DEF FetchUpdate
<1> QED BY <1>2, <1>3, <1>4, <1>5

\* A process that has not begun and is reset has still not begun.
LEMMA ResetNotBegun ==
  ASSUME NEW s \in DeviceType, NotBegun(s), NEW t, NEW cacheOnly, WasReset(s, t, cacheOnly)
  PROVE  NotBegun(t)
<1>1. \A g \in Fetchers : Untouched(t.fetchers[g])
  BY DEF NotBegun, WasReset, UnlinkedFrom, FetcherRelabelled, Relabelled, Untouched, DeviceType, Fetcher
<1>2. t.updates = NoUpdate
  <2>1. /\ t.updates.pending = Idle /\ t.updates.resource = "none" /\ t.updates.hasLoader = FALSE
        /\ t.updates \in Updates
    BY DEF NotBegun, WasReset, UnlinkedFrom, Relabelled, NoUpdate, DeviceType
  <2> QED BY <2>1 DEF Updates, NoUpdate
<1>3. t.delegate = NothingTold /\ t.loader = [NewLoader EXCEPT !.cacheOnly = cacheOnly]
  BY DEF WasReset
<1> QED BY <1>1, <1>2, <1>3 DEF NotBegun, NewLoader

LEMMA FreedNotBegun ==
  ASSUME NEW s \in DeviceType, NotBegun(s), NEW t, Freed(s, t)
  PROVE  NotBegun(t)
BY DEF NotBegun, Freed, GoneFrom, Untouched

LEMMA BeginInit == Init => Begin
BY DEF Init, Begin, Waiting, NotBegun, Device, Untouched, NoObject, NewFetcher, NewLoader

LEMMA BeginRequest ==
  ASSUME IInv, Begin, NEW cacheOnly \in BOOLEAN, Request(cacheOnly)
  PROVE  Begin'
<1> DEFINE s == Reset(Device, cacheOnly)
           m == LocalManifest(disk)
<1>1. /\ Device \in DeviceType /\ spent.requests \in Nat /\ spent' = [spent EXCEPT !.requests = @ + 1]
      /\ spent \in [launches : Nat, requests : Nat, updates : Nat]
  BY TypedDevice DEF Request
<1>2. spent'.requests = spent.requests + 1
  BY <1>1
<1>3. CASE spent.requests # 0
  BY <1>1, <1>2, <1>3 DEF Begin, Waiting
<1>4. CASE spent.requests = 0 /\ UNCHANGED cachedReads
  BY <1>2, <1>4 DEF Begin, Waiting
<1>5. CASE /\ spent.requests = 0 /\ Become(s)
           /\ cachedReads' = cachedReads \cup {[request |-> spent.requests, rev |-> m]}
  <2>1. NotBegun(Device) /\ cachedReads = {}
    BY <1>5 DEF Begin, Waiting
  <2>2. WasReset(Device, s, cacheOnly) /\ s \in DeviceType
    BY <1>1, ResetEffect DEF WasReset
  <2> HIDE DEF s
  <2>3. Freed(s, Device')
    BY <1>5, <2>2, BecomeEffect
  <2>4. NotBegun(Device')
    BY <1>1, <2>1, <2>2, <2>3, ResetNotBegun, FreedNotBegun
  <2>5. disk' = disk
    BY <2>2, <2>3 DEF Freed, WasReset, Device
  <2>6. \A c \in cachedReads' : c = [request |-> spent.requests, rev |-> m]
    BY <1>5, <2>1
  <2>7. \A c \in cachedReads' : c.rev = LocalManifest(disk')
    BY <2>5, <2>6
  <2> HIDE DEF m
  <2> QED BY <1>2, <1>5, <2>4, <2>6, <2>7 DEF Begin, NotBegun, Device
<1> QED BY <1>3, <1>4, <1>5, Zenon DEF Request

LEMMA BeginRead ==
  ASSUME IInv, Begin, NEW c \in cachedReads, CachedManifestVerified(c) \/ CachedManifestRejected(c)
  PROVE  Begin'
<1>1. cachedReads' = cachedReads \ {c} /\ spent' = spent
  BY DEF CachedManifestVerified, CachedManifestRejected
<1>2. spent.requests \in {0, 1} => cachedReads' = {}
  BY <1>1 DEF Begin
<1> QED BY <1>1, <1>2 DEF Begin, Waiting

LEMMA BeginRelaunch ==
  ASSUME Relaunch
  PROVE  Begin'
<1>1. spent'.requests = 0 /\ cachedReads' = {}
  BY DEF Relaunch
<1>2. NotBegun(Device)'
  BY DEF Relaunch, NotBegun, Device, Untouched, NoObject, NewFetcher, NewLoader
<1> QED BY <1>1, <1>2 DEF Begin

LEMMA BeginStep == IInv /\ Begin /\ [Next]_vars => Begin'
<1> SUFFICES ASSUME IInv, Begin, [Next]_vars PROVE Begin'
  OBVIOUS
<1>1. ASSUME (\E f \in Fetchers : FetcherAnswer(f)) \/ UpdateAnswer \/ ForceBundleReload \/ FetchUpdate
      PROVE  Begin'
  <2>1. ~Waiting
    BY <1>1, OnlyAfterBegin
  <2>2. spent'.requests = spent.requests /\ cachedReads' = cachedReads
    BY <1>1, TypedDevice DEF FetcherAnswer, TimeOut, ManifestArrives, ManifestFails,
       CacheOnlyManifestVerified, CacheOnlyManifestRejected, BundleArrives, BundleFails,
       UpdateAnswer, UpdateManifestArrives, UpdateManifestFails, UpdateBundleArrives,
       UpdateBundleFails, ForceBundleReload, FetchUpdate
  <2> QED BY <2>1, <2>2 DEF Begin, Waiting
<1>2. CASE Publish \/ ExperienceFails \/ ExperienceFinishedLoading \/ UNCHANGED vars
  <2>1. UNCHANGED <<spent, cachedReads, disk, loader, fetchers, updates, delegate>>
    BY <1>2 DEF Publish, ExperienceFails, ExperienceFinishedLoading, vars
  <2>2. Device' = Device
    BY <2>1 DEF Device
  <2> QED BY <2>1, <2>2 DEF Begin, Waiting, NotBegun
<1> QED BY <1>1, <1>2, BeginRequest, BeginRead, BeginRelaunch DEF Next, ReadAnswer

(***************************************************************************)
(* Most operators leave the manifest on disk and the loader's resource     *)
(* alone, and start no fetcher that uses the network.                      *)
(***************************************************************************)
SlotsKept(s, t) ==
  /\ t \in DeviceType
  /\ t.disk.manifest = s.disk.manifest /\ t.updates = s.updates
  /\ t.loader.slot = s.loader.slot /\ t.loader.slotData = s.loader.slotData
  /\ \A g \in Fetchers : t.fetchers[g].resource # "none" =>
       /\ t.fetchers[g].resource = s.fetchers[g].resource
       /\ t.fetchers[g].pending = s.fetchers[g].pending
       /\ t.fetchers[g].kind = s.fetchers[g].kind

UsesNet(s, g) == s.fetchers[g].kind = "withTimeout"

\* A request limited to the cache stays so, and goes to the network only if it did.
Calm(s, t) ==
  /\ t.loader.cached = s.loader.cached /\ t.loader.cacheOnly = s.loader.cacheOnly
  /\ Current(t).kind = "withTimeout" => Current(s).kind = "withTimeout"

Quiet(s, t) ==
  /\ SlotsKept(s, t) /\ Calm(s, t)
  /\ \A g \in Fetchers : UsesNet(t, g) => UsesNet(s, g)

LEMMA QuietTransitive ==
  ASSUME NEW s, NEW t, NEW u, Quiet(s, t), Quiet(t, u)
  PROVE  Quiet(s, u)
<1>1. SlotsKept(s, u)
  BY DEF Quiet, SlotsKept
<1> QED BY <1>1 DEF Quiet, Calm

\* The loader's fetcher is the same one, of the same kind.
LEMMA SameCurrent ==
  ASSUME NEW s \in DeviceType, NEW t \in DeviceType, t.loader.fetcher = s.loader.fetcher,
         \A g \in Fetchers : t.fetchers[g].kind = s.fetchers[g].kind
  PROVE  Current(t).kind = Current(s).kind
<1>1. s.loader.fetcher = NoFetcher \/ s.loader.fetcher \in Fetchers
  BY DEF DeviceType, Loader
<1> QED BY <1>1 DEF Current

LEMMA EndedQuiet ==
  ASSUME NEW s \in DeviceType, NEW u, NEW f \in Fetchers, NEW err, Ended(s, u, f, err)
  PROVE  Quiet(s, u)
<1>1. SlotsKept(s, u)
  BY DEF Ended, Kept, OthersKept, SlotsKept
<1>2. /\ u \in DeviceType /\ u.loader.fetcher = s.loader.fetcher
      /\ \A g \in Fetchers : u.fetchers[g].kind = s.fetchers[g].kind
      /\ u.loader.cached = s.loader.cached /\ u.loader.cacheOnly = s.loader.cacheOnly
  BY DEF Ended, Kept, OthersKept
<1> QED BY <1>1, <1>2, SameCurrent DEF Quiet, Calm, UsesNet

LEMMA FinishedQuiet ==
  ASSUME NEW s \in DeviceType, NEW t, NEW f \in Fetchers, Finished(s, t, f)
  PROVE  Quiet(s, t)
<1>1. SlotsKept(s, t)
  BY DEF Finished, Kept, SlotsKept
<1>2. /\ t \in DeviceType /\ t.loader.fetcher = s.loader.fetcher
      /\ \A g \in Fetchers : t.fetchers[g].kind = s.fetchers[g].kind
      /\ t.loader.cached = s.loader.cached /\ t.loader.cacheOnly = s.loader.cacheOnly
  BY DEF Finished, Kept
<1> QED BY <1>1, <1>2, SameCurrent DEF Quiet, Calm, UsesNet

LEMMA FailedQuiet ==
  ASSUME NEW s \in DeviceType, NEW t, NEW f \in Fetchers, Failed(s, t, f)
  PROVE  Quiet(s, t)
<1>1. SlotsKept(s, t)
  BY DEF Failed, Kept, OthersKept, Alike, SlotsKept
<1>2. /\ t \in DeviceType /\ t.loader.fetcher = s.loader.fetcher
      /\ \A g \in Fetchers : t.fetchers[g].kind = s.fetchers[g].kind
      /\ t.loader.cached = s.loader.cached /\ t.loader.cacheOnly = s.loader.cacheOnly
  BY DEF Failed, Kept, OthersKept, Alike
<1> QED BY <1>1, <1>2, SameCurrent DEF Quiet, Calm, UsesNet

LEMMA TookFromCacheQuiet ==
  ASSUME NEW s \in DeviceType, NEW t, NEW f \in Fetchers, TookFromCache(s, t, f),
         s.fetchers[f].resource = "none"
  PROVE  Quiet(s, t)
<1>1. /\ Kept(s, t) /\ OthersKept(s, t, f) /\ t.loader.fetcher = s.loader.fetcher
      /\ t.fetchers[f].kind = s.fetchers[f].kind
      /\ t.fetchers[f].resource = s.fetchers[f].resource
  BY Zenon DEF TookFromCache
<1>2. SlotsKept(s, t)
  BY <1>1 DEF Kept, OthersKept, SlotsKept
<1>3. /\ t \in DeviceType
      /\ \A g \in Fetchers : t.fetchers[g].kind = s.fetchers[g].kind
      /\ t.loader.cached = s.loader.cached /\ t.loader.cacheOnly = s.loader.cacheOnly
  BY <1>1 DEF Kept, OthersKept
<1> QED BY <1>1, <1>2, <1>3, SameCurrent DEF Quiet, Calm, UsesNet

\* A new fetcher that is not EXAppFetcherWithTimeout becomes the loader's.
LEMMA NewFetcherQuiet ==
  ASSUME NEW s \in DeviceType, NEW t, NEW new \in Fetchers, Kept(s, t), OthersKept(s, t, new),
         t.loader.fetcher = new,
         t.fetchers[new].kind # "withTimeout", t.fetchers[new].resource = "none"
  PROVE  Quiet(s, t)
<1>1. SlotsKept(s, t)
  BY DEF Kept, OthersKept, SlotsKept
<1>2. Current(t) = t.fetchers[new]
  BY FetchersAssumption DEF Current
<1> QED BY <1>1, <1>2 DEF Quiet, Calm, Kept, OthersKept, UsesNet

LEMMA CacheOnlyStartedQuiet ==
  ASSUME NEW s \in DeviceType, NEW t, NEW new \in Fetchers, NEW m, CacheOnlyStarted(s, t, new, m)
  PROVE  Quiet(s, t)
<1>1. /\ Kept(s, t) /\ OthersKept(s, t, new) /\ t.loader.fetcher = new
      /\ t.fetchers[new].kind # "withTimeout" /\ t.fetchers[new].resource = "none"
  BY DEF CacheOnlyStarted
<1> QED BY <1>1, NewFetcherQuiet

LEMMA DevStartedQuiet ==
  ASSUME NEW s \in DeviceType, NEW t, NEW new \in Fetchers, NEW m, DevStarted(s, t, new, m)
  PROVE  Quiet(s, t)
<1>1. /\ Kept(s, t) /\ OthersKept(s, t, new) /\ t.loader.fetcher = new
      /\ t.fetchers[new].kind # "withTimeout" /\ t.fetchers[new].resource = "none"
  BY DEF DevStarted
<1> QED BY <1>1, NewFetcherQuiet

LEMMA EndedAsQuiet ==
  ASSUME NEW s, NEW u \in DeviceType, NEW t, NEW f \in Fetchers, EndedAs(s, u, t, f)
  PROVE  Quiet(u, t)
BY FinishedQuiet, CacheOnlyStartedQuiet, FailedQuiet DEF EndedAs, FellBack

LEMMA SwappedQuiet ==
  ASSUME NEW s \in DeviceType, NEW t, NEW f \in Fetchers, NEW x, Swapped(s, t, f, x),
         x.kind = s.fetchers[f].kind, x.resource = "none"
  PROVE  Quiet(s, t)
<1>1. SlotsKept(s, t)
  BY DEF Swapped, OthersKept, SlotsKept
<1>2. /\ t \in DeviceType /\ t.loader.fetcher = s.loader.fetcher
      /\ \A g \in Fetchers : t.fetchers[g].kind = s.fetchers[g].kind
      /\ t.loader.cached = s.loader.cached /\ t.loader.cacheOnly = s.loader.cacheOnly
  BY DEF Swapped, OthersKept
<1> QED BY <1>1, <1>2, SameCurrent DEF Quiet, Calm, UsesNet

LEMMA FreedQuiet ==
  ASSUME NEW s \in DeviceType, NEW t, Freed(s, t)
  PROVE  Quiet(s, t)
<1>1. SlotsKept(s, t)
  BY DEF Freed, GoneFrom, SlotsKept
<1>2. \A g \in Fetchers : t.fetchers[g].kind = s.fetchers[g].kind \/ t.fetchers[g].kind = "none"
  BY DEF Freed, GoneFrom
<1>3. s.loader.fetcher = NoFetcher \/ s.loader.fetcher \in Fetchers
  BY DEF DeviceType, Loader
<1>4. /\ t.loader.fetcher = s.loader.fetcher
      /\ t.loader.cached = s.loader.cached /\ t.loader.cacheOnly = s.loader.cacheOnly
  BY DEF Freed
<1> QED BY <1>1, <1>2, <1>3, <1>4 DEF Quiet, Calm, UsesNet, Current

LEMMA StoredQuiet ==
  ASSUME NEW s \in DeviceType, NEW t, NEW m, Stored(s, t, m)
  PROVE  Quiet(s, t)
<1>1. SlotsKept(s, t)
  BY DEF Stored, SlotsKept
<1> QED BY <1>1 DEF Stored, Quiet, Calm, UsesNet, Current

\* The operators that are not quiet still leave the choice of fetchers alone.
LEMMA WrittenCalm ==
  ASSUME NEW s \in DeviceType, NEW t, Written(s, t)
  PROVE  Calm(s, t) /\ \A g \in Fetchers : UsesNet(t, g) <=> UsesNet(s, g)
<1>1. /\ t \in DeviceType /\ t.loader.fetcher = s.loader.fetcher
      /\ \A g \in Fetchers : t.fetchers[g].kind = s.fetchers[g].kind
      /\ t.loader.cached = s.loader.cached /\ t.loader.cacheOnly = s.loader.cacheOnly
  BY DEF Written, LoaderButSlot, FetcherRelabelled
<1> QED BY <1>1, SameCurrent DEF Calm, UsesNet

LEMMA DataArrivedCalm ==
  ASSUME NEW s \in DeviceType, NEW t, NEW role, NEW m, DataArrived(s, t, role, m)
  PROVE  Calm(s, t) /\ \A g \in Fetchers : UsesNet(t, g) <=> UsesNet(s, g)
<1>1. /\ t \in DeviceType /\ t.loader.fetcher = s.loader.fetcher
      /\ \A g \in Fetchers : t.fetchers[g].kind = s.fetchers[g].kind
      /\ t.loader.cached = s.loader.cached /\ t.loader.cacheOnly = s.loader.cacheOnly
  BY DEF DataArrived, LoaderButSlot
<1> QED BY <1>1, SameCurrent DEF Calm, UsesNet

(***************************************************************************)
(* The order of the cached manifests.  The resource of at most one request *)
(* may still write its answer to disk, an answer no older than what is     *)
(* there; once it is at the loader it is no older either.                  *)
(***************************************************************************)
Ordered(s) ==
  /\ s.updates = NoUpdate
  /\ \A g \in Fetchers : s.fetchers[g].resource # "none" =>
       /\ UsesNet(s, g)
       /\ s.fetchers[g].pending.op = "manifest"
       /\ s.fetchers[g].pending.rev >= s.disk.manifest
  /\ \A f, g \in Fetchers :
       s.fetchers[f].resource # "none" /\ s.fetchers[g].resource # "none" => f = g
  /\ s.loader.slot = "loaded" =>
       /\ s.loader.slotData >= s.disk.manifest
       /\ \A g \in Fetchers : s.fetchers[g].resource = "none"
  /\ \A g \in Fetchers : s.fetchers[g].resource = "write" => s.loader.slot = "none"

Writing(s) == \E g \in Fetchers : s.fetchers[g].resource = "write"
TwoUseNet(s) == \E f, g \in Fetchers : f # g /\ UsesNet(s, f) /\ UsesNet(s, g)

\* Nothing on the device is newer than the server.
Past(s) == s.disk.manifest <= server /\ s.loader.slotData <= server

\* Each request brings one read of the cache or one fetcher that uses the network, and a read
\* becomes at most one such fetcher.
Budget ==
  /\ spent.requests = 1 => ~TwoUseNet(Device)
  /\ spent.requests = 2 =>
       /\ TwoUseNet(Device) => cachedReads = {}
       /\ (\E g \in Fetchers : UsesNet(Device, g)) => \A c, d \in cachedReads : c = d
       /\ \A c, d, e \in cachedReads : c = d \/ c = e \/ d = e
  /\ Writing(Device) => spent.requests = 2 /\ cachedReads = {}

Undivided == spent.requests <= 2 /\ spent.updates = 0

OrderInv == Past(Device) /\ (Undivided => Ordered(Device) /\ Budget)

\* What answers do to the caches.
Forward(s, t) ==
  /\ t \in DeviceType /\ Calm(s, t)
  /\ Past(s) => Past(t)
  /\ Ordered(s) => Ordered(t) /\ t.disk.manifest >= s.disk.manifest
  /\ \A g \in Fetchers : UsesNet(t, g) => UsesNet(s, g)
  /\ Ordered(s) /\ Writing(t) => Writing(s) \/ TwoUseNet(s)

LEMMA Revisions ==
  ASSUME NEW s \in DeviceType
  PROVE  /\ s.disk.manifest \in Nat /\ s.loader.slotData \in Nat /\ s.loader.cached \in Nat
         /\ \A g \in Fetchers : s.fetchers[g].pending.rev \in Nat
BY DEF DeviceType, Disk, Loader, Fetcher, Pending, Rev0

LEMMA QuietForward ==
  ASSUME NEW s \in DeviceType, NEW t, Quiet(s, t)
  PROVE  Forward(s, t)
<1>1. t \in DeviceType /\ t.disk.manifest = s.disk.manifest /\ s.disk.manifest \in Nat
      /\ t.loader.slot = s.loader.slot /\ t.loader.slotData = s.loader.slotData
      /\ t.updates = s.updates
  BY Revisions DEF Quiet, SlotsKept
<1>2. \A g \in Fetchers : t.fetchers[g].resource # "none" =>
        /\ t.fetchers[g].resource = s.fetchers[g].resource
        /\ t.fetchers[g].pending = s.fetchers[g].pending
        /\ t.fetchers[g].kind = s.fetchers[g].kind
  BY DEF Quiet, SlotsKept
<1>3. Past(s) => Past(t)
  BY <1>1 DEF Past
<1>4. Ordered(s) => Ordered(t)
  BY <1>1, <1>2 DEF Ordered, UsesNet
<1>5. Writing(t) => Writing(s)
  BY <1>2 DEF Writing
<1> QED BY <1>1, <1>3, <1>4, <1>5 DEF Forward, Quiet

LEMMA ForwardTransitive ==
  ASSUME NEW s \in DeviceType, NEW t, NEW u, Forward(s, t), Forward(t, u)
  PROVE  Forward(s, u)
<1>1. t \in DeviceType /\ u \in DeviceType /\ Calm(s, u)
  BY DEF Forward, Calm
<1>2. s.disk.manifest \in Nat /\ t.disk.manifest \in Nat /\ u.disk.manifest \in Nat
  BY <1>1, Revisions
<1>3. TwoUseNet(t) => TwoUseNet(s)
  BY DEF Forward, TwoUseNet
<1> QED BY <1>1, <1>2, <1>3 DEF Forward

\* Writing the manifest while the fetcher f has its bundle.
LEMMA WrittenForward ==
  ASSUME NEW s \in DeviceType, NEW t, NEW f \in Fetchers, Written(s, t), server \in Nat,
         UsesNet(s, f), s.fetchers[f].resource = "none"
  PROVE  Forward(s, t)
<1>1. t \in DeviceType /\ Calm(s, t) /\ \A g \in Fetchers : UsesNet(t, g) => UsesNet(s, g)
  BY WrittenCalm DEF Written
<1>2. s.disk.manifest \in Nat /\ s.loader.slotData \in Nat /\ t.loader.slotData \in Nat
  BY <1>1, Revisions
<1>3. CASE s.loader.slot = "loaded"
  <2>1. /\ t.disk.manifest = s.loader.slotData /\ t.loader.slotData = None
        /\ t.loader.slot = "none" /\ t.fetchers = s.fetchers /\ t.updates = s.updates
    BY <1>3 DEF Written
  <2>2. Past(s) => Past(t)
    BY <1>2, <2>1 DEF Past, None
  <2>3. Ordered(s) => Ordered(t) /\ t.disk.manifest >= s.disk.manifest
    BY <1>2, <1>3, <2>1 DEF Ordered, UsesNet
  <2> QED BY <1>1, <2>1, <2>2, <2>3 DEF Forward, Writing
<1>4. CASE s.loader.slot = "loading"
  <2>1. /\ t.disk.manifest = s.disk.manifest /\ t.loader.slotData = None
        /\ t.loader.slot = "none"
        /\ \A g \in Fetchers : FetcherRelabelled(s.fetchers[g], t.fetchers[g], "slot", "write")
        /\ Relabelled(s.updates, t.updates, "slot", "write")
        /\ t.updates.hasLoader = s.updates.hasLoader
    BY <1>4 DEF Written
  <2>2. Past(s) => Past(t)
    BY <1>2, <2>1 DEF Past, None
  <2>3. ASSUME s.updates = NoUpdate
        PROVE  t.updates = NoUpdate
    <3>1. /\ t.updates.pending = Idle /\ t.updates.resource = "none"
          /\ t.updates.hasLoader = FALSE /\ t.updates \in Updates
      BY <1>1, <2>1, <2>3 DEF Relabelled, NoUpdate, DeviceType
    <3> QED BY <3>1 DEF Updates, NoUpdate
  <2>4. \A g \in Fetchers :
          /\ t.fetchers[g].pending = s.fetchers[g].pending
          /\ t.fetchers[g].kind = s.fetchers[g].kind
          /\ t.fetchers[g].resource # "none" => s.fetchers[g].resource # "none"
    BY <2>1 DEF FetcherRelabelled, Relabelled
  <2>5. Ordered(s) => Ordered(t) /\ t.disk.manifest >= s.disk.manifest
    BY <1>2, <2>1, <2>3, <2>4 DEF Ordered, UsesNet
  <2>6. ASSUME Ordered(s), Writing(t)
        PROVE  TwoUseNet(s)
    <3>1. PICK g \in Fetchers : t.fetchers[g].resource = "write"
      BY <2>6 DEF Writing
    <3>2. s.fetchers[g].resource # "none"
      BY <2>4, <3>1
    <3>3. UsesNet(s, g) /\ g # f
      BY <2>6, <3>2 DEF Ordered
    <3> QED BY <3>3 DEF TwoUseNet
  <2> QED BY <1>1, <2>2, <2>5, <2>6 DEF Forward
<1>5. CASE s.loader.slot = "none"
  <2>1. /\ t.disk.manifest = s.disk.manifest /\ t.loader.slotData = s.loader.slotData
        /\ t.loader.slot = "none" /\ t.fetchers = s.fetchers /\ t.updates = s.updates
    BY <1>5 DEF Written
  <2>2. Past(s) => Past(t)
    BY <2>1 DEF Past
  <2>3. Ordered(s) => Ordered(t) /\ t.disk.manifest >= s.disk.manifest
    BY <1>2, <1>5, <2>1 DEF Ordered, UsesNet
  <2> QED BY <1>1, <2>1, <2>2, <2>3 DEF Forward, Writing
<1> QED BY <1>3, <1>4, <1>5 DEF DeviceType, Loader

\* The answer m of the manifest request of fetcher f.
LEMMA DataForward ==
  ASSUME NEW s \in DeviceType, NEW a, NEW d, NEW f \in Fetchers, NEW m,
         server \in Nat, m \in Answers(s.fetchers[f].pending),
         Swapped(s, a, f, [s.fetchers[f] EXCEPT !.pending = Idle, !.resource = "none"]),
         DataArrived(a, d, s.fetchers[f].resource, m)
  PROVE  Forward(s, d)
<1> DEFINE role == s.fetchers[f].resource
           x == [s.fetchers[f] EXCEPT !.pending = Idle, !.resource = "none"]
<1>1. x.resource = "none" /\ x.kind = s.fetchers[f].kind
  BY DEF DeviceType, Fetcher
<1> HIDE DEF x
<1>2. /\ a \in DeviceType /\ d \in DeviceType
      /\ a.fetchers[f] = x /\ \A g \in Fetchers \ {f} : a.fetchers[g] = s.fetchers[g]
      /\ a.disk = s.disk /\ a.loader = s.loader /\ a.updates = s.updates
  BY DEF Swapped, OthersKept, DataArrived, x
<1>3. /\ d.fetchers = a.fetchers /\ d.updates = s.updates
      /\ d.loader.slot = IF role = "slot" THEN "loaded" ELSE s.loader.slot
      /\ d.loader.slotData = IF role = "slot" THEN m ELSE s.loader.slotData
      /\ d.disk.manifest = IF role = "write" THEN m ELSE s.disk.manifest
  BY <1>2 DEF DataArrived
<1>4. /\ s.disk.manifest \in Nat /\ s.loader.slotData \in Nat /\ s.fetchers[f].pending.rev \in Nat
      /\ m \in Nat /\ m >= s.fetchers[f].pending.rev /\ m <= server
  BY Revisions DEF Answers
<1>5. Past(s) => Past(d)
  BY <1>3, <1>4 DEF Past
<1>6. ASSUME Ordered(s)
      PROVE  Ordered(d) /\ d.disk.manifest >= s.disk.manifest
  <2>1. /\ role # "none" => m >= s.disk.manifest
        /\ role # "none" => \A g \in Fetchers : d.fetchers[g].resource = "none"
        /\ role \in {"slot", "write", "none"}
    BY <1>1, <1>2, <1>3, <1>4, <1>6 DEF Ordered, DeviceType, Fetcher, ResourceRoles
  <2>2. \A g \in Fetchers : d.fetchers[g].resource # "none" =>
          d.fetchers[g] = s.fetchers[g] /\ g # f
    BY <1>1, <1>2, <1>3
  <2>3. CASE role = "none"
    BY <1>3, <1>4, <1>6, <2>2, <2>3 DEF Ordered, UsesNet
  <2>4. CASE role = "slot"
    BY <1>3, <1>4, <1>6, <2>1, <2>4 DEF Ordered
  <2>5. CASE role = "write"
    BY <1>3, <1>4, <1>6, <2>1, <2>5 DEF Ordered
  <2> QED BY <2>1, <2>3, <2>4, <2>5
<1>7. Calm(s, d) /\ \A g \in Fetchers : UsesNet(d, g) => UsesNet(s, g)
  <2>1. /\ d.loader.cached = s.loader.cached /\ d.loader.cacheOnly = s.loader.cacheOnly
        /\ d.loader.fetcher = s.loader.fetcher
    BY <1>2 DEF DataArrived, LoaderButSlot
  <2>2. \A g \in Fetchers : d.fetchers[g].kind = s.fetchers[g].kind
    BY <1>1, <1>2, <1>3
  <2> QED BY <1>2, <2>1, <2>2, SameCurrent DEF Calm, UsesNet
<1>8. Writing(d) => Writing(s)
  BY <1>1, <1>2, <1>3 DEF Writing
<1> QED BY <1>2, <1>5, <1>6, <1>7, <1>8 DEF Forward

\* A fetcher that ends keeps its kind and its request.
LEMMA EndingForward ==
  ASSUME NEW s \in DeviceType, NEW u \in DeviceType, NEW t, NEW f \in Fetchers, NEW err \in BOOLEAN,
         Ended(s, u, f, err), EndedAs(s, u, t, f)
  PROVE  /\ Quiet(s, t) /\ Forward(s, t) /\ t \in DeviceType
         /\ t.fetchers[f].kind = s.fetchers[f].kind
         /\ t.fetchers[f].resource = s.fetchers[f].resource
<1>1. Quiet(s, t)
  BY EndedQuiet, EndedAsQuiet, QuietTransitive
<1>2. u.fetchers[f].kind = s.fetchers[f].kind /\ u.fetchers[f].resource = s.fetchers[f].resource
  BY DEF Ended
<1>3. t.fetchers[f].kind = u.fetchers[f].kind /\ t.fetchers[f].resource = u.fetchers[f].resource
  BY DEF EndedAs, Finished, FellBack, CacheOnlyStarted, OthersKept, Failed, Alike
<1> QED BY <1>1, <1>2, <1>3, QuietForward DEF Quiet, SlotsKept

LEMMA SwappedForward ==
  ASSUME NEW s \in DeviceType, NEW t, NEW f \in Fetchers, NEW x, Swapped(s, t, f, x),
         x.kind = s.fetchers[f].kind, Ordered(s) => x.resource = "none"
  PROVE  Forward(s, t)
<1>1. CASE x.resource = "none"
  BY <1>1, SwappedQuiet, QuietForward
<1>2. CASE ~Ordered(s)
  <2>1. /\ t \in DeviceType /\ t.loader = s.loader /\ t.disk = s.disk
        /\ \A g \in Fetchers : t.fetchers[g].kind = s.fetchers[g].kind
    BY DEF Swapped, OthersKept
  <2> QED BY <1>2, <2>1, SameCurrent DEF Forward, Calm, UsesNet, Past
<1> QED BY <1>1, <1>2

LEMMA BundleTakenForward ==
  ASSUME NEW s \in DeviceType, NEW t, NEW f \in Fetchers, BundleTaken(s, t, f), server \in Nat,
         UsesNet(s, f), s.fetchers[f].resource = "none"
  PROVE  Forward(s, t)
<1> DEFINE x == [s.fetchers[f] EXCEPT !.bundle = s.fetchers[f].manifest]
<1>1. x.kind = s.fetchers[f].kind /\ x.resource = "none"
  BY DEF DeviceType, Fetcher
<1>2. PICK b \in DeviceType, u \in DeviceType, v \in DeviceType :
        /\ Swapped(s, b, f, x) /\ Ended(b, u, f, FALSE) /\ EndedAs(b, u, v, f) /\ Written(v, t)
  BY DEF BundleTaken
<1> HIDE DEF x
<1>3. Forward(s, b) /\ b.fetchers[f] = x
  BY <1>1, <1>2, SwappedForward DEF Swapped
<1>4. /\ Forward(b, v) /\ v.fetchers[f].kind = b.fetchers[f].kind
      /\ v.fetchers[f].resource = b.fetchers[f].resource
  <2>1. Ended(b, u, f, FALSE) /\ EndedAs(b, u, v, f)
    BY <1>2
  <2>2. PICK err \in BOOLEAN : Ended(b, u, f, err)
    BY <2>1
  <2>3. Quiet(b, v) /\ Forward(b, v)
    BY <2>1, <2>2, EndingForward
  <2>4. v.fetchers[f].kind = b.fetchers[f].kind
    BY <2>1, <2>2, EndingForward
  <2> QED BY <2>1, <2>2, <2>3, <2>4, EndingForward
<1>5. UsesNet(v, f) /\ v.fetchers[f].resource = "none"
  BY <1>1, <1>3, <1>4 DEF UsesNet
<1>6. Forward(v, t)
  BY <1>2, <1>5, WrittenForward
<1> QED BY <1>2, <1>3, <1>4, <1>6, ForwardTransitive

LEMMA BundleWantedForward ==
  ASSUME NEW s \in DeviceType, NEW t, NEW f \in Fetchers, BundleWanted(s, t, f), server \in Nat,
         UsesNet(s, f), s.fetchers[f].resource = "none"
  PROVE  Forward(s, t)
<1> DEFINE x == [s.fetchers[f] EXCEPT !.pending = [op |-> "bundle", rev |-> s.fetchers[f].manifest]]
<1>1. x.kind = s.fetchers[f].kind /\ x.resource = "none"
  BY DEF DeviceType, Fetcher
<1>2. BundleTaken(s, t, f) \/ Swapped(s, t, f, x)
  BY DEF BundleWanted
<1> HIDE DEF x
<1> QED BY <1>1, <1>2, BundleTakenForward, SwappedForward

LEMMA ManifestTakenForward ==
  ASSUME NEW s \in DeviceType, NEW t, NEW f \in Fetchers, NEW m, ManifestTaken(s, t, f, m),
         server \in Nat, UsesNet(s, f), s.fetchers[f].resource = "none"
  PROVE  Forward(s, t)
<1> DEFINE x == [s.fetchers[f] EXCEPT !.manifest = m]
<1>1. x.kind = s.fetchers[f].kind /\ x.resource = "none"
  BY DEF DeviceType, Fetcher
<1>2. PICK u \in DeviceType :
        /\ Swapped(s, u, f, x)
        /\ \/ \E v \in DeviceType, new \in Fetchers \ {f} :
                 /\ Swapped(u, v, f, [u.fetchers[f] EXCEPT !.timer = FALSE])
                 /\ DevStarted(v, t, new, m)
           \/ BundleWanted(u, t, f)
  BY DEF ManifestTaken
<1> HIDE DEF x
<1>3. /\ Forward(s, u) /\ u.fetchers[f] = x
      /\ UsesNet(u, f) /\ u.fetchers[f].resource = "none"
  BY <1>1, <1>2, SwappedForward DEF Swapped, UsesNet
<1>4. CASE BundleWanted(u, t, f)
  BY <1>2, <1>3, <1>4, BundleWantedForward, ForwardTransitive
<1>5. ASSUME NEW v \in DeviceType, NEW new \in Fetchers \ {f},
             Swapped(u, v, f, [u.fetchers[f] EXCEPT !.timer = FALSE]), DevStarted(v, t, new, m)
      PROVE  Forward(s, t)
  <2> DEFINE y == [u.fetchers[f] EXCEPT !.timer = FALSE]
  <2>1. y.kind = u.fetchers[f].kind /\ y.resource = "none"
    BY <1>3 DEF DeviceType, Fetcher
  <2>2. Swapped(u, v, f, y)
    BY <1>5
  <2> HIDE DEF y
  <2>3. Forward(u, v)
    BY <2>1, <2>2, SwappedForward
  <2>4. Forward(v, t)
    BY <1>5, DevStartedQuiet, QuietForward
  <2> QED BY <1>2, <1>3, <1>5, <2>3, <2>4, ForwardTransitive
<1> QED BY <1>2, <1>4, <1>5

\* What a request of the loader does to the caches, once no older request may write to them:
\* the only fetcher that may be new to the network is the loader's new one.
Grown(s, t, new) ==
  /\ t \in DeviceType /\ t.disk.manifest = s.disk.manifest
  /\ Past(s) => Past(t)
  /\ Past(s) /\ Ordered(s) /\ ~Writing(s) => Ordered(t) /\ ~Writing(t)
  /\ \A g \in Fetchers \ {new} : UsesNet(t, g) => UsesNet(s, g)

LEMMA QuietGrown ==
  ASSUME NEW s \in DeviceType, NEW t, Quiet(s, t), NEW new
  PROVE  Grown(s, t, new)
<1>1. Forward(s, t)
  BY QuietForward
<1>2. Writing(t) => Writing(s)
  BY DEF Quiet, SlotsKept, Writing
<1> QED BY <1>1, <1>2 DEF Quiet, SlotsKept, Forward, Grown

LEMMA GrownQuiet ==
  ASSUME NEW s \in DeviceType, NEW t, NEW u, NEW new, Grown(s, t, new), Quiet(t, u)
  PROVE  Grown(s, u, new)
<1>1. t \in DeviceType
  BY DEF Grown
<1>2. Grown(t, u, new)
  BY <1>1, QuietGrown
<1> QED BY <1>2 DEF Grown

LEMMA NetStartedQuiet ==
  ASSUME NEW s \in DeviceType, NEW v, NEW new \in Fetchers, NEW zero, NetStarted(s, v, new, zero)
  PROVE  /\ SlotsKept(s, v) /\ v.fetchers[new].kind = "withTimeout"
         /\ \A g \in Fetchers \ {new} : UsesNet(v, g) => UsesNet(s, g)
<1> DEFINE x == NewFetcher("withTimeout", None)
           y == [x EXCEPT !.timer = TRUE]
<1>1. /\ x.resource = "none" /\ x.kind = "withTimeout"
      /\ y.resource = "none" /\ y.kind = "withTimeout"
  BY DEF NewFetcher
<1>2. ASSUME NEW b, NEW z, Began(s, b, new, z), z.resource = "none", z.kind = "withTimeout"
      PROVE  /\ b \in DeviceType /\ SlotsKept(s, b) /\ b.fetchers[new].kind = "withTimeout"
             /\ \A g \in Fetchers \ {new} : UsesNet(b, g) => UsesNet(s, g)
  BY <1>2 DEF Began, Kept, OthersKept, SlotsKept, UsesNet
<1>3. \/ Began(s, v, new, y)
      \/ \E u, w \in DeviceType :
           Began(s, u, new, x) /\ Ended(u, w, new, FALSE) /\ EndedAs(u, w, v, new)
  BY DEF NetStarted
<1> HIDE DEF x, y
<1>4. CASE Began(s, v, new, y)
  BY <1>1, <1>2, <1>4
<1>5. ASSUME NEW u \in DeviceType, NEW w \in DeviceType,
             Began(s, u, new, x), Ended(u, w, new, FALSE), EndedAs(u, w, v, new)
      PROVE  /\ SlotsKept(s, v) /\ v.fetchers[new].kind = "withTimeout"
             /\ \A g \in Fetchers \ {new} : UsesNet(v, g) => UsesNet(s, g)
  <2>1. PICK err \in BOOLEAN : Ended(u, w, new, err)
    BY <1>5
  <2>2. Quiet(u, v)
    BY <1>5, <2>1, EndingForward
  <2>3. v.fetchers[new].kind = u.fetchers[new].kind
    BY <1>5, <2>1, EndingForward
  <2>4. /\ SlotsKept(s, u) /\ u.fetchers[new].kind = "withTimeout"
        /\ \A g \in Fetchers \ {new} : UsesNet(u, g) => UsesNet(s, g)
    BY <1>1, <1>2, <1>5
  <2>5. SlotsKept(s, v)
    BY <2>2, <2>4 DEF Quiet, SlotsKept
  <2> QED BY <2>2, <2>3, <2>4, <2>5 DEF Quiet
<1> QED BY <1>3, <1>4, <1>5

LEMMA NetRequestedGrown ==
  ASSUME NEW s \in DeviceType, NEW t, NEW new, NEW zero, NetRequested(s, t, new, zero),
         server \in Nat
  PROVE  Grown(s, t, new)
<1>1. PICK v \in DeviceType : NetStarted(s, v, new, zero) /\ Requested(v, t, new)
  BY DEF NetRequested
<1>2. new \in Fetchers
  BY DEF NetRequested
<1>3. /\ SlotsKept(s, v) /\ v.fetchers[new].kind = "withTimeout"
      /\ \A g \in Fetchers \ {new} : UsesNet(v, g) => UsesNet(s, g)
  BY <1>1, <1>2, NetStartedQuiet
<1>4. /\ t \in DeviceType /\ t.disk.manifest = v.disk.manifest
      /\ t.loader.slot = "loading" /\ t.loader.slotData = None
      /\ t.fetchers[new].kind = "withTimeout"
      /\ t.fetchers[new].pending = ManifestRequest /\ t.fetchers[new].resource = "slot"
  BY <1>1, <1>3 DEF Requested
<1>5. \A g \in Fetchers \ {new} :
        /\ t.fetchers[g].pending = v.fetchers[g].pending /\ t.fetchers[g].kind = v.fetchers[g].kind
        /\ t.fetchers[g].resource # "none" =>
             t.fetchers[g].resource = v.fetchers[g].resource /\ v.fetchers[g].resource # "slot"
  BY <1>1 DEF Requested, FetcherRelabelled, Relabelled
<1>6. \A g \in Fetchers \ {new} : UsesNet(t, g) => UsesNet(s, g)
  BY <1>3, <1>5 DEF UsesNet
<1>7. t.disk.manifest = s.disk.manifest /\ v.updates = s.updates
      /\ s.disk.manifest \in Nat /\ s.loader.slotData \in Nat
  BY <1>3, <1>4, Revisions DEF SlotsKept
<1>8. Past(s) => Past(t)
  BY <1>4, <1>7 DEF Past, None
<1>9. ASSUME Past(s), Ordered(s), ~Writing(s)
      PROVE  Ordered(t) /\ ~Writing(t)
  <2>1. \A g \in Fetchers \ {new} : t.fetchers[g].resource = "none"
    <3> SUFFICES ASSUME NEW g \in Fetchers \ {new}, t.fetchers[g].resource # "none"
                 PROVE  FALSE
      OBVIOUS
    <3>1. /\ v.fetchers[g].resource # "none" /\ v.fetchers[g].resource # "slot"
      BY <1>5
    <3>2. v.fetchers[g].resource = "write"
      BY <3>1 DEF DeviceType, Fetcher, ResourceRoles
    <3>3. s.fetchers[g].resource = "write"
      BY <1>3, <3>2 DEF SlotsKept
    <3> QED BY <1>9, <3>3 DEF Writing
  <2>2. t.updates = NoUpdate
    <3>1. /\ t.updates.pending = Idle /\ t.updates.resource = "none"
          /\ t.updates.hasLoader = FALSE /\ t.updates \in Updates
      BY <1>1, <1>4, <1>7, <1>9 DEF Requested, Relabelled, NoUpdate, Ordered, DeviceType
    <3> QED BY <3>1 DEF Updates, NoUpdate
  <2>3. t.fetchers[new].pending.op = "manifest" /\ t.fetchers[new].pending.rev >= t.disk.manifest
    BY <1>4, <1>7, <1>9 DEF ManifestRequest, Past
  <2> QED BY <1>4, <2>1, <2>2, <2>3 DEF Ordered, Writing, UsesNet
<1> QED BY <1>4, <1>6, <1>7, <1>8, <1>9 DEF Grown

LEMMA NetEndsForward ==
  ASSUME NEW s \in DeviceType, NEW t, NEW f \in Fetchers, NEW err \in BOOLEAN, NetEnds(s, t, f, err)
  PROVE  Forward(s, t)
<1>1. PICK u \in DeviceType : Ended(s, u, f, err) /\ EndedAs(s, u, t, f)
  BY DEF NetEnds
<1> QED BY <1>1, EndingForward

LEMMA AnsweredToForward ==
  ASSUME IInv, NEW f \in Fetchers, NEW a, AnsweredTo(a, f)
  PROVE  /\ Forward(Device, a) /\ a \in DeviceType
         /\ a.fetchers[f].kind = fetchers[f].kind /\ a.fetchers[f].resource = "none"
<1> DEFINE x == [fetchers[f] EXCEPT !.pending = Idle, !.resource = "none"]
<1>1. /\ Device \in DeviceType /\ fetchers[f] \in Fetcher /\ Device.fetchers = fetchers
  BY TypedDevice, DeviceFields DEF DeviceFieldsAre
<1>2. x.kind = fetchers[f].kind /\ x.resource = "none"
  BY <1>1 DEF Fetcher
<1>3. Swapped(Device, a, f, x)
  BY DEF AnsweredTo
<1> HIDE DEF x
<1> QED BY <1>1, <1>2, <1>3, SwappedForward DEF Swapped

\* The same with the data of the manifest request of f.
LEMMA AnsweredDataForward ==
  ASSUME IInv, NEW f \in Fetchers, NEW a, AnsweredTo(a, f), NEW d,
         NEW m \in Answers(fetchers[f].pending), DataArrived(a, d, fetchers[f].resource, m)
  PROVE  /\ Forward(Device, d) /\ d \in DeviceType
         /\ d.fetchers[f].kind = fetchers[f].kind /\ d.fetchers[f].resource = "none"
<1>1. Device \in DeviceType /\ server \in Nat /\ Device.fetchers = fetchers
  BY TypedDevice, DeviceFields DEF DeviceFieldsAre
<1>2. Swapped(Device, a, f, [Device.fetchers[f] EXCEPT !.pending = Idle, !.resource = "none"])
  BY <1>1 DEF AnsweredTo
<1>3. Forward(Device, d)
  BY <1>1, <1>2, DataForward
<1>4. d \in DeviceType /\ d.fetchers = a.fetchers
  BY DEF DataArrived
<1> QED BY <1>3, <1>4, AnsweredToForward

LEMMA FreedForward ==
  ASSUME NEW s \in DeviceType, NEW t \in DeviceType, Forward(s, t), NEW u, Freed(t, u)
  PROVE  Forward(s, u)
BY FreedQuiet, QuietForward, ForwardTransitive

LEMMA ManifestArrivesForward ==
  ASSUME IInv, NEW f \in Fetchers, ManifestArrives(f)
  PROVE  Forward(Device, Device')
<1>1. Device \in DeviceType /\ server \in Nat
  BY TypedDevice
<1>2. PICK m \in Answers(fetchers[f].pending) \ RefusedRevs, t \in DeviceType :
        ManifestCame(t, f, m) /\ Freed(t, Device')
  BY ManifestArrivesEffect
<1>3. PICK a \in DeviceType :
        /\ AnsweredTo(a, f)
        /\ \/ /\ fetchers[f].kind = "withTimeout"
              /\ \E d \in DeviceType : DataArrived(a, d, fetchers[f].resource, m) /\ ManifestTaken(d, t, f, m)
           \/ /\ fetchers[f].kind = "dev"
              /\ Swapped(a, t, f, [a.fetchers[f] EXCEPT !.manifest = m])
  BY <1>2 DEF ManifestCame
<1>4. CASE fetchers[f].kind = "dev" /\ Swapped(a, t, f, [a.fetchers[f] EXCEPT !.manifest = m])
  <2> DEFINE x == [a.fetchers[f] EXCEPT !.manifest = m]
  <2>1. Forward(Device, a) /\ a.fetchers[f].resource = "none"
    BY <1>3, AnsweredToForward
  <2>2. x.kind = a.fetchers[f].kind /\ x.resource = "none" /\ Swapped(a, t, f, x)
    BY <1>4, <2>1 DEF DeviceType, Fetcher
  <2> HIDE DEF x
  <2>3. Forward(Device, t)
    BY <1>1, <2>1, <2>2, SwappedForward, ForwardTransitive
  <2> QED BY <1>1, <1>2, <2>3, FreedForward
<1>5. ASSUME NEW d \in DeviceType, fetchers[f].kind = "withTimeout",
             DataArrived(a, d, fetchers[f].resource, m), ManifestTaken(d, t, f, m)
      PROVE  Forward(Device, Device')
  <2>1. /\ Forward(Device, d)
        /\ d.fetchers[f].kind = "withTimeout" /\ d.fetchers[f].resource = "none"
    BY <1>3, <1>5, AnsweredDataForward
  <2>2. Forward(d, t)
    BY <1>1, <1>5, <2>1, ManifestTakenForward DEF UsesNet
  <2>3. Forward(Device, t)
    BY <1>1, <2>1, <2>2, ForwardTransitive
  <2> QED BY <1>1, <1>2, <2>3, FreedForward
<1> QED BY <1>3, <1>4, <1>5

LEMMA ManifestFailsForward ==
  ASSUME IInv, NEW f \in Fetchers, ManifestFails(f)
  PROVE  Forward(Device, Device')
<1>1. Device \in DeviceType /\ server \in Nat
  BY TypedDevice
<1>2. PICK a \in DeviceType, d \in DeviceType, t \in DeviceType :
        /\ AnsweredTo(a, f)
        /\ \/ d = a
           \/ \E m \in Answers(fetchers[f].pending) \cap RefusedRevs :
                DataArrived(a, d, fetchers[f].resource, m)
        /\ RequestFailed(d, t, f) /\ Freed(t, Device')
  BY ManifestFailsEffect
<1>3. Forward(Device, d)
  BY <1>2, AnsweredToForward, AnsweredDataForward
<1>4. CASE Failed(d, t, f)
  BY <1>1, <1>2, <1>3, <1>4, FailedQuiet, QuietForward, ForwardTransitive, FreedForward
<1>5. CASE NetEnds(d, t, f, TRUE)
  <2>1. PICK err \in BOOLEAN : NetEnds(d, t, f, err)
    BY <1>5
  <2>2. Forward(d, t)
    BY <2>1, NetEndsForward
  <2> QED BY <1>1, <1>2, <1>3, <2>2, ForwardTransitive, FreedForward
<1> QED BY <1>2, <1>4, <1>5 DEF RequestFailed

LEMMA TimeOutForward ==
  ASSUME IInv, NEW f \in Fetchers, TimeOut(f)
  PROVE  Forward(Device, Device')
<1>1. Device \in DeviceType
  BY TypedDevice
<1>2. PICK t \in DeviceType : NetEnds(Device, t, f, FALSE) /\ Freed(t, Device')
  BY TimeOutEffect
<1>3. PICK err \in BOOLEAN : NetEnds(Device, t, f, err)
  BY <1>2
<1> QED BY <1>1, <1>2, <1>3, NetEndsForward, FreedForward

LEMMA CacheOnlyManifestForward ==
  ASSUME IInv, NEW f \in Fetchers, CacheOnlyManifestVerified(f) \/ CacheOnlyManifestRejected(f)
  PROVE  Forward(Device, Device')
<1>1. Device \in DeviceType
  BY TypedDevice
<1>2. CASE CacheOnlyManifestVerified(f)
  <2> DEFINE m == fetchers[f].pending.rev
  <2>1. PICK a \in DeviceType, s \in DeviceType, t \in DeviceType :
          /\ AnsweredTo(a, f) /\ Swapped(a, s, f, [a.fetchers[f] EXCEPT !.manifest = m])
          /\ TookFromCache(s, t, f) /\ Freed(t, Device')
    BY <1>2, CacheOnlyManifestVerifiedEffect
  <2> DEFINE x == [a.fetchers[f] EXCEPT !.manifest = m]
  <2>2. Forward(Device, a) /\ a.fetchers[f].resource = "none"
    BY <2>1, AnsweredToForward
  <2>3. x.kind = a.fetchers[f].kind /\ x.resource = "none" /\ Swapped(a, s, f, x)
    BY <2>1, <2>2 DEF DeviceType, Fetcher
  <2> HIDE DEF x
  <2>4. Forward(a, s) /\ s.fetchers[f].resource = "none"
    BY <2>3, SwappedForward DEF Swapped
  <2>5. Forward(s, t)
    BY <2>1, <2>4, TookFromCacheQuiet, QuietForward
  <2>6. Forward(Device, t)
    BY <1>1, <2>2, <2>4, <2>5, ForwardTransitive
  <2> QED BY <1>1, <2>1, <2>6, FreedForward
<1>3. CASE CacheOnlyManifestRejected(f)
  <2>1. PICK a \in DeviceType, t \in DeviceType :
          AnsweredTo(a, f) /\ Failed(a, t, f) /\ Freed(t, Device')
    BY <1>3, CacheOnlyManifestRejectedEffect
  <2>2. Forward(Device, a) /\ Forward(a, t)
    BY <2>1, AnsweredToForward, FailedQuiet, QuietForward
  <2> QED BY <1>1, <2>1, <2>2, ForwardTransitive, FreedForward
<1> QED BY <1>2, <1>3

LEMMA BundleArrivesForward ==
  ASSUME IInv, NEW f \in Fetchers, BundleArrives(f)
  PROVE  Forward(Device, Device')
<1>1. Device \in DeviceType /\ server \in Nat
  BY TypedDevice
<1>2. PICK a \in DeviceType, s \in DeviceType, t \in DeviceType :
        /\ AnsweredTo(a, f) /\ Stored(a, s, fetchers[f].pending.rev)
        /\ BundleCame(s, t, f) /\ Freed(t, Device')
  BY BundleArrivesEffect
<1>3. /\ Forward(Device, a) /\ Forward(a, s)
      /\ s.fetchers[f].kind = fetchers[f].kind /\ s.fetchers[f].resource = "none"
  <2>1. /\ Forward(Device, a)
        /\ a.fetchers[f].kind = fetchers[f].kind /\ a.fetchers[f].resource = "none"
    BY <1>2, AnsweredToForward
  <2>2. Forward(a, s)
    BY <1>2, StoredQuiet, QuietForward
  <2>3. s.fetchers = a.fetchers
    BY <1>2 DEF Stored
  <2> QED BY <2>1, <2>2, <2>3
<1>4. CASE t = s
  BY <1>1, <1>2, <1>3, <1>4, ForwardTransitive, FreedForward
<1>5. CASE fetchers[f].kind = "withTimeout" /\ BundleTaken(s, t, f)
  <2>1. Forward(s, t)
    BY <1>1, <1>3, <1>5, BundleTakenForward DEF UsesNet
  <2> QED BY <1>1, <1>2, <1>3, <2>1, ForwardTransitive, FreedForward
<1>6. ASSUME NEW b \in DeviceType,
             Swapped(s, b, f, [s.fetchers[f] EXCEPT !.bundle = fetchers[f].manifest]), Finished(b, t, f)
      PROVE  Forward(Device, Device')
  <2> DEFINE x == [s.fetchers[f] EXCEPT !.bundle = fetchers[f].manifest]
  <2>1. x.kind = s.fetchers[f].kind /\ x.resource = "none" /\ Swapped(s, b, f, x)
    BY <1>3, <1>6 DEF DeviceType, Fetcher
  <2> HIDE DEF x
  <2>2. Forward(s, b) /\ Forward(b, t)
    BY <1>6, <2>1, SwappedForward, FinishedQuiet, QuietForward
  <2> QED BY <1>1, <1>2, <1>3, <1>6, <2>2, ForwardTransitive, FreedForward
<1> QED BY <1>2, <1>4, <1>5, <1>6 DEF BundleCame

LEMMA BundleFailsForward ==
  ASSUME IInv, NEW f \in Fetchers, BundleFails(f)
  PROVE  Forward(Device, Device')
<1>1. Device \in DeviceType
  BY TypedDevice
<1>2. PICK a \in DeviceType, t \in DeviceType :
        AnsweredTo(a, f) /\ BundleFailed(a, t, f) /\ Freed(t, Device')
  BY BundleFailsEffect
<1>3. Forward(Device, a)
  BY <1>2, AnsweredToForward
<1>4. CASE t = a
  BY <1>1, <1>2, <1>3, <1>4, FreedForward
<1>5. CASE NetEnds(a, t, f, TRUE)
  <2>1. PICK err \in BOOLEAN : NetEnds(a, t, f, err)
    BY <1>5
  <2>2. Forward(a, t)
    BY <2>1, NetEndsForward
  <2> QED BY <1>1, <1>2, <1>3, <2>2, ForwardTransitive, FreedForward
<1>6. CASE Failed(a, t, f)
  BY <1>1, <1>2, <1>3, <1>6, FailedQuiet, QuietForward, ForwardTransitive, FreedForward
<1> QED BY <1>2, <1>4, <1>5, <1>6 DEF BundleFailed

LEMMA ForceBundleReloadForward ==
  ASSUME IInv, ForceBundleReload
  PROVE  Forward(Device, Device')
<1> DEFINE f == loader.fetcher
           x == [fetchers[f] EXCEPT !.bundle = None,
                   !.pending = [op |-> "bundle", rev |-> fetchers[f].manifest]]
<1>1. f \in Fetchers /\ fetchers[f].kind = "dev"
  BY ForceBundleReloadEffect
<1>2. PICK t \in DeviceType : Swapped(Device, t, f, x) /\ Freed(t, Device')
  BY ForceBundleReloadEffect
<1>3. Device \in DeviceType /\ Device.fetchers = fetchers /\ fetchers[f] \in Fetcher
  BY <1>1, TypedDevice, DeviceFields DEF DeviceFieldsAre
<1>4. x.kind = Device.fetchers[f].kind /\ x.resource = Device.fetchers[f].resource
  BY <1>3 DEF Fetcher
<1>5. Ordered(Device) => x.resource = "none"
  BY <1>1, <1>3, <1>4 DEF Ordered, UsesNet
<1> HIDE DEF x, f
<1>6. Forward(Device, t)
  BY <1>1, <1>2, <1>3, <1>4, <1>5, SwappedForward
<1> QED BY <1>2, <1>3, <1>6, FreedForward

\* Fetchers, timers and the bridge never roll the cache back.
LEMMA AnswerForward ==
  ASSUME IInv, (\E f \in Fetchers : FetcherAnswer(f)) \/ ForceBundleReload
  PROVE  Forward(Device, Device') /\ UNCHANGED <<server, cachedReads, spent>>
<1>1. UNCHANGED <<server, cachedReads, spent>>
  BY DEF FetcherAnswer, TimeOut, ManifestArrives, ManifestFails,
     CacheOnlyManifestVerified, CacheOnlyManifestRejected, BundleArrives, BundleFails, ForceBundleReload
<1>2. CASE ForceBundleReload
  BY <1>1, <1>2, ForceBundleReloadForward
<1>3. ASSUME NEW f \in Fetchers, FetcherAnswer(f)
      PROVE  Forward(Device, Device')
  BY <1>3, TimeOutForward, ManifestArrivesForward, ManifestFailsForward, CacheOnlyManifestForward,
     BundleArrivesForward, BundleFailsForward DEF FetcherAnswer
<1> QED BY <1>1, <1>2, <1>3

-----------------------------------------------------------------------------
\* The order and the budget survive an answer.
LEMMA OrderKept ==
  ASSUME IInv, Begin, OrderInv, Forward(Device, Device'), UNCHANGED <<server, cachedReads, spent>>
  PROVE  OrderInv' /\ (Undivided => disk'.manifest >= disk.manifest)
<1>1. Past(Device)'
  BY DEF OrderInv, Forward, Past
<1> SUFFICES ASSUME Undivided
             PROVE  Ordered(Device)' /\ Budget' /\ disk'.manifest >= disk.manifest
  BY <1>1 DEF OrderInv, Undivided
<1>2. Ordered(Device) /\ Budget
  BY DEF OrderInv
<1>3. /\ Ordered(Device') /\ disk'.manifest >= disk.manifest
      /\ \A g \in Fetchers : UsesNet(Device', g) => UsesNet(Device, g)
      /\ Writing(Device') => Writing(Device) \/ TwoUseNet(Device)
  BY <1>2 DEF Forward, Device
<1>4. TwoUseNet(Device') => TwoUseNet(Device)
  BY <1>3 DEF TwoUseNet
<1>5. TwoUseNet(Device) => spent.requests = 2 /\ cachedReads = {}
  <2>1. spent.requests \in {0, 1, 2}
    BY TypedDevice DEF Undivided
  <2>2. spent.requests # 0 \/ ~TwoUseNet(Device)
    BY DEF Begin, Waiting, NotBegun, Untouched, TwoUseNet, UsesNet
  <2> QED BY <1>2, <2>1, <2>2 DEF Budget
<1>6. Budget'
  BY <1>2, <1>3, <1>4, <1>5 DEF Budget
<1> QED BY <1>3, <1>6 DEF Ordered, UsesNet

\* After a new request or read, with the device state s it starts from.
LEMMA GrownOrdered ==
  ASSUME NEW s \in DeviceType, NEW new, Grown(s, Device', new), server' = server, Past(s)
  PROVE  /\ Past(Device)' /\ disk'.manifest = s.disk.manifest
         /\ Ordered(s) /\ ~Writing(s) => Ordered(Device)' /\ ~Writing(Device)'
<1>1. /\ Past(Device') /\ Device'.disk.manifest = s.disk.manifest
      /\ Ordered(s) /\ ~Writing(s) => Ordered(Device') /\ ~Writing(Device')
  BY DEF Grown
<1> QED BY <1>1 DEF Past, Ordered, Writing, UsesNet, Device

\* A new request or a read starts from s and starts one fetcher at most.
LEMMA GrownSteps ==
  ASSUME NEW s \in DeviceType, NEW t \in DeviceType, Freed(t, Device'), server \in Nat,
         \/ s = t \/ DevRequested(s, t)
         \/ \E m : CacheRequested(s, t, m)
         \/ \E new, zero : NetRequested(s, t, new, zero)
  PROVE  /\ \E new : Grown(s, Device', new)
         /\ s = t \/ DevRequested(s, t) \/ (\E m : CacheRequested(s, t, m)) =>
              \A g \in Fetchers : UsesNet(Device', g) => UsesNet(s, g)
<1>1. Quiet(t, Device')
  BY FreedQuiet
<1>2. ASSUME s = t \/ DevRequested(s, t) \/ \E m : CacheRequested(s, t, m)
      PROVE  /\ \E new : Grown(s, Device', new)
             /\ \A g \in Fetchers : UsesNet(Device', g) => UsesNet(s, g)
  <2>1. s = t \/ Quiet(s, t)
    BY <1>2, DevStartedQuiet, CacheOnlyStartedQuiet DEF DevRequested, CacheRequested
  <2>2. Quiet(s, Device')
    BY <1>1, <2>1, QuietTransitive
  <2> QED BY <2>2, QuietGrown DEF Quiet
<1>3. ASSUME NEW new, NEW zero, NetRequested(s, t, new, zero)
      PROVE  Grown(s, Device', new)
  BY <1>1, <1>3, NetRequestedGrown, GrownQuiet
<1> QED BY <1>2, <1>3

LEMMA RequestOrder ==
  ASSUME IInv, Begin, OrderInv, NEW cacheOnly \in BOOLEAN, Request(cacheOnly)
  PROVE  OrderInv' /\ disk'.manifest = disk.manifest
<1> DEFINE m == LocalManifest(disk)
<1>1. Device \in DeviceType /\ server \in Nat /\ DeviceFieldsAre(Device)
  BY TypedDevice, DeviceFields
<1>2. /\ spent.requests \in Nat /\ spent'.requests = spent.requests + 1
      /\ spent'.updates = spent.updates /\ server' = server
  BY RequestEffect
<1>3. PICK s \in DeviceType :
        /\ WasReset(Device, s, cacheOnly)
        /\ \/ /\ m # None /\ Freed(s, Device')
              /\ cachedReads' = cachedReads \cup {[request |-> spent.requests, rev |-> m]}
           \/ /\ UNCHANGED cachedReads
              /\ \E t \in DeviceType : DevRequested(s, t) /\ Freed(t, Device')
           \/ /\ m = None /\ UNCHANGED cachedReads
              /\ \E t \in DeviceType, new \in Fetchers :
                   NetRequested(s, t, new, FALSE) /\ Freed(t, Device')
  BY RequestEffect
<1>4. PICK c : cachedReads' = cachedReads \/ cachedReads' = cachedReads \cup {c}
  BY <1>3
<1>5. /\ s.disk = disk /\ s.loader.slot = "none" /\ s.loader.slotData = None
      /\ \A g \in Fetchers : FetcherRelabelled(fetchers[g], s.fetchers[g], "slot", "none")
      /\ Relabelled(updates, s.updates, "slot", "none")
      /\ s.updates.hasLoader = updates.hasLoader /\ s.updates \in Updates
  BY <1>1, <1>3 DEF WasReset, UnlinkedFrom, DeviceFieldsAre, NewLoader, DeviceType
<1>6. \A g \in Fetchers : UsesNet(s, g) <=> UsesNet(Device, g)
  BY <1>1, <1>5 DEF UsesNet, FetcherRelabelled, DeviceFieldsAre
<1>7. Past(s)
  BY <1>1, <1>5, Revisions DEF OrderInv, Past, DeviceFieldsAre, None
<1>8. PICK t \in DeviceType :
        /\ Freed(t, Device')
        /\ \/ s = t \/ DevRequested(s, t)
           \/ UNCHANGED cachedReads /\ \E new, zero : NetRequested(s, t, new, zero)
  BY <1>3
<1>9. /\ \E new : Grown(s, Device', new)
      /\ \/ \A g \in Fetchers : UsesNet(Device', g) => UsesNet(s, g)
         \/ UNCHANGED cachedReads
  <2>1. CASE s = t \/ DevRequested(s, t)
    BY <1>1, <1>8, <2>1, GrownSteps
  <2>2. CASE UNCHANGED cachedReads /\ \E new, zero : NetRequested(s, t, new, zero)
    BY <1>1, <1>8, <2>2, GrownSteps
  <2> QED BY <1>8, <2>1, <2>2
<1>10. PICK new : Grown(s, Device', new)
  BY <1>9
<1>11. /\ Past(Device)' /\ disk'.manifest = disk.manifest
       /\ Ordered(s) /\ ~Writing(s) => Ordered(Device)' /\ ~Writing(Device)'
  BY <1>2, <1>5, <1>7, <1>10, GrownOrdered
<1> SUFFICES ASSUME Undivided'
             PROVE  Ordered(Device)' /\ Budget'
  BY <1>11 DEF OrderInv
<1>12. /\ Undivided /\ Ordered(Device) /\ Budget /\ spent.requests \in {0, 1}
  BY <1>2 DEF Undivided, OrderInv
<1>13. ~Writing(Device)
  BY <1>12 DEF Budget
<1>14. \A g \in Fetchers : s.fetchers[g].resource = "none"
  <2> SUFFICES ASSUME NEW g \in Fetchers PROVE s.fetchers[g].resource = "none"
    OBVIOUS
  <2>1. fetchers[g].resource \in {"none", "slot"}
    BY <1>1, <1>13, TypedDevice DEF Writing, Fetcher, ResourceRoles, DeviceFieldsAre
  <2> QED BY <1>5, <2>1 DEF FetcherRelabelled, Relabelled
<1>15. s.updates = NoUpdate
  <2>1. updates = NoUpdate
    BY <1>1, <1>12 DEF Ordered, DeviceFieldsAre
  <2>2. /\ s.updates.pending = Idle /\ s.updates.resource = "none" /\ s.updates.hasLoader = FALSE
    BY <1>5, <2>1 DEF NoUpdate, Relabelled
  <2> QED BY <1>5, <2>2 DEF Updates, NoUpdate
<1>16. Ordered(s) /\ ~Writing(s)
  BY <1>5, <1>14, <1>15 DEF Ordered, Writing
<1>17. Ordered(Device)' /\ ~Writing(Device)'
  BY <1>11, <1>16
<1>18. \A g \in Fetchers \ {new} : UsesNet(Device', g) => UsesNet(Device, g)
  BY <1>6, <1>10 DEF Grown
<1>19. /\ \A g \in Fetchers : spent.requests = 0 => ~UsesNet(Device, g)
       /\ \A g \in Fetchers : cachedReads # {} => ~UsesNet(Device, g)
       /\ spent.requests = 0 => cachedReads = {}
       /\ \A d, e \in cachedReads : d = e
  BY <1>12 DEF Begin, Waiting, NotBegun, Untouched, UsesNet
<1>20. \A f, g \in Fetchers : UsesNet(Device, f) /\ UsesNet(Device, g) => f = g
  BY <1>12, <1>19 DEF Budget, TwoUseNet
<1>21. CASE spent.requests = 0
  <2>1. spent'.requests = 1
    BY <1>2, <1>21
  <2>2. ~TwoUseNet(Device)'
    BY <1>18, <1>19, <1>21 DEF TwoUseNet, UsesNet
  <2> QED BY <1>17, <2>1, <2>2 DEF Budget
<1>22. CASE spent.requests = 1
  <2>1. spent'.requests = 2
    BY <1>2, <1>22
  <2>2. ASSUME TwoUseNet(Device)' PROVE cachedReads' = {}
    <3>1. PICK g \in Fetchers : UsesNet(Device, g)
      BY <1>18, <2>2 DEF TwoUseNet, UsesNet
    <3>2. cachedReads = {}
      BY <1>19, <3>1
    <3>3. ~(\A h \in Fetchers : UsesNet(Device', h) => UsesNet(Device, h))
      BY <1>20, <2>2 DEF TwoUseNet, UsesNet
    <3> QED BY <1>6, <1>9, <3>2, <3>3
  <2>3. ASSUME NEW g \in Fetchers, UsesNet(Device', g), NEW d \in cachedReads', NEW e \in cachedReads'
        PROVE  d = e
    <3>1. CASE UNCHANGED cachedReads
      BY <1>19, <2>3, <3>1
    <3>2. CASE UsesNet(Device, g)
      BY <1>4, <1>19, <2>3, <3>2
    <3> QED BY <1>6, <1>9, <2>3, <3>1, <3>2
  <2>4. \A b, d, e \in cachedReads' : b = d \/ b = e \/ d = e
    BY <1>4, <1>19
  <2> QED BY <1>17, <2>1, <2>2, <2>3, <2>4 DEF Budget, UsesNet
<1> QED BY <1>12, <1>17, <1>21, <1>22

LEMMA ReadOrder ==
  ASSUME IInv, Begin, OrderInv, NEW c \in cachedReads,
         CachedManifestVerified(c) \/ CachedManifestRejected(c)
  PROVE  OrderInv' /\ disk'.manifest = disk.manifest
<1>1. Device \in DeviceType /\ server \in Nat /\ DeviceFieldsAre(Device)
  BY TypedDevice, DeviceFields
<1>2. /\ cachedReads' = cachedReads \ {c} /\ UNCHANGED <<server, spent>>
  BY DEF CachedManifestVerified, CachedManifestRejected
<1>3. PICK s \in DeviceType, t \in DeviceType :
        /\ s = Device \/ \E m : CacheRead(Device, s, m)
        /\ Freed(t, Device')
        /\ \/ DevRequested(s, t)
           \/ \E m : CacheRequested(s, t, m)
           \/ \E new, zero : NetRequested(s, t, new, zero)
  <2>1. CASE CachedManifestVerified(c)
    BY <2>1, CachedManifestVerifiedEffect
  <2>2. CASE CachedManifestRejected(c)
    BY <1>1, <2>2, CachedManifestRejectedEffect
  <2> QED BY <2>1, <2>2
<1>4. /\ s.disk = disk /\ s.fetchers = fetchers /\ s.updates = updates
      /\ s.loader.slot = loader.slot /\ s.loader.slotData = loader.slotData
  BY <1>1, <1>3 DEF CacheRead, DeviceFieldsAre
<1>5. /\ \A g \in Fetchers : UsesNet(s, g) <=> UsesNet(Device, g)
      /\ Past(s) /\ (Ordered(Device) => Ordered(s)) /\ (Writing(s) => Writing(Device))
  BY <1>1, <1>4 DEF UsesNet, DeviceFieldsAre, OrderInv, Past, Ordered, Writing
<1>6. PICK new : Grown(s, Device', new)
  BY <1>1, <1>3, GrownSteps
<1>7. /\ Past(Device)' /\ disk'.manifest = disk.manifest
      /\ Ordered(s) /\ ~Writing(s) => Ordered(Device)' /\ ~Writing(Device)'
  BY <1>2, <1>4, <1>5, <1>6, GrownOrdered
<1> SUFFICES ASSUME Undivided
             PROVE  Ordered(Device)' /\ Budget'
  BY <1>2, <1>7 DEF OrderInv, Undivided
<1>8. /\ Ordered(Device) /\ Budget
  BY DEF OrderInv
<1>9. Ordered(Device)' /\ ~Writing(Device)'
  BY <1>5, <1>7, <1>8 DEF Budget
<1>10. \A g \in Fetchers \ {new} : UsesNet(Device', g) => UsesNet(Device, g)
  BY <1>5, <1>6 DEF Grown
<1>11. spent.requests \in {1, 2}
  BY TypedDevice DEF Begin, Undivided
<1>12. CASE spent.requests = 1
  <2>1. \A g \in Fetchers : ~UsesNet(Device, g)
    BY <1>12 DEF Begin, Waiting, NotBegun, Untouched, UsesNet
  <2>2. ~TwoUseNet(Device)'
    BY <1>10, <2>1 DEF TwoUseNet, UsesNet
  <2> QED BY <1>2, <1>9, <1>12, <2>2 DEF Budget
<1>13. CASE spent.requests = 2
  <2>1. ~TwoUseNet(Device)
    BY <1>8, <1>13 DEF Budget
  <2>2. \A d, e \in cachedReads' : d = e
    BY <1>2, <1>8, <1>13 DEF Budget
  <2>3. ASSUME TwoUseNet(Device)' PROVE cachedReads' = {}
    <3>1. PICK g \in Fetchers : UsesNet(Device, g)
      BY <1>10, <2>3 DEF TwoUseNet, UsesNet
    <3>2. \A d, e \in cachedReads : d = e
      BY <1>8, <1>13, <3>1 DEF Budget
    <3> QED BY <1>2, <3>2
  <2> QED BY <1>2, <1>9, <1>13, <2>2, <2>3 DEF Budget
<1> QED BY <1>11, <1>12, <1>13

LEMMA RelaunchOrder ==
  ASSUME IInv, OrderInv, Relaunch
  PROVE  OrderInv' /\ disk'.manifest = disk.manifest
<1>1. /\ disk'.manifest = disk.manifest /\ spent'.requests = 0 /\ server' = server
      /\ loader' = NewLoader /\ fetchers' = [f \in Fetchers |-> NoObject] /\ updates' = NoUpdate
  BY RelaunchEffect
<1>2. Past(Device)'
  BY <1>1, TypedDevice, DeviceFields, Revisions
     DEF OrderInv, Past, Device, NewLoader, None
<1>3. Ordered(Device)' /\ ~Writing(Device)'
  BY <1>1 DEF Ordered, Writing, Device, NewLoader, NoObject, NewFetcher
<1> QED BY <1>1, <1>2, <1>3 DEF OrderInv, Budget

LEMMA DeviceUnchangedOrder ==
  ASSUME IInv, OrderInv, UNCHANGED <<cachedReads, spent, disk, loader, fetchers, updates, delegate>>,
         server' \in Nat, server' >= server
  PROVE  OrderInv' /\ disk'.manifest = disk.manifest
<1>1. Device' = Device
  BY DEF Device
<1>2. Device \in DeviceType /\ server \in Nat
  BY TypedDevice
<1>3. Past(Device)'
  BY <1>1, <1>2, Revisions DEF OrderInv, Past
<1> QED BY <1>1, <1>3 DEF OrderInv, Undivided, Ordered, Budget, UsesNet, TwoUseNet, Writing

\* What the updates manager asks and is answered keeps the device behind the server.
LEMMA UpdatePast ==
  ASSUME IInv, Past(Device), UpdateAnswer \/ FetchUpdate
  PROVE  Past(Device)' /\ (FetchUpdate => disk'.manifest = disk.manifest)
<1>1. /\ Device \in DeviceType /\ server \in Nat /\ DeviceFieldsAre(Device) /\ server' = server
      /\ disk.manifest \in Nat /\ loader.slotData \in Nat
      /\ disk.manifest <= server /\ loader.slotData <= server
  <2>1. server' = server
    BY DEF UpdateAnswer, UpdateManifestArrives, UpdateManifestFails, UpdateBundleArrives,
       UpdateBundleFails, FetchUpdate
  <2> QED BY <2>1, TypedDevice, DeviceFields, Revisions DEF DeviceFieldsAre, Past
<1>2. ASSUME NEW t, Freed(t, Device')
      PROVE  disk'.manifest = t.disk.manifest /\ loader'.slotData = t.loader.slotData
  BY <1>2 DEF Freed, Device
<1>3. CASE FetchUpdate
  <2>1. PICK p \in DeviceType, t \in DeviceType :
          Prepared(Device, p) /\ UpdatesOnly(p, t) /\ Freed(t, Device')
    BY <1>3, FetchUpdateEffect
  <2>2. disk'.manifest = disk.manifest /\ loader'.slotData = None
    BY <1>1, <1>2, <2>1 DEF Prepared, UpdatesOnly, DeviceFieldsAre
  <2> QED BY <1>1, <2>2 DEF Past, Device, None
<1>4. CASE UpdateManifestArrives \/ UpdateManifestFails
  <2>1. PICK a \in DeviceType, d \in DeviceType, t \in DeviceType :
          /\ UpdatesOnly(Device, a)
          /\ d = a \/ \E m \in Answers(updates.pending) : DataArrived(a, d, updates.resource, m)
          /\ UpdatesOnly(d, t) /\ Freed(t, Device')
    BY <1>4, UpdateManifestEffect
  <2>2. disk'.manifest = d.disk.manifest /\ loader'.slotData = d.loader.slotData
    BY <1>2, <2>1 DEF UpdatesOnly
  <2>3. a.disk = disk /\ a.loader = loader
    BY <1>1, <2>1 DEF UpdatesOnly, DeviceFieldsAre
  <2>4. \A m \in Answers(updates.pending) : m <= server
    <3>1. updates.pending.rev \in Nat
      BY <1>1, TypedDevice DEF DeviceType, DeviceFieldsAre, Updates, Pending, Rev0
    <3> QED BY <1>1, <3>1 DEF Answers
  <2>5. d.disk.manifest <= server /\ d.loader.slotData <= server
    BY <1>1, <2>1, <2>3, <2>4 DEF DataArrived
  <2> QED BY <1>1, <2>2, <2>5, <1>4 DEF Past, Device, FetchUpdate, UpdateManifestArrives, UpdateManifestFails, Idle
<1>5. CASE UpdateBundleArrives \/ UpdateBundleFails
  <2>1. PICK a \in DeviceType, s \in DeviceType, w \in DeviceType, t \in DeviceType :
          /\ UpdatesOnly(Device, a) /\ (s = a \/ Stored(a, s, updates.pending.rev))
          /\ (w = s \/ Written(s, w))
          /\ UpdatesOnly(w, t) /\ Freed(t, Device')
    BY <1>5, UpdateBundleEffect
  <2>2. s.disk.manifest = disk.manifest /\ s.loader = loader
    BY <1>1, <2>1 DEF UpdatesOnly, DeviceFieldsAre, Stored
  <2>3. w.disk.manifest <= server /\ w.loader.slotData <= server
    BY <1>1, <2>1, <2>2 DEF Written, None
  <2>4. disk'.manifest = w.disk.manifest /\ loader'.slotData = w.loader.slotData
    BY <1>2, <2>1 DEF UpdatesOnly
  <2> QED BY <1>1, <1>5, <2>3, <2>4 DEF Past, Device, FetchUpdate, UpdateBundleArrives, UpdateBundleFails, Idle
<1> QED BY <1>3, <1>4, <1>5 DEF UpdateAnswer

LEMMA UpdateOrder ==
  ASSUME IInv, OrderInv, UpdateAnswer \/ FetchUpdate
  PROVE  OrderInv' /\ (Undivided => disk'.manifest >= disk.manifest)
<1>1. Past(Device)' /\ (FetchUpdate => disk'.manifest = disk.manifest) /\ disk.manifest \in Nat
  BY TypedDevice, DeviceFields, Revisions, UpdatePast DEF OrderInv, DeviceFieldsAre
<1>2. CASE FetchUpdate
  <2>1. ~Undivided'
    BY <1>2, FetchUpdateEffect DEF Undivided
  <2> QED BY <1>1, <1>2, <2>1 DEF OrderInv
<1>3. CASE UpdateAnswer
  <2>1. updates # NoUpdate
    BY <1>3 DEF UpdateAnswer, UpdateManifestArrives, UpdateManifestFails, UpdateBundleArrives,
       UpdateBundleFails, NoUpdate, Idle
  <2>2. ~Undivided
    BY <2>1, DeviceFields DEF OrderInv, Ordered, DeviceFieldsAre
  <2>3. spent' = spent
    BY <1>3 DEF UpdateAnswer, UpdateManifestArrives, UpdateManifestFails, UpdateBundleArrives,
       UpdateBundleFails
  <2> QED BY <1>1, <2>2, <2>3 DEF OrderInv, Undivided
<1> QED BY <1>2, <1>3

LEMMA OrderInit == Init => OrderInv
<1> SUFFICES ASSUME Init PROVE OrderInv
  OBVIOUS
<1>1. /\ disk.manifest <= server /\ loader = NewLoader /\ server \in Nat
      /\ fetchers = [f \in Fetchers |-> NoObject] /\ updates = NoUpdate /\ spent.requests = 0
  BY BoundsAssumption DEF Init
<1>2. Past(Device)
  BY <1>1 DEF Past, Device, NewLoader, None
<1>3. Ordered(Device) /\ ~Writing(Device)
  BY <1>1 DEF Ordered, Writing, Device, NewLoader, NoObject, NewFetcher
<1> QED BY <1>1, <1>2, <1>3 DEF OrderInv, Budget

LEMMA OrderStep ==
  ASSUME IInv, Begin, OrderInv, [Next]_vars
  PROVE  OrderInv' /\ (Undivided => disk'.manifest >= disk.manifest)
<1>1. server \in Nat /\ disk.manifest \in Nat
  BY TypedDevice, DeviceFields, Revisions DEF DeviceFieldsAre
<1>2. CASE Publish \/ ExperienceFails \/ ExperienceFinishedLoading \/ UNCHANGED vars
  <2>1. /\ UNCHANGED <<cachedReads, spent, disk, loader, fetchers, updates, delegate>>
        /\ server' \in Nat /\ server' >= server
    BY <1>1, <1>2 DEF Publish, ExperienceFails, ExperienceFinishedLoading, vars
  <2> QED BY <1>1, <2>1, DeviceUnchangedOrder
<1>3. CASE Relaunch
  BY <1>1, <1>3, RelaunchOrder
<1>4. ASSUME NEW cacheOnly \in BOOLEAN, Request(cacheOnly)
      PROVE  OrderInv' /\ disk'.manifest >= disk.manifest
  BY <1>1, <1>4, RequestOrder
<1>5. CASE ReadAnswer
  BY <1>1, <1>5, ReadOrder DEF ReadAnswer
<1>6. CASE (\E f \in Fetchers : FetcherAnswer(f)) \/ ForceBundleReload
  BY <1>6, AnswerForward, OrderKept
<1>7. CASE UpdateAnswer \/ FetchUpdate
  BY <1>7, UpdateOrder
<1> QED BY <1>2, <1>3, <1>4, <1>5, <1>6, <1>7 DEF Next

\* EXCachedResource writes manifests in the order of their revisions as long as the app is
\* reloaded once at most and does not fetch updates itself.
THEOREM CachedManifestNeverOlder == Spec => CacheNeverRollsBack
<1>1. Init => IInv /\ Begin /\ OrderInv
  BY InitInvariant, BeginInit, OrderInit
<1>2. IInv /\ Begin /\ OrderInv /\ [Next]_vars => (IInv /\ Begin /\ OrderInv)'
  BY Inductive, BeginStep, OrderStep
<1>3. IInv /\ Begin /\ OrderInv /\ [Next]_vars =>
        [spent.requests <= 2 /\ spent.updates = 0 => disk'.manifest >= disk.manifest]_vars
  BY OrderStep DEF Undivided
<1> QED BY <1>1, <1>2, <1>3, PTL DEF Spec, CacheNeverRollsBack

(***************************************************************************)
(* A request limited to the cache stays off the network.  At most two      *)
(* requests were made, and the reads of both found the same manifest: the  *)
(* second request came before any answer could write to the caches, or     *)
(* after the read of the first had ended.                                  *)
(***************************************************************************)
Limited == loader.cacheOnly \/ UpdatesDisabled

Offline ==
  /\ \A c, d \in cachedReads : c.rev = d.rev
  /\ loader.cached # None => \A c \in cachedReads : c.rev = loader.cached
  /\ loader.cached \notin RefusedRevs
  /\ Limited /\ loader.cached # None => Current(Device).kind # "withTimeout"

OfflineInv == spent.requests <= 2 => Offline

\* A request starts with no cached manifest, and its read finds the one an earlier read found.
LEMMA NoneCachedOffline ==
  ASSUME loader'.cached = None, \A c, d \in cachedReads' : c.rev = d.rev
  PROVE  Offline'
BY PoliciesAssumption DEF Offline, None, Revs

\* Neither a new fetcher that asks the server nor its cache changes what the request is limited to.
LEMMA NetRequestedLimits ==
  ASSUME NEW s \in DeviceType, NEW t, NEW new, NEW zero, NetRequested(s, t, new, zero)
  PROVE  t.loader.cached = s.loader.cached /\ t.loader.cacheOnly = s.loader.cacheOnly
<1>1. PICK v \in DeviceType : NetStarted(s, v, new, zero) /\ Requested(v, t, new)
  BY DEF NetRequested
<1>2. v.loader.cached = s.loader.cached /\ v.loader.cacheOnly = s.loader.cacheOnly
  <2>1. CASE \E x : Began(s, v, new, x)
    BY <2>1 DEF Began, Kept
  <2>2. ASSUME NEW u, NEW w, NEW x, Began(s, u, new, x), Ended(u, w, new, FALSE), EndedAs(u, w, v, new)
        PROVE  v.loader.cached = s.loader.cached /\ v.loader.cacheOnly = s.loader.cacheOnly
    <3>1. Kept(s, u) /\ Kept(u, w)
      BY <2>2 DEF Began, Ended
    <3>2. Kept(w, v)
      BY <2>2 DEF EndedAs, Finished, FellBack, CacheOnlyStarted, Failed
    <3> QED BY <3>1, <3>2 DEF Kept
  <2> QED BY <1>1, <2>1, <2>2 DEF NetStarted
<1> QED BY <1>1, <1>2 DEF Requested, LoaderButSlot

LEMMA RequestLimits ==
  ASSUME NEW s \in DeviceType, NEW t \in DeviceType,
         \/ s = t \/ DevRequested(s, t)
         \/ \E m : CacheRequested(s, t, m)
         \/ \E new, zero : NetRequested(s, t, new, zero)
  PROVE  t.loader.cached = s.loader.cached /\ t.loader.cacheOnly = s.loader.cacheOnly
<1>1. CASE s = t
  BY <1>1
<1>2. CASE DevRequested(s, t) \/ \E m : CacheRequested(s, t, m)
  BY <1>2 DEF DevRequested, CacheRequested, DevStarted, CacheOnlyStarted, Kept
<1>3. CASE \E new, zero : NetRequested(s, t, new, zero)
  BY <1>3, NetRequestedLimits
<1> QED BY <1>1, <1>2, <1>3

\* The new fetcher of a request that does not ask the server is not EXAppFetcherWithTimeout.
LEMMA LocalRequest ==
  ASSUME NEW s, NEW t, NEW u, DevRequested(s, t) \/ \E m : CacheRequested(s, t, m), Freed(t, u)
  PROVE  Current(u).kind # "withTimeout"
<1>1. PICK new \in Fetchers : t.loader.fetcher = new /\ t.fetchers[new].kind \in {"dev", "cacheOnly"}
  BY DEF DevRequested, CacheRequested, DevStarted, CacheOnlyStarted
<1>2. u.loader.fetcher = new /\ u.fetchers[new].kind \in {"dev", "cacheOnly", "none"}
  BY <1>1 DEF Freed, GoneFrom
<1> QED BY <1>1, <1>2, FetchersAssumption DEF Current

LEMMA RequestOffline ==
  ASSUME IInv, Begin, OfflineInv, NEW cacheOnly \in BOOLEAN, Request(cacheOnly)
  PROVE  OfflineInv'
<1> DEFINE m == LocalManifest(disk)
           read == [request |-> spent.requests, rev |-> m]
<1>1. spent.requests \in Nat /\ spent'.requests = spent.requests + 1 /\ server \in Nat
  BY RequestEffect, TypedDevice
<1>2. PICK s \in DeviceType, t \in DeviceType :
        /\ WasReset(Device, s, cacheOnly) /\ Freed(t, Device')
        /\ \/ s = t \/ DevRequested(s, t)
           \/ \E new, zero : NetRequested(s, t, new, zero)
        /\ cachedReads' = cachedReads \/ cachedReads' = cachedReads \cup {read}
  BY RequestEffect
<1>3. loader'.cached = None
  <2>1. s.loader.cached = None
    BY <1>2 DEF WasReset, NewLoader
  <2>2. t.loader.cached = None
    BY <1>2, <2>1, RequestLimits
  <2> QED BY <1>2, <2>2 DEF Freed, Device
<1> SUFFICES ASSUME spent.requests \in {0, 1}
             PROVE  \A c, d \in cachedReads' : c.rev = d.rev
  BY <1>1, <1>3, NoneCachedOffline DEF OfflineInv, Offline
<1>4. \A c \in cachedReads : c.rev = m
  BY DEF Begin
<1>5. \A c \in cachedReads' : c.rev = m
  BY <1>2, <1>4
<1> QED BY <1>5

LEMMA ReadOffline ==
  ASSUME IInv, OfflineInv, NEW c \in cachedReads,
         CachedManifestVerified(c) \/ CachedManifestRejected(c)
  PROVE  OfflineInv'
<1>1. /\ cachedReads' = cachedReads \ {c} /\ UNCHANGED spent
      /\ Device \in DeviceType /\ DeviceFieldsAre(Device)
  BY TypedDevice, DeviceFields DEF CachedManifestVerified, CachedManifestRejected
<1> SUFFICES ASSUME Offline
             PROVE  Offline'
  BY <1>1 DEF OfflineInv
<1>2. \A d, e \in cachedReads' : d.rev = e.rev /\ d.rev = c.rev
  BY <1>1 DEF Offline
<1>3. CASE CachedManifestVerified(c)
  <2>1. PICK s \in DeviceType, t \in DeviceType :
          /\ CacheRead(Device, s, c.rev) /\ Freed(t, Device')
          /\ \/ DevRequested(s, t)
             \/ ~Limited /\ \E new, zero : NetRequested(s, t, new, zero)
             \/ CacheRequested(s, t, c.rev)
    BY <1>3, CachedManifestVerifiedEffect DEF Limited
  <2>2. loader'.cached = c.rev /\ loader'.cacheOnly = loader.cacheOnly
    <3>1. t.loader.cached = s.loader.cached /\ t.loader.cacheOnly = s.loader.cacheOnly
      BY <2>1, RequestLimits
    <3> QED BY <1>1, <2>1, <3>1 DEF CacheRead, Freed, Device, DeviceFieldsAre
  <2>3. Limited' => Current(Device').kind # "withTimeout"
    BY <2>1, <2>2, LocalRequest DEF Limited
  <2>4. c.rev \notin RefusedRevs
    BY <1>3, CachedManifestVerifiedEffect
  <2> QED BY <1>2, <2>2, <2>3, <2>4 DEF Offline, Current, Device
<1>4. CASE CachedManifestRejected(c)
  <2>1. loader.cached = None
    BY <1>4 DEF Offline, CachedManifestRejected
  <2>2. PICK t \in DeviceType, new \in Fetchers :
          NetRequested(Device, t, new, FALSE) /\ Freed(t, Device')
    BY <1>4, CachedManifestRejectedEffect
  <2>3. t.loader.cached = loader.cached
    BY <1>1, <2>2, NetRequestedLimits DEF DeviceFieldsAre
  <2>4. loader'.cached = None
    BY <2>1, <2>2, <2>3 DEF Freed, Device
  <2> QED BY <1>2, <2>4, NoneCachedOffline DEF Offline
<1> QED BY <1>3, <1>4

\* Answers, of the server to fetchers and to the updates manager, leave the request as it is.
LEMMA UpdateCalm ==
  ASSUME IInv, UpdateAnswer \/ FetchUpdate
  PROVE  Calm(Device, Device') /\ UNCHANGED cachedReads /\ spent'.requests = spent.requests
<1> DEFINE Same(s, t) == /\ t.loader.cached = s.loader.cached /\ t.loader.cacheOnly = s.loader.cacheOnly
                         /\ t.loader.fetcher = s.loader.fetcher
                         /\ \A g \in Fetchers : t.fetchers[g].kind = s.fetchers[g].kind
<1>1. Device \in DeviceType
  BY TypedDevice
<1>2. ASSUME NEW s, NEW t, UpdatesOnly(s, t)
      PROVE  Same(s, t)
  BY <1>2 DEF UpdatesOnly
<1>3. ASSUME NEW t \in DeviceType, Same(Device, t), Freed(t, Device')
      PROVE  Calm(Device, Device')
  <2>1. Calm(Device, t)
    BY <1>1, <1>3, SameCurrent DEF Calm
  <2>2. Calm(t, Device')
    BY <1>3, FreedQuiet DEF Quiet
  <2> QED BY <2>1, <2>2 DEF Calm
<1>4. CASE FetchUpdate
  <2>1. PICK p \in DeviceType, t \in DeviceType :
          Prepared(Device, p) /\ UpdatesOnly(p, t) /\ Freed(t, Device')
    BY <1>4, FetchUpdateEffect
  <2>2. Same(Device, p)
    BY <2>1 DEF Prepared, UnlinkedFrom, FetcherRelabelled, LoaderButSlot
  <2>3. Same(Device, t)
    BY <1>2, <2>1, <2>2
  <2> QED BY <1>3, <1>4, <2>1, <2>3, FetchUpdateEffect
<1>5. CASE UpdateManifestArrives \/ UpdateManifestFails
  <2>1. PICK a \in DeviceType, d \in DeviceType, t \in DeviceType :
          /\ UpdatesOnly(Device, a)
          /\ d = a \/ \E m \in Answers(updates.pending) : DataArrived(a, d, updates.resource, m)
          /\ UpdatesOnly(d, t) /\ Freed(t, Device')
    BY <1>5, UpdateManifestEffect
  <2>2. Same(Device, a) /\ Same(d, t)
    BY <1>2, <2>1
  <2>3. Same(a, d)
    BY <2>1 DEF DataArrived, LoaderButSlot
  <2>4. Same(Device, t)
    BY <2>2, <2>3
  <2> QED BY <1>3, <1>5, <2>1, <2>4, UpdateManifestEffect
<1>6. CASE UpdateBundleArrives \/ UpdateBundleFails
  <2>1. PICK a \in DeviceType, s \in DeviceType, w \in DeviceType, t \in DeviceType :
          /\ UpdatesOnly(Device, a) /\ (s = a \/ Stored(a, s, updates.pending.rev))
          /\ (w = s \/ Written(s, w))
          /\ UpdatesOnly(w, t) /\ Freed(t, Device')
    BY <1>6, UpdateBundleEffect
  <2>2. Same(Device, a) /\ Same(w, t)
    BY <1>2, <2>1
  <2>3. Same(a, s)
    BY <2>1 DEF Stored
  <2>4. Same(s, w)
    BY <2>1 DEF Written, LoaderButSlot, FetcherRelabelled
  <2>5. Same(Device, t)
    BY <2>2, <2>3, <2>4
  <2> QED BY <1>3, <1>6, <2>1, <2>5, UpdateBundleEffect
<1> QED BY <1>4, <1>5, <1>6 DEF UpdateAnswer

LEMMA CalmOffline ==
  ASSUME OfflineInv, Calm(Device, Device'), UNCHANGED cachedReads, spent'.requests = spent.requests
  PROVE  OfflineInv'
<1>1. /\ loader'.cached = loader.cached /\ loader'.cacheOnly = loader.cacheOnly
      /\ Current(Device').kind = "withTimeout" => Current(Device).kind = "withTimeout"
  BY DEF Calm, Device
<1> QED BY <1>1 DEF OfflineInv, Offline, Limited, Current, Device

LEMMA OfflineStep ==
  ASSUME IInv, Begin, OfflineInv, [Next]_vars
  PROVE  OfflineInv'
<1>1. CASE Publish \/ ExperienceFails \/ ExperienceFinishedLoading \/ UNCHANGED vars
  <2>1. UNCHANGED <<cachedReads, spent, disk, loader, fetchers, updates, delegate>>
    BY <1>1 DEF Publish, ExperienceFails, ExperienceFinishedLoading, vars
  <2>2. Device' = Device
    BY <2>1 DEF Device
  <2> QED BY <2>1, <2>2 DEF OfflineInv, Offline, Limited
<1>2. CASE Relaunch
  <2>1. cachedReads' = {} /\ loader'.cached = None
    BY <1>2, RelaunchEffect DEF NewLoader
  <2> QED BY <2>1, NoneCachedOffline DEF OfflineInv, Offline
<1>3. ASSUME NEW cacheOnly \in BOOLEAN, Request(cacheOnly)
      PROVE  OfflineInv'
  BY <1>3, RequestOffline
<1>4. CASE ReadAnswer
  BY <1>4, ReadOffline DEF ReadAnswer
<1>5. CASE (\E f \in Fetchers : FetcherAnswer(f)) \/ ForceBundleReload
  BY <1>5, AnswerForward, CalmOffline DEF Forward
<1>6. CASE UpdateAnswer \/ FetchUpdate
  BY <1>6, UpdateCalm, CalmOffline
<1> QED BY <1>1, <1>2, <1>3, <1>4, <1>5, <1>6 DEF Next

\* requestFromCache with a verified cached manifest, and any request of an app whose remote
\* updates are disabled, is not checking the network, whatever fetchers of the earlier request do.
THEOREM LimitedRequestStaysOffline == Spec => []CacheOnlyStaysOffline
<1>1. Init => IInv /\ Begin /\ OfflineInv
  <2>1. Init => OfflineInv
    BY PoliciesAssumption DEF Init, OfflineInv, Offline, NewLoader, None, Revs
  <2> QED BY <2>1, InitInvariant, BeginInit
<1>2. IInv /\ Begin /\ OfflineInv /\ [Next]_vars => (IInv /\ Begin /\ OfflineInv)'
  BY Inductive, BeginStep, OfflineStep
<1>3. OfflineInv => CacheOnlyStaysOffline
  BY DEF OfflineInv, Offline, Limited, CacheOnlyStaysOffline
<1> QED BY <1>1, <1>2, <1>3, PTL DEF Spec
=============================================================================
