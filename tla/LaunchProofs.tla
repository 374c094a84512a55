---------------------------- MODULE LaunchProofs ----------------------------
(***************************************************************************)
(* Theorems about the launch of an app by AppLoader, from the first        *)
(* request of a process to its first reload, for every value of the        *)
(* constants.                                                              *)
(***************************************************************************)
EXTENDS CacheOrderProofs

(***************************************************************************)
(* One request starts one fetcher, and at most one fetcher follows it: the *)
(* fetcher of the cache that stands in for an EXAppFetcherWithTimeout      *)
(* which has timed out or failed, or the one in development mode.          *)
(***************************************************************************)
\* The fetcher that asks the server is the loader's until it has finished.
Leads(s, f) == s.loader.fetcher = f /\ s.loader.previous # f

NetShape(s, f) ==
  LET x == s.fetchers[f]
  IN /\ s.loader.cached \notin DevRevs
     /\ ~x.hasFinished => Leads(s, f) /\ \A g \in Fetchers : s.fetchers[g].kind # "cacheOnly"
     /\ s.loader.fetcher # f => Current(s).kind = "cacheOnly"
     /\ x.pending.op # "idle" => x.bundle = None

\* Without a cached manifest there is nothing the app could be started from before the server
\* answers: what is in the cache is refused.
NothingToRun(s, f) ==
  s.fetchers[f].bundle = None /\ s.loader.cached = None =>
    /\ LocalManifest(s.disk) \in RefusedRevs \cup {None}
    /\ s.delegate.running = None
    /\ s.fetchers[f].resource # "write"

\* The fetcher of the cache has the manifest that was verified, or waits for the refused one.
CacheShape(s, g) ==
  LET x == s.fetchers[g]
  IN /\ s.loader.cached \notin DevRevs
     /\ x.manifest = s.loader.cached
     /\ x.pending.op \in {"idle", "cached"}
     /\ x.pending.op = "cached" => x.pending.rev \in RefusedRevs

Launch(s) ==
  /\ \A f, g \in Fetchers : UsesNet(s, f) /\ UsesNet(s, g) => f = g
  /\ \A f \in Fetchers : UsesNet(s, f) => NetShape(s, f) /\ NothingToRun(s, f)
  /\ \A g \in Fetchers : s.fetchers[g].kind = "cacheOnly" => CacheShape(s, g)
  /\ \A g \in Fetchers : s.fetchers[g].kind = "dev" =>
       s.loader.fetcher = g /\ \A f \in Fetchers : ~UsesNet(s, f)
  /\ s.delegate.running = None => s.updates = NoUpdate

\* What the loader has confirmed is what runs, or the delegate was told.
Told(s) ==
  s.loader.confirmed # None /\ Current(s).bundle # None =>
    s.loader.confirmed \in {Current(s).bundle} \cup s.delegate.announced

LaunchInv == spent.requests <= 1 => Launch(Device) /\ Told(Device)

-----------------------------------------------------------------------------
\* How one operator after the other keeps this.
LEMMA EndedLaunch ==
  ASSUME NEW s \in DeviceType, NEW u, NEW f \in Fetchers, NEW err, Launch(s), Ended(s, u, f, err),
         UsesNet(s, f)
  PROVE  Launch(u) /\ UsesNet(u, f) /\ u.fetchers[f].hasFinished
<1>1. /\ u \in DeviceType /\ u.loader.cached = s.loader.cached /\ u.loader.fetcher = s.loader.fetcher
      /\ u.disk = s.disk /\ u.updates = s.updates /\ u.delegate.running = s.delegate.running
      /\ \A g \in Fetchers \ {f} : u.fetchers[g] = s.fetchers[g]
      /\ u.fetchers[f].kind = s.fetchers[f].kind /\ u.fetchers[f].bundle = s.fetchers[f].bundle
      /\ u.fetchers[f].pending = s.fetchers[f].pending /\ u.fetchers[f].resource = s.fetchers[f].resource
      /\ u.fetchers[f].hasFinished
  BY DEF Ended, Kept, OthersKept
<1>2. Current(u).kind = Current(s).kind
  BY <1>1, SameCurrent
<1>3. \A g \in Fetchers : UsesNet(u, g) => g = f
  BY <1>1 DEF Launch, UsesNet
<1>4. NetShape(u, f) /\ NothingToRun(u, f)
  BY <1>1, <1>2 DEF Launch, NetShape, NothingToRun
<1>5. \A g \in Fetchers : u.fetchers[g].kind = "cacheOnly" => CacheShape(u, g)
  BY <1>1 DEF Launch, CacheShape, UsesNet
<1> QED BY <1>1, <1>3, <1>4, <1>5 DEF Launch, UsesNet

\* didFinishLoading is called by a fetcher that has a bundle.
LEMMA FinishedLaunch ==
  ASSUME NEW s \in DeviceType, NEW t, NEW f \in Fetchers, Launch(s), Finished(s, t, f),
         \/ UsesNet(s, f) /\ s.fetchers[f].bundle # None
         \/ s.fetchers[f].kind = "dev"
         \/ s.loader.cached # None
  PROVE  Launch(t)
<1>1. /\ t \in DeviceType /\ t.fetchers = s.fetchers /\ t.disk = s.disk /\ t.updates = s.updates
      /\ t.loader.cached = s.loader.cached /\ t.loader.fetcher = s.loader.fetcher
      /\ t.loader.previous = s.loader.previous
  BY DEF Finished, Kept
<1>2. t.delegate.running = None => s.delegate.running = None
  BY DEF Finished, RunningAfter
<1>3. Current(t) = Current(s)
  BY <1>1 DEF Current
<1>4. ASSUME NEW g \in Fetchers, UsesNet(t, g)
      PROVE  NetShape(t, g) /\ NothingToRun(t, g)
  <2>1. NetShape(t, g)
    BY <1>1, <1>3, <1>4 DEF Launch, NetShape, Leads, UsesNet
  <2>2. ~(t.fetchers[g].bundle = None /\ t.loader.cached = None)
    BY <1>1, <1>4 DEF Launch, UsesNet
  <2> QED BY <2>1, <2>2 DEF NothingToRun
<1> QED BY <1>1, <1>2, <1>4 DEF Launch, CacheShape, UsesNet

LEMMA FailedLaunch ==
  ASSUME NEW s \in DeviceType, NEW t, NEW f \in Fetchers, Launch(s), Failed(s, t, f)
  PROVE  Launch(t)
<1>1. /\ t \in DeviceType /\ t.disk = s.disk /\ t.updates = s.updates
      /\ t.loader.cached = s.loader.cached /\ t.loader.fetcher = s.loader.fetcher
      /\ t.loader.previous \in {NoFetcher, s.loader.previous}
      /\ t.delegate.running = s.delegate.running
      /\ \A g \in Fetchers : Alike(s.fetchers[g], t.fetchers[g])
  BY DEF Failed, Kept, OthersKept, Alike, PreviousWithout
<1>2. Current(t).kind = Current(s).kind
  BY <1>1, SameCurrent DEF Alike
<1>3. ASSUME NEW g \in Fetchers, UsesNet(t, g)
      PROVE  NetShape(t, g) /\ NothingToRun(t, g)
  BY <1>1, <1>2, <1>3, FetchersAssumption DEF Launch, NetShape, NothingToRun, Leads, UsesNet, Alike
<1>4. \A g \in Fetchers : t.fetchers[g].kind = "cacheOnly" => CacheShape(t, g)
  BY <1>1 DEF Launch, CacheShape, Alike
<1> QED BY <1>1, <1>3, <1>4 DEF Launch, UsesNet, Alike

\* The cache stands in for the fetcher f.
LEMMA FellBackLaunch ==
  ASSUME NEW s \in DeviceType, NEW t, NEW f \in Fetchers, NEW new \in Fetchers, Launch(s),
         UsesNet(s, f), s.fetchers[f].hasFinished, s.fetchers[f].bundle = None,
         FellBack(s, t, new, f)
  PROVE  Launch(t)
<1> DEFINE y == t.fetchers[new]
           read == LocalManifest(s.disk)
<1>1. /\ t \in DeviceType /\ t.disk = s.disk /\ t.updates = s.updates
      /\ t.loader.cached = s.loader.cached /\ t.loader.fetcher = new
      /\ \A g \in Fetchers \ {new} : t.fetchers[g] = s.fetchers[g]
      /\ y.kind = "cacheOnly" /\ y.manifest = s.loader.cached /\ new # f
  BY DEF FellBack, CacheOnlyStarted, Kept, OthersKept
<1>2. /\ y.pending.op \in {"idle", "cached"} \/ s.loader.cached \in DevRevs
      /\ y.pending.op = "cached" => s.loader.cached = None /\ read # None /\ y.pending.rev = read
      /\ s.loader.cached = None => t.delegate.running = s.delegate.running
      /\ t.delegate.running = None => s.delegate.running = None
  BY DEF FellBack, CacheOnlyStarted, Idle, RunningAfter
<1>3. \A g \in Fetchers : UsesNet(t, g) => g = f
  BY <1>1 DEF Launch, UsesNet
<1>4. Current(t).kind = "cacheOnly"
  BY <1>1, FetchersAssumption DEF Current
<1>5. NetShape(t, f)
  BY <1>1, <1>4 DEF Launch, NetShape
<1>6. NothingToRun(t, f) /\ NothingToRun(s, f) /\ s.loader.cached \notin DevRevs
  BY <1>1, <1>2 DEF Launch, NothingToRun, NetShape
<1>7. CacheShape(t, new)
  BY <1>1, <1>2, <1>6 DEF CacheShape, NothingToRun
<1>8. \A g \in Fetchers : t.fetchers[g].kind = "cacheOnly" => CacheShape(t, g)
  BY <1>1, <1>7 DEF Launch, CacheShape
<1>9. \A g \in Fetchers : t.fetchers[g].kind # "dev"
  BY <1>1 DEF Launch
<1> QED BY <1>1, <1>2, <1>3, <1>5, <1>6, <1>8, <1>9 DEF Launch

\* _finishWithError.
LEMMA NetEndsLaunch ==
  ASSUME NEW s \in DeviceType, NEW u \in DeviceType, NEW t, NEW f \in Fetchers, NEW err,
         Launch(s), UsesNet(s, f), Ended(s, u, f, err), EndedAs(s, u, t, f)
  PROVE  Launch(t)
<1>1. /\ Launch(u) /\ UsesNet(u, f) /\ u.fetchers[f].hasFinished
      /\ u.fetchers[f].bundle = s.fetchers[f].bundle
  BY EndedLaunch DEF Ended
<1>2. CASE s.fetchers[f].bundle # None /\ Finished(u, t, f)
  BY <1>1, <1>2, FinishedLaunch
<1>3. CASE s.fetchers[f].bundle = None /\ \E new \in Fetchers : FellBack(u, t, new, f)
  BY <1>1, <1>3, FellBackLaunch
<1>4. CASE Failed(u, t, f)
  BY <1>1, <1>4, FailedLaunch
<1> QED BY <1>2, <1>3, <1>4 DEF EndedAs

\* The record of one fetcher changes, but not what the loader relies on.
LEMMA SwappedLaunch ==
  ASSUME NEW s \in DeviceType, NEW t, NEW f \in Fetchers, NEW x, Launch(s), Swapped(s, t, f, x),
         x.kind = s.fetchers[f].kind, x.hasFinished = s.fetchers[f].hasFinished,
         UsesNet(s, f) => /\ x.pending.op # "idle" => x.bundle = None
                          /\ x.bundle = None => s.fetchers[f].bundle = None
                          /\ x.resource \in {"none", s.fetchers[f].resource},
         s.fetchers[f].kind = "cacheOnly" =>
           x.manifest = s.fetchers[f].manifest /\ x.pending \in {Idle, s.fetchers[f].pending}
  PROVE  Launch(t)
<1>1. /\ t \in DeviceType /\ t.disk = s.disk /\ t.updates = s.updates /\ t.loader = s.loader
      /\ t.delegate = s.delegate /\ t.fetchers[f] = x
      /\ \A g \in Fetchers \ {f} : t.fetchers[g] = s.fetchers[g]
  BY DEF Swapped, OthersKept
<1>2. \A g \in Fetchers : t.fetchers[g].kind = s.fetchers[g].kind
  BY <1>1
<1>3. Current(t).kind = Current(s).kind
  BY <1>1, <1>2, SameCurrent
<1>4. ASSUME NEW g \in Fetchers, UsesNet(t, g)
      PROVE  NetShape(t, g) /\ NothingToRun(t, g)
  <2>1. UsesNet(s, g) /\ NetShape(s, g) /\ NothingToRun(s, g)
    BY <1>2, <1>4 DEF Launch, UsesNet
  <2>2. NetShape(t, g)
    BY <1>1, <1>2, <1>3, <2>1 DEF NetShape, Leads
  <2>3. NothingToRun(t, g)
    BY <1>1, <2>1 DEF NothingToRun
  <2> QED BY <2>2, <2>3
<1>5. \A g \in Fetchers : t.fetchers[g].kind = "cacheOnly" => CacheShape(t, g)
  BY <1>1, <1>2 DEF Launch, CacheShape, Idle
<1> QED BY <1>1, <1>2, <1>4, <1>5 DEF Launch, UsesNet

\* Two fetchers that differ in their error and in the role of their resource only.
SameWork(x, y) ==
  /\ y.kind = x.kind /\ y.manifest = x.manifest /\ y.bundle = x.bundle
  /\ y.hasFinished = x.hasFinished /\ y.pending = x.pending

\* The caches change under a fetcher that no longer depends on what is in them.
LEMMA DiskLaunch ==
  ASSUME NEW s \in DeviceType, NEW t \in DeviceType, Launch(s),
         LoaderButSlot(s, t), t.delegate = s.delegate,
         \A g \in Fetchers : SameWork(s.fetchers[g], t.fetchers[g]),
         s.updates = NoUpdate => t.updates = NoUpdate,
         \A g \in Fetchers : UsesNet(s, g) =>
           \/ s.fetchers[g].bundle # None \/ s.loader.cached # None \/ s.delegate.running # None
           \/ /\ LocalManifest(t.disk) = LocalManifest(s.disk)
              /\ t.fetchers[g].resource = "write" => s.fetchers[g].resource = "write"
  PROVE  Launch(t)
<1>1. /\ t.loader.cached = s.loader.cached /\ t.loader.fetcher = s.loader.fetcher
      /\ t.loader.previous = s.loader.previous
      /\ \A g \in Fetchers : t.fetchers[g].kind = s.fetchers[g].kind
  BY DEF SameWork, LoaderButSlot
<1>2. Current(t).kind = Current(s).kind
  BY <1>1, SameCurrent
<1>3. ASSUME NEW g \in Fetchers, UsesNet(t, g)
      PROVE  NetShape(t, g) /\ NothingToRun(t, g)
  <2>1. UsesNet(s, g) /\ NetShape(s, g) /\ NothingToRun(s, g)
    BY <1>1, <1>3 DEF Launch, UsesNet
  <2>2. NetShape(t, g)
    BY <1>1, <1>2, <2>1 DEF NetShape, Leads, SameWork
  <2>3. NothingToRun(t, g)
    BY <1>1, <2>1 DEF NothingToRun, SameWork
  <2> QED BY <2>2, <2>3
<1>4. \A g \in Fetchers : t.fetchers[g].kind = "cacheOnly" => CacheShape(t, g)
  BY <1>1 DEF Launch, CacheShape, SameWork
<1> QED BY <1>1, <1>3, <1>4 DEF Launch, UsesNet

LEMMA NoUpdateRelabelled ==
  ASSUME NEW x \in Updates, NEW y \in Updates, NEW from, NEW to, from # "none",
         Relabelled(x, y, from, to), y.hasLoader = x.hasLoader, x = NoUpdate
  PROVE  y = NoUpdate
<1>1. y.pending = Idle /\ y.resource = "none" /\ y.hasLoader = FALSE
  BY DEF Relabelled, NoUpdate
<1> QED BY <1>1 DEF Updates, NoUpdate

LEMMA WrittenLaunch ==
  ASSUME NEW s \in DeviceType, NEW t, Launch(s), Written(s, t),
         \A g \in Fetchers : UsesNet(s, g) =>
           \/ s.fetchers[g].bundle # None \/ s.loader.cached # None \/ s.delegate.running # None
  PROVE  Launch(t)
<1>1. /\ t \in DeviceType /\ LoaderButSlot(s, t) /\ t.delegate = s.delegate
      /\ s.updates \in Updates /\ t.updates \in Updates
  BY DEF Written, DeviceType
<1>2. \A g \in Fetchers : SameWork(s.fetchers[g], t.fetchers[g])
  BY DEF Written, FetcherRelabelled, Relabelled, SameWork
<1>3. s.updates = NoUpdate => t.updates = NoUpdate
  <2>1. t.updates = s.updates \/ Relabelled(s.updates, t.updates, "slot", "write")
    BY DEF Written
  <2>2. t.updates.hasLoader = s.updates.hasLoader
    BY DEF Written
  <2> QED BY <1>1, <2>1, <2>2, NoUpdateRelabelled
<1> QED BY <1>1, <1>2, <1>3, DiskLaunch

LEMMA DataArrivedLaunch ==
  ASSUME NEW s \in DeviceType, NEW t, NEW role, NEW m, Launch(s), DataArrived(s, t, role, m),
         role = "write" => \A g \in Fetchers : UsesNet(s, g) =>
           \/ s.fetchers[g].bundle # None \/ s.loader.cached # None \/ s.delegate.running # None
  PROVE  Launch(t)
<1>1. /\ t \in DeviceType /\ LoaderButSlot(s, t) /\ t.delegate = s.delegate
      /\ t.fetchers = s.fetchers /\ t.updates = s.updates
  BY DEF DataArrived
<1>2. role # "write" => LocalManifest(t.disk) = LocalManifest(s.disk)
  BY DEF DataArrived, LocalManifest
<1>3. \A g \in Fetchers : SameWork(s.fetchers[g], t.fetchers[g])
  BY <1>1 DEF SameWork
<1> QED BY <1>1, <1>2, <1>3, DiskLaunch

LEMMA StoredLaunch ==
  ASSUME NEW s \in DeviceType, NEW t, NEW m, Launch(s), Stored(s, t, m)
  PROVE  Launch(t)
<1>1. /\ t \in DeviceType /\ LoaderButSlot(s, t) /\ t.delegate = s.delegate
      /\ t.fetchers = s.fetchers /\ t.updates = s.updates
      /\ LocalManifest(t.disk) = LocalManifest(s.disk)
  BY DEF Stored, LoaderButSlot, LocalManifest
<1>2. \A g \in Fetchers : SameWork(s.fetchers[g], t.fetchers[g])
  BY <1>1 DEF SameWork
<1> QED BY <1>1, <1>2, DiskLaunch

LEMMA UpdatesOnlyLaunch ==
  ASSUME NEW s \in DeviceType, NEW t, Launch(s), UpdatesOnly(s, t),
         s.delegate.running # None \/ t.updates = s.updates
  PROVE  Launch(t)
<1>1. /\ t \in DeviceType /\ t.loader = s.loader /\ t.delegate = s.delegate
      /\ t.fetchers = s.fetchers /\ t.disk = s.disk
  BY DEF UpdatesOnly
<1> QED BY <1>1 DEF Launch, NetShape, NothingToRun, CacheShape, Leads, UsesNet, Current

LEMMA PreparedLaunch ==
  ASSUME NEW s \in DeviceType, NEW t, Launch(s), Prepared(s, t)
  PROVE  Launch(t)
<1>1. /\ t \in DeviceType /\ LoaderButSlot(s, t) /\ t.delegate = s.delegate
      /\ s.updates \in Updates /\ t.updates \in Updates /\ t.disk = s.disk
      /\ \A g \in Fetchers : SameWork(s.fetchers[g], t.fetchers[g])
      /\ \A g \in Fetchers : t.fetchers[g].resource = "write" => s.fetchers[g].resource = "write"
  BY DEF Prepared, UnlinkedFrom, FetcherRelabelled, Relabelled, SameWork, DeviceType
<1>2. s.updates = NoUpdate => t.updates = NoUpdate
  BY <1>1, NoUpdateRelabelled DEF Prepared, UnlinkedFrom
<1> QED BY <1>1, <1>2, DiskLaunch

LEMMA FreedLaunch ==
  ASSUME NEW s \in DeviceType, NEW t, Launch(s), Freed(s, t)
  PROVE  Launch(t)
<1>1. /\ t \in DeviceType /\ t.loader = s.loader /\ t.delegate = s.delegate
      /\ t.updates = s.updates /\ t.disk = s.disk
      /\ \A g \in Fetchers : t.fetchers[g] = s.fetchers[g] \/ t.fetchers[g].kind = "none"
  BY DEF Freed, GoneFrom
<1>2. Current(t) = Current(s)
  <2>1. s.loader.fetcher = NoFetcher \/ s.loader.fetcher \in Fetchers
    BY DEF DeviceType, Loader
  <2>2. s.loader.fetcher \in Fetchers => Alive(s, s.loader.fetcher)
    BY DEF Alive
  <2> QED BY <1>1, <2>1, <2>2 DEF Current, Freed
<1>3. ASSUME NEW g \in Fetchers, UsesNet(t, g)
      PROVE  NetShape(t, g) /\ NothingToRun(t, g)
  <2>1. t.fetchers[g] = s.fetchers[g] /\ UsesNet(s, g)
    BY <1>1, <1>3 DEF UsesNet
  <2>2. NetShape(s, g) /\ NothingToRun(s, g)
    BY <2>1 DEF Launch
  <2> QED BY <1>1, <1>2, <2>1, <2>2 DEF NetShape, NothingToRun, Leads
<1>4. \A g \in Fetchers : t.fetchers[g].kind = "cacheOnly" => CacheShape(t, g)
  BY <1>1 DEF Launch, CacheShape
<1> QED BY <1>1, <1>3, <1>4 DEF Launch, UsesNet

\* The fetcher f has its bundle, finishes with it, and the manifest may be written.
LEMMA BundleTakenLaunch ==
  ASSUME NEW s \in DeviceType, NEW t, NEW f \in Fetchers, Launch(s), UsesNet(s, f),
         BundleTaken(s, t, f), s.fetchers[f].manifest # None, s.fetchers[f].pending = Idle
  PROVE  Launch(t)
<1> DEFINE x == [s.fetchers[f] EXCEPT !.bundle = s.fetchers[f].manifest]
<1>1. /\ x.kind = s.fetchers[f].kind /\ x.hasFinished = s.fetchers[f].hasFinished
      /\ x.pending = Idle /\ x.bundle # None /\ x.resource = s.fetchers[f].resource
  BY DEF DeviceType, Fetcher
<1>2. PICK b \in DeviceType, u \in DeviceType, v \in DeviceType, err \in BOOLEAN :
        /\ Swapped(s, b, f, x) /\ Ended(b, u, f, err) /\ EndedAs(b, u, v, f) /\ Written(v, t)
  BY DEF BundleTaken
<1> HIDE DEF x
<1>3. Launch(b)
  BY <1>1, <1>2, SwappedLaunch DEF Idle, UsesNet
<1>4. UsesNet(b, f) /\ b.fetchers[f].bundle # None
  BY <1>1, <1>2 DEF Swapped, UsesNet
<1>5. Launch(v)
  BY <1>2, <1>3, <1>4, NetEndsLaunch
<1>6. /\ v.fetchers = u.fetchers /\ u.fetchers[f].bundle # None
      /\ u.fetchers[f].kind = b.fetchers[f].kind
  BY <1>2, <1>4 DEF EndedAs, Finished, Ended
<1>7. \A g \in Fetchers : UsesNet(v, g) => v.fetchers[g].bundle # None
  BY <1>4, <1>5, <1>6 DEF Launch, UsesNet
<1> QED BY <1>2, <1>5, <1>7, WrittenLaunch

-----------------------------------------------------------------------------
\* The current fetcher, of a well-typed device state.
LEMMA CurrentFetcher ==
  ASSUME NEW s \in DeviceType
  PROVE  \/ s.loader.fetcher = NoFetcher /\ Current(s) = NoObject
         \/ s.loader.fetcher \in Fetchers /\ Current(s) = s.fetchers[s.loader.fetcher]
BY FetchersAssumption DEF DeviceType, Loader, Current

\* Nothing is confirmed, or taken back from the current fetcher or the delegate.
LEMMA ToldKept ==
  ASSUME NEW s \in DeviceType, NEW t, Told(s),
         t.loader.confirmed = s.loader.confirmed, t.loader.fetcher = s.loader.fetcher,
         s.delegate.announced \subseteq t.delegate.announced,
         \A g \in Fetchers : t.fetchers[g].bundle \in {None, s.fetchers[g].bundle}
  PROVE  Told(t)
<1>1. Current(t).bundle \in {None, Current(s).bundle}
  BY CurrentFetcher DEF Current
<1> QED BY <1>1 DEF Told

\* A new fetcher of the cache confirms the bundle it has, one in development mode has none.
LEMMA StartedTold ==
  ASSUME NEW s, NEW t, NEW new \in Fetchers, NEW m,
         CacheOnlyStarted(s, t, new, m) \/ DevStarted(s, t, new, m)
  PROVE  Told(t)
<1>1. Current(t) = t.fetchers[new]
  BY FetchersAssumption DEF Current, CacheOnlyStarted, DevStarted
<1>2. t.fetchers[new].bundle = None \/ t.loader.confirmed = t.fetchers[new].bundle
  BY DEF CacheOnlyStarted, DevStarted
<1> QED BY <1>1, <1>2 DEF Told

LEMMA FinishedTold ==
  ASSUME NEW s \in DeviceType, NEW t, NEW f \in Fetchers, Finished(s, t, f),
         Current(s).bundle # None =>
           s.fetchers[f].manifest \in {Current(s).bundle} \cup s.delegate.announced
  PROVE  Told(t)
<1>1. Current(t) = Current(s)
  BY DEF Finished, Current
<1> QED BY <1>1 DEF Told, Finished

LEMMA NetEndsTold ==
  ASSUME NEW s \in DeviceType, NEW u \in DeviceType, NEW t, NEW f \in Fetchers, NEW err,
         Told(s), s.fetchers[f].bundle = None, Ended(s, u, f, err), EndedAs(s, u, t, f)
  PROVE  Told(t)
<1>1. \A g \in Fetchers : u.fetchers[g].bundle = s.fetchers[g].bundle
  BY DEF Ended, OthersKept
<1>2. Told(u)
  <2>1. s.delegate.announced \subseteq u.delegate.announced
    BY DEF Ended, AnnouncedAfter
  <2> QED BY <1>1, <2>1, ToldKept DEF Ended
<1>3. CASE Failed(u, t, f)
  <2>1. \A g \in Fetchers : t.fetchers[g].bundle = u.fetchers[g].bundle
    BY <1>3 DEF Failed, OthersKept, Alike
  <2> QED BY <1>2, <1>3, <2>1, ToldKept DEF Failed
<1>4. CASE \E new \in Fetchers : FellBack(u, t, new, f)
  BY <1>4, StartedTold DEF FellBack
<1> QED BY <1>3, <1>4 DEF EndedAs

\* The fetcher f confirms its manifest: it is the current one, or the delegate is told, or the
\* cache had the same manifest.
LEMMA BundleTakenTold ==
  ASSUME NEW s \in DeviceType, NEW t, NEW f \in Fetchers, Launch(s), UsesNet(s, f),
         BundleTaken(s, t, f), s.fetchers[f].manifest # None,
         \A g \in Fetchers : s.fetchers[g].bundle # None => s.fetchers[g].bundle = s.fetchers[g].manifest
  PROVE  Told(t)
<1> DEFINE m == s.fetchers[f].manifest
           x == [s.fetchers[f] EXCEPT !.bundle = m]
<1>1. /\ x.manifest = m /\ x.bundle = m /\ x.hasFinished = s.fetchers[f].hasFinished
  BY DEF DeviceType, Fetcher
<1>2. PICK b \in DeviceType, u \in DeviceType, v \in DeviceType :
        /\ Swapped(s, b, f, x) /\ Ended(b, u, f, FALSE) /\ EndedAs(b, u, v, f) /\ Written(v, t)
  BY DEF BundleTaken
<1> HIDE DEF x
<1>3. /\ b.loader = s.loader /\ b.fetchers[f] = x
      /\ \A g \in Fetchers \ {f} : b.fetchers[g] = s.fetchers[g]
  BY <1>2 DEF Swapped, OthersKept
<1>4. /\ u.loader.fetcher = s.loader.fetcher /\ u.fetchers[f].manifest = m /\ u.fetchers[f].bundle = m
      /\ \A g \in Fetchers \ {f} : u.fetchers[g] = s.fetchers[g]
  BY <1>1, <1>2, <1>3 DEF Ended, OthersKept
<1>5. Finished(u, v, f)
  BY <1>1, <1>2, <1>3 DEF EndedAs
<1>6. Current(u).bundle # None => m \in {Current(u).bundle} \cup u.delegate.announced
  <2>1. CASE s.loader.fetcher = f
    BY <1>4, <2>1, FetchersAssumption DEF Current
  <2>2. CASE s.loader.fetcher # f
    <3>1. /\ s.fetchers[f].hasFinished /\ Current(s).kind = "cacheOnly"
      BY <2>2 DEF Launch, NetShape, Leads
    <3>2. u.delegate.announced = AnnouncedAfter(b, f, FALSE)
      BY <1>1, <1>2, <1>3, <3>1 DEF Ended
    <3>3. m \in u.delegate.announced \/ m = s.loader.cached
      BY <1>1, <1>3, <3>2 DEF AnnouncedAfter, IsCacheUpToDate
    <3>4. PICK g \in Fetchers : g = s.loader.fetcher /\ s.fetchers[g].kind = "cacheOnly"
      BY <3>1, CurrentFetcher DEF NoObject, NewFetcher
    <3>5. CacheShape(s, g) /\ u.fetchers[g] = s.fetchers[g]
      BY <1>4, <2>2, <3>4 DEF Launch
    <3>6. Current(u) = s.fetchers[g]
      BY <1>4, <3>4, <3>5, FetchersAssumption DEF Current
    <3> QED BY <3>3, <3>5, <3>6 DEF CacheShape
  <2> QED BY <2>1, <2>2
<1>7. Told(v)
  BY <1>4, <1>5, <1>6, FinishedTold
<1>8. /\ t.loader.confirmed = v.loader.confirmed /\ t.loader.fetcher = v.loader.fetcher
      /\ t.delegate = v.delegate /\ \A g \in Fetchers : t.fetchers[g].bundle = v.fetchers[g].bundle
  BY <1>2 DEF Written, LoaderButSlot, FetcherRelabelled
<1> QED BY <1>2, <1>7, <1>8, ToldKept

LEMMA FreedTold ==
  ASSUME NEW s \in DeviceType, NEW t, Told(s), Freed(s, t)
  PROVE  Told(t)
<1>1. \A g \in Fetchers : t.fetchers[g].bundle \in {None, s.fetchers[g].bundle}
  BY DEF Freed, GoneFrom
<1> QED BY <1>1, ToldKept DEF Freed
-----------------------------------------------------------------------------
\* Before the first fetcher of a request.
Vacant(s) ==
  /\ \A g \in Fetchers : s.fetchers[g].kind = "none"
  /\ s.loader.previous = NoFetcher
  /\ s.delegate.running = None /\ s.updates = NoUpdate

LEMMA NotBegunVacant ==
  ASSUME NEW s, NotBegun(s)
  PROVE  Vacant(s) /\ s.loader.cached = None
BY DEF NotBegun, Vacant, Untouched, NothingTold

LEMMA VacantLaunch ==
  ASSUME NEW s \in DeviceType, Vacant(s)
  PROVE  Launch(s)
BY DEF Launch, Vacant, UsesNet

LEMMA DevRequestedLaunch ==
  ASSUME NEW s \in DeviceType, NEW t, Vacant(s), DevRequested(s, t)
  PROVE  Launch(t) /\ Told(t)
<1>1. PICK new \in Fetchers : DevStarted(s, t, new, None)
  BY DEF DevRequested
<1>2. /\ \A g \in Fetchers \ {new} : t.fetchers[g].kind = "none"
      /\ t.fetchers[new].kind = "dev" /\ t.loader.fetcher = new /\ t.updates = NoUpdate
  BY <1>1 DEF DevStarted, Vacant, OthersKept, Kept
<1>3. Launch(t)
  BY <1>2 DEF Launch, UsesNet
<1> QED BY <1>1, <1>3, StartedTold

LEMMA CacheRequestedLaunch ==
  ASSUME NEW s \in DeviceType, NEW t, NEW m, Vacant(s), CacheRequested(s, t, m),
         m # None, m \notin DevRevs, s.loader.cached = m
  PROVE  Launch(t) /\ Told(t)
<1>1. PICK new \in Fetchers : CacheOnlyStarted(s, t, new, m)
  BY DEF CacheRequested
<1>2. /\ \A g \in Fetchers \ {new} : t.fetchers[g].kind = "none"
      /\ t.fetchers[new].kind = "cacheOnly" /\ t.updates = NoUpdate
  BY <1>1 DEF CacheOnlyStarted, Vacant, OthersKept, Kept
<1>3. CacheShape(t, new)
  BY <1>1 DEF CacheOnlyStarted, CacheShape, Kept, Idle
<1>4. Launch(t)
  BY <1>2, <1>3 DEF Launch, UsesNet
<1> QED BY <1>1, <1>4, StartedTold

\* The first fetcher asks the server.
LEMMA BeganLaunch ==
  ASSUME NEW s \in DeviceType, NEW u \in DeviceType, NEW new \in Fetchers, NEW x, Vacant(s),
         s.loader.cached \notin DevRevs,
         s.loader.cached = None => LocalManifest(s.disk) \in RefusedRevs \cup {None},
         Began(s, u, new, x), x.kind = "withTimeout", x.bundle = None, x.resource = "none"
  PROVE  Launch(u) /\ Told(u)
<1>1. /\ \A g \in Fetchers \ {new} : u.fetchers[g].kind = "none"
      /\ u.fetchers[new] = x /\ u.loader.fetcher = new /\ u.loader.previous = NoFetcher
      /\ u.updates = NoUpdate /\ u.disk = s.disk /\ u.loader.cached = s.loader.cached
      /\ u.delegate.running = None
  BY DEF Began, Vacant, OthersKept, Kept
<1>2. NetShape(u, new)
  BY <1>1, FetchersAssumption DEF NetShape, Leads
<1>3. NothingToRun(u, new)
  BY <1>1 DEF NothingToRun
<1>4. Launch(u)
  BY <1>1, <1>2, <1>3 DEF Launch, UsesNet
<1>5. Current(u) = x
  BY <1>1, FetchersAssumption DEF Current
<1> QED BY <1>4, <1>5 DEF Told

LEMMA RequestedLaunch ==
  ASSUME NEW s \in DeviceType, NEW t, NEW f \in Fetchers, Launch(s), Told(s), Requested(s, t, f),
         UsesNet(s, f), s.fetchers[f].bundle = None
  PROVE  Launch(t) /\ Told(t)
<1>1. /\ t \in DeviceType /\ LoaderButSlot(s, t) /\ t.delegate = s.delegate /\ t.disk = s.disk
      /\ \A g \in Fetchers : /\ t.fetchers[g].kind = s.fetchers[g].kind
                             /\ t.fetchers[g].manifest = s.fetchers[g].manifest
                             /\ t.fetchers[g].bundle = s.fetchers[g].bundle
                             /\ t.fetchers[g].hasFinished = s.fetchers[g].hasFinished
      /\ \A g \in Fetchers \ {f} : t.fetchers[g].pending = s.fetchers[g].pending
      /\ t.fetchers[f].resource = "slot"
      /\ s.updates \in Updates /\ t.updates \in Updates
  BY DEF Requested, FetcherRelabelled, Relabelled, DeviceType
<1>2. s.updates = NoUpdate => t.updates = NoUpdate
  BY <1>1, NoUpdateRelabelled DEF Requested
<1>3. Current(t).kind = Current(s).kind
  BY <1>1, SameCurrent DEF LoaderButSlot
<1>4. ASSUME NEW g \in Fetchers, UsesNet(t, g)
      PROVE  NetShape(t, g) /\ NothingToRun(t, g)
  <2>1. g = f /\ NetShape(s, f) /\ NothingToRun(s, f)
    BY <1>1, <1>4 DEF Launch, UsesNet
  <2>2. NetShape(t, f)
    BY <1>1, <1>3, <2>1 DEF NetShape, Leads, LoaderButSlot
  <2>3. NothingToRun(t, f)
    BY <1>1, <2>1 DEF NothingToRun, LoaderButSlot
  <2> QED BY <2>1, <2>2, <2>3
<1>5. \A g \in Fetchers : t.fetchers[g].kind = "cacheOnly" => CacheShape(t, g)
  BY <1>1 DEF Launch, CacheShape, LoaderButSlot, UsesNet
<1>6. Launch(t)
  BY <1>1, <1>2, <1>4, <1>5 DEF Launch, UsesNet, LoaderButSlot
<1>7. Told(t)
  BY <1>1, ToldKept DEF LoaderButSlot
<1> QED BY <1>6, <1>7

LEMMA NetRequestedLaunch ==
  ASSUME NEW s \in DeviceType, NEW t, NEW new, NEW zero, Vacant(s), NetRequested(s, t, new, zero),
         s.loader.cached \notin DevRevs,
         s.loader.cached = None => LocalManifest(s.disk) \in RefusedRevs \cup {None}
  PROVE  Launch(t) /\ Told(t)
<1> DEFINE x == NewFetcher("withTimeout", None)
           y == [x EXCEPT !.timer = TRUE]
<1>1. /\ x.kind = "withTimeout" /\ x.bundle = None /\ x.resource = "none"
      /\ y.kind = "withTimeout" /\ y.bundle = None /\ y.resource = "none"
  BY DEF NewFetcher
<1>2. new \in Fetchers
  BY DEF NetRequested
<1>3. PICK v \in DeviceType : NetStarted(s, v, new, zero) /\ Requested(v, t, new)
  BY DEF NetRequested
<1>4. \/ Began(s, v, new, y)
      \/ \E u \in DeviceType, w \in DeviceType, err \in BOOLEAN :
           Began(s, u, new, x) /\ Ended(u, w, new, err) /\ EndedAs(u, w, v, new)
  BY <1>3 DEF NetStarted
<1> HIDE DEF x, y
<1>5. Launch(v) /\ Told(v) /\ UsesNet(v, new) /\ v.fetchers[new].bundle = None
  <2>1. CASE Began(s, v, new, y)
    <3>1. Launch(v) /\ Told(v)
      BY <1>1, <1>2, <2>1, BeganLaunch
    <3> QED BY <1>1, <2>1, <3>1 DEF Began, UsesNet
  <2>2. ASSUME NEW u \in DeviceType, NEW w \in DeviceType, NEW err \in BOOLEAN,
               Began(s, u, new, x), Ended(u, w, new, err), EndedAs(u, w, v, new)
        PROVE  Launch(v) /\ Told(v) /\ UsesNet(v, new) /\ v.fetchers[new].bundle = None
    <3>1. Launch(u) /\ Told(u)
      BY <1>1, <1>2, <2>2, BeganLaunch
    <3>2. UsesNet(u, new) /\ u.fetchers[new].bundle = None
      BY <1>1, <2>2 DEF Began, UsesNet
    <3>3. Launch(v)
      BY <1>2, <2>2, <3>1, <3>2, NetEndsLaunch
    <3>4. Told(v)
      BY <1>2, <2>2, <3>1, <3>2, NetEndsTold
    <3>5. w.fetchers[new].kind = "withTimeout" /\ w.fetchers[new].bundle = None
      BY <2>2, <3>2 DEF Ended, UsesNet
    <3>6. v.fetchers[new].kind = "withTimeout" /\ v.fetchers[new].bundle = None
      BY <1>2, <2>2, <3>2, <3>5 DEF EndedAs, FellBack, CacheOnlyStarted, OthersKept, Failed, Alike
    <3> QED BY <3>3, <3>4, <3>6 DEF UsesNet
  <2> QED BY <1>4, <2>1, <2>2
<1> QED BY <1>2, <1>3, <1>5, RequestedLaunch
-----------------------------------------------------------------------------
\* What the answers start from, and where they end.
LEMMA FreedLaunched ==
  ASSUME NEW t \in DeviceType, Launch(t), Told(t), Freed(t, Device')
  PROVE  Launch(Device') /\ Told(Device')
<1>1. Launch(Device')
  BY FreedLaunch
<1>2. Told(Device')
  BY FreedTold
<1> QED BY <1>1, <1>2

LEMMA AnsweredLaunched ==
  ASSUME IInv, Launch(Device), Told(Device), NEW f \in Fetchers, NEW a \in DeviceType, AnsweredTo(a, f)
  PROVE  /\ Launch(a) /\ Told(a)
         /\ a.fetchers[f] = [fetchers[f] EXCEPT !.pending = Idle, !.resource = "none"]
         /\ \A g \in Fetchers \ {f} : a.fetchers[g] = fetchers[g]
         /\ a.disk = disk /\ a.loader = loader /\ a.updates = updates /\ a.delegate = delegate
<1> DEFINE x == [fetchers[f] EXCEPT !.pending = Idle, !.resource = "none"]
<1>1. Device \in DeviceType /\ fetchers[f] \in Fetcher /\ DeviceFieldsAre(Device)
  BY TypedDevice, DeviceFields
<1>2. /\ x.kind = fetchers[f].kind /\ x.hasFinished = fetchers[f].hasFinished
      /\ x.bundle = fetchers[f].bundle /\ x.manifest = fetchers[f].manifest
      /\ x.pending = Idle /\ x.resource = "none" /\ x.pending.op = "idle"
  BY <1>1 DEF Fetcher, Idle
<1>3. Swapped(Device, a, f, x)
  BY DEF AnsweredTo
<1> HIDE DEF x
<1>4. /\ a.fetchers[f] = x /\ \A g \in Fetchers \ {f} : a.fetchers[g] = fetchers[g]
      /\ a.disk = disk /\ a.loader = loader /\ a.updates = updates /\ a.delegate = delegate
  BY <1>1, <1>3 DEF Swapped, OthersKept, DeviceFieldsAre
<1>5. Launch(a)
  BY <1>1, <1>2, <1>3, SwappedLaunch DEF DeviceFieldsAre
<1>6. \A g \in Fetchers : a.fetchers[g].bundle \in {None, Device.fetchers[g].bundle}
  BY <1>1, <1>2, <1>4 DEF DeviceFieldsAre
<1>7. Told(a)
  BY <1>1, <1>4, <1>6, ToldKept DEF DeviceFieldsAre
<1> QED BY <1>4, <1>5, <1>7 DEF x

LEMMA NetEndsLaunched ==
  ASSUME NEW s \in DeviceType, NEW t, NEW f \in Fetchers, NEW err, Launch(s), Told(s),
         UsesNet(s, f), s.fetchers[f].bundle = None, NetEnds(s, t, f, err)
  PROVE  Launch(t) /\ Told(t)
<1>1. PICK u \in DeviceType : Ended(s, u, f, err) /\ EndedAs(s, u, t, f)
  BY DEF NetEnds
<1>2. Launch(t)
  BY <1>1, NetEndsLaunch
<1>3. Told(t)
  BY <1>1, NetEndsTold
<1> QED BY <1>2, <1>3

LEMMA FailedLaunched ==
  ASSUME NEW s \in DeviceType, NEW t, NEW f \in Fetchers, Launch(s), Told(s), Failed(s, t, f)
  PROVE  Launch(t) /\ Told(t)
<1>1. Launch(t)
  BY FailedLaunch
<1>2. /\ t.loader.confirmed = s.loader.confirmed /\ t.loader.fetcher = s.loader.fetcher
      /\ s.delegate.announced \subseteq t.delegate.announced
      /\ \A g \in Fetchers : t.fetchers[g].bundle \in {None, s.fetchers[g].bundle}
  BY DEF Failed, OthersKept, Alike
<1>3. Told(t)
  BY <1>2, ToldKept
<1> QED BY <1>1, <1>3

\* The data of the manifest that the fetcher f asked for: only with a cached manifest may it be
\* written to disk before f has taken its bundle.
LEMMA DataLaunched ==
  ASSUME IInv, Launch(Device), Told(Device), NEW f \in Fetchers, fetchers[f].pending.op = "manifest",
         fetchers[f].kind \in {"withTimeout", "dev"},
         NEW a \in DeviceType, AnsweredTo(a, f), NEW m, NEW d \in DeviceType,
         DataArrived(a, d, fetchers[f].resource, m)
  PROVE  /\ Launch(d) /\ Told(d)
         /\ d.fetchers = a.fetchers /\ d.delegate = delegate
         /\ d.loader.fetcher = loader.fetcher /\ d.loader.previous = loader.previous
<1>1. /\ Device \in DeviceType /\ DeviceFieldsAre(Device)
      /\ fetchers[f] \in Fetcher /\ FetcherSafe(disk, fetchers[f])
  BY TypedDevice, DeviceFields
<1>2. /\ Launch(a) /\ Told(a)
      /\ a.fetchers[f] = [fetchers[f] EXCEPT !.pending = Idle, !.resource = "none"]
      /\ \A g \in Fetchers \ {f} : a.fetchers[g] = fetchers[g]
      /\ a.loader = loader /\ a.delegate = delegate
  BY AnsweredLaunched
<1>3. fetchers[f].bundle = None
  BY <1>1 DEF FetcherSafe
<1>4. \A g \in Fetchers : a.fetchers[g].kind = fetchers[g].kind
  <2>1. [fetchers[f] EXCEPT !.pending = Idle, !.resource = "none"].kind = fetchers[f].kind
    BY <1>1 DEF Fetcher
  <2> QED BY <1>2, <2>1, ZenonT(30)
<1>5. ASSUME fetchers[f].resource = "write", NEW g \in Fetchers, UsesNet(a, g)
      PROVE  a.fetchers[g].bundle # None \/ a.loader.cached # None \/ a.delegate.running # None
  <2>1. UsesNet(Device, g)
    BY <1>1, <1>4, <1>5 DEF UsesNet, DeviceFieldsAre
  <2>2. CASE g = f
    <3>1. NothingToRun(Device, f)
      BY <2>1, <2>2 DEF Launch
    <3>2. loader.cached # None
      BY <1>1, <1>3, <1>5, <3>1 DEF NothingToRun, DeviceFieldsAre
    <3> QED BY <1>2, <3>2
  <2>3. CASE g # f
    <3>1. ~UsesNet(Device, f)
      BY <2>1, <2>3 DEF Launch
    <3>2. fetchers[f].kind # "dev"
      BY <1>1, <2>1 DEF Launch, DeviceFieldsAre
    <3> QED BY <1>1, <3>1, <3>2 DEF UsesNet, DeviceFieldsAre
  <2> QED BY <2>2, <2>3
<1>6. Launch(d)
  BY <1>2, <1>5, DataArrivedLaunch
<1>7. /\ d.fetchers = a.fetchers /\ d.delegate = delegate
      /\ d.loader.confirmed = a.loader.confirmed
      /\ d.loader.fetcher = loader.fetcher /\ d.loader.previous = loader.previous
  BY <1>2 DEF DataArrived, LoaderButSlot
<1>8. Told(d)
  BY <1>2, <1>7, ToldKept
<1> QED BY <1>6, <1>7, <1>8

LEMMA TimeOutLaunched ==
  ASSUME IInv, Launch(Device), Told(Device), NEW f \in Fetchers, TimeOut(f)
  PROVE  Launch(Device') /\ Told(Device')
<1>1. /\ Device \in DeviceType /\ DeviceFieldsAre(Device)
      /\ fetchers[f] \in Fetcher /\ FetcherSafe(disk, fetchers[f])
  BY TypedDevice, DeviceFields
<1>2. /\ fetchers[f].timer /\ fetchers[f].kind = "withTimeout"
      /\ \E t \in DeviceType : NetEnds(Device, t, f, FALSE) /\ Freed(t, Device')
  BY TimeOutEffect
<1>3. PICK err \in BOOLEAN : err = FALSE
  OBVIOUS
<1>4. PICK t \in DeviceType : NetEnds(Device, t, f, err) /\ Freed(t, Device')
  BY <1>2, <1>3
<1>5. UsesNet(Device, f) /\ Device.fetchers[f].bundle = None
  BY <1>1, <1>2 DEF FetcherSafe, UsesNet, DeviceFieldsAre
<1>6. Launch(t) /\ Told(t)
  BY <1>1, <1>4, <1>5, NetEndsLaunched
<1> QED BY <1>4, <1>6, FreedLaunched

LEMMA RequestFailedLaunched ==
  ASSUME NEW s \in DeviceType, NEW t, NEW f \in Fetchers, Launch(s), Told(s),
         s.fetchers[f].kind = fetchers[f].kind, s.fetchers[f].bundle = None, RequestFailed(s, t, f)
  PROVE  Launch(t) /\ Told(t)
<1>1. CASE fetchers[f].kind = "withTimeout" /\ NetEnds(s, t, f, TRUE)
  <2>1. PICK err \in BOOLEAN : err = TRUE
    OBVIOUS
  <2>2. UsesNet(s, f) /\ NetEnds(s, t, f, err)
    BY <1>1, <2>1 DEF UsesNet
  <2> QED BY <2>2, NetEndsLaunched
<1>2. CASE Failed(s, t, f)
  BY <1>2, FailedLaunched
<1> QED BY <1>1, <1>2 DEF RequestFailed

LEMMA ManifestFailsLaunched ==
  ASSUME IInv, Launch(Device), Told(Device), NEW f \in Fetchers, ManifestFails(f)
  PROVE  Launch(Device') /\ Told(Device')
<1>1. /\ Device \in DeviceType /\ DeviceFieldsAre(Device)
      /\ fetchers[f] \in Fetcher /\ FetcherSafe(disk, fetchers[f])
  BY TypedDevice, DeviceFields
<1>2. /\ fetchers[f].pending.op = "manifest"
      /\ \E a, d, t \in DeviceType :
           /\ AnsweredTo(a, f)
           /\ \/ d = a
              \/ \E m \in Answers(fetchers[f].pending) \cap RefusedRevs :
                   DataArrived(a, d, fetchers[f].resource, m)
           /\ RequestFailed(d, t, f) /\ Freed(t, Device')
  BY ManifestFailsEffect
<1>3. PICK a \in DeviceType, d \in DeviceType, t \in DeviceType :
        /\ AnsweredTo(a, f)
        /\ \/ d = a
           \/ \E m : DataArrived(a, d, fetchers[f].resource, m)
        /\ RequestFailed(d, t, f) /\ Freed(t, Device')
  BY <1>2
<1>4. fetchers[f].kind \in {"withTimeout", "dev"}
  BY <1>3 DEF RequestFailed
<1>5. /\ Launch(a) /\ Told(a)
      /\ a.fetchers[f] = [fetchers[f] EXCEPT !.pending = Idle, !.resource = "none"]
  BY <1>3, AnsweredLaunched
<1>6. Launch(d) /\ Told(d) /\ d.fetchers = a.fetchers
  <2>1. CASE d = a
    BY <1>5, <2>1
  <2>2. CASE d # a
    <3>1. PICK m : DataArrived(a, d, fetchers[f].resource, m)
      BY <1>3, <2>2
    <3> QED BY <1>2, <1>3, <1>4, <3>1, DataLaunched
  <2> QED BY <2>1, <2>2
<1>7. d.fetchers[f].kind = fetchers[f].kind /\ d.fetchers[f].bundle = None
  <2>1. fetchers[f].bundle = None
    BY <1>1, <1>2 DEF FetcherSafe
  <2>2. /\ [fetchers[f] EXCEPT !.pending = Idle, !.resource = "none"].kind = fetchers[f].kind
        /\ [fetchers[f] EXCEPT !.pending = Idle, !.resource = "none"].bundle = fetchers[f].bundle
    BY <1>1 DEF Fetcher
  <2> QED BY <1>5, <1>6, <2>1, <2>2, ZenonT(30)
<1>8. Launch(t) /\ Told(t)
  BY <1>3, <1>6, <1>7, RequestFailedLaunched
<1> QED BY <1>3, <1>8, FreedLaunched

\* While it waits for a manifest the fetcher of the cache has nothing that could be verified.
LEMMA CachedReadRefused ==
  ASSUME IInv, Launch(Device), NEW f \in Fetchers, fetchers[f].pending.op = "cached"
  PROVE  fetchers[f].pending.rev \in RefusedRevs
<1>1. /\ Device \in DeviceType /\ DeviceFieldsAre(Device)
      /\ fetchers[f] \in Fetcher /\ FetcherSafe(disk, fetchers[f])
  BY TypedDevice, DeviceFields
<1>2. fetchers[f].kind = "cacheOnly"
  BY <1>1 DEF FetcherSafe
<1>3. CacheShape(Device, f)
  BY <1>1, <1>2 DEF Launch, DeviceFieldsAre
<1> QED BY <1>1, <1>3 DEF CacheShape, DeviceFieldsAre

LEMMA CacheOnlyManifestLaunched ==
  ASSUME IInv, Launch(Device), Told(Device), NEW f \in Fetchers,
         CacheOnlyManifestVerified(f) \/ CacheOnlyManifestRejected(f)
  PROVE  Launch(Device') /\ Told(Device')
<1>1. ~CacheOnlyManifestVerified(f)
  <2>1. SUFFICES ASSUME CacheOnlyManifestVerified(f) PROVE FALSE
    OBVIOUS
  <2>2. fetchers[f].pending.op = "cached" /\ fetchers[f].pending.rev \in Revs \ RefusedRevs
    BY <2>1, CacheOnlyManifestVerifiedEffect
  <2> QED BY <2>2, CachedReadRefused
<1>2. \E a, t \in DeviceType : AnsweredTo(a, f) /\ Failed(a, t, f) /\ Freed(t, Device')
  BY <1>1, CacheOnlyManifestRejectedEffect
<1>3. PICK a \in DeviceType, t \in DeviceType : AnsweredTo(a, f) /\ Failed(a, t, f) /\ Freed(t, Device')
  BY <1>2
<1>4. Launch(a) /\ Told(a)
  BY <1>3, AnsweredLaunched
<1>5. Launch(t) /\ Told(t)
  BY <1>3, <1>4, FailedLaunched
<1> QED BY <1>3, <1>5, FreedLaunched

LEMMA BundleFailsLaunched ==
  ASSUME IInv, Launch(Device), Told(Device), NEW f \in Fetchers, BundleFails(f)
  PROVE  Launch(Device') /\ Told(Device')
<1>1. /\ Device \in DeviceType /\ DeviceFieldsAre(Device) /\ fetchers[f] \in Fetcher
  BY TypedDevice, DeviceFields
<1>2. /\ fetchers[f].pending.op = "bundle"
      /\ \E a, t \in DeviceType : AnsweredTo(a, f) /\ BundleFailed(a, t, f) /\ Freed(t, Device')
  BY BundleFailsEffect
<1>3. PICK a \in DeviceType, t \in DeviceType :
        AnsweredTo(a, f) /\ BundleFailed(a, t, f) /\ Freed(t, Device')
  BY <1>2
<1>4. /\ Launch(a) /\ Told(a)
      /\ a.fetchers[f] = [fetchers[f] EXCEPT !.pending = Idle, !.resource = "none"]
  BY <1>3, AnsweredLaunched
<1>5. Launch(t) /\ Told(t)
  <2>1. CASE t = a
    BY <1>4, <2>1
  <2>2. CASE Failed(a, t, f)
    BY <1>4, <2>2, FailedLaunched
  <2>3. CASE fetchers[f].kind = "withTimeout" /\ NetEnds(a, t, f, TRUE)
    <3>1. PICK err \in BOOLEAN : err = TRUE
      OBVIOUS
    <3>2. UsesNet(Device, f)
      BY <1>1, <2>3 DEF UsesNet, DeviceFieldsAre
    <3>3. NetShape(Device, f)
      BY <3>2 DEF Launch
    <3>4. fetchers[f].bundle = None
      BY <1>1, <1>2, <3>3 DEF NetShape, DeviceFieldsAre
    <3>5. a.fetchers[f].kind = "withTimeout" /\ a.fetchers[f].bundle = None
      BY <1>1, <1>4, <2>3, <3>4 DEF Fetcher
    <3>6. UsesNet(a, f) /\ NetEnds(a, t, f, err)
      BY <2>3, <3>1, <3>5 DEF UsesNet
    <3> QED BY <1>4, <3>5, <3>6, NetEndsLaunched
  <2> QED BY <1>3, <2>1, <2>2, <2>3 DEF BundleFailed
<1> QED BY <1>3, <1>5, FreedLaunched

\* The fetcher f of a state that is well launched changes, but neither its bundle nor what it has done.
LEMMA SwappedLaunched ==
  ASSUME NEW s \in DeviceType, NEW t, NEW f \in Fetchers, NEW x, Launch(s), Told(s), Swapped(s, t, f, x),
         s.fetchers[f].kind \in {"withTimeout", "dev"},
         x.kind = s.fetchers[f].kind, x.hasFinished = s.fetchers[f].hasFinished,
         x.bundle \in {None, s.fetchers[f].bundle}, x.resource \in {"none", s.fetchers[f].resource},
         UsesNet(s, f) => s.fetchers[f].bundle = None
  PROVE  Launch(t) /\ Told(t)
<1>1. Launch(t)
  BY SwappedLaunch
<1>2. /\ t.loader.confirmed = s.loader.confirmed /\ t.loader.fetcher = s.loader.fetcher
      /\ s.delegate.announced \subseteq t.delegate.announced
      /\ \A g \in Fetchers : t.fetchers[g].bundle \in {None, s.fetchers[g].bundle}
  BY DEF Swapped, OthersKept
<1>3. Told(t)
  BY <1>2, ToldKept
<1> QED BY <1>1, <1>3

\* The app turns out to be in development mode before the fetcher f has timed out: the fetcher new
\* replaces it.
LEMMA DevTakesOver ==
  ASSUME NEW v \in DeviceType, NEW t \in DeviceType, NEW r, NEW f \in Fetchers, NEW m,
         NEW new \in Fetchers \ {f},
         Launch(v), UsesNet(v, f), ~v.fetchers[f].hasFinished, ~v.fetchers[f].timer,
         v.fetchers[f].pending = Idle, DevStarted(v, t, new, m), Freed(t, r)
  PROVE  Launch(r) /\ Told(r)
<1>1. /\ v.loader.fetcher = f /\ v.loader.previous # f
      /\ \A g \in Fetchers : v.fetchers[g].kind # "cacheOnly"
  BY DEF Launch, NetShape, Leads
<1>2. \A g \in Fetchers \ {f} : v.fetchers[g].kind = "none"
  <2>1. \A g \in Fetchers : v.fetchers[g].kind \in {"none", "cacheOnly", "withTimeout", "dev"}
    BY DEF DeviceType, Fetcher
  <2>2. \A g \in Fetchers \ {f} : v.fetchers[g].kind \notin {"withTimeout", "dev"}
    BY DEF Launch, UsesNet
  <2> QED BY <1>1, <2>1, <2>2
<1>3. /\ t.loader.fetcher = new /\ t.loader.previous = v.loader.previous
      /\ t.fetchers[new].kind = "dev" /\ t.fetchers[f] = v.fetchers[f]
      /\ \A g \in Fetchers \ {new} : t.fetchers[g] = v.fetchers[g]
      /\ t.updates = v.updates /\ t.delegate = v.delegate
  BY DEF DevStarted, Kept, OthersKept
<1>4. ~Alive(t, f)
  BY <1>1, <1>3 DEF Alive, UsesNet, Idle
<1>5. /\ r.loader = t.loader /\ r.updates = t.updates /\ r.delegate = t.delegate
      /\ r.fetchers[f].kind = "none"
      /\ \A g \in Fetchers : r.fetchers[g] = t.fetchers[g] \/ r.fetchers[g].kind = "none"
  BY <1>4 DEF Freed, GoneFrom
<1>6. \A g \in Fetchers \ {new} : r.fetchers[g].kind = "none"
  BY <1>2, <1>3, <1>5
<1>7. r.fetchers[new].kind \in {"dev", "none"}
  BY <1>3, <1>5
<1>8. \A g \in Fetchers : ~UsesNet(r, g) /\ r.fetchers[g].kind # "cacheOnly"
  BY <1>6, <1>7 DEF UsesNet
<1>9. Launch(r)
  BY <1>3, <1>5, <1>6, <1>8 DEF Launch
<1>10. Told(t)
  BY StartedTold
<1>11. Told(r)
  BY <1>10, FreedTold
<1> QED BY <1>9, <1>11

LEMMA BundleWantedLaunched ==
  ASSUME NEW s \in DeviceType, NEW t, NEW f \in Fetchers, Launch(s), Told(s), UsesNet(s, f),
         s.fetchers[f].bundle = None, s.fetchers[f].manifest # None, s.fetchers[f].pending = Idle,
         \A g \in Fetchers : s.fetchers[g].bundle # None => s.fetchers[g].bundle = s.fetchers[g].manifest,
         BundleWanted(s, t, f)
  PROVE  Launch(t) /\ Told(t)
<1>1. CASE BundleTaken(s, t, f)
  <2>1. Launch(t)
    BY <1>1, BundleTakenLaunch
  <2>2. Told(t)
    BY <1>1, BundleTakenTold
  <2> QED BY <2>1, <2>2
<1>2. CASE ~BundleTaken(s, t, f)
  <2> DEFINE x == [s.fetchers[f] EXCEPT !.pending = [op |-> "bundle", rev |-> s.fetchers[f].manifest]]
  <2>1. Swapped(s, t, f, x)
    BY <1>2 DEF BundleWanted
  <2>2. /\ x.kind = s.fetchers[f].kind /\ x.hasFinished = s.fetchers[f].hasFinished
        /\ x.bundle = s.fetchers[f].bundle /\ x.resource = s.fetchers[f].resource
    BY DEF DeviceType, Fetcher
  <2> HIDE DEF x
  <2>3. s.fetchers[f].kind \in {"withTimeout", "dev"}
    BY DEF UsesNet
  <2> QED BY <2>1, <2>2, <2>3, SwappedLaunched
<1> QED BY <1>1, <1>2

LEMMA ManifestTakenLaunched ==
  ASSUME NEW s \in DeviceType, NEW t, NEW f \in Fetchers, NEW m \in Revs, NEW r,
         Launch(s), Told(s), UsesNet(s, f), s.fetchers[f].bundle = None, s.fetchers[f].pending = Idle,
         s.fetchers[f].timer => ~s.fetchers[f].hasFinished,
         \A g \in Fetchers : s.fetchers[g].bundle # None => s.fetchers[g].bundle = s.fetchers[g].manifest,
         ManifestTaken(s, t, f, m), Freed(t, r)
  PROVE  Launch(r) /\ Told(r)
<1> DEFINE x == [s.fetchers[f] EXCEPT !.manifest = m]
<1>1. PICK u \in DeviceType :
        /\ Swapped(s, u, f, x)
        /\ \/ /\ s.fetchers[f].timer
              /\ \E v \in DeviceType, new \in Fetchers \ {f} :
                   /\ Swapped(u, v, f, [u.fetchers[f] EXCEPT !.timer = FALSE])
                   /\ DevStarted(v, t, new, m)
           \/ BundleWanted(u, t, f)
  BY DEF ManifestTaken
<1>2. /\ x.kind = s.fetchers[f].kind /\ x.hasFinished = s.fetchers[f].hasFinished
      /\ x.bundle = s.fetchers[f].bundle /\ x.resource = s.fetchers[f].resource
      /\ x.manifest = m /\ x.pending = s.fetchers[f].pending /\ x.timer = s.fetchers[f].timer
  BY DEF DeviceType, Fetcher
<1> HIDE DEF x
<1>3. u.fetchers[f] = x /\ \A g \in Fetchers \ {f} : u.fetchers[g] = s.fetchers[g]
  BY <1>1 DEF Swapped, OthersKept
<1>4. s.fetchers[f].kind = "withTimeout" /\ UsesNet(u, f)
  BY <1>2, <1>3 DEF UsesNet
<1>5. Launch(u) /\ Told(u)
  BY <1>1, <1>2, <1>4, SwappedLaunched
<1>6. CASE BundleWanted(u, t, f)
  <2>1. /\ u.fetchers[f].bundle = None /\ u.fetchers[f].manifest # None
        /\ u.fetchers[f].pending = Idle
        /\ \A g \in Fetchers : u.fetchers[g].bundle # None => u.fetchers[g].bundle = u.fetchers[g].manifest
    BY <1>2, <1>3 DEF Revs, None
  <2>2. Launch(t) /\ Told(t)
    BY <1>4, <1>5, <1>6, <2>1, BundleWantedLaunched
  <2>3. t \in DeviceType
    BY <1>6, BundleWantedType DEF BundleWanted, BundleTaken, Swapped, Written
  <2>4. Launch(r)
    BY <2>2, <2>3, FreedLaunch
  <2>5. Told(r)
    BY <2>2, <2>3, FreedTold
  <2> QED BY <2>4, <2>5
<1>7. ASSUME s.fetchers[f].timer, NEW v \in DeviceType, NEW new \in Fetchers \ {f},
             Swapped(u, v, f, [u.fetchers[f] EXCEPT !.timer = FALSE]), DevStarted(v, t, new, m)
      PROVE  Launch(r) /\ Told(r)
  <2> DEFINE y == [u.fetchers[f] EXCEPT !.timer = FALSE]
  <2>1. /\ y.kind = u.fetchers[f].kind /\ y.hasFinished = u.fetchers[f].hasFinished
        /\ y.bundle = u.fetchers[f].bundle /\ y.resource = u.fetchers[f].resource
        /\ y.pending = u.fetchers[f].pending /\ ~y.timer
    BY DEF DeviceType, Fetcher
  <2>2. Swapped(u, v, f, y)
    BY <1>7
  <2> HIDE DEF y
  <2>3. v.fetchers[f] = y
    BY <2>2 DEF Swapped
  <2>4. Launch(v)
    BY <1>2, <1>3, <1>4, <1>5, <2>1, <2>2, SwappedLaunched
  <2>5. /\ UsesNet(v, f) /\ ~v.fetchers[f].hasFinished /\ ~v.fetchers[f].timer
        /\ v.fetchers[f].pending = Idle
    BY <1>2, <1>3, <1>4, <1>7, <2>1, <2>3 DEF UsesNet
  <2>6. t \in DeviceType
    BY <1>7 DEF DevStarted, Kept
  <2> QED BY <1>7, <2>4, <2>5, <2>6, DevTakesOver
<1> QED BY <1>1, <1>6, <1>7

\* A fetcher has the bundle of its manifest, if it has one.
LEMMA OwnBundles ==
  ASSUME IInv, NEW f \in Fetchers, NEW a \in DeviceType, AnsweredTo(a, f)
  PROVE  \A g \in Fetchers : a.fetchers[g].bundle # None => a.fetchers[g].bundle = a.fetchers[g].manifest
<1>1. \A g \in Fetchers : fetchers[g] \in Fetcher /\ FetcherSafe(disk, fetchers[g])
  BY TypedDevice
<1>2. \A g \in Fetchers : fetchers[g].bundle # None => fetchers[g].bundle = fetchers[g].manifest
  BY <1>1 DEF FetcherSafe
<1>3. /\ a.fetchers[f] = [fetchers[f] EXCEPT !.pending = Idle, !.resource = "none"]
      /\ \A g \in Fetchers \ {f} : a.fetchers[g] = Device.fetchers[g]
  BY DEF AnsweredTo, Swapped, OthersKept
<1>4. /\ a.fetchers[f].bundle = fetchers[f].bundle /\ a.fetchers[f].manifest = fetchers[f].manifest
      /\ Device.fetchers = fetchers
  <2>1. /\ [fetchers[f] EXCEPT !.pending = Idle, !.resource = "none"].bundle = fetchers[f].bundle
        /\ [fetchers[f] EXCEPT !.pending = Idle, !.resource = "none"].manifest = fetchers[f].manifest
    BY <1>1 DEF Fetcher
  <2>2. Device.fetchers = fetchers
    BY DeviceFields DEF DeviceFieldsAre
  <2> QED BY <1>3, <2>1, <2>2, ZenonT(30)
<1>5. \A g \in Fetchers \ {f} : a.fetchers[g] = fetchers[g]
  BY <1>3, <1>4, Zenon
<1> QED BY <1>2, <1>4, <1>5

LEMMA ManifestArrivesLaunched ==
  ASSUME IInv, Launch(Device), Told(Device), NEW f \in Fetchers, ManifestArrives(f)
  PROVE  Launch(Device') /\ Told(Device')
<1>1. /\ Device \in DeviceType /\ DeviceFieldsAre(Device)
      /\ fetchers[f] \in Fetcher /\ FetcherSafe(disk, fetchers[f])
  BY TypedDevice, DeviceFields
<1>2. /\ fetchers[f].pending.op = "manifest"
      /\ \E m \in Answers(fetchers[f].pending) \ RefusedRevs, t \in DeviceType :
           m \in Revs /\ ManifestCame(t, f, m) /\ Freed(t, Device')
  BY ManifestArrivesEffect
<1>3. PICK m \in Revs, t \in DeviceType : ManifestCame(t, f, m) /\ Freed(t, Device')
  BY <1>2
<1>4. PICK a \in DeviceType :
        /\ AnsweredTo(a, f)
        /\ \/ /\ fetchers[f].kind = "withTimeout"
              /\ \E d \in DeviceType : DataArrived(a, d, fetchers[f].resource, m) /\ ManifestTaken(d, t, f, m)
           \/ /\ fetchers[f].kind = "dev"
              /\ Swapped(a, t, f, [a.fetchers[f] EXCEPT !.manifest = m])
  BY <1>3 DEF ManifestCame
<1>5. /\ Launch(a) /\ Told(a)
      /\ a.fetchers[f] = [fetchers[f] EXCEPT !.pending = Idle, !.resource = "none"]
  BY <1>4, AnsweredLaunched
<1>6. /\ a.fetchers[f].kind = fetchers[f].kind /\ a.fetchers[f].bundle = None
      /\ a.fetchers[f].pending = Idle /\ a.fetchers[f].timer = fetchers[f].timer
      /\ a.fetchers[f].hasFinished = fetchers[f].hasFinished
      /\ (fetchers[f].timer => ~fetchers[f].hasFinished)
  BY <1>1, <1>2, <1>5 DEF Fetcher, FetcherSafe
<1>7. CASE /\ fetchers[f].kind = "withTimeout"
           /\ \E d \in DeviceType : DataArrived(a, d, fetchers[f].resource, m) /\ ManifestTaken(d, t, f, m)
  <2>1. PICK d \in DeviceType : DataArrived(a, d, fetchers[f].resource, m) /\ ManifestTaken(d, t, f, m)
    BY <1>7
  <2>2. Launch(d) /\ Told(d) /\ d.fetchers = a.fetchers
    BY <1>2, <1>4, <1>7, <2>1, DataLaunched
  <2>3. \A g \in Fetchers : d.fetchers[g].bundle # None => d.fetchers[g].bundle = d.fetchers[g].manifest
    BY <1>4, <2>2, OwnBundles
  <2>4. UsesNet(d, f)
    BY <1>6, <1>7, <2>2 DEF UsesNet
  <2>5. /\ d.fetchers[f].bundle = None /\ d.fetchers[f].pending = Idle
        /\ d.fetchers[f].timer => ~d.fetchers[f].hasFinished
    BY <1>6, <2>2
  <2>6. Freed(t, Device')
    BY <1>3
  <2> QED BY <2>1, <2>2, <2>3, <2>4, <2>5, <2>6, ManifestTakenLaunched
<1>8. CASE fetchers[f].kind = "dev" /\ Swapped(a, t, f, [a.fetchers[f] EXCEPT !.manifest = m])
  <2> DEFINE x == [a.fetchers[f] EXCEPT !.manifest = m]
  <2>1. /\ x.kind = a.fetchers[f].kind /\ x.hasFinished = a.fetchers[f].hasFinished
        /\ x.bundle = a.fetchers[f].bundle /\ x.resource = a.fetchers[f].resource
    BY DEF DeviceType, Fetcher
  <2>2. Swapped(a, t, f, x)
    BY <1>8
  <2> HIDE DEF x
  <2>3. Launch(t) /\ Told(t)
    BY <1>5, <1>6, <1>8, <2>1, <2>2, SwappedLaunched
  <2> QED BY <1>3, <2>3, FreedLaunched
<1> QED BY <1>4, <1>7, <1>8

LEMMA BundleArrivesLaunched ==
  ASSUME IInv, Launch(Device), Told(Device), NEW f \in Fetchers, BundleArrives(f)
  PROVE  Launch(Device') /\ Told(Device')
<1>1. /\ Device \in DeviceType /\ DeviceFieldsAre(Device)
      /\ fetchers[f] \in Fetcher /\ FetcherSafe(disk, fetchers[f])
  BY TypedDevice, DeviceFields
<1>2. /\ fetchers[f].pending.op = "bundle" /\ fetchers[f].pending.rev \in Revs
      /\ \E a, s, t \in DeviceType :
           /\ AnsweredTo(a, f) /\ Stored(a, s, fetchers[f].pending.rev)
           /\ BundleCame(s, t, f) /\ Freed(t, Device')
  BY BundleArrivesEffect
<1>3. PICK a \in DeviceType, s \in DeviceType, t \in DeviceType :
        /\ AnsweredTo(a, f) /\ Stored(a, s, fetchers[f].pending.rev)
        /\ BundleCame(s, t, f) /\ Freed(t, Device')
  BY <1>2
<1>4. /\ Launch(a) /\ Told(a)
      /\ a.fetchers[f] = [fetchers[f] EXCEPT !.pending = Idle, !.resource = "none"]
  BY <1>3, AnsweredLaunched
<1>5. s.fetchers = a.fetchers /\ s.loader = a.loader /\ s.delegate = a.delegate
  BY <1>3 DEF Stored
<1>6. Launch(s)
  BY <1>3, <1>4, StoredLaunch
<1>7. Told(s)
  BY <1>4, <1>5, ToldKept
<1>8. /\ s.fetchers[f].kind = fetchers[f].kind /\ s.fetchers[f].manifest = fetchers[f].manifest
      /\ s.fetchers[f].pending = Idle /\ s.fetchers[f].resource = "none"
  <2> DEFINE x == [fetchers[f] EXCEPT !.pending = Idle, !.resource = "none"]
  <2>1. fetchers[f] \in Fetcher
    BY <1>1
  <2>2. /\ x.kind = fetchers[f].kind /\ x.manifest = fetchers[f].manifest
        /\ x.pending = Idle /\ x.resource = "none"
    BY <2>1 DEF Fetcher
  <2>3. s.fetchers[f] = x
    BY <1>4, <1>5
  <2> QED BY <2>2, <2>3
<1>9. \A g \in Fetchers : s.fetchers[g].bundle # None => s.fetchers[g].bundle = s.fetchers[g].manifest
  BY <1>3, <1>5, OwnBundles
<1>10. Launch(t) /\ Told(t)
  <2>1. CASE fetchers[f].kind = "none" /\ t = s
    BY <1>6, <1>7, <2>1
  <2>2. CASE fetchers[f].kind = "withTimeout" /\ BundleTaken(s, t, f)
    <3>1. fetchers[f].manifest \in Revs
      BY <1>1, <1>2, <2>2 DEF FetcherSafe
    <3>2. UsesNet(s, f) /\ s.fetchers[f].manifest # None
      BY <1>8, <2>2, <3>1 DEF UsesNet, Revs, None
    <3>3. Launch(t)
      BY <1>6, <1>8, <2>2, <3>2, BundleTakenLaunch
    <3>4. Told(t)
      BY <1>6, <1>9, <2>2, <3>2, BundleTakenTold
    <3> QED BY <3>3, <3>4
  <2>3. ASSUME fetchers[f].kind \in {"cacheOnly", "dev"}, NEW b \in DeviceType,
               Swapped(s, b, f, [s.fetchers[f] EXCEPT !.bundle = fetchers[f].manifest]),
               Finished(b, t, f)
        PROVE  Launch(t) /\ Told(t)
    <3> DEFINE x == [s.fetchers[f] EXCEPT !.bundle = fetchers[f].manifest]
    <3>1. fetchers[f].kind # "cacheOnly"
      <4>1. SUFFICES ASSUME fetchers[f].kind = "cacheOnly" PROVE FALSE
        OBVIOUS
      <4>2. CacheShape(Device, f)
        BY <1>1, <4>1 DEF Launch, DeviceFieldsAre
      <4> QED BY <1>1, <1>2, <4>2 DEF CacheShape, DeviceFieldsAre
    <3>2. s.fetchers[f].kind = "dev"
      BY <1>8, <2>3, <3>1
    <3>3. /\ x.kind = s.fetchers[f].kind /\ x.hasFinished = s.fetchers[f].hasFinished
          /\ x.bundle = fetchers[f].manifest /\ x.manifest = fetchers[f].manifest
      BY <1>8 DEF DeviceType, Fetcher
    <3>4. Swapped(s, b, f, x)
      BY <2>3
    <3> HIDE DEF x
    <3>5. ~UsesNet(s, f) /\ s.loader.fetcher = f
      BY <1>6, <3>2 DEF Launch, UsesNet
    <3>6. Launch(b)
      BY <1>6, <3>2, <3>3, <3>4, <3>5, SwappedLaunch
    <3>7. b.fetchers[f] = x /\ b.loader.fetcher = f
      BY <3>4, <3>5 DEF Swapped
    <3>8. Launch(t)
      BY <2>3, <3>2, <3>3, <3>6, <3>7, FinishedLaunch
    <3>9. f # NoFetcher
      BY FetchersAssumption
    <3>10. Current(b) = b.fetchers[f]
      BY <3>7, <3>9, CurrentFetcher
    <3>11. b.fetchers[f].manifest = Current(b).bundle
      BY <3>3, <3>7, <3>10
    <3>12. Told(t)
      BY <2>3, <3>11, FinishedTold
    <3> QED BY <3>8, <3>12
  <2> QED BY <1>3, <2>1, <2>2, <2>3 DEF BundleCame
<1> QED BY <1>3, <1>10, FreedLaunched

LEMMA ForceBundleReloadLaunched ==
  ASSUME IInv, Launch(Device), Told(Device), ForceBundleReload
  PROVE  Launch(Device') /\ Told(Device')
<1> DEFINE f == loader.fetcher
           x == [fetchers[f] EXCEPT !.bundle = None,
                   !.pending = [op |-> "bundle", rev |-> fetchers[f].manifest]]
<1>1. f \in Fetchers /\ fetchers[f].kind = "dev"
  BY ForceBundleReloadEffect
<1>2. PICK t \in DeviceType : Swapped(Device, t, f, x) /\ Freed(t, Device')
  BY ForceBundleReloadEffect
<1>3. Device \in DeviceType /\ Device.fetchers = fetchers /\ fetchers[f] \in Fetcher
  BY <1>1, TypedDevice, DeviceFields DEF DeviceFieldsAre
<1>4. /\ x.kind = fetchers[f].kind /\ x.hasFinished = fetchers[f].hasFinished
      /\ x.bundle = None /\ x.resource = fetchers[f].resource
  BY <1>3 DEF Fetcher
<1> HIDE DEF f, x
<1>5. ~UsesNet(Device, f)
  BY <1>1, <1>3 DEF UsesNet
<1>6. Launch(t) /\ Told(t)
  BY <1>1, <1>2, <1>3, <1>4, <1>5, SwappedLaunched
<1> QED BY <1>2, <1>6, FreedLaunched

\* The updates manager works only for an app that runs.
LEMMA UpdatesOnlyLaunched ==
  ASSUME NEW s \in DeviceType, NEW t, Launch(s), Told(s), UpdatesOnly(s, t), s.delegate.running # None
  PROVE  Launch(t) /\ Told(t)
<1>1. Launch(t)
  BY UpdatesOnlyLaunch
<1>2. Told(t)
  BY ToldKept DEF UpdatesOnly
<1> QED BY <1>1, <1>2

LEMMA FetchUpdateLaunched ==
  ASSUME IInv, Launch(Device), Told(Device), FetchUpdate
  PROVE  Launch(Device') /\ Told(Device')
<1>1. delegate.running # None
  BY FetchUpdateEffect
<1>2. PICK p \in DeviceType, t \in DeviceType :
        Prepared(Device, p) /\ UpdatesOnly(p, t) /\ Freed(t, Device')
  BY FetchUpdateEffect
<1>3. Device \in DeviceType /\ Device.delegate = delegate
  BY TypedDevice, DeviceFields DEF DeviceFieldsAre
<1>4. Launch(p)
  BY <1>2, <1>3, PreparedLaunch
<1>5. /\ p.loader.confirmed = Device.loader.confirmed /\ p.loader.fetcher = Device.loader.fetcher
      /\ p.delegate = Device.delegate
      /\ \A g \in Fetchers : p.fetchers[g].bundle = Device.fetchers[g].bundle
  BY <1>2 DEF Prepared, LoaderButSlot, UnlinkedFrom, FetcherRelabelled
<1>6. Told(p)
  BY <1>3, <1>5, ToldKept
<1>7. Launch(t) /\ Told(t)
  BY <1>1, <1>2, <1>3, <1>4, <1>5, <1>6, UpdatesOnlyLaunched
<1> QED BY <1>2, <1>7, FreedLaunched

\* An update has been asked for, so an app runs.
LEMMA UpdateNeedsApp ==
  ASSUME IInv, Launch(Device), updates.pending.op # "idle"
  PROVE  delegate.running # None
<1>1. Device.updates = updates /\ Device.delegate = delegate
  BY DeviceFields DEF DeviceFieldsAre
<1>2. updates # NoUpdate
  BY DEF NoUpdate, Idle
<1> QED BY <1>1, <1>2 DEF Launch

LEMMA UpdateManifestLaunched ==
  ASSUME IInv, Launch(Device), Told(Device), UpdateManifestArrives \/ UpdateManifestFails
  PROVE  Launch(Device') /\ Told(Device')
<1>1. Device \in DeviceType /\ Device.delegate = delegate
  BY TypedDevice, DeviceFields DEF DeviceFieldsAre
<1>2. updates.pending.op = "manifest"
  BY UpdateManifestEffect
<1>3. delegate.running # None
  BY <1>2, UpdateNeedsApp
<1>4. PICK a \in DeviceType, d \in DeviceType, t \in DeviceType :
        /\ UpdatesOnly(Device, a)
        /\ d = a \/ \E m : DataArrived(a, d, updates.resource, m)
        /\ UpdatesOnly(d, t) /\ Freed(t, Device')
  BY UpdateManifestEffect
<1>5. Launch(a) /\ Told(a) /\ a.delegate = delegate
  <2>1. a.delegate = delegate
    BY <1>1, <1>4 DEF UpdatesOnly
  <2> QED BY <1>1, <1>3, <1>4, <2>1, UpdatesOnlyLaunched
<1>6. Launch(d) /\ Told(d) /\ d.delegate = delegate
  <2>1. ASSUME NEW m, DataArrived(a, d, updates.resource, m)
        PROVE  Launch(d) /\ Told(d) /\ d.delegate = delegate
    <3>1. Launch(d)
      BY <1>3, <1>5, <2>1, DataArrivedLaunch
    <3>2. /\ d.fetchers = a.fetchers /\ d.delegate = a.delegate
          /\ d.loader.confirmed = a.loader.confirmed /\ d.loader.fetcher = a.loader.fetcher
      BY <2>1 DEF DataArrived, LoaderButSlot
    <3>3. Told(d)
      BY <1>5, <3>2, ToldKept
    <3> QED BY <1>5, <3>1, <3>2, <3>3
  <2> QED BY <1>4, <1>5, <2>1
<1>7. Launch(t) /\ Told(t)
  BY <1>3, <1>4, <1>6, UpdatesOnlyLaunched
<1> QED BY <1>4, <1>7, FreedLaunched

LEMMA UpdateBundleLaunched ==
  ASSUME IInv, Launch(Device), Told(Device), UpdateBundleArrives \/ UpdateBundleFails
  PROVE  Launch(Device') /\ Told(Device')
<1>1. Device \in DeviceType /\ Device.delegate = delegate
  BY TypedDevice, DeviceFields DEF DeviceFieldsAre
<1>2. updates.pending.op = "bundle"
  BY UpdateBundleEffect
<1>3. delegate.running # None
  BY <1>2, UpdateNeedsApp
<1>4. PICK a \in DeviceType, s \in DeviceType, w \in DeviceType, t \in DeviceType :
        /\ UpdatesOnly(Device, a)
        /\ s = a \/ Stored(a, s, updates.pending.rev)
        /\ w = s \/ Written(s, w)
        /\ UpdatesOnly(w, t) /\ Freed(t, Device')
  BY UpdateBundleEffect
<1>5. Launch(a) /\ Told(a) /\ a.delegate = delegate
  <2>1. a.delegate = delegate
    BY <1>1, <1>4 DEF UpdatesOnly
  <2> QED BY <1>1, <1>3, <1>4, <2>1, UpdatesOnlyLaunched
<1>6. Launch(s) /\ Told(s) /\ s.delegate = delegate
  <2>1. ASSUME Stored(a, s, updates.pending.rev)
        PROVE  Launch(s) /\ Told(s) /\ s.delegate = delegate
    <3>1. Launch(s)
      BY <1>5, <2>1, StoredLaunch
    <3>2. s.fetchers = a.fetchers /\ s.delegate = a.delegate /\ s.loader = a.loader
      BY <2>1 DEF Stored
    <3>3. Told(s)
      BY <1>5, <3>2, ToldKept
    <3> QED BY <1>5, <3>1, <3>2, <3>3
  <2> QED BY <1>4, <1>5, <2>1
<1>7. Launch(w) /\ Told(w) /\ w.delegate = delegate
  <2>1. ASSUME Written(s, w)
        PROVE  Launch(w) /\ Told(w) /\ w.delegate = delegate
    <3>1. Launch(w)
      BY <1>3, <1>6, <2>1, WrittenLaunch
    <3>2. /\ w.delegate = s.delegate
          /\ w.loader.confirmed = s.loader.confirmed /\ w.loader.fetcher = s.loader.fetcher
          /\ \A g \in Fetchers : w.fetchers[g].bundle = s.fetchers[g].bundle
      BY <2>1 DEF Written, LoaderButSlot, FetcherRelabelled
    <3>3. Told(w)
      BY <1>6, <3>2, ToldKept
    <3> QED BY <1>6, <3>1, <3>2, <3>3
  <2> QED BY <1>4, <1>6, <2>1
<1>8. Launch(t) /\ Told(t)
  BY <1>3, <1>4, <1>7, UpdatesOnlyLaunched
<1> QED BY <1>4, <1>8, FreedLaunched

\* A state in which nothing has begun.
LEMMA NotBegunLaunched ==
  ASSUME NEW s \in DeviceType, NotBegun(s)
  PROVE  Launch(s) /\ Told(s)
<1>1. Launch(s)
  BY NotBegunVacant, VacantLaunch
<1>2. Told(s)
  BY DEF NotBegun, Told
<1> QED BY <1>1, <1>2

-----------------------------------------------------------------------------
LEMMA RelaunchLaunched ==
  ASSUME IInv, IInv', Relaunch
  PROVE  Launch(Device') /\ Told(Device')
<1>1. Begin' /\ spent'.requests = 0
  BY BeginRelaunch, RelaunchEffect
<1>2. NotBegun(Device')
  BY <1>1 DEF Begin, Waiting
<1>3. Device' \in DeviceType
  BY DEF IInv, Safe
<1> QED BY <1>2, <1>3, NotBegunLaunched

\* The first request of a process.
LEMMA RequestLaunched ==
  ASSUME IInv, Begin, NEW cacheOnly \in BOOLEAN, Request(cacheOnly), spent'.requests <= 1
  PROVE  Launch(Device') /\ Told(Device')
<1>1. spent.requests \in Nat /\ spent'.requests = spent.requests + 1
  BY RequestEffect
<1>2. NotBegun(Device)
  BY <1>1 DEF Begin, Waiting
<1>3. Device \in DeviceType /\ Device.disk = disk
  BY TypedDevice, DeviceFields DEF DeviceFieldsAre
<1>4. PICK s \in DeviceType :
        /\ WasReset(Device, s, cacheOnly)
        /\ \/ Freed(s, Device')
           \/ \E t \in DeviceType : DevRequested(s, t) /\ Freed(t, Device')
           \/ /\ LocalManifest(disk) = None
              /\ \E t \in DeviceType, new \in Fetchers : NetRequested(s, t, new, FALSE) /\ Freed(t, Device')
  BY RequestEffect
<1>5. NotBegun(s) /\ s.disk = disk
  BY <1>2, <1>3, <1>4, ResetNotBegun DEF WasReset
<1>6. Vacant(s) /\ s.loader.cached = None
  BY <1>5, NotBegunVacant
<1>7. CASE Freed(s, Device')
  <2>1. Launch(s) /\ Told(s)
    BY <1>5, NotBegunLaunched
  <2> QED BY <1>7, <2>1, FreedLaunched
<1>8. ASSUME NEW t \in DeviceType, DevRequested(s, t), Freed(t, Device')
      PROVE  Launch(Device') /\ Told(Device')
  <2>1. Launch(t) /\ Told(t)
    BY <1>6, <1>8, DevRequestedLaunch
  <2> QED BY <1>8, <2>1, FreedLaunched
<1>9. ASSUME LocalManifest(disk) = None, NEW t \in DeviceType, NEW new \in Fetchers,
             NetRequested(s, t, new, FALSE), Freed(t, Device')
      PROVE  Launch(Device') /\ Told(Device')
  <2>1. PICK zero \in BOOLEAN : zero = FALSE
    OBVIOUS
  <2>2. NetRequested(s, t, new, zero)
    BY <1>9, <2>1
  <2>3. s.loader.cached \notin DevRevs
    BY <1>6, PoliciesAssumption DEF None, Revs
  <2>4. LocalManifest(s.disk) \in RefusedRevs \cup {None}
    BY <1>5, <1>9
  <2>5. Launch(t) /\ Told(t)
    BY <1>6, <2>2, <2>3, <2>4, NetRequestedLaunch
  <2> QED BY <1>9, <2>5, FreedLaunched
<1> QED BY <1>4, <1>7, <1>8, <1>9

LEMMA ReadLaunched ==
  ASSUME IInv, Begin, spent.requests <= 1, NEW c \in cachedReads,
         CachedManifestVerified(c) \/ CachedManifestRejected(c)
  PROVE  Launch(Device') /\ Told(Device')
<1>1. /\ Device \in DeviceType /\ Device.disk = disk
      /\ spent.requests \in Nat
  BY TypedDevice, DeviceFields DEF DeviceFieldsAre
<1>2. spent.requests = 1
  BY <1>1 DEF Begin
<1>3. NotBegun(Device) /\ c.rev = LocalManifest(disk)
  BY <1>2 DEF Begin, Waiting
<1>4. Vacant(Device) /\ Device.loader.cached = None
  BY <1>3, NotBegunVacant
<1>5. CASE CachedManifestVerified(c)
  <2>1. c.rev \in Revs \ RefusedRevs
    BY <1>5, CachedManifestVerifiedEffect
  <2>2. PICK s \in DeviceType, t \in DeviceType :
          /\ CacheRead(Device, s, c.rev) /\ Freed(t, Device')
          /\ \/ c.rev \in DevRevs /\ DevRequested(s, t)
             \/ /\ c.rev \notin DevRevs
                /\ \E new, zero : NetRequested(s, t, new, zero)
             \/ c.rev \notin DevRevs /\ CacheRequested(s, t, c.rev)
    BY <1>5, CachedManifestVerifiedEffect
  <2>3. Vacant(s) /\ s.loader.cached = c.rev /\ c.rev # None
    BY <1>4, <2>1, <2>2 DEF CacheRead, Vacant, Revs, None
  <2>4. CASE DevRequested(s, t)
    BY <2>2, <2>3, <2>4, DevRequestedLaunch, FreedLaunched
  <2>5. ASSUME c.rev \notin DevRevs, NEW new, NEW zero, NetRequested(s, t, new, zero)
        PROVE  Launch(Device') /\ Told(Device')
    <3>1. Launch(t) /\ Told(t)
      BY <2>3, <2>5, NetRequestedLaunch
    <3> QED BY <2>2, <3>1, FreedLaunched
  <2>6. CASE c.rev \notin DevRevs /\ CacheRequested(s, t, c.rev)
    BY <2>2, <2>3, <2>6, CacheRequestedLaunch, FreedLaunched
  <2> QED BY <2>2, <2>4, <2>5, <2>6
<1>6. CASE CachedManifestRejected(c)
  <2>1. c.rev \in RefusedRevs
    BY <1>6, CachedManifestRejectedEffect
  <2>2. PICK t \in DeviceType, new \in Fetchers : NetRequested(Device, t, new, FALSE) /\ Freed(t, Device')
    BY <1>6, CachedManifestRejectedEffect
  <2>3. PICK zero \in BOOLEAN : zero = FALSE
    OBVIOUS
  <2>4. NetRequested(Device, t, new, zero)
    BY <2>2, <2>3
  <2>5. /\ Device.loader.cached \notin DevRevs
        /\ LocalManifest(Device.disk) \in RefusedRevs \cup {None}
    BY <1>1, <1>3, <1>4, <2>1, PoliciesAssumption DEF None, Revs
  <2>6. Launch(t) /\ Told(t)
    BY <1>1, <1>4, <2>4, <2>5, NetRequestedLaunch
  <2> QED BY <2>2, <2>6, FreedLaunched
<1> QED BY <1>5, <1>6

LEMMA LaunchInit == Init => LaunchInv
<1> SUFFICES ASSUME Init PROVE Launch(Device) /\ Told(Device)
  BY DEF LaunchInv
<1>1. IInv /\ Begin /\ spent.requests = 0
  BY InitInvariant, BeginInit DEF Init
<1>2. NotBegun(Device) /\ Device \in DeviceType
  BY <1>1, TypedDevice DEF Begin, Waiting
<1> QED BY <1>2, NotBegunLaunched

LEMMA FetcherAnswerLaunched ==
  ASSUME IInv, Launch(Device), Told(Device), NEW f \in Fetchers, FetcherAnswer(f)
  PROVE  Launch(Device') /\ Told(Device')
<1>1. CASE TimeOut(f)
  BY <1>1, TimeOutLaunched
<1>2. CASE ManifestArrives(f)
  BY <1>2, ManifestArrivesLaunched
<1>3. CASE ManifestFails(f)
  BY <1>3, ManifestFailsLaunched
<1>4. CASE CacheOnlyManifestVerified(f) \/ CacheOnlyManifestRejected(f)
  BY <1>4, CacheOnlyManifestLaunched
<1>5. CASE BundleArrives(f)
  BY <1>5, BundleArrivesLaunched
<1>6. CASE BundleFails(f)
  BY <1>6, BundleFailsLaunched
<1> QED BY <1>1, <1>2, <1>3, <1>4, <1>5, <1>6 DEF FetcherAnswer

LEMMA LaunchStep ==
  ASSUME IInv, IInv', Begin, LaunchInv, [Next]_vars
  PROVE  LaunchInv'
<1> SUFFICES ASSUME spent'.requests <= 1
             PROVE  Launch(Device') /\ Told(Device')
  BY DEF LaunchInv
<1>1. CASE Publish \/ ExperienceFails \/ ExperienceFinishedLoading \/ UNCHANGED vars
  <2>1. UNCHANGED <<spent, disk, loader, fetchers, updates, delegate>>
    BY <1>1 DEF Publish, ExperienceFails, ExperienceFinishedLoading, vars
  <2>2. Device' = Device
    BY <2>1 DEF Device
  <2> QED BY <2>1, <2>2 DEF LaunchInv
<1>2. CASE Relaunch
  BY <1>2, RelaunchLaunched
<1>3. ASSUME NEW cacheOnly \in BOOLEAN, Request(cacheOnly)
      PROVE  Launch(Device') /\ Told(Device')
  BY <1>3, RequestLaunched
<1>4. CASE ReadAnswer
  <2>1. PICK c \in cachedReads : CachedManifestVerified(c) \/ CachedManifestRejected(c)
    BY <1>4 DEF ReadAnswer
  <2>2. spent.requests <= 1
    BY <2>1 DEF CachedManifestVerified, CachedManifestRejected
  <2> QED BY <2>1, <2>2, ReadLaunched
<1>5. ASSUME NEW f \in Fetchers, FetcherAnswer(f)
      PROVE  Launch(Device') /\ Told(Device')
  <2>1. UNCHANGED spent
    BY <1>5 DEF FetcherAnswer, TimeOut, ManifestArrives, ManifestFails, CacheOnlyManifestVerified,
         CacheOnlyManifestRejected, BundleArrives, BundleFails
  <2>2. Launch(Device) /\ Told(Device)
    BY <2>1 DEF LaunchInv
  <2> QED BY <1>5, <2>2, FetcherAnswerLaunched
<1>6. CASE UpdateAnswer \/ ForceBundleReload \/ FetchUpdate
  <2>1. spent'.requests = spent.requests
    BY <1>6, FetchUpdateEffect DEF UpdateAnswer, UpdateManifestArrives, UpdateManifestFails,
         UpdateBundleArrives, UpdateBundleFails, ForceBundleReload
  <2>2. Launch(Device) /\ Told(Device)
    BY <2>1 DEF LaunchInv
  <2>3. CASE UpdateManifestArrives \/ UpdateManifestFails
    BY <2>2, <2>3, UpdateManifestLaunched
  <2>4. CASE UpdateBundleArrives \/ UpdateBundleFails
    BY <2>2, <2>4, UpdateBundleLaunched
  <2>5. CASE ForceBundleReload
    BY <2>2, <2>5, ForceBundleReloadLaunched
  <2>6. CASE FetchUpdate
    BY <2>2, <2>6, FetchUpdateLaunched
  <2> QED BY <1>6, <2>3, <2>4, <2>5, <2>6 DEF UpdateAnswer
<1> QED BY <1>1, <1>2, <1>3, <1>4, <1>5, <1>6 DEF Next

\* Until the first reload of a process, and whatever updates the app fetches: the loader never
\* confirms a manifest other than the one whose bundle it gives the app without telling the app of
\* an update to it.
THEOREM NewManifestIsAnnounced == Spec => []UpdateIsAnnounced
<1>1. Init => IInv /\ Begin /\ LaunchInv
  BY InitInvariant, BeginInit, LaunchInit
<1>2. IInv /\ Begin /\ LaunchInv /\ [Next]_vars => (IInv /\ Begin /\ LaunchInv)'
  BY Inductive, BeginStep, LaunchStep
<1>3. LaunchInv => UpdateIsAnnounced
  <2>1. SUFFICES ASSUME LaunchInv, spent.requests <= 1, Status(Device) = "HasManifestAndBundle"
                 PROVE  loader.confirmed \in {Current(Device).bundle} \cup delegate.announced
    BY DEF UpdateIsAnnounced
  <2>2. Device.loader = loader /\ Device.delegate = delegate
    BY DeviceFields DEF DeviceFieldsAre
  <2>3. loader.confirmed # None /\ Current(Device).bundle # None
    BY <2>1, <2>2 DEF Status
  <2> QED BY <2>1, <2>2, <2>3 DEF LaunchInv, Told
<1> QED BY <1>1, <1>2, <1>3, PTL DEF Spec
=============================================================================
