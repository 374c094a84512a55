-------------------------- MODULE UndisturbedProofs --------------------------
(***************************************************************************)
(* Theorems about an app that is launched any number of times, and neither *)
(* reloaded nor told to fetch an update, for every value of the constants: *)
(* what the caches offer can be run, downloads are kept alive, announced   *)
(* updates are stored, and an app with a verified cached manifest starts.  *)
(***************************************************************************)
EXTENDS LaunchProofs

(***************************************************************************)
(* The loader's manifest resource belongs to the one fetcher that uses the *)
(* network: it has the manifest whose bundle the fetcher waits for.        *)
(***************************************************************************)
Fits(s, f) == s.loader.slot = "loaded" /\ s.loader.slotData = s.fetchers[f].manifest

Held(s, f) == f \in {s.loader.fetcher, s.loader.previous}

Waits(s, f) ==
  LET x == s.fetchers[f]
  IN /\ x.pending.op = "manifest" => x.resource = "slot"
     /\ x.pending.op = "bundle" => Fits(s, f)
     /\ x.pending.op # "idle" => Held(s, f)

Loadable(s) ==
  /\ s.disk.manifest # None => OnDevice(s.disk, s.disk.manifest)
  /\ s.loader.cached # None => OnDevice(s.disk, s.loader.cached)

Downloads(s) ==
  /\ \A f \in Fetchers : UsesNet(s, f) => Waits(s, f)
  /\ \A f \in Fetchers : s.fetchers[f].pending.op = "bundle" => s.fetchers[f].kind # "none"

\* An update is announced once, by the fetcher that has stored it.
StoredUpdate(d, m) == HasBundle(d, m) /\ LocalManifest(d) >= m

Announces(s) ==
  /\ \A m \in s.delegate.announced \ DevRevs : StoredUpdate(s.disk, m)
  /\ s.delegate.announced # {} =>
       \A f \in Fetchers : UsesNet(s, f) => s.fetchers[f].pending.op = "idle"

Sound(s) == Loadable(s) /\ Downloads(s) /\ Announces(s)

(***************************************************************************)
(* A request with a cached manifest fails in development mode only.        *)
(***************************************************************************)
DevShape(s, g) ==
  LET x == s.fetchers[g]
  IN /\ s.loader.confirmed \in {None, x.manifest}
     /\ x.manifest = None /\ s.loader.cached # None => s.loader.cached \in DevRevs
     /\ x.pending.op = "bundle" => x.manifest \in DevRevs
     /\ x.pending.op = "manifest" => x.manifest = None
     /\ s.delegate.failed /\ s.loader.cached # None =>
          IF x.manifest = None THEN x.pending.op # "manifest" ELSE x.manifest \in DevRevs

Starts(s) ==
  /\ \A f \in Fetchers : UsesNet(s, f) /\ ~s.fetchers[f].hasFinished => s.loader.confirmed = None
  /\ \A g \in Fetchers : s.fetchers[g].pending.op = "cached" => s.loader.cached = None
  /\ \A g \in Fetchers : s.fetchers[g].kind = "dev" => DevShape(s, g)
  /\ s.delegate.failed /\ s.loader.cached # None => \E g \in Fetchers : s.fetchers[g].kind = "dev"

UndisturbedInv == Sound(Device) /\ Starts(Device)

-----------------------------------------------------------------------------
\* The caches keep what is in them, and no fetcher begins to wait for the network.
Works(s, t, g) ==
  LET x == s.fetchers[g]
      y == t.fetchers[g]
  IN /\ y.pending = x.pending /\ y.manifest = x.manifest /\ y.resource = x.resource
     /\ t.loader.slot = s.loader.slot /\ t.loader.slotData = s.loader.slotData
     /\ Held(s, g) => Held(t, g)

Steady(s, t) ==
  /\ t \in DeviceType
  /\ t.disk.manifest = s.disk.manifest /\ s.disk.bundles \subseteq t.disk.bundles
  /\ t.loader.cached = s.loader.cached /\ t.delegate.announced = s.delegate.announced
  /\ \A g \in Fetchers : UsesNet(t, g) =>
       UsesNet(s, g) /\ (t.fetchers[g].pending.op # "idle" => Works(s, t, g))
  /\ \A g \in Fetchers : t.fetchers[g].pending.op = "bundle" /\ t.fetchers[g].kind = "none" =>
       s.fetchers[g].pending.op = "bundle" /\ s.fetchers[g].kind = "none"

LEMMA SteadySound ==
  ASSUME NEW s \in DeviceType, NEW t, Sound(s), Steady(s, t)
  PROVE  Sound(t)
<1>1. /\ t.disk.manifest = s.disk.manifest /\ s.disk.bundles \subseteq t.disk.bundles
      /\ t.loader.cached = s.loader.cached /\ t.delegate.announced = s.delegate.announced
  BY DEF Steady
<1>2. \A r : /\ HasBundle(s.disk, r) => HasBundle(t.disk, r)
             /\ OnDevice(s.disk, r) => OnDevice(t.disk, r)
  BY <1>1 DEF OnDevice, HasBundle
<1>3. Loadable(t)
  BY <1>1, <1>2 DEF Sound, Loadable
<1>4. ASSUME NEW g \in Fetchers, UsesNet(t, g), t.fetchers[g].pending.op # "idle"
      PROVE  Waits(t, g) /\ UsesNet(s, g) /\ s.fetchers[g].pending.op # "idle"
  <2>1. UsesNet(s, g) /\ Works(s, t, g)
    BY <1>4 DEF Steady
  <2>2. Waits(s, g)
    BY <2>1 DEF Sound, Downloads
  <2> QED BY <1>4, <2>1, <2>2 DEF Works, Waits, Fits
<1>5. Downloads(t)
  BY <1>4 DEF Sound, Downloads, Steady, Waits
<1>6. Announces(t)
  <2>1. LocalManifest(t.disk) = LocalManifest(s.disk)
    BY <1>1 DEF LocalManifest
  <2> QED BY <1>1, <1>2, <1>4, <2>1 DEF Sound, Announces, StoredUpdate
<1> QED BY <1>3, <1>5, <1>6 DEF Sound

LEMMA SteadyTwice ==
  ASSUME NEW s, NEW t, NEW u, Steady(s, t), Steady(t, u)
  PROVE  Steady(s, u)
<1>1. \A g \in Fetchers : UsesNet(u, g) =>
        UsesNet(s, g) /\ (u.fetchers[g].pending.op # "idle" => Works(s, u, g))
  BY DEF Steady, Works
<1> QED BY <1>1 DEF Steady

\* didFinishLoading.
LEMMA FinishedSteady ==
  ASSUME NEW s \in DeviceType, NEW t, NEW f \in Fetchers, Finished(s, t, f)
  PROVE  Steady(s, t)
BY DEF Finished, Kept, Steady, Works, Held, UsesNet

\* didFailWithError, of a fetcher that no longer waits, or that stays the loader's.
LEMMA FailedSteady ==
  ASSUME NEW s \in DeviceType, NEW t, NEW f \in Fetchers, Failed(s, t, f),
         s.fetchers[f].pending.op = "idle" \/ s.loader.fetcher = f
  PROVE  Steady(s, t)
<1>1. /\ t \in DeviceType /\ t.disk = s.disk /\ t.loader.cached = s.loader.cached
      /\ t.loader.slot = s.loader.slot /\ t.loader.slotData = s.loader.slotData
      /\ t.loader.fetcher = s.loader.fetcher /\ t.loader.previous = PreviousWithout(s, f)
      /\ t.delegate.announced = s.delegate.announced
      /\ \A g \in Fetchers : Alike(s.fetchers[g], t.fetchers[g])
  BY DEF Failed, Kept, OthersKept, Alike
<1>2. \A g \in Fetchers : t.fetchers[g].pending.op # "idle" => (Held(s, g) => Held(t, g))
  BY <1>1 DEF Held, PreviousWithout, Alike
<1> QED BY <1>1, <1>2 DEF Steady, Works, Alike, UsesNet

LEMMA EndedSteady ==
  ASSUME NEW s \in DeviceType, NEW u, NEW f \in Fetchers, NEW err \in BOOLEAN, Ended(s, u, f, err),
         s.fetchers[f].hasFinished => err /\ s.fetchers[f].pending.op = "idle"
  PROVE  Steady(s, u)
<1>1. /\ u \in DeviceType /\ u.disk = s.disk /\ u.loader.cached = s.loader.cached
      /\ u.loader.slot = s.loader.slot /\ u.loader.slotData = s.loader.slotData
      /\ u.loader.fetcher = s.loader.fetcher
      /\ \A g \in Fetchers \ {f} : u.fetchers[g] = s.fetchers[g]
      /\ u.fetchers[f].kind = s.fetchers[f].kind /\ u.fetchers[f].manifest = s.fetchers[f].manifest
      /\ u.fetchers[f].pending = s.fetchers[f].pending /\ u.fetchers[f].resource = s.fetchers[f].resource
  BY DEF Ended, Kept, OthersKept
<1>2. u.delegate.announced = s.delegate.announced
  BY DEF Ended, AnnouncedAfter
<1>3. \A g \in Fetchers : u.fetchers[g].pending.op # "idle" => (Held(s, g) => Held(u, g))
  BY <1>1 DEF Held, Ended, PreviousWithout
<1> QED BY <1>1, <1>2, <1>3 DEF Steady, Works, UsesNet

\* The cache stands in for the fetcher f, the only one that uses the network.
LEMMA FellBackSteady ==
  ASSUME NEW u \in DeviceType, NEW t, NEW f \in Fetchers, NEW new \in Fetchers, FellBack(u, t, new, f),
         \A g \in Fetchers : UsesNet(u, g) => g = f
  PROVE  Steady(u, t)
<1>1. /\ t \in DeviceType /\ t.disk = u.disk /\ t.loader.cached = u.loader.cached
      /\ t.loader.slot = u.loader.slot /\ t.loader.slotData = u.loader.slotData
      /\ t.loader.previous = f /\ t.delegate.announced = u.delegate.announced
      /\ t.fetchers[new].kind = "cacheOnly"
      /\ \A g \in Fetchers \ {new} : t.fetchers[g] = u.fetchers[g]
  BY DEF FellBack, CacheOnlyStarted, Kept, OthersKept
<1>2. \A g \in Fetchers : UsesNet(t, g) => UsesNet(u, g) /\ t.fetchers[g] = u.fetchers[g] /\ Held(t, g)
  BY <1>1 DEF UsesNet, Held
<1> QED BY <1>1, <1>2 DEF Steady, Works

\* _finishWithError, before f has finished or with an error.
LEMMA NetEndsSteady ==
  ASSUME NEW s \in DeviceType, NEW t, NEW f \in Fetchers, NEW err \in BOOLEAN, Launch(s), UsesNet(s, f),
         NetEnds(s, t, f, err),
         s.fetchers[f].hasFinished => err /\ s.fetchers[f].pending.op = "idle"
  PROVE  Steady(s, t)
<1>1. PICK u \in DeviceType : Ended(s, u, f, err) /\ EndedAs(s, u, t, f)
  BY DEF NetEnds
<1>2. Steady(s, u)
  BY <1>1, EndedSteady
<1>3. /\ u.loader.fetcher = s.loader.fetcher /\ u.fetchers[f].pending = s.fetchers[f].pending
      /\ Launch(u)
  BY <1>1, EndedLaunch DEF Ended
<1>4. \A g \in Fetchers : UsesNet(u, g) => g = f
  BY <1>2 DEF Launch, Steady
<1>5. Steady(u, t)
  <2>1. CASE Finished(u, t, f)
    BY <2>1, FinishedSteady
  <2>2. CASE \E new \in Fetchers : FellBack(u, t, new, f)
    BY <1>4, <2>2, FellBackSteady
  <2>3. CASE Failed(u, t, f)
    <3>1. u.fetchers[f].pending.op = "idle" \/ u.loader.fetcher = f
      BY <1>3 DEF Launch, NetShape, Leads
    <3> QED BY <2>3, <3>1, FailedSteady
  <2> QED BY <1>1, <2>1, <2>2, <2>3 DEF EndedAs
<1> QED BY <1>2, <1>5, SteadyTwice

\* The record of a fetcher changes, and it does not wait for the network, or not more than it did.
LEMMA SwappedSteady ==
  ASSUME NEW s \in DeviceType, NEW t, NEW f \in Fetchers, NEW x, Swapped(s, t, f, x),
         x.kind = s.fetchers[f].kind, x.pending.op = "idle" \/ x.kind = "dev"
  PROVE  Steady(s, t)
<1>1. /\ t \in DeviceType /\ t.disk = s.disk /\ t.loader = s.loader /\ t.delegate = s.delegate
      /\ t.fetchers[f] = x /\ \A g \in Fetchers \ {f} : t.fetchers[g] = s.fetchers[g]
  BY DEF Swapped, OthersKept
<1> QED BY <1>1 DEF Steady, Works, Held, UsesNet

LEMMA StoredSteady ==
  ASSUME NEW s \in DeviceType, NEW t, NEW m, Stored(s, t, m)
  PROVE  Steady(s, t)
BY DEF Stored, Steady, Works, Held, UsesNet

\* The data of a manifest arrives, and is not written: no fetcher waits for its bundle yet.
LEMMA DataArrivedSteady ==
  ASSUME NEW s \in DeviceType, NEW t, NEW role, NEW m, DataArrived(s, t, role, m), role # "write",
         \A g \in Fetchers : UsesNet(s, g) => s.fetchers[g].pending.op = "idle"
  PROVE  Steady(s, t)
BY DEF DataArrived, LoaderButSlot, Steady, UsesNet

LEMMA DevStartedSteady ==
  ASSUME NEW s \in DeviceType, NEW t, NEW new \in Fetchers, NEW m, DevStarted(s, t, new, m),
         \A g \in Fetchers : UsesNet(s, g) => s.fetchers[g].pending.op = "idle"
  PROVE  Steady(s, t)
<1>1. /\ t \in DeviceType /\ t.disk = s.disk /\ t.delegate = s.delegate
      /\ t.loader.cached = s.loader.cached
      /\ t.fetchers[new].kind = "dev"
      /\ \A g \in Fetchers \ {new} : t.fetchers[g] = s.fetchers[g]
  BY DEF DevStarted, Kept, OthersKept
<1> QED BY <1>1 DEF Steady, UsesNet

\* Objects are freed, and none that still downloads: the loader holds the one that uses the
\* network, and a download holds the one in development mode.
LEMMA FreedSound ==
  ASSUME NEW s \in DeviceType, NEW t, Sound(s), Freed(s, t),
         \A g \in Fetchers : s.fetchers[g].kind = "cacheOnly" => s.fetchers[g].pending.op # "bundle"
  PROVE  Sound(t)
<1>1. /\ t \in DeviceType /\ t.disk = s.disk /\ t.loader = s.loader /\ t.delegate = s.delegate
      /\ \A g \in Fetchers : IF Alive(s, g) THEN t.fetchers[g] = s.fetchers[g]
                              ELSE t.fetchers[g].kind = "none" /\ t.fetchers[g].pending = s.fetchers[g].pending
  BY DEF Freed, GoneFrom
<1>2. ASSUME NEW g \in Fetchers, s.fetchers[g].pending.op = "bundle", s.fetchers[g].kind # "none"
      PROVE  Alive(s, g)
  <2>1. s.fetchers[g].kind \in {"withTimeout", "dev"}
    BY <1>2 DEF DeviceType, Fetcher
  <2>2. CASE UsesNet(s, g)
    BY <1>2, <2>2 DEF Sound, Downloads, Waits, Held, Alive
  <2>3. CASE s.fetchers[g].kind = "dev"
    BY <1>2, <2>3 DEF Alive
  <2> QED BY <2>1, <2>2, <2>3 DEF UsesNet
<1>3. Steady(s, t)
  BY <1>1, <1>2 DEF Steady, Works, Held, UsesNet
<1> QED BY <1>3, SteadySound

\* The fetcher f has the bundle of the manifest that waits at the loader: both are stored.
LEMMA BundleTakenSound ==
  ASSUME NEW s \in DeviceType, NEW t, NEW f \in Fetchers, Launch(s), Sound(s), UsesNet(s, f),
         BundleTaken(s, t, f), s.fetchers[f].manifest # None, s.fetchers[f].pending = Idle,
         Fits(s, f), OnDevice(s.disk, s.fetchers[f].manifest), s.delegate.announced = {}
  PROVE  Sound(t)
<1> DEFINE m == s.fetchers[f].manifest
           x == [s.fetchers[f] EXCEPT !.bundle = m]
<1>1. PICK b \in DeviceType, u \in DeviceType, v \in DeviceType, err \in BOOLEAN :
        /\ Swapped(s, b, f, x) /\ Ended(b, u, f, err) /\ EndedAs(b, u, v, f) /\ Written(v, t)
  BY DEF BundleTaken
<1>2. /\ x.kind = s.fetchers[f].kind /\ x.pending = Idle /\ x.bundle = m /\ x.manifest = m
  BY DEF DeviceType, Fetcher
<1> HIDE DEF x
<1>3. /\ b.fetchers[f] = x /\ b.disk = s.disk /\ b.loader = s.loader /\ b.delegate = s.delegate
      /\ \A g \in Fetchers \ {f} : b.fetchers[g] = s.fetchers[g]
  BY <1>1 DEF Swapped, OthersKept
<1>4. /\ u.disk = s.disk /\ u.loader.cached = s.loader.cached
      /\ u.loader.slot = "loaded" /\ u.loader.slotData = m
      /\ u.fetchers[f].kind = s.fetchers[f].kind /\ u.fetchers[f].pending = Idle
      /\ \A g \in Fetchers \ {f} : u.fetchers[g] = s.fetchers[g]
  BY <1>1, <1>2, <1>3 DEF Ended, Kept, OthersKept, Fits
<1>5. u.delegate.announced \subseteq {m}
  BY <1>1, <1>2, <1>3 DEF Ended, AnnouncedAfter
<1>6. Finished(u, v, f)
  BY <1>1, <1>2, <1>3 DEF EndedAs
<1>7. /\ v.disk = s.disk /\ v.loader.cached = s.loader.cached
      /\ v.loader.slot = "loaded" /\ v.loader.slotData = m
      /\ v.fetchers = u.fetchers /\ v.delegate.announced \subseteq {m}
  BY <1>4, <1>5, <1>6 DEF Finished, Kept
<1>8. /\ t.disk.manifest = m /\ t.disk.bundles = s.disk.bundles
      /\ t.loader.cached = s.loader.cached /\ t.delegate.announced \subseteq {m}
      /\ t.fetchers = u.fetchers /\ t \in DeviceType
  BY <1>1, <1>7 DEF Written, LoaderButSlot
<1>9. \A r : /\ HasBundle(t.disk, r) <=> HasBundle(s.disk, r)
             /\ OnDevice(t.disk, r) <=> OnDevice(s.disk, r)
  BY <1>8 DEF OnDevice, HasBundle
<1>10. Loadable(t)
  BY <1>8, <1>9 DEF Sound, Loadable
<1>11. \A g \in Fetchers : UsesNet(t, g) => t.fetchers[g].pending = Idle
  BY <1>4, <1>8 DEF Launch, UsesNet
<1>12. Downloads(t)
  BY <1>4, <1>8, <1>11 DEF Sound, Downloads, Waits, Idle
<1>13. LocalManifest(t.disk) >= m
  <2>1. m \in Nat /\ Embedded \in Nat
    BY EnvironmentAssumption DEF DeviceType, Fetcher, Rev0
  <2> QED BY <1>8, <2>1 DEF LocalManifest
<1>14. Announces(t)
  BY <1>8, <1>9, <1>11, <1>13 DEF Announces, StoredUpdate, OnDevice, Idle
<1> QED BY <1>10, <1>12, <1>14 DEF Sound

LEMMA BundleWantedSound ==
  ASSUME NEW s \in DeviceType, NEW t, NEW f \in Fetchers, Launch(s), Sound(s), UsesNet(s, f),
         BundleWanted(s, t, f), s.fetchers[f].manifest # None, s.fetchers[f].pending = Idle,
         Fits(s, f), Held(s, f), s.delegate.announced = {}
  PROVE  Sound(t)
<1>1. CASE UpToDate(s, f) /\ BundleTaken(s, t, f)
  <2>1. OnDevice(s.disk, s.fetchers[f].manifest)
    BY <1>1 DEF UpToDate, OnDevice
  <2> QED BY <1>1, <2>1, BundleTakenSound
<1>2. CASE ~UpToDate(s, f)
  <2> DEFINE x == [s.fetchers[f] EXCEPT !.pending = [op |-> "bundle", rev |-> s.fetchers[f].manifest]]
  <2>1. Swapped(s, t, f, x)
    BY <1>2 DEF BundleWanted
  <2>2. /\ x.kind = s.fetchers[f].kind /\ x.manifest = s.fetchers[f].manifest
        /\ x.pending.op = "bundle"
    BY DEF DeviceType, Fetcher
  <2> HIDE DEF x
  <2>3. /\ t.fetchers[f] = x /\ t.disk = s.disk /\ t.loader = s.loader /\ t.delegate = s.delegate
        /\ \A g \in Fetchers \ {f} : t.fetchers[g] = s.fetchers[g]
    BY <2>1 DEF Swapped, OthersKept
  <2>4. Waits(t, f)
    BY <2>2, <2>3 DEF Waits, Fits, Held
  <2>5. \A g \in Fetchers : UsesNet(t, g) => g = f
    BY <2>2, <2>3 DEF Launch, UsesNet
  <2>6. Downloads(t)
    BY <2>2, <2>3, <2>4, <2>5 DEF Downloads, Sound, UsesNet
  <2>7. Loadable(t) /\ Announces(t)
    BY <2>3 DEF Sound, Loadable, Announces
  <2> QED BY <2>6, <2>7 DEF Sound
<1> QED BY <1>1, <1>2 DEF BundleWanted

-----------------------------------------------------------------------------
\* Nothing is confirmed, fails or is asked of the cache.
SameStart(s, t) ==
  /\ t.loader.confirmed = s.loader.confirmed /\ t.loader.cached = s.loader.cached
  /\ t.delegate.failed = s.delegate.failed
  /\ \A g \in Fetchers :
       LET x == s.fetchers[g]
           y == t.fetchers[g]
       IN /\ UsesNet(t, g) /\ ~y.hasFinished => UsesNet(s, g) /\ ~x.hasFinished
          /\ y.pending.op = "cached" => x.pending.op = "cached"
          /\ y.kind = "dev" <=> x.kind = "dev"
          /\ y.kind = "dev" => y.manifest = x.manifest /\ y.pending.op \in {"idle", x.pending.op}

LEMMA SameStarts ==
  ASSUME NEW s, NEW t, Starts(s), SameStart(s, t)
  PROVE  Starts(t)
<1>1. \A g \in Fetchers : t.fetchers[g].kind = "dev" => DevShape(t, g)
  BY DEF Starts, SameStart, DevShape
<1> QED BY <1>1 DEF Starts, SameStart

\* While a fetcher uses the network no other confirms a manifest, and with a cached manifest
\* nothing fails.
NetStarts(t, f) ==
  /\ UsesNet(t, f) /\ (t.fetchers[f].hasFinished \/ t.loader.confirmed = None)
  /\ \A g \in Fetchers : UsesNet(t, g) => g = f
  /\ \A g \in Fetchers : t.fetchers[g].kind # "dev"
  /\ \A g \in Fetchers : t.fetchers[g].pending.op = "cached" => t.loader.cached = None
  /\ t.delegate.failed => t.loader.cached = None

LEMMA NetStartsStarts ==
  ASSUME NEW t, NEW f \in Fetchers, NetStarts(t, f)
  PROVE  Starts(t)
BY DEF NetStarts, Starts

LEMMA StartsNetStarts ==
  ASSUME NEW s, NEW f \in Fetchers, Launch(s), Starts(s), UsesNet(s, f)
  PROVE  NetStarts(s, f)
BY DEF NetStarts, Starts, Launch

LEMMA EndedStarts ==
  ASSUME NEW s, NEW u, NEW f \in Fetchers, NEW err, NetStarts(s, f), Ended(s, u, f, err)
  PROVE  NetStarts(u, f) /\ u.fetchers[f].hasFinished
BY DEF NetStarts, Ended, Kept, OthersKept, UsesNet

\* _finishWithError.
LEMMA NetEndsStarts ==
  ASSUME NEW s \in DeviceType, NEW u \in DeviceType, NEW t, NEW f \in Fetchers, NEW err, NetStarts(s, f),
         s.loader.cached \notin DevRevs, Loadable(s), Ended(s, u, f, err), EndedAs(s, u, t, f)
  PROVE  NetStarts(t, f)
<1>1. NetStarts(u, f) /\ u.fetchers[f].hasFinished
  BY EndedStarts
<1>2. u.disk = s.disk /\ u.loader.cached = s.loader.cached
  BY DEF Ended, Kept
<1>3. CASE Finished(u, t, f)
  BY <1>1, <1>3 DEF Finished, Kept, NetStarts, UsesNet
<1>4. ASSUME NEW new \in Fetchers, FellBack(u, t, new, f)
      PROVE  NetStarts(t, f)
  <2> DEFINE y == t.fetchers[new]
  <2>1. /\ y.kind = "cacheOnly" /\ new # f /\ t.loader.cached = u.loader.cached
        /\ \A g \in Fetchers \ {new} : t.fetchers[g] = u.fetchers[g]
    BY <1>4 DEF FellBack, CacheOnlyStarted, Kept, OthersKept
  <2>2. u.loader.cached # None => HasBundle(u.disk, u.loader.cached)
    BY <1>2 DEF Loadable, OnDevice
  <2>3. /\ y.pending.op = "cached" => u.loader.cached = None
        /\ t.delegate.failed => u.delegate.failed \/ u.loader.cached = None
    BY <1>2, <1>4, <2>2 DEF FellBack, CacheOnlyStarted, Idle
  <2> QED BY <1>1, <2>1, <2>3 DEF NetStarts, UsesNet
<1>5. CASE Manifest(u) = None /\ Failed(u, t, f)
  <2>1. u.loader.cached = None
    BY <1>5 DEF Manifest
  <2>2. /\ t.loader.cached = u.loader.cached /\ t.loader.confirmed = u.loader.confirmed
        /\ \A g \in Fetchers : Alike(u.fetchers[g], t.fetchers[g])
    BY <1>5 DEF Failed, Kept, OthersKept, Alike
  <2> QED BY <1>1, <2>1, <2>2 DEF NetStarts, UsesNet, Alike
<1> QED BY <1>3, <1>4, <1>5 DEF EndedAs

LEMMA SwappedStarts ==
  ASSUME NEW s, NEW t, NEW f \in Fetchers, NEW x, NetStarts(s, f), Swapped(s, t, f, x),
         x.kind = s.fetchers[f].kind, x.hasFinished = s.fetchers[f].hasFinished,
         x.pending.op # "cached"
  PROVE  NetStarts(t, f)
BY DEF NetStarts, Swapped, OthersKept, UsesNet

LEMMA WrittenStarts ==
  ASSUME NEW s, NEW t, NEW f \in Fetchers, NetStarts(s, f), Written(s, t)
  PROVE  NetStarts(t, f)
<1>1. \A g \in Fetchers : SameWork(s.fetchers[g], t.fetchers[g])
  BY DEF Written, FetcherRelabelled, Relabelled, SameWork
<1> QED BY <1>1 DEF NetStarts, Written, LoaderButSlot, SameWork, UsesNet

LEMMA BundleTakenStarts ==
  ASSUME NEW s \in DeviceType, NEW t, NEW f \in Fetchers, NetStarts(s, f), Loadable(s),
         s.loader.cached \notin DevRevs, s.fetchers[f].pending = Idle, BundleTaken(s, t, f)
  PROVE  NetStarts(t, f)
<1> DEFINE x == [s.fetchers[f] EXCEPT !.bundle = s.fetchers[f].manifest]
<1>1. PICK b \in DeviceType, u \in DeviceType, v \in DeviceType, err \in BOOLEAN :
        /\ Swapped(s, b, f, x) /\ Ended(b, u, f, err) /\ EndedAs(b, u, v, f) /\ Written(v, t)
  BY DEF BundleTaken
<1>2. x.kind = s.fetchers[f].kind /\ x.hasFinished = s.fetchers[f].hasFinished /\ x.pending = Idle
  BY DEF DeviceType, Fetcher
<1> HIDE DEF x
<1>3. NetStarts(b, f)
  BY <1>1, <1>2, SwappedStarts DEF Idle
<1>4. b.loader = s.loader /\ b.disk = s.disk
  BY <1>1 DEF Swapped
<1>5. NetStarts(v, f)
  BY <1>1, <1>3, <1>4, NetEndsStarts DEF Loadable
<1> QED BY <1>1, <1>5, WrittenStarts

LEMMA BundleWantedStarts ==
  ASSUME NEW s \in DeviceType, NEW t, NEW f \in Fetchers, NetStarts(s, f), Loadable(s),
         s.loader.cached \notin DevRevs, s.fetchers[f].pending = Idle, BundleWanted(s, t, f)
  PROVE  NetStarts(t, f)
<1>1. CASE BundleTaken(s, t, f)
  BY <1>1, BundleTakenStarts
<1>2. CASE ~BundleTaken(s, t, f)
  <2> DEFINE x == [s.fetchers[f] EXCEPT !.pending = [op |-> "bundle", rev |-> s.fetchers[f].manifest]]
  <2>1. Swapped(s, t, f, x)
    BY <1>2 DEF BundleWanted
  <2>2. /\ x.kind = s.fetchers[f].kind /\ x.hasFinished = s.fetchers[f].hasFinished
        /\ x.pending.op = "bundle"
    BY DEF DeviceType, Fetcher
  <2> HIDE DEF x
  <2> QED BY <2>1, <2>2, SwappedStarts
<1> QED BY <1>1, <1>2

-----------------------------------------------------------------------------
\* Objects are freed.
Firm(s) ==
  \A g \in Fetchers :
    /\ s.fetchers[g].kind = "cacheOnly" => s.fetchers[g].pending.op # "bundle"
    /\ s.fetchers[g].kind = "dev" => s.loader.fetcher = g

LEMMA LaunchFirm ==
  ASSUME NEW s, Launch(s)
  PROVE  Firm(s)
BY DEF Launch, CacheShape, Firm

LEMMA FreedUndisturbed ==
  ASSUME NEW s \in DeviceType, NEW t, Firm(s), Sound(s), Starts(s), Freed(s, t)
  PROVE  Sound(t) /\ Starts(t)
<1>1. Sound(t)
  BY FreedSound DEF Firm
<1>2. /\ t.loader = s.loader /\ t.delegate = s.delegate
      /\ \A g \in Fetchers : IF Alive(s, g) THEN t.fetchers[g] = s.fetchers[g]
                              ELSE t.fetchers[g].kind = "none" /\ t.fetchers[g].pending = s.fetchers[g].pending
  BY DEF Freed, GoneFrom
<1>3. \A g \in Fetchers : s.fetchers[g].kind = "dev" => Alive(s, g)
  BY DEF Firm, Alive
<1>4. SameStart(s, t)
  BY <1>2, <1>3 DEF SameStart, UsesNet
<1>5. Starts(t)
  BY <1>4, SameStarts
<1> QED BY <1>1, <1>5

LEMMA LaunchedFreed ==
  ASSUME NEW t \in DeviceType, NEW r, Launch(t), Sound(t), Starts(t), Freed(t, r)
  PROVE  Sound(r) /\ Starts(r)
BY LaunchFirm, FreedUndisturbed

\* The fetcher f has the newest manifest, which waits at the loader to be written.
LEMMA ManifestTakenUndisturbed ==
  ASSUME NEW s \in DeviceType, NEW t, NEW r, NEW f \in Fetchers, NEW m \in Revs,
         Launch(s), Told(s), Sound(s), NetStarts(s, f),
         s.fetchers[f].bundle = None, s.fetchers[f].pending = Idle,
         s.fetchers[f].timer => ~s.fetchers[f].hasFinished,
         \A g \in Fetchers : s.fetchers[g].bundle # None => s.fetchers[g].bundle = s.fetchers[g].manifest,
         s.loader.slot = "loaded", s.loader.slotData = m, Held(s, f), s.delegate.announced = {},
         ManifestTaken(s, t, f, m), Freed(t, r)
  PROVE  Sound(r) /\ Starts(r)
<1> DEFINE x == [s.fetchers[f] EXCEPT !.manifest = m]
<1>1. PICK u \in DeviceType :
        /\ Swapped(s, u, f, x)
        /\ \/ /\ m \in DevRevs /\ s.fetchers[f].timer
              /\ \E v \in DeviceType, new \in Fetchers \ {f} :
                   /\ Swapped(u, v, f, [u.fetchers[f] EXCEPT !.timer = FALSE])
                   /\ DevStarted(v, t, new, m)
           \/ BundleWanted(u, t, f)
  BY DEF ManifestTaken
<1>2. /\ x.kind = s.fetchers[f].kind /\ x.hasFinished = s.fetchers[f].hasFinished
      /\ x.bundle = None /\ x.resource = s.fetchers[f].resource
      /\ x.manifest = m /\ x.pending = Idle /\ x.timer = s.fetchers[f].timer
  BY DEF DeviceType, Fetcher
<1> HIDE DEF x
<1>3. /\ u.fetchers[f] = x /\ \A g \in Fetchers \ {f} : u.fetchers[g] = s.fetchers[g]
      /\ u.loader = s.loader /\ u.delegate = s.delegate /\ u.disk = s.disk
  BY <1>1 DEF Swapped, OthersKept
<1>4. s.fetchers[f].kind = "withTimeout" /\ UsesNet(s, f) /\ UsesNet(u, f)
  BY <1>2, <1>3 DEF UsesNet, NetStarts
<1>5. Launch(u) /\ Told(u)
  BY <1>1, <1>2, <1>4, SwappedLaunched
<1>6. Sound(u)
  BY <1>1, <1>2, SwappedSteady, SteadySound DEF Idle
<1>7. NetStarts(u, f)
  BY <1>1, <1>2, SwappedStarts DEF Idle
<1>8. u.loader.cached \notin DevRevs
  BY <1>4, <1>5 DEF Launch, NetShape
<1>9. CASE BundleWanted(u, t, f)
  <2>1. /\ u.fetchers[f].bundle = None /\ u.fetchers[f].manifest # None
        /\ u.fetchers[f].pending = Idle
        /\ \A g \in Fetchers : u.fetchers[g].bundle # None => u.fetchers[g].bundle = u.fetchers[g].manifest
    BY <1>2, <1>3 DEF Revs, None
  <2>2. Launch(t)
    BY <1>4, <1>5, <1>9, <2>1, BundleWantedLaunched
  <2>3. Fits(u, f) /\ Held(u, f) /\ u.delegate.announced = {}
    BY <1>2, <1>3 DEF Fits, Held
  <2>4. Sound(t)
    BY <1>4, <1>5, <1>6, <1>9, <2>1, <2>3, BundleWantedSound
  <2>5. Starts(t)
    BY <1>6, <1>7, <1>8, <1>9, <2>1, BundleWantedStarts, NetStartsStarts DEF Sound
  <2>6. t \in DeviceType
    BY <1>9, BundleWantedType
  <2> QED BY <2>2, <2>4, <2>5, <2>6, LaunchedFreed
<1>10. ASSUME m \in DevRevs, s.fetchers[f].timer, NEW v \in DeviceType, NEW new \in Fetchers \ {f},
              Swapped(u, v, f, [u.fetchers[f] EXCEPT !.timer = FALSE]), DevStarted(v, t, new, m)
       PROVE  Sound(r) /\ Starts(r)
  <2> DEFINE y == [u.fetchers[f] EXCEPT !.timer = FALSE]
  <2>1. y.kind = u.fetchers[f].kind /\ y.hasFinished = u.fetchers[f].hasFinished /\ y.pending = Idle
    BY <1>2, <1>3 DEF DeviceType, Fetcher
  <2>2. Swapped(u, v, f, y)
    BY <1>10
  <2> HIDE DEF y
  <2>3. /\ v.fetchers[f] = y /\ \A g \in Fetchers \ {f} : v.fetchers[g] = u.fetchers[g]
        /\ v.loader = u.loader /\ v.delegate = u.delegate
    BY <2>2 DEF Swapped, OthersKept
  <2>4. Sound(v)
    BY <1>6, <2>1, <2>2, SwappedSteady, SteadySound DEF Idle
  <2>5. NetStarts(v, f)
    BY <1>7, <2>1, <2>2, SwappedStarts DEF Idle
  <2>6. Sound(t)
    <3>1. \A g \in Fetchers : UsesNet(v, g) => v.fetchers[g].pending.op = "idle"
      BY <2>1, <2>3, <2>5 DEF NetStarts, Idle
    <3> QED BY <1>10, <2>4, <3>1, DevStartedSteady, SteadySound
  <2>7. /\ t \in DeviceType /\ t.fetchers[new].kind = "dev" /\ t.fetchers[new].manifest = m
        /\ t.fetchers[new].pending = Idle
        /\ t.loader.fetcher = new /\ t.loader.confirmed = v.loader.confirmed
        /\ t.loader.cached = v.loader.cached
        /\ \A g \in Fetchers \ {new} : t.fetchers[g] = v.fetchers[g]
    BY <1>10 DEF DevStarted, Kept, OthersKept, Revs
  <2>8. \A g \in Fetchers \ {f} : u.fetchers[g].kind # "cacheOnly"
    BY <1>2, <1>3, <1>4, <1>5, <1>10 DEF Launch, NetShape
  <2>9. Firm(t)
    BY <1>4, <2>1, <2>3, <2>5, <2>7, <2>8 DEF Firm, NetStarts, UsesNet
  <2>10. v.loader.confirmed = None
    BY <1>2, <1>3, <1>10, <2>1, <2>3, <2>5 DEF NetStarts
  <2>11. DevShape(t, new)
    BY <1>10, <2>7, <2>10 DEF DevShape, Idle, Revs, None
  <2>12. Starts(t)
    BY <2>5, <2>7, <2>10, <2>11 DEF Starts, NetStarts, Idle
  <2> QED BY <2>6, <2>7, <2>9, <2>12, FreedUndisturbed
<1> QED BY <1>1, <1>9, <1>10

-----------------------------------------------------------------------------
\* A request before it has a fetcher, with the manifest it has read, if any.
Blank(s) ==
  /\ \A g \in Fetchers : Untouched(s.fetchers[g])
  /\ s.loader.previous = NoFetcher /\ s.loader.confirmed = None
  /\ s.updates = NoUpdate /\ s.delegate = NothingTold

LEMMA BlankVacant ==
  ASSUME NEW s, Blank(s)
  PROVE  Vacant(s)
BY DEF Blank, Vacant, Untouched, NothingTold

LEMMA NotBegunBlank ==
  ASSUME NEW s, NotBegun(s)
  PROVE  Blank(s)
BY DEF NotBegun, Blank

LEMMA BlankUndisturbed ==
  ASSUME NEW s, Blank(s), Loadable(s)
  PROVE  Sound(s) /\ Starts(s)
<1>1. Sound(s)
  BY DEF Blank, Untouched, Idle, NothingTold, Sound, Downloads, Announces, UsesNet
<1>2. Starts(s)
  BY DEF Blank, Untouched, Idle, NothingTold, Starts, UsesNet
<1> QED BY <1>1, <1>2

\* The fetcher new is there, and has not asked for anything yet.
LEMMA BeganUndisturbed ==
  ASSUME NEW s \in DeviceType, NEW u \in DeviceType, NEW new \in Fetchers, NEW x,
         Blank(s), Loadable(s), Began(s, u, new, x), x.kind = "withTimeout", x.pending = Idle
  PROVE  Sound(u) /\ NetStarts(u, new) /\ u.delegate.announced = {} /\ u.loader.fetcher = new
<1>1. /\ u.disk = s.disk /\ u.loader.cached = s.loader.cached /\ u.delegate = NothingTold
      /\ u.loader.confirmed = None /\ u.loader.fetcher = new
      /\ u.fetchers[new] = x /\ \A g \in Fetchers \ {new} : u.fetchers[g] = s.fetchers[g]
  BY DEF Blank, Began, Kept, OthersKept
<1>2. \A g \in Fetchers : /\ u.fetchers[g].pending = Idle
                          /\ g # new => u.fetchers[g].kind = "none"
  BY <1>1 DEF Blank, Untouched
<1>3. Sound(u)
  BY <1>1, <1>2 DEF Sound, Loadable, Downloads, Waits, Announces, Idle, NothingTold
<1>4. NetStarts(u, new)
  BY <1>1, <1>2 DEF NetStarts, UsesNet, Idle, NothingTold
<1>5. NothingTold.announced = {}
  BY DEF NothingTold
<1> QED BY <1>1, <1>3, <1>4, <1>5

\* Then it asks for the manifest, with a resource of the loader.
LEMMA RequestedUndisturbed ==
  ASSUME NEW s \in DeviceType, NEW t, NEW f \in Fetchers, Sound(s), NetStarts(s, f),
         s.delegate.announced = {}, Held(s, f), Requested(s, t, f)
  PROVE  Sound(t) /\ Starts(t)
<1>1. /\ t \in DeviceType /\ LoaderButSlot(s, t) /\ t.delegate = s.delegate /\ t.disk = s.disk
      /\ t.fetchers[f].kind = s.fetchers[f].kind
      /\ t.fetchers[f].hasFinished = s.fetchers[f].hasFinished
      /\ t.fetchers[f].pending.op = "manifest" /\ t.fetchers[f].resource = "slot"
      /\ \A g \in Fetchers \ {f} : SameWork(s.fetchers[g], t.fetchers[g])
  BY DEF Requested, ManifestRequest, FetcherRelabelled, Relabelled, SameWork
<1>2. \A g \in Fetchers : t.fetchers[g].kind = s.fetchers[g].kind
  BY <1>1 DEF SameWork
<1>3. Waits(t, f)
  BY <1>1 DEF Waits, Held, LoaderButSlot
<1>4. \A g \in Fetchers : UsesNet(t, g) => g = f
  BY <1>2 DEF NetStarts, UsesNet
<1>5. \A g \in Fetchers : t.fetchers[g].pending.op = "bundle" => t.fetchers[g].kind # "none"
  BY <1>1, <1>2 DEF Sound, Downloads, SameWork
<1>6. Sound(t)
  BY <1>1, <1>3, <1>4, <1>5 DEF Sound, Loadable, LoaderButSlot, Downloads, Announces
<1>7. \A g \in Fetchers : t.fetchers[g].pending.op = "cached" => s.fetchers[g].pending.op = "cached"
  BY <1>1 DEF SameWork
<1>8. NetStarts(t, f)
  BY <1>1, <1>2, <1>4, <1>7 DEF NetStarts, LoaderButSlot, UsesNet
<1> QED BY <1>6, <1>8, NetStartsStarts

LEMMA NetRequestedUndisturbed ==
  ASSUME NEW s \in DeviceType, NEW t, NEW new, NEW zero, Blank(s), Loadable(s),
         NetRequested(s, t, new, zero), s.loader.cached \notin DevRevs,
         s.loader.cached = None => LocalManifest(s.disk) \in RefusedRevs \cup {None}
  PROVE  Sound(t) /\ Starts(t)
<1> DEFINE x == NewFetcher("withTimeout", None)
           y == [x EXCEPT !.timer = TRUE]
<1>1. /\ x.kind = "withTimeout" /\ x.bundle = None /\ x.resource = "none" /\ x.pending = Idle
      /\ ~x.hasFinished
      /\ y.kind = "withTimeout" /\ y.bundle = None /\ y.resource = "none" /\ y.pending = Idle
  BY DEF NewFetcher
<1>2. new \in Fetchers
  BY DEF NetRequested
<1>3. PICK v \in DeviceType : NetStarted(s, v, new, zero) /\ Requested(v, t, new)
  BY DEF NetRequested
<1>4. \/ Began(s, v, new, y)
      \/ \E u \in DeviceType, w \in DeviceType, err \in BOOLEAN :
           Began(s, u, new, x) /\ Ended(u, w, new, err) /\ EndedAs(u, w, v, new)
  BY <1>3 DEF NetStarted
<1> HIDE DEF x, y
<1>5. CASE Began(s, v, new, y)
  <2>1. Sound(v) /\ NetStarts(v, new) /\ v.delegate.announced = {} /\ v.loader.fetcher = new
    BY <1>1, <1>2, <1>5, BeganUndisturbed
  <2> QED BY <1>2, <1>3, <2>1, RequestedUndisturbed DEF Held
<1>6. ASSUME NEW u \in DeviceType, NEW w \in DeviceType, NEW err \in BOOLEAN,
             Began(s, u, new, x), Ended(u, w, new, err), EndedAs(u, w, v, new)
      PROVE  Sound(t) /\ Starts(t)
  <2>1. Sound(u) /\ NetStarts(u, new) /\ u.delegate.announced = {} /\ u.loader.fetcher = new
    BY <1>1, <1>2, <1>6, BeganUndisturbed
  <2>2. Launch(u) /\ UsesNet(u, new)
    BY <1>1, <1>2, <1>6, <2>1, BlankVacant, BeganLaunch DEF NetStarts
  <2>3. u.fetchers[new] = x /\ u.loader.cached = s.loader.cached
    BY <1>6 DEF Began, Kept
  <2>4. NetEnds(u, v, new, err)
    BY <1>6 DEF NetEnds
  <2>5. Steady(u, v)
    BY <1>1, <1>2, <2>2, <2>3, <2>4, NetEndsSteady
  <2>6. Sound(v) /\ v.delegate.announced = {}
    BY <2>1, <2>5, SteadySound DEF Steady
  <2>7. NetStarts(v, new)
    BY <1>2, <1>6, <2>1, <2>3, NetEndsStarts DEF Sound
  <2>8. Held(v, new)
    <3>1. w.loader.fetcher = new
      BY <1>6, <2>1 DEF Ended
    <3> QED BY <1>6, <3>1 DEF EndedAs, Finished, FellBack, Failed, Held
  <2> QED BY <1>2, <1>3, <2>6, <2>7, <2>8, RequestedUndisturbed
<1> QED BY <1>4, <1>5, <1>6

LEMMA DevRequestedUndisturbed ==
  ASSUME NEW s \in DeviceType, NEW t, Blank(s), Loadable(s), DevRequested(s, t),
         s.loader.cached \in DevRevs \cup {None}
  PROVE  Sound(t) /\ Starts(t)
<1>1. PICK new \in Fetchers : DevStarted(s, t, new, None)
  BY DEF DevRequested
<1>2. /\ t.disk = s.disk /\ t.loader.cached = s.loader.cached /\ t.loader.confirmed = None
      /\ t.delegate = NothingTold
      /\ \A g \in Fetchers \ {new} : Untouched(t.fetchers[g])
      /\ t.fetchers[new].kind = "dev" /\ t.fetchers[new].manifest = None
      /\ t.fetchers[new].pending.op = "manifest"
  BY <1>1 DEF Blank, DevStarted, Kept, OthersKept, ManifestRequest
<1>3. \A g \in Fetchers : ~UsesNet(t, g)
  BY <1>2 DEF Untouched, UsesNet
<1>4. Sound(t)
  BY <1>2, <1>3 DEF Sound, Loadable, Downloads, Announces, Untouched, Idle, NothingTold
<1>5. DevShape(t, new)
  BY <1>2 DEF DevShape, NothingTold
<1>6. Starts(t)
  BY <1>2, <1>3, <1>5 DEF Starts, Untouched, Idle, NothingTold
<1> QED BY <1>4, <1>6

LEMMA CacheRequestedUndisturbed ==
  ASSUME NEW s \in DeviceType, NEW t, NEW m, Blank(s), Loadable(s), CacheRequested(s, t, m),
         m # None, m \notin DevRevs, s.loader.cached = m
  PROVE  Sound(t) /\ Starts(t)
<1>1. PICK new \in Fetchers : CacheOnlyStarted(s, t, new, m)
  BY DEF CacheRequested
<1>2. HasBundle(s.disk, m)
  BY DEF Loadable, OnDevice
<1>3. /\ t.disk = s.disk /\ t.loader.cached = m /\ t.delegate.announced = {} /\ ~t.delegate.failed
      /\ \A g \in Fetchers \ {new} : Untouched(t.fetchers[g])
      /\ t.fetchers[new].kind = "cacheOnly" /\ t.fetchers[new].pending = Idle
  <2>1. s.delegate.announced = {} /\ ~s.delegate.failed
    BY DEF Blank, NothingTold
  <2>2. \A g \in Fetchers \ {new} : t.fetchers[g] = s.fetchers[g]
    BY <1>1 DEF CacheOnlyStarted, OthersKept
  <2> QED BY <1>1, <1>2, <2>1, <2>2 DEF Blank, CacheOnlyStarted, Kept
<1>4. \A g \in Fetchers : ~UsesNet(t, g) /\ t.fetchers[g].pending = Idle
  BY <1>3 DEF Untouched, UsesNet
<1>5. Sound(t)
  BY <1>3, <1>4 DEF Sound, Loadable, Downloads, Announces, Idle
<1>6. Starts(t)
  BY <1>3, <1>4 DEF Starts, Untouched, Idle
<1> QED BY <1>5, <1>6

-----------------------------------------------------------------------------
\* The answers.
LEMMA AnsweredUndisturbed ==
  ASSUME IInv, Sound(Device), Starts(Device), NEW f \in Fetchers, NEW a \in DeviceType, AnsweredTo(a, f)
  PROVE  Sound(a) /\ Starts(a)
<1> DEFINE x == [fetchers[f] EXCEPT !.pending = Idle, !.resource = "none"]
<1>1. Device \in DeviceType /\ fetchers[f] \in Fetcher /\ Device.fetchers = fetchers
  BY TypedDevice, DeviceFields DEF DeviceFieldsAre
<1>2. /\ x.kind = fetchers[f].kind /\ x.hasFinished = fetchers[f].hasFinished
      /\ x.manifest = fetchers[f].manifest /\ x.pending = Idle
  BY <1>1 DEF Fetcher
<1>3. Swapped(Device, a, f, x)
  BY DEF AnsweredTo
<1> HIDE DEF x
<1>4. Sound(a)
  BY <1>1, <1>2, <1>3, SwappedSteady, SteadySound DEF Idle
<1>5. SameStart(Device, a)
  BY <1>1, <1>2, <1>3 DEF Swapped, OthersKept, SameStart, UsesNet, Idle
<1>6. Starts(a)
  BY <1>5, SameStarts
<1> QED BY <1>4, <1>6

LEMMA NetEndsUndisturbed ==
  ASSUME NEW s \in DeviceType, NEW t, NEW f \in Fetchers, NEW err \in BOOLEAN,
         Launch(s), Sound(s), Starts(s), UsesNet(s, f), NetEnds(s, t, f, err),
         s.fetchers[f].hasFinished => err /\ s.fetchers[f].pending.op = "idle"
  PROVE  Sound(t) /\ Starts(t)
<1>1. Sound(t)
  BY NetEndsSteady, SteadySound
<1>2. PICK u \in DeviceType : Ended(s, u, f, err) /\ EndedAs(s, u, t, f)
  BY DEF NetEnds
<1>3. NetStarts(s, f) /\ s.loader.cached \notin DevRevs /\ Loadable(s)
  BY StartsNetStarts DEF Launch, NetShape, Sound
<1>4. Starts(t)
  BY <1>2, <1>3, NetEndsStarts, NetStartsStarts
<1> QED BY <1>1, <1>4

\* What fails with a cached manifest is in development mode.
LEMMA FailedUndisturbed ==
  ASSUME NEW s \in DeviceType, NEW t, NEW f \in Fetchers, Launch(s), Sound(s), Starts(s), Failed(s, t, f),
         s.fetchers[f].pending = Idle,
         \/ s.loader.cached = None
         \/ s.fetchers[f].kind = "dev" /\ s.fetchers[f].manifest \in DevRevs \cup {None}
  PROVE  Sound(t) /\ Starts(t)
<1>1. Sound(t)
  BY FailedSteady, SteadySound DEF Idle
<1>2. /\ t.loader.confirmed = s.loader.confirmed /\ t.loader.cached = s.loader.cached
      /\ \A g \in Fetchers : Alike(s.fetchers[g], t.fetchers[g])
  BY DEF Failed, Kept, OthersKept, Alike
<1>3. ASSUME NEW g \in Fetchers, t.fetchers[g].kind = "dev"
      PROVE  DevShape(t, g)
  <2>1. s.fetchers[g].kind = "dev" /\ DevShape(s, g)
    BY <1>2, <1>3 DEF Starts, Alike
  <2>2. CASE s.loader.cached = None
    BY <1>2, <2>1, <2>2 DEF DevShape, Alike
  <2>3. CASE s.fetchers[f].kind = "dev" /\ s.fetchers[f].manifest \in DevRevs \cup {None}
    <3>1. g = f
      BY <2>1, <2>3 DEF Launch
    <3> QED BY <1>2, <2>1, <2>3, <3>1 DEF DevShape, Alike, Idle
  <2> QED BY <2>2, <2>3
<1>4. Starts(t)
  BY <1>2, <1>3 DEF Starts, Alike, UsesNet
<1> QED BY <1>1, <1>4

LEMMA TimeOutUndisturbed ==
  ASSUME IInv, Launch(Device), Told(Device), UndisturbedInv, NEW f \in Fetchers, TimeOut(f)
  PROVE  UndisturbedInv'
<1>1. /\ Device \in DeviceType /\ DeviceFieldsAre(Device) /\ FetcherSafe(disk, fetchers[f])
  BY TypedDevice, DeviceFields
<1>2. /\ fetchers[f].timer /\ fetchers[f].kind = "withTimeout"
      /\ \E t \in DeviceType : NetEnds(Device, t, f, FALSE) /\ Freed(t, Device')
  BY TimeOutEffect
<1>3. PICK err \in BOOLEAN : err = FALSE
  OBVIOUS
<1>4. PICK t \in DeviceType : NetEnds(Device, t, f, err) /\ Freed(t, Device')
  BY <1>2, <1>3
<1>5. /\ UsesNet(Device, f) /\ Device.fetchers[f].bundle = None
      /\ ~Device.fetchers[f].hasFinished
  BY <1>1, <1>2 DEF FetcherSafe, UsesNet, DeviceFieldsAre
<1>6. Launch(t)
  BY <1>1, <1>4, <1>5, NetEndsLaunched
<1>7. Sound(t) /\ Starts(t)
  BY <1>1, <1>4, <1>5, NetEndsUndisturbed DEF UndisturbedInv
<1> QED BY <1>4, <1>6, <1>7, LaunchedFreed DEF UndisturbedInv

\* The data of the manifest that the fetcher f asked for waits at the loader.
LEMMA DataUndisturbed ==
  ASSUME IInv, Launch(Device), UndisturbedInv, NEW f \in Fetchers, fetchers[f].resource # "write",
         fetchers[f].kind = "dev" => fetchers[f].resource = "none",
         fetchers[f].kind \in {"withTimeout", "dev"},
         NEW a \in DeviceType, AnsweredTo(a, f), NEW m, NEW d \in DeviceType,
         DataArrived(a, d, fetchers[f].resource, m)
  PROVE  Sound(d) /\ Starts(d)
<1>1. Sound(a) /\ Starts(a)
  BY AnsweredUndisturbed DEF UndisturbedInv
<1>2. /\ Device \in DeviceType /\ DeviceFieldsAre(Device) /\ fetchers[f] \in Fetcher
  BY TypedDevice, DeviceFields
<1>3. /\ a.fetchers[f] = [fetchers[f] EXCEPT !.pending = Idle, !.resource = "none"]
      /\ \A g \in Fetchers \ {f} : a.fetchers[g] = fetchers[g]
  BY <1>2 DEF AnsweredTo, Swapped, OthersKept, DeviceFieldsAre
<1>4. a.fetchers[f].pending = Idle /\ a.fetchers[f].kind = fetchers[f].kind
  BY <1>2, <1>3 DEF Fetcher
<1>5. \A g \in Fetchers : UsesNet(a, g) => a.fetchers[g].pending.op = "idle"
  <2>1. ASSUME NEW g \in Fetchers, UsesNet(a, g), g # f
        PROVE  FALSE
    <3>1. UsesNet(Device, g)
      BY <1>2, <1>3, <2>1 DEF UsesNet, DeviceFieldsAre
    <3>2. fetchers[f].kind \notin {"withTimeout", "dev"}
      BY <1>2, <2>1, <3>1 DEF Launch, UsesNet, DeviceFieldsAre
    <3> QED BY <3>2
  <2> QED BY <1>4, <2>1 DEF Idle
<1>6. Sound(d)
  BY <1>1, <1>5, DataArrivedSteady, SteadySound
<1>7. SameStart(a, d)
  BY DEF DataArrived, LoaderButSlot, SameStart, UsesNet
<1>8. Starts(d)
  BY <1>1, <1>7, SameStarts
<1> QED BY <1>6, <1>8

\* The fields of a fetcher whose request has ended.
LEMMA AnsweredFields ==
  ASSUME IInv, NEW f \in Fetchers, NEW a \in DeviceType, AnsweredTo(a, f)
  PROVE  /\ a.disk = disk /\ a.loader = loader /\ a.delegate = delegate
         /\ a.fetchers[f].kind = fetchers[f].kind /\ a.fetchers[f].manifest = fetchers[f].manifest
         /\ a.fetchers[f].bundle = fetchers[f].bundle /\ a.fetchers[f].pending = Idle
         /\ a.fetchers[f].timer = fetchers[f].timer
         /\ a.fetchers[f].hasFinished = fetchers[f].hasFinished
         /\ \A g \in Fetchers \ {f} : a.fetchers[g] = fetchers[g]
<1>1. /\ DeviceFieldsAre(Device) /\ fetchers[f] \in Fetcher
  BY TypedDevice, DeviceFields
<1>2. /\ a.fetchers[f] = [fetchers[f] EXCEPT !.pending = Idle, !.resource = "none"]
      /\ \A g \in Fetchers \ {f} : a.fetchers[g] = fetchers[g]
      /\ a.disk = disk /\ a.loader = loader /\ a.delegate = delegate
  BY <1>1 DEF AnsweredTo, Swapped, OthersKept, DeviceFieldsAre
<1> QED BY <1>1, <1>2 DEF Fetcher

LEMMA ManifestFailsUndisturbed ==
  ASSUME IInv, Launch(Device), Told(Device), UndisturbedInv, NEW f \in Fetchers,
         fetchers[f].resource # "write", fetchers[f].kind = "dev" => fetchers[f].resource = "none",
         ManifestFails(f)
  PROVE  UndisturbedInv'
<1>1. DeviceFieldsAre(Device) /\ FetcherSafe(disk, fetchers[f])
  BY TypedDevice, DeviceFields
<1>2. /\ fetchers[f].pending.op = "manifest"
      /\ \E a, d, t \in DeviceType :
           /\ AnsweredTo(a, f)
           /\ \/ d = a
              \/ \E m \in Answers(fetchers[f].pending) \cap RefusedRevs :
                   DataArrived(a, d, fetchers[f].resource, m)
           /\ RequestFailed(d, t, f) /\ Freed(t, Device')
  BY ManifestFailsEffect
<1>3. PICK a \in DeviceType, d \in DeviceType, t \in DeviceType :
        /\ AnsweredTo(a, f)
        /\ \/ d = a
           \/ \E m : DataArrived(a, d, fetchers[f].resource, m)
        /\ RequestFailed(d, t, f) /\ Freed(t, Device')
  BY <1>2
<1>4. fetchers[f].kind \in {"withTimeout", "dev"}
  BY <1>3 DEF RequestFailed
<1>5. Launch(a) /\ Told(a) /\ Sound(a) /\ Starts(a)
  BY <1>3, AnsweredLaunched, AnsweredUndisturbed DEF UndisturbedInv
<1>6. Launch(d) /\ Told(d) /\ Sound(d) /\ Starts(d) /\ d.fetchers = a.fetchers
  <2>1. CASE d = a
    BY <1>5, <2>1
  <2>2. CASE d # a
    <3>1. PICK m : DataArrived(a, d, fetchers[f].resource, m)
      BY <1>3, <2>2
    <3>2. Launch(d) /\ Told(d) /\ d.fetchers = a.fetchers
      BY <1>2, <1>3, <1>4, <3>1, DataLaunched
    <3>3. Sound(d) /\ Starts(d)
      BY <1>3, <1>4, <3>1, DataUndisturbed
    <3> QED BY <3>2, <3>3
  <2> QED BY <2>1, <2>2
<1>7. /\ d.fetchers[f].kind = fetchers[f].kind /\ d.fetchers[f].bundle = None
      /\ d.fetchers[f].pending = Idle /\ d.fetchers[f].manifest = fetchers[f].manifest
  BY <1>1, <1>2, <1>3, <1>6, AnsweredFields DEF FetcherSafe
<1>8. Launch(t)
  BY <1>3, <1>6, <1>7, RequestFailedLaunched
<1>9. Sound(t) /\ Starts(t)
  <2>1. CASE fetchers[f].kind = "withTimeout" /\ NetEnds(d, t, f, TRUE)
    <3>1. PICK err \in BOOLEAN : err = TRUE
      OBVIOUS
    <3>2. UsesNet(d, f) /\ NetEnds(d, t, f, err)
      BY <1>7, <2>1, <3>1 DEF UsesNet
    <3>3. d.fetchers[f].hasFinished => err /\ d.fetchers[f].pending.op = "idle"
      BY <1>7, <3>1 DEF Idle
    <3> QED BY <1>6, <3>2, <3>3, NetEndsUndisturbed
  <2>2. CASE fetchers[f].kind = "dev" /\ Failed(d, t, f)
    <3>1. DevShape(Device, f)
      BY <1>1, <2>2 DEF UndisturbedInv, Starts, DeviceFieldsAre
    <3>2. fetchers[f].manifest = None
      BY <1>1, <1>2, <3>1 DEF DevShape, DeviceFieldsAre
    <3> QED BY <1>6, <1>7, <2>2, <3>2, FailedUndisturbed
  <2> QED BY <1>3, <2>1, <2>2 DEF RequestFailed
<1> QED BY <1>3, <1>8, <1>9, LaunchedFreed DEF UndisturbedInv

\* While it waits for a manifest the fetcher of the cache has nothing that could be verified.
LEMMA CacheOnlyManifestUndisturbed ==
  ASSUME IInv, Launch(Device), Told(Device), UndisturbedInv, NEW f \in Fetchers,
         CacheOnlyManifestVerified(f) \/ CacheOnlyManifestRejected(f)
  PROVE  UndisturbedInv'
<1>1. ~CacheOnlyManifestVerified(f)
  <2>1. SUFFICES ASSUME CacheOnlyManifestVerified(f) PROVE FALSE
    OBVIOUS
  <2>2. fetchers[f].pending.op = "cached" /\ fetchers[f].pending.rev \in Revs \ RefusedRevs
    BY <2>1, CacheOnlyManifestVerifiedEffect
  <2> QED BY <2>2, CachedReadRefused
<1>2. /\ fetchers[f].pending.op = "cached"
      /\ \E a, t \in DeviceType : AnsweredTo(a, f) /\ Failed(a, t, f) /\ Freed(t, Device')
  BY <1>1, CacheOnlyManifestRejectedEffect
<1>3. PICK a \in DeviceType, t \in DeviceType : AnsweredTo(a, f) /\ Failed(a, t, f) /\ Freed(t, Device')
  BY <1>2
<1>4. Launch(a) /\ Told(a) /\ Sound(a) /\ Starts(a)
  BY <1>3, AnsweredLaunched, AnsweredUndisturbed DEF UndisturbedInv
<1>5. loader.cached = None
  BY <1>2, DeviceFields DEF UndisturbedInv, Starts, DeviceFieldsAre
<1>6. a.loader.cached = None /\ a.fetchers[f].pending = Idle
  BY <1>3, <1>5, AnsweredFields
<1>7. Launch(t)
  BY <1>3, <1>4, FailedLaunched
<1>8. Sound(t) /\ Starts(t)
  BY <1>3, <1>4, <1>6, FailedUndisturbed
<1> QED BY <1>3, <1>7, <1>8, LaunchedFreed DEF UndisturbedInv

LEMMA BundleFailsUndisturbed ==
  ASSUME IInv, Launch(Device), Told(Device), UndisturbedInv, NEW f \in Fetchers, BundleFails(f)
  PROVE  UndisturbedInv'
<1>1. DeviceFieldsAre(Device) /\ fetchers[f] \in Fetcher
  BY TypedDevice, DeviceFields
<1>2. /\ fetchers[f].pending.op = "bundle"
      /\ \E a, t \in DeviceType : AnsweredTo(a, f) /\ BundleFailed(a, t, f) /\ Freed(t, Device')
  BY BundleFailsEffect
<1>3. PICK a \in DeviceType, t \in DeviceType :
        AnsweredTo(a, f) /\ BundleFailed(a, t, f) /\ Freed(t, Device')
  BY <1>2
<1>4. Launch(a) /\ Told(a) /\ Sound(a) /\ Starts(a)
  BY <1>3, AnsweredLaunched, AnsweredUndisturbed DEF UndisturbedInv
<1>5. /\ a.fetchers[f].kind = fetchers[f].kind /\ a.fetchers[f].pending = Idle
      /\ a.fetchers[f].manifest = fetchers[f].manifest /\ a.fetchers[f].bundle = fetchers[f].bundle
  BY <1>3, AnsweredFields
<1>6. fetchers[f].kind \notin {"none", "cacheOnly"}
  <2>1. fetchers[f].kind # "none"
    BY <1>1, <1>2 DEF UndisturbedInv, Sound, Downloads, DeviceFieldsAre
  <2>2. ~(fetchers[f].kind = "cacheOnly" /\ ~CacheShape(Device, f))
    BY <1>1 DEF Launch, DeviceFieldsAre
  <2> QED BY <1>1, <1>2, <2>1, <2>2 DEF CacheShape, DeviceFieldsAre
<1>7. Launch(t) /\ Sound(t) /\ Starts(t)
  <2>1. CASE fetchers[f].kind = "dev" /\ Failed(a, t, f)
    <3>1. DevShape(Device, f)
      BY <1>1, <2>1 DEF UndisturbedInv, Starts, DeviceFieldsAre
    <3>2. fetchers[f].manifest \in DevRevs
      BY <1>1, <1>2, <3>1 DEF DevShape, DeviceFieldsAre
    <3>3. Sound(t) /\ Starts(t)
      BY <1>4, <1>5, <2>1, <3>2, FailedUndisturbed
    <3> QED BY <1>4, <2>1, <3>3, FailedLaunched
  <2>2. CASE fetchers[f].kind = "withTimeout" /\ NetEnds(a, t, f, TRUE)
    <3>1. PICK err \in BOOLEAN : err = TRUE
      OBVIOUS
    <3>2. UsesNet(Device, f) /\ UsesNet(a, f) /\ NetEnds(a, t, f, err)
      BY <1>1, <1>5, <2>2, <3>1 DEF UsesNet, DeviceFieldsAre
    <3>3. fetchers[f].bundle = None
      BY <1>1, <1>2, <3>2 DEF Launch, NetShape, DeviceFieldsAre
    <3>4. a.fetchers[f].hasFinished => err /\ a.fetchers[f].pending.op = "idle"
      BY <1>5, <3>1 DEF Idle
    <3>5. Sound(t) /\ Starts(t)
      BY <1>4, <3>2, <3>4, NetEndsUndisturbed
    <3> QED BY <1>4, <1>5, <3>2, <3>3, <3>5, NetEndsLaunched
  <2> QED BY <1>3, <1>6, <2>1, <2>2 DEF BundleFailed
<1> QED BY <1>3, <1>7, LaunchedFreed DEF UndisturbedInv

LEMMA ManifestArrivesUndisturbed ==
  ASSUME IInv, Launch(Device), Told(Device), UndisturbedInv, NEW f \in Fetchers,
         fetchers[f].resource # "write", fetchers[f].kind = "dev" => fetchers[f].resource = "none",
         ManifestArrives(f)
  PROVE  UndisturbedInv'
<1>1. /\ DeviceFieldsAre(Device) /\ fetchers[f] \in Fetcher /\ FetcherSafe(disk, fetchers[f])
  BY TypedDevice, DeviceFields
<1>2. /\ fetchers[f].pending.op = "manifest"
      /\ \E m \in Answers(fetchers[f].pending) \ RefusedRevs, t \in DeviceType :
           m \in Revs /\ ManifestCame(t, f, m) /\ Freed(t, Device')
  BY ManifestArrivesEffect
<1>3. PICK m \in Revs, t \in DeviceType : ManifestCame(t, f, m) /\ Freed(t, Device')
  BY <1>2
<1>4. PICK a \in DeviceType :
        /\ AnsweredTo(a, f)
        /\ \/ /\ fetchers[f].kind = "withTimeout"
              /\ \E d \in DeviceType : DataArrived(a, d, fetchers[f].resource, m) /\ ManifestTaken(d, t, f, m)
           \/ /\ fetchers[f].kind = "dev"
              /\ Swapped(a, t, f, [a.fetchers[f] EXCEPT !.manifest = m])
  BY <1>3 DEF ManifestCame
<1>5. Launch(a) /\ Told(a) /\ Sound(a) /\ Starts(a)
  BY <1>4, AnsweredLaunched, AnsweredUndisturbed DEF UndisturbedInv
<1>6. /\ a.fetchers[f].kind = fetchers[f].kind /\ a.fetchers[f].bundle = None
      /\ a.fetchers[f].manifest = fetchers[f].manifest
      /\ a.fetchers[f].pending = Idle /\ a.loader = loader /\ a.delegate = delegate
      /\ a.fetchers[f].timer => ~a.fetchers[f].hasFinished
  BY <1>1, <1>2, <1>4, AnsweredFields DEF FetcherSafe
<1>7. CASE /\ fetchers[f].kind = "withTimeout"
           /\ \E d \in DeviceType : DataArrived(a, d, fetchers[f].resource, m) /\ ManifestTaken(d, t, f, m)
  <2>1. PICK d \in DeviceType : DataArrived(a, d, fetchers[f].resource, m) /\ ManifestTaken(d, t, f, m)
    BY <1>7
  <2>2. /\ Launch(d) /\ Told(d) /\ d.fetchers = a.fetchers /\ d.delegate = delegate
        /\ d.loader.fetcher = loader.fetcher /\ d.loader.previous = loader.previous
    BY <1>2, <1>4, <1>7, <2>1, DataLaunched
  <2>3. Sound(d) /\ Starts(d)
    BY <1>4, <1>7, <2>1, DataUndisturbed
  <2>4. \A g \in Fetchers : d.fetchers[g].bundle # None => d.fetchers[g].bundle = d.fetchers[g].manifest
    BY <1>4, <2>2, OwnBundles
  <2>5. NetStarts(d, f)
    BY <1>6, <1>7, <2>2, <2>3, StartsNetStarts DEF UsesNet
  <2>6. /\ d.fetchers[f].bundle = None /\ d.fetchers[f].pending = Idle
        /\ d.fetchers[f].timer => ~d.fetchers[f].hasFinished
    BY <1>6, <2>2
  <2>7. UsesNet(Device, f)
    BY <1>1, <1>7 DEF UsesNet, DeviceFieldsAre
  <2>8. Waits(Device, f) /\ Announces(Device)
    BY <2>7 DEF UndisturbedInv, Sound, Downloads
  <2>9. fetchers[f].resource = "slot" /\ Held(Device, f)
    BY <1>1, <1>2, <2>8 DEF Waits, DeviceFieldsAre
  <2>10. Held(d, f) /\ d.loader.slot = "loaded" /\ d.loader.slotData = m
    BY <1>1, <2>1, <2>2, <2>9 DEF Held, DataArrived, DeviceFieldsAre
  <2>11. d.delegate.announced = {}
    BY <1>1, <1>2, <2>2, <2>7, <2>8 DEF Announces, DeviceFieldsAre
  <2>12. Sound(Device') /\ Starts(Device')
    BY <1>3, <2>1, <2>2, <2>3, <2>4, <2>5, <2>6, <2>10, <2>11, ManifestTakenUndisturbed
  <2> QED BY <2>12 DEF UndisturbedInv
<1>8. CASE fetchers[f].kind = "dev" /\ Swapped(a, t, f, [a.fetchers[f] EXCEPT !.manifest = m])
  <2> DEFINE x == [a.fetchers[f] EXCEPT !.manifest = m]
  <2>1. /\ x.kind = a.fetchers[f].kind /\ x.hasFinished = a.fetchers[f].hasFinished
        /\ x.bundle = a.fetchers[f].bundle /\ x.resource = a.fetchers[f].resource
        /\ x.manifest = m /\ x.pending = a.fetchers[f].pending
    BY DEF DeviceType, Fetcher
  <2>2. Swapped(a, t, f, x)
    BY <1>8
  <2> HIDE DEF x
  <2>3. Launch(t)
    BY <1>5, <1>6, <1>8, <2>1, <2>2, SwappedLaunched
  <2>4. Sound(t)
    BY <1>5, <1>6, <1>8, <2>1, <2>2, SwappedSteady, SteadySound DEF Idle
  <2>5. DevShape(Device, f)
    BY <1>1, <1>8 DEF UndisturbedInv, Starts, DeviceFieldsAre
  <2>6. /\ fetchers[f].manifest = None /\ loader.confirmed = None
        /\ ~(delegate.failed /\ loader.cached # None)
    BY <1>1, <1>2, <2>5 DEF DevShape, DeviceFieldsAre
  <2>7. /\ t.loader = loader /\ t.delegate = delegate /\ t.fetchers[f] = x
        /\ \A g \in Fetchers \ {f} : t.fetchers[g] = a.fetchers[g]
    BY <1>6, <2>2 DEF Swapped, OthersKept
  <2>8. DevShape(t, f)
    BY <1>6, <2>1, <2>6, <2>7 DEF DevShape, Idle, Revs, None
  <2>9. \A g \in Fetchers \ {f} : t.fetchers[g].kind # "dev"
    BY <1>5, <1>6, <1>8, <2>7 DEF Launch
  <2>10. Starts(t)
    BY <1>5, <1>6, <1>8, <2>1, <2>6, <2>7, <2>8, <2>9 DEF Starts, UsesNet, Idle
  <2> QED BY <1>3, <2>3, <2>4, <2>10, LaunchedFreed DEF UndisturbedInv
<1> QED BY <1>4, <1>7, <1>8

LEMMA BundleArrivesUndisturbed ==
  ASSUME IInv, Launch(Device), Told(Device), UndisturbedInv, NEW f \in Fetchers, BundleArrives(f)
  PROVE  UndisturbedInv'
<1>1. /\ DeviceFieldsAre(Device) /\ fetchers[f] \in Fetcher /\ FetcherSafe(disk, fetchers[f])
  BY TypedDevice, DeviceFields
<1>2. /\ fetchers[f].pending.op = "bundle" /\ fetchers[f].pending.rev \in Revs
      /\ \E a, s, t \in DeviceType :
           /\ AnsweredTo(a, f) /\ Stored(a, s, fetchers[f].pending.rev)
           /\ BundleCame(s, t, f) /\ Freed(t, Device')
  BY BundleArrivesEffect
<1>3. PICK a \in DeviceType, s \in DeviceType, t \in DeviceType :
        /\ AnsweredTo(a, f) /\ Stored(a, s, fetchers[f].pending.rev)
        /\ BundleCame(s, t, f) /\ Freed(t, Device')
  BY <1>2
<1>4. Launch(a) /\ Told(a) /\ Sound(a) /\ Starts(a)
  BY <1>3, AnsweredLaunched, AnsweredUndisturbed DEF UndisturbedInv
<1>5. /\ s.fetchers = a.fetchers /\ s.loader = a.loader /\ s.delegate = a.delegate
      /\ a.loader = loader /\ a.delegate = delegate
  BY <1>3, AnsweredFields DEF Stored
<1>6. Launch(s)
  BY <1>3, <1>4, StoredLaunch
<1>7. Sound(s)
  BY <1>3, <1>4, StoredSteady, SteadySound
<1>8. Starts(s)
  <2>1. SameStart(a, s)
    BY <1>5 DEF SameStart, UsesNet
  <2> QED BY <1>4, <2>1, SameStarts
<1>9. /\ s.fetchers[f].kind = fetchers[f].kind /\ s.fetchers[f].manifest = fetchers[f].manifest
      /\ s.fetchers[f].pending = Idle
  BY <1>3, <1>5, AnsweredFields
<1>10. Launch(t) /\ Sound(t) /\ Starts(t)
  <2>1. CASE fetchers[f].kind = "none" /\ t = s
    BY <1>6, <1>7, <1>8, <2>1
  <2>2. CASE fetchers[f].kind = "withTimeout" /\ BundleTaken(s, t, f)
    <3>1. fetchers[f].manifest \in Revs /\ fetchers[f].pending.rev = fetchers[f].manifest
      BY <1>1, <1>2, <2>2 DEF FetcherSafe
    <3>2. UsesNet(s, f) /\ UsesNet(Device, f) /\ s.fetchers[f].manifest # None
      BY <1>1, <1>9, <2>2, <3>1 DEF UsesNet, Revs, None, DeviceFieldsAre
    <3>3. OnDevice(s.disk, s.fetchers[f].manifest)
      BY <1>3, <1>9, <3>1 DEF Stored, OnDevice, HasBundle
    <3>4. Waits(Device, f) /\ Announces(Device)
      BY <3>2 DEF UndisturbedInv, Sound, Downloads
    <3>5. Fits(s, f)
      BY <1>1, <1>2, <1>5, <1>9, <3>4 DEF Waits, Fits, DeviceFieldsAre
    <3>6. s.delegate.announced = {}
      BY <1>1, <1>2, <1>5, <3>2, <3>4 DEF Announces, DeviceFieldsAre
    <3>7. Launch(t)
      BY <1>6, <1>9, <2>2, <3>2, BundleTakenLaunch
    <3>8. Sound(t)
      BY <1>6, <1>7, <1>9, <2>2, <3>2, <3>3, <3>5, <3>6, BundleTakenSound
    <3>9. NetStarts(s, f) /\ s.loader.cached \notin DevRevs /\ Loadable(s)
      BY <1>6, <1>7, <1>8, <3>2, StartsNetStarts DEF Launch, NetShape, Sound
    <3>10. NetStarts(t, f)
      BY <1>9, <2>2, <3>9, BundleTakenStarts
    <3> QED BY <3>7, <3>8, <3>10, NetStartsStarts
  <2>3. ASSUME fetchers[f].kind \in {"cacheOnly", "dev"}, NEW b \in DeviceType,
               Swapped(s, b, f, [s.fetchers[f] EXCEPT !.bundle = fetchers[f].manifest]),
               Finished(b, t, f)
        PROVE  Launch(t) /\ Sound(t) /\ Starts(t)
    <3> DEFINE x == [s.fetchers[f] EXCEPT !.bundle = fetchers[f].manifest]
    <3>1. fetchers[f].kind # "cacheOnly"
      <4>1. SUFFICES ASSUME fetchers[f].kind = "cacheOnly" PROVE FALSE
        OBVIOUS
      <4>2. CacheShape(Device, f)
        BY <1>1, <4>1 DEF Launch, DeviceFieldsAre
      <4> QED BY <1>1, <1>2, <4>2 DEF CacheShape, DeviceFieldsAre
    <3>2. s.fetchers[f].kind = "dev"
      BY <1>9, <2>3, <3>1
    <3>3. /\ x.kind = s.fetchers[f].kind /\ x.hasFinished = s.fetchers[f].hasFinished
          /\ x.manifest = s.fetchers[f].manifest /\ x.pending = Idle
      BY <1>9 DEF DeviceType, Fetcher
    <3>4. Swapped(s, b, f, x)
      BY <2>3
    <3> HIDE DEF x
    <3>5. ~UsesNet(s, f) /\ s.loader.fetcher = f
      BY <1>6, <3>2 DEF Launch, UsesNet
    <3>6. Launch(b)
      BY <1>6, <3>2, <3>3, <3>4, <3>5, SwappedLaunch
    <3>7. /\ b.fetchers[f] = x /\ b.loader = s.loader /\ b.delegate = s.delegate
          /\ \A g \in Fetchers \ {f} : b.fetchers[g] = s.fetchers[g]
      BY <3>4 DEF Swapped, OthersKept
    <3>8. Launch(t)
      BY <2>3, <3>2, <3>3, <3>6, <3>7, FinishedLaunch
    <3>9. Sound(t)
      <4>1. Sound(b)
        BY <1>7, <3>3, <3>4, SwappedSteady, SteadySound DEF Idle
      <4> QED BY <2>3, <4>1, FinishedSteady, SteadySound
    <3>10. /\ t.loader.confirmed = s.fetchers[f].manifest /\ t.loader.cached = s.loader.cached
           /\ t.delegate.failed = s.delegate.failed
           /\ t.fetchers[f] = x /\ \A g \in Fetchers \ {f} : t.fetchers[g] = s.fetchers[g]
      BY <2>3, <3>3, <3>7 DEF Finished, Kept
    <3>11. \A g \in Fetchers : /\ ~UsesNet(s, g)
                               /\ s.fetchers[g].kind = "dev" => g = f
      BY <1>6, <3>2, <3>5 DEF Launch
    <3>12. DevShape(s, f)
      BY <1>8, <3>2 DEF Starts
    <3>13. DevShape(t, f)
      BY <1>9, <3>3, <3>10, <3>12 DEF DevShape, Idle
    <3>14. Starts(t)
      BY <1>8, <3>2, <3>3, <3>10, <3>11, <3>13 DEF Starts, UsesNet, Idle
    <3> QED BY <3>8, <3>9, <3>14
  <2> QED BY <1>3, <2>1, <2>2, <2>3 DEF BundleCame
<1> QED BY <1>3, <1>10, LaunchedFreed DEF UndisturbedInv

LEMMA ForceBundleReloadUndisturbed ==
  ASSUME IInv, Launch(Device), Told(Device), UndisturbedInv, ForceBundleReload
  PROVE  UndisturbedInv'
<1> DEFINE f == loader.fetcher
           x == [fetchers[f] EXCEPT !.bundle = None,
                   !.pending = [op |-> "bundle", rev |-> fetchers[f].manifest]]
<1>1. f \in Fetchers /\ fetchers[f].kind = "dev" /\ fetchers[f].manifest \in DevRevs
  BY ForceBundleReloadEffect
<1>2. PICK t \in DeviceType : Swapped(Device, t, f, x) /\ Freed(t, Device')
  BY ForceBundleReloadEffect
<1>3. Device \in DeviceType /\ DeviceFieldsAre(Device) /\ fetchers[f] \in Fetcher
  BY <1>1, TypedDevice, DeviceFields
<1>4. /\ x.kind = fetchers[f].kind /\ x.hasFinished = fetchers[f].hasFinished
      /\ x.bundle = None /\ x.resource = fetchers[f].resource
      /\ x.manifest = fetchers[f].manifest /\ x.pending.op = "bundle"
  BY <1>3 DEF Fetcher
<1> HIDE DEF x
<1>5. ~UsesNet(Device, f) /\ Device.fetchers[f].kind = "dev"
  BY <1>1, <1>3 DEF UsesNet, DeviceFieldsAre
<1>6. Launch(t)
  BY <1>1, <1>2, <1>3, <1>4, <1>5, SwappedLaunched DEF DeviceFieldsAre
<1>7. Sound(t)
  BY <1>1, <1>2, <1>3, <1>4, <1>5, SwappedSteady, SteadySound DEF UndisturbedInv, DeviceFieldsAre
<1>8. /\ t.loader = Device.loader /\ t.delegate = Device.delegate /\ t.fetchers[f] = x
      /\ \A g \in Fetchers \ {f} : t.fetchers[g] = Device.fetchers[g]
  BY <1>2 DEF Swapped, OthersKept
<1>9. f # NoFetcher /\ fetchers[f].manifest # None /\ x.kind = "dev"
  BY <1>1, <1>4, FetchersAssumption, PoliciesAssumption DEF Revs, None
<1> HIDE DEF f
<1>10. DevShape(Device, f)
  BY <1>1, <1>5 DEF UndisturbedInv, Starts
<1>11. DevShape(t, f)
  BY <1>1, <1>3, <1>4, <1>8, <1>9, <1>10 DEF DevShape, DeviceFieldsAre
<1>12. \A g \in Fetchers \ {f} : t.fetchers[g].kind # "dev" /\ ~UsesNet(t, g)
  BY <1>1, <1>5, <1>8 DEF Launch, UsesNet
<1>13. Starts(t)
  BY <1>1, <1>4, <1>8, <1>9, <1>11, <1>12 DEF UndisturbedInv, Starts, UsesNet
<1> QED BY <1>2, <1>6, <1>7, <1>13, LaunchedFreed DEF UndisturbedInv

-----------------------------------------------------------------------------
\* What a process reads in the cache can be run.
LEMMA LocalLoadable ==
  ASSUME NEW s \in DeviceType, Loadable(s), LocalManifest(s.disk) # None
  PROVE  OnDevice(s.disk, LocalManifest(s.disk))
BY DEF Loadable, LocalManifest, OnDevice, HasBundle

LEMMA RelaunchUndisturbed ==
  ASSUME IInv, UndisturbedInv, Relaunch
  PROVE  UndisturbedInv'
<1>1. /\ disk'.manifest = disk.manifest /\ disk.bundles \subseteq disk'.bundles
      /\ loader' = NewLoader /\ fetchers' = [f \in Fetchers |-> NoObject]
      /\ updates' = NoUpdate /\ delegate' = NothingTold
  BY RelaunchEffect
<1>2. /\ Device'.disk = disk' /\ Device'.loader = NewLoader /\ Device'.updates = NoUpdate
      /\ Device'.delegate = NothingTold /\ Device'.fetchers = [f \in Fetchers |-> NoObject]
  BY <1>1 DEF Device
<1>3. Loadable(Device')
  BY <1>1, <1>2, DeviceFields
     DEF UndisturbedInv, Sound, Loadable, OnDevice, HasBundle, NewLoader, DeviceFieldsAre
<1>4. Blank(Device')
  BY <1>2 DEF Blank, Untouched, NoObject, NewFetcher, NewLoader
<1> QED BY <1>3, <1>4, BlankUndisturbed DEF UndisturbedInv

\* The only request of a process.
LEMMA RequestUndisturbed ==
  ASSUME IInv, Begin, UndisturbedInv, NEW cacheOnly \in BOOLEAN, Request(cacheOnly), spent'.requests <= 1
  PROVE  UndisturbedInv'
<1>1. spent.requests \in Nat /\ spent'.requests = spent.requests + 1
  BY RequestEffect
<1>2. NotBegun(Device)
  BY <1>1 DEF Begin, Waiting
<1>3. Device \in DeviceType /\ Device.disk = disk
  BY TypedDevice, DeviceFields DEF DeviceFieldsAre
<1>4. PICK s \in DeviceType :
        /\ WasReset(Device, s, cacheOnly)
        /\ \/ Freed(s, Device')
           \/ \E t \in DeviceType : DevRequested(s, t) /\ Freed(t, Device')
           \/ /\ LocalManifest(disk) = None
              /\ \E t \in DeviceType, new \in Fetchers : NetRequested(s, t, new, FALSE) /\ Freed(t, Device')
  BY RequestEffect
<1>5. NotBegun(s) /\ s.disk = disk
  BY <1>2, <1>3, <1>4, ResetNotBegun DEF WasReset
<1>6. Blank(s) /\ Vacant(s) /\ s.loader.cached = None
  BY <1>5, NotBegunBlank, NotBegunVacant
<1>7. Loadable(s)
  BY <1>3, <1>5, <1>6 DEF UndisturbedInv, Sound, Loadable
<1>8. CASE Freed(s, Device')
  <2>1. Launch(s) /\ Sound(s) /\ Starts(s)
    BY <1>5, <1>6, <1>7, NotBegunLaunched, BlankUndisturbed
  <2> QED BY <1>8, <2>1, LaunchedFreed DEF UndisturbedInv
<1>9. ASSUME NEW t \in DeviceType, DevRequested(s, t), Freed(t, Device')
      PROVE  UndisturbedInv'
  <2>1. Launch(t)
    BY <1>6, <1>9, DevRequestedLaunch
  <2>2. Sound(t) /\ Starts(t)
    BY <1>6, <1>7, <1>9, DevRequestedUndisturbed
  <2> QED BY <1>9, <2>1, <2>2, LaunchedFreed DEF UndisturbedInv
<1>10. ASSUME LocalManifest(disk) = None, NEW t \in DeviceType, NEW new \in Fetchers,
              NetRequested(s, t, new, FALSE), Freed(t, Device')
       PROVE  UndisturbedInv'
  <2>1. PICK zero \in BOOLEAN : zero = FALSE
    OBVIOUS
  <2>2. NetRequested(s, t, new, zero)
    BY <1>10, <2>1
  <2>3. s.loader.cached \notin DevRevs
    BY <1>6, PoliciesAssumption DEF None, Revs
  <2>4. LocalManifest(s.disk) \in RefusedRevs \cup {None}
    BY <1>5, <1>10
  <2>5. Launch(t)
    BY <1>6, <2>2, <2>3, <2>4, NetRequestedLaunch
  <2>6. Sound(t) /\ Starts(t)
    BY <1>6, <1>7, <2>2, <2>3, <2>4, NetRequestedUndisturbed
  <2> QED BY <1>10, <2>5, <2>6, LaunchedFreed DEF UndisturbedInv
<1> QED BY <1>4, <1>8, <1>9, <1>10

LEMMA ReadUndisturbed ==
  ASSUME IInv, Begin, UndisturbedInv, spent.requests <= 1, NEW c \in cachedReads,
         CachedManifestVerified(c) \/ CachedManifestRejected(c)
  PROVE  UndisturbedInv'
<1>1. /\ Device \in DeviceType /\ Device.disk = disk /\ spent.requests \in Nat
  BY TypedDevice, DeviceFields DEF DeviceFieldsAre
<1>2. spent.requests = 1
  BY <1>1 DEF Begin
<1>3. NotBegun(Device) /\ c.rev = LocalManifest(disk)
  BY <1>2 DEF Begin, Waiting
<1>4. Blank(Device) /\ Vacant(Device) /\ Device.loader.cached = None /\ Loadable(Device)
  BY <1>3, NotBegunBlank, NotBegunVacant DEF UndisturbedInv, Sound
<1>5. CASE CachedManifestVerified(c)
  <2>1. c.rev \in Revs \ RefusedRevs
    BY <1>5, CachedManifestVerifiedEffect
  <2>2. PICK s \in DeviceType, t \in DeviceType :
          /\ CacheRead(Device, s, c.rev) /\ Freed(t, Device')
          /\ \/ c.rev \in DevRevs /\ DevRequested(s, t)
             \/ /\ c.rev \notin DevRevs
                /\ \E new, zero : NetRequested(s, t, new, zero)
             \/ c.rev \notin DevRevs /\ CacheRequested(s, t, c.rev)
    BY <1>5, CachedManifestVerifiedEffect
  <2>3. /\ s.disk = disk /\ s.loader.cached = c.rev /\ c.rev # None
        /\ Blank(s) /\ Vacant(s)
    BY <1>1, <1>4, <2>1, <2>2 DEF CacheRead, Blank, Vacant, Revs, None
  <2>4. Loadable(s)
    BY <1>1, <1>3, <1>4, <2>3, LocalLoadable DEF Loadable
  <2>5. CASE c.rev \in DevRevs /\ DevRequested(s, t)
    <3>1. Launch(t) /\ Sound(t) /\ Starts(t)
      BY <2>3, <2>4, <2>5, DevRequestedLaunch, DevRequestedUndisturbed
    <3> QED BY <2>2, <3>1, LaunchedFreed DEF UndisturbedInv
  <2>6. ASSUME c.rev \notin DevRevs, NEW new, NEW zero, NetRequested(s, t, new, zero)
        PROVE  UndisturbedInv'
    <3>1. Launch(t)
      BY <2>3, <2>6, NetRequestedLaunch
    <3>2. Sound(t) /\ Starts(t)
      BY <2>3, <2>4, <2>6, NetRequestedUndisturbed
    <3> QED BY <2>2, <3>1, <3>2, LaunchedFreed DEF UndisturbedInv
  <2>7. CASE c.rev \notin DevRevs /\ CacheRequested(s, t, c.rev)
    <3>1. Launch(t)
      BY <2>3, <2>7, CacheRequestedLaunch
    <3>2. Sound(t) /\ Starts(t)
      BY <2>3, <2>4, <2>7, CacheRequestedUndisturbed
    <3> QED BY <2>2, <3>1, <3>2, LaunchedFreed DEF UndisturbedInv
  <2> QED BY <2>2, <2>5, <2>6, <2>7
<1>6. CASE CachedManifestRejected(c)
  <2>1. c.rev \in RefusedRevs
    BY <1>6, CachedManifestRejectedEffect
  <2>2. PICK t \in DeviceType, new \in Fetchers : NetRequested(Device, t, new, FALSE) /\ Freed(t, Device')
    BY <1>6, CachedManifestRejectedEffect
  <2>3. PICK zero \in BOOLEAN : zero = FALSE
    OBVIOUS
  <2>4. NetRequested(Device, t, new, zero)
    BY <2>2, <2>3
  <2>5. /\ Device.loader.cached \notin DevRevs
        /\ LocalManifest(Device.disk) \in RefusedRevs \cup {None}
    BY <1>1, <1>3, <1>4, <2>1, PoliciesAssumption DEF None, Revs
  <2>6. Launch(t)
    BY <1>1, <1>4, <2>4, <2>5, NetRequestedLaunch
  <2>7. Sound(t) /\ Starts(t)
    BY <1>1, <1>4, <2>4, <2>5, NetRequestedUndisturbed
  <2> QED BY <2>2, <2>6, <2>7, LaunchedFreed DEF UndisturbedInv
<1> QED BY <1>5, <1>6

LEMMA UndisturbedInit == Init => UndisturbedInv
<1> SUFFICES ASSUME Init PROVE UndisturbedInv
  OBVIOUS
<1>1. /\ disk.manifest # None => OnDevice(disk, disk.manifest)
      /\ loader = NewLoader /\ updates = NoUpdate /\ delegate = NothingTold
      /\ fetchers = [f \in Fetchers |-> NoObject]
  BY DEF Init, OnDevice, HasBundle
<1>2. /\ Device.disk = disk /\ Device.loader = NewLoader /\ Device.updates = NoUpdate
      /\ Device.delegate = NothingTold /\ Device.fetchers = [f \in Fetchers |-> NoObject]
  BY <1>1, DeviceFields DEF DeviceFieldsAre
<1>3. Loadable(Device)
  BY <1>1, <1>2 DEF Loadable, NewLoader
<1>4. Blank(Device)
  BY <1>2 DEF Blank, Untouched, NoObject, NewFetcher, NewLoader
<1> QED BY <1>3, <1>4, BlankUndisturbed DEF UndisturbedInv

LEMMA FetcherAnswerUndisturbed ==
  ASSUME IInv, OrderInv, Undisturbed, Launch(Device), Told(Device), UndisturbedInv,
         NEW f \in Fetchers, FetcherAnswer(f)
  PROVE  UndisturbedInv'
<1>1. Ordered(Device) /\ Budget
  BY TypedDevice DEF OrderInv, Undisturbed, Undivided
<1>2. fetchers[f].resource # "write"
  BY <1>1, DeviceFields DEF Undisturbed, Budget, Writing, DeviceFieldsAre
<1>3. fetchers[f].kind = "dev" => fetchers[f].resource = "none"
  BY <1>1, DeviceFields DEF Ordered, UsesNet, DeviceFieldsAre
<1>4. CASE TimeOut(f)
  BY <1>4, TimeOutUndisturbed
<1>5. CASE ManifestArrives(f)
  BY <1>2, <1>3, <1>5, ManifestArrivesUndisturbed
<1>6. CASE ManifestFails(f)
  BY <1>2, <1>3, <1>6, ManifestFailsUndisturbed
<1>7. CASE CacheOnlyManifestVerified(f) \/ CacheOnlyManifestRejected(f)
  BY <1>7, CacheOnlyManifestUndisturbed
<1>8. CASE BundleArrives(f)
  BY <1>8, BundleArrivesUndisturbed
<1>9. CASE BundleFails(f)
  BY <1>9, BundleFailsUndisturbed
<1> QED BY <1>4, <1>5, <1>6, <1>7, <1>8, <1>9 DEF FetcherAnswer

LEMMA UndisturbedStep ==
  ASSUME IInv, Begin, OrderInv, LaunchInv, UndisturbedInv, Undisturbed, Undisturbed', [Next]_vars
  PROVE  UndisturbedInv'
<1>1. /\ Launch(Device) /\ Told(Device) /\ spent.requests <= 1 /\ spent'.requests <= 1
      /\ spent.updates = 0 /\ spent'.updates = 0
  BY DEF LaunchInv, Undisturbed
<1>2. CASE Publish \/ ExperienceFails \/ ExperienceFinishedLoading \/ UNCHANGED vars
  <2>1. UNCHANGED <<disk, loader, fetchers, updates, delegate>>
    BY <1>2 DEF Publish, ExperienceFails, ExperienceFinishedLoading, vars
  <2>2. Device' = Device
    BY <2>1 DEF Device
  <2> QED BY <2>2 DEF UndisturbedInv
<1>3. CASE Relaunch
  BY <1>3, RelaunchUndisturbed
<1>4. ASSUME NEW cacheOnly \in BOOLEAN, Request(cacheOnly)
      PROVE  UndisturbedInv'
  BY <1>1, <1>4, RequestUndisturbed
<1>5. CASE ReadAnswer
  <2>1. PICK c \in cachedReads : CachedManifestVerified(c) \/ CachedManifestRejected(c)
    BY <1>5 DEF ReadAnswer
  <2> QED BY <1>1, <2>1, ReadUndisturbed
<1>6. ASSUME NEW f \in Fetchers, FetcherAnswer(f)
      PROVE  UndisturbedInv'
  BY <1>1, <1>6, FetcherAnswerUndisturbed
<1>7. CASE ForceBundleReload
  BY <1>1, <1>7, ForceBundleReloadUndisturbed
<1>8. ~UpdateAnswer
  <2>1. updates = NoUpdate
    BY <1>1, TypedDevice, DeviceFields DEF OrderInv, Undivided, Ordered, DeviceFieldsAre
  <2> QED BY <2>1 DEF UpdateAnswer, UpdateManifestArrives, UpdateManifestFails,
         UpdateBundleArrives, UpdateBundleFails, NoUpdate, Idle
<1>9. ~FetchUpdate
  BY <1>1, FetchUpdateEffect
<1> QED BY <1>2, <1>3, <1>4, <1>5, <1>6, <1>7, <1>8, <1>9 DEF Next

LEMMA UndisturbedAlways == Spec /\ []Undisturbed => [](LaunchInv /\ UndisturbedInv /\ Undisturbed)
<1>1. Init => IInv /\ Begin /\ OrderInv /\ LaunchInv /\ UndisturbedInv
  BY InitInvariant, BeginInit, OrderInit, LaunchInit, UndisturbedInit
<1>2. /\ IInv /\ Begin /\ OrderInv /\ LaunchInv /\ UndisturbedInv
      /\ Undisturbed /\ Undisturbed' /\ [Next]_vars
      => (IInv /\ Begin /\ OrderInv /\ LaunchInv /\ UndisturbedInv)'
  BY Inductive, BeginStep, OrderStep, LaunchStep, UndisturbedStep
<1> QED BY <1>1, <1>2, PTL DEF Spec

-----------------------------------------------------------------------------
\* Where the bounds allow neither reloads nor fetchUpdateAsync calls, the theorems below hold of
\* every behavior.
THEOREM NeverDisturbed ==
  ASSUME MaxReloads = 0, MaxUpdates = 0
  PROVE  Spec => []Undisturbed
<1>1. Init => IInv /\ Undisturbed
  <2>1. Init => Undisturbed
    BY DEF Init, Undisturbed
  <2> QED BY <2>1, InitInvariant
<1>2. IInv /\ Undisturbed /\ [Next]_vars => (IInv /\ Undisturbed)'
  <2> SUFFICES ASSUME IInv, Undisturbed, [Next]_vars PROVE Undisturbed'
    BY Inductive
  <2>1. spent.requests \in Nat /\ spent.updates \in Nat
    BY TypedDevice
  <2>2. ASSUME NEW cacheOnly \in BOOLEAN, Request(cacheOnly)
        PROVE  Undisturbed'
    <3>1. spent.requests <= 0
      BY <2>2 DEF Request
    <3>2. spent'.requests = spent.requests + 1 /\ spent'.updates = spent.updates
      BY <2>2, RequestEffect
    <3> QED BY <2>1, <3>1, <3>2 DEF Undisturbed
  <2>3. ~FetchUpdate
    BY <2>1 DEF FetchUpdate
  <2>4. CASE Relaunch
    BY <2>4 DEF Relaunch, Undisturbed
  <2>5. CASE Publish \/ ExperienceFails \/ ExperienceFinishedLoading \/ UNCHANGED vars
             \/ ForceBundleReload
    BY <2>5 DEF Publish, ExperienceFails, ExperienceFinishedLoading, vars, ForceBundleReload, Undisturbed
  <2>6. CASE ReadAnswer
    BY <2>6 DEF ReadAnswer, CachedManifestVerified, CachedManifestRejected, Undisturbed
  <2>7. CASE \E f \in Fetchers : FetcherAnswer(f)
    BY <2>7 DEF FetcherAnswer, TimeOut, ManifestArrives, ManifestFails, CacheOnlyManifestVerified,
         CacheOnlyManifestRejected, BundleArrives, BundleFails, Undisturbed
  <2>8. CASE UpdateAnswer
    BY <2>8 DEF UpdateAnswer, UpdateManifestArrives, UpdateManifestFails,
         UpdateBundleArrives, UpdateBundleFails, Undisturbed
  <2> QED BY <2>2, <2>3, <2>4, <2>5, <2>6, <2>7, <2>8 DEF Next
<1> QED BY <1>1, <1>2, PTL DEF Spec

\* The manifest that EXCachedResource keeps is never ahead of its bundle: a process killed at any
\* moment, between the write of a bundle and that of its manifest too, finds an app it can run.
THEOREM CacheAlwaysLoadable == Spec /\ []Undisturbed => []CacheIsLoadable
<1>1. UndisturbedInv => CacheIsLoadable
  BY DeviceFields DEF UndisturbedInv, Sound, Loadable, CacheIsLoadable, DeviceFieldsAre
<1> QED BY <1>1, UndisturbedAlways, PTL

\* The manifest that _fetchCachedManifest has verified, and that the loader falls back to, has its
\* bundle on the device.
THEOREM FallbackHasBundle == Spec /\ []Undisturbed => []CachedManifestHasBundle
<1>1. UndisturbedInv => CachedManifestHasBundle
  BY DeviceFields DEF UndisturbedInv, Sound, Loadable, CachedManifestHasBundle, DeviceFieldsAre
<1> QED BY <1>1, UndisturbedAlways, PTL

\* An update announced by didResolveUpdatedBundle is in the caches with its bundle, at once and from
\* then on.
THEOREM AnnouncedUpdateIsStored == Spec /\ []Undisturbed => []AnnouncedIsStored
<1>1. UndisturbedInv => AnnouncedIsStored
  BY DeviceFields DEF UndisturbedInv, Sound, Announces, StoredUpdate, AnnouncedIsStored, DeviceFieldsAre
<1> QED BY <1>1, UndisturbedAlways, PTL

\* The fetcher that downloads a bundle, to which the download holds no strong reference, is kept
\* alive by the loader until the bundle has arrived or failed.
THEOREM DownloadStaysHeld == Spec /\ []Undisturbed => []DownloadIsHeld
<1>1. UndisturbedInv => DownloadIsHeld
  BY DeviceFields DEF UndisturbedInv, Sound, Downloads, DownloadIsHeld, DeviceFieldsAre
<1> QED BY <1>1, UndisturbedAlways, PTL

\* With a verified cached manifest no timeout, failed request or refused answer makes the launch
\* fail, unless the app is one with developer tools.
THEOREM CachedAppAlwaysStarts == Spec /\ []Undisturbed => []CachedAppStarts
<1>1. LaunchInv /\ UndisturbedInv /\ Undisturbed => CachedAppStarts
  <2> SUFFICES ASSUME LaunchInv, UndisturbedInv, Undisturbed,
                      loader.cached # None, delegate.failed
               PROVE  Manifest(Device) \in DevRevs
    BY DEF CachedAppStarts
  <2>1. DeviceFieldsAre(Device) /\ Launch(Device) /\ Starts(Device)
    BY DeviceFields DEF LaunchInv, Undisturbed, UndisturbedInv
  <2>2. PICK g \in Fetchers : Device.fetchers[g].kind = "dev"
    BY <2>1 DEF Starts, DeviceFieldsAre
  <2>3. DevShape(Device, g) /\ Device.loader.fetcher = g /\ g # NoFetcher
    BY <2>1, <2>2, FetchersAssumption DEF Starts, Launch
  <2>4. Current(Device) = Device.fetchers[g]
    BY <2>3 DEF Current
  <2> QED BY <2>1, <2>3, <2>4 DEF DevShape, Manifest, DeviceFieldsAre
<1> QED BY <1>1, UndisturbedAlways, PTL
=============================================================================
