SPECIFICATION Spec
CONSTANTS
  Fetchers = {f1, f2, f3, f4}
  NoFetcher = NoFetcher
  MaxRev = 3
  MaxLaunches = 2
  MaxReloads = 0
  MaxUpdates = 0
  IsDetached = FALSE
  RemoteUpdatesEnabled = TRUE
  OnLocalhost = {FALSE}
  Embedded = 0
  DevRevs = {}
  ZeroTimeoutRevs = {2}
  RecoveryOnlyRevs = {}
  RefusedRevs = {}
SYMMETRY Symmetry
INVARIANTS
  TypeOK
  CacheIsLoadable
  CachedManifestHasBundle
  UpdateIsAnnounced
  AnnouncedIsStored
  DownloadIsHeld
  CachedAppStarts
CHECK_DEADLOCK FALSE
