SPECIFICATION Spec
CONSTANTS
  Fetchers = {f1, f2, f3, f4}
  NoFetcher = NoFetcher
  MaxRev = 4
  MaxLaunches = 2
  MaxReloads = 0
  MaxUpdates = 0
  IsDetached = TRUE
  RemoteUpdatesEnabled = TRUE
  OnLocalhost = {FALSE}
  Embedded = 1
  DevRevs = {}
  ZeroTimeoutRevs = {4}
  RecoveryOnlyRevs = {3}
  RefusedRevs = {2}
SYMMETRY Symmetry
INVARIANTS
  CacheIsLoadable
  CachedAppStarts
  UpdateIsAnnounced
CHECK_DEADLOCK FALSE
