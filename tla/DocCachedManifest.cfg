SPECIFICATION Spec
CONSTANTS
  Fetchers = {f1, f2, f3, f4}
  NoFetcher = NoFetcher
  MaxRev = 3
  MaxLaunches = 1
  MaxReloads = 0
  MaxUpdates = 1
  IsDetached = FALSE
  RemoteUpdatesEnabled = TRUE
  OnLocalhost = {FALSE}
  Embedded = 0
  DevRevs = {}
  ZeroTimeoutRevs = {2}
  RecoveryOnlyRevs = {}
  RefusedRevs = {}
SYMMETRY Symmetry
INVARIANTS
  CachedManifestHasBundle
CHECK_DEADLOCK FALSE
