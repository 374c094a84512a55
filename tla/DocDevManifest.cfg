SPECIFICATION FairSpec
CONSTANTS
  Fetchers = {f1, f2, f3, f4}
  NoFetcher = NoFetcher
  MaxRev = 2
  MaxLaunches = 0
  MaxReloads = 0
  MaxUpdates = 0
  IsDetached = FALSE
  RemoteUpdatesEnabled = TRUE
  OnLocalhost = {FALSE}
  Embedded = 0
  DevRevs = {1}
  ZeroTimeoutRevs = {}
  RecoveryOnlyRevs = {}
  RefusedRevs = {}
PROPERTIES
  RequestSettles
CHECK_DEADLOCK FALSE
