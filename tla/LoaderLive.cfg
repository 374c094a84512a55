SPECIFICATION FairSpec
CONSTANTS
  Fetchers = {f1, f2, f3, f4}
  NoFetcher = NoFetcher
  MaxRev = 4
  MaxLaunches = 1
  MaxReloads = 0
  MaxUpdates = 1
  IsDetached = FALSE
  RemoteUpdatesEnabled = TRUE
  OnLocalhost = {TRUE, FALSE}
  Embedded = 0
  DevRevs = {1, 4}
  ZeroTimeoutRevs = {2}
  RecoveryOnlyRevs = {}
  RefusedRevs = {}
PROPERTIES
  RequestSettlesOrLosesDevTools
  BackgroundUpdateResolves
  FetchUpdateIsAnswered
CHECK_DEADLOCK FALSE
