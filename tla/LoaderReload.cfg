SPECIFICATION Spec
CONSTANTS
  Fetchers = {f1, f2, f3, f4, f5}
  NoFetcher = NoFetcher
  MaxRev = 3
  MaxLaunches = 0
  MaxReloads = 1
  MaxUpdates = 1
  IsDetached = TRUE
  RemoteUpdatesEnabled = TRUE
  OnLocalhost = {FALSE}
  Embedded = 0
  DevRevs = {3}
  ZeroTimeoutRevs = {2}
  RecoveryOnlyRevs = {2}
  RefusedRevs = {}
SYMMETRY Symmetry
INVARIANTS
  ConfirmedHasBundle
  TimerOnlyWhileUnanswered
  CacheOnlyStaysOffline
  UpdateIsAnnounced
PROPERTIES
  CacheNeverRollsBack
CHECK_DEADLOCK FALSE
