SPECIFICATION FairSpec
CONSTANTS
  Platforms = {"ios", "android"}
  MaxOps = 5
  MaxObjects = 2
  MaxDestroys = 1
INVARIANTS
  TypeOK
  FuturesAreResolved
  FutureIsUnmapped
  VersionIsKnown
PROPERTIES
  ImplementsCommands
  BlockingCallReturns
  EndedFrameIsDrawn
CHECK_DEADLOCK FALSE
