SPECIFICATION FairSpec
CONSTANTS
  Platforms = {"ios"}
  MaxOps = 5
  MaxObjects = 0
  MaxDestroys = 0
PROPERTIES
  DrawnFrameIsShown
CHECK_DEADLOCK FALSE
