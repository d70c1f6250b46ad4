CONSTANTS
  FirstArea = 12
  OtherArea = 4
  Page = 10
  LastStackAddr = 30
  GuardStackAddr = 20
  MinExtra = 2
  AreaSize = 3
  StkMin = 6
  ArgCounts = {1}
  NameTables = {TRUE}
  MaxFrames = 5
  MaxHolds = 2
  MaxLisp = 5
  Resumed = TRUE
SPECIFICATION Spec
INVARIANT BlinksAreBFs
CHECK_DEADLOCK FALSE
