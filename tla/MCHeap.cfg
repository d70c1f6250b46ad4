SPECIFICATION HeapSpec
CONSTANTS
  ArraySpace = 1
  ArrayEnd = 16
  Extension = 17
  ExtensionEnd = 22
  MAXARRAYBLOCKSIZE = 9
  MINARRAYBLOCKSIZE = 4
  HunkMin = 4
  MAXBUCKETINDEX = 4
  CELLSPER_PAGE = 5
  NIL = NIL
  FirstCell = 3
  LastCell = 7
  Reach = 2
  RejoinLimit = 2
  NumPages = 4
  Kept = 5
  MaxLive = 3
  Atoms = {1}
INVARIANTS SpaceInv ListsIntact SpaceAccounted
PROPERTIES UsedIntact Coalesces
