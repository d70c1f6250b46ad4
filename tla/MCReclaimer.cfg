SPECIFICATION Spec
CONSTANTS
  root = root
  list = list
  rec = rec
  rec2 = rec2
  arr = arr
  Ptr = {list, rec, rec2, arr}
  Root = {}
  Hash <- MCHash
  Kind <- MCKind
  Arity <- MCArity
  MaxArity = 2
  FarField = {2}
  TODO_LIMIT = 1
  MaxStack = 2
  MaxEdges = 2
  MaxObjects = 3
  HTMAIN_ENTRY_COUNT = 2
  HTCOLLMAX = 2
  MAX_GCCOUNT = 3
  ReclaimMin = 1
  NIL = NIL
  ATOM_T = ATOM_T
INVARIANTS SweepComplete SetAsideOnce
PROPERTIES ImplementsRefCountGC
