SPECIFICATION Spec
CONSTANTS
  root = root
  list = list
  arr = arr
  NIL = NIL
  ATOM_T = ATOM_T
PROPERTIES ReclaimEnds GarbageIsFreed InputServed CheckEnds
