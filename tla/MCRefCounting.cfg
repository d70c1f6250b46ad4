SPECIFICATION Spec
CONSTANTS
  p1 = p1
  p2 = p2
  p3 = p3
  Ptr <- OneBucketPtr
  Hash <- OneBucketHash
  HTMAIN_ENTRY_COUNT = 1
  HTCOLLMAX = 2
  MAX_GCCOUNT = 3
  ReclaimMin = 2
  MaxRefs = 4
  NIL = NIL
  ATOM_T = ATOM_T
SYMMETRY OneBucketSymmetry
INVARIANTS TableInv CountsExact
PROPERTIES LookupsRight TakesOnlyGarbage
