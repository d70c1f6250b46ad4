SPECIFICATION GCSpec
CONSTANTS
  o1 = o1
  o2 = o2
  root = root
  car = car
  cdr = cdr
  Obj <- MCObj
  Root = {root}
  Field = {car, cdr}
  Null = Null
SYMMETRY MCSymmetry
INVARIANTS CountIsRefs NoDangling
PROPERTIES FreedOnlyIfUnused
