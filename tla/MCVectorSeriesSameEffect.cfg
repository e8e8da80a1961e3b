CONSTANTS
  Programs <- MCPrograms
  VecVn <- MCVecVn
  NoVn = NoVn
  Cells = 7
  Limit = 2
SPECIFICATION Spec
CHECK_DEADLOCK FALSE
INVARIANT
  SameEffect
