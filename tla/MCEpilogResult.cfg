CONSTANTS
  Op <- MCOp
  Vn <- MCVn
  NoVn = NoVn
  InputVn <- MCInputVn
  PoolVn = {}
  Functions <- MCFunctions
  RegisterVn <- MCRegisterVn
  CsrVn = {"x2"}
  VlVn = {}
  OpsInLoop <- MCOpsInLoop
  addr <- MCAddr
  LastAddr = 4
  MaxDepth = 4
  SearchDepth = 16
  Pointer = "p"
  Pointer2 = "q"
  ComparisonVn = "c"
SPECIFICATION Spec
CHECK_DEADLOCK FALSE
INVARIANT
  TypeOK
  CompleteUnlessCut
  ChainsBounded
  ResultFound
PROPERTY
  Returns
