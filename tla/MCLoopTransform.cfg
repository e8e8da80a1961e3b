SPECIFICATION Spec
CONSTANTS
  Op <- McOp
  Vn <- McVn
  NoVn = "null"
  InputVn <- McInputVn
  PoolVn <- McPoolVn
  LoopBlock = "loop"
  home <- McHome
  LoopOrder <- McLoopOrder
  kind <- McKind
  addr <- McAddr
  FirstAddr = 10
  LastAddr = 20
  RegisterVn <- McRegisterVn
  MemoryVn <- McMemoryVn
  CsrVn = {"vl"}
  VlVn = {"vl"}
  reg <- McReg
  MaxDepth = 11
  SearchDepth = 16
  Loops <- McLoops
  Block = {"pre", "head", "loop", "epilog", "far"}
  NoOp = "no_op"
  CallOp = "call"
  InvertOp = "invert"
  CallVn = "callvn"
  InvertVn = "invertvn"
  heap <- McHeap
  Limit = 1
INVARIANTS TypeOK HandoverValid CallReadsEntryValues BranchesGoTheSameWay NothingLeaks
PROPERTY ImplementsReplacement
CHECK_DEADLOCK FALSE
