CONSTANTS
  Op <- MCOp
  Vn <- MCVn
  NoVn = NoVn
  InputVn <- MCInputVn
  PoolVn <- MCPoolVn
  Block <- MCBlock
  LoopBlock = "loop"
  NoOp = NoOp
  RegisterVn <- MCRegisterVn
  code <- MCCode
  home <- MCHome
  Jobs <- MCJobs
  Given <- MCGiven
SPECIFICATION Spec
CHECK_DEADLOCK FALSE
INVARIANT
  CallTargetKept
