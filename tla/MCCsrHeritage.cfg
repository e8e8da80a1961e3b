CONSTANTS
  Op <- MCOp
  Vn <- MCVn
  NoVn = NoVn
  InputVn <- MCInputVn
  PoolVn = {}
  Func <- MCFunc
  CsrVn <- MCCsrVn
  reg <- MCReg
  opcode <- MCOpcode
  VsetOps = {"vset1", "vset2"}
  MaxDecompiles = 2
SPECIFICATION Spec
CHECK_DEADLOCK FALSE
INVARIANT
  TypeOK
  PurgedReadsAreInputs
  OneInputPerRegister
  SlotsKeepTheirRegister
  OtherDefinitionsKept
  FirstRunPurged
PROPERTY
  PurgeEnds
