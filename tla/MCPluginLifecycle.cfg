CONSTANTS
  Arch = {a1, a2}
  NoArch = NoArch
  Language <- McLanguage
  UserOps <- McUserOps
  Riscv <- McRiscv
  WithCsreg <- McRiscv
  Handled <- McHandled
  MAX_USER_PCODES = 10000
  MaxClones = 1
SPECIFICATION Spec
CHECK_DEADLOCK FALSE
INVARIANT
  TypeOK
  RulesMeetTheirArchitecture
  HeldUntilReleased
  BuiltinsAnswered
  OneArchitectureIsSafe
