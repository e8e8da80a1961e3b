CONSTANTS
  Block <- McBlock
  NoBlock = "none"
  Root = "root"
  Jobs <- McJobs
  Given <- McGiven
SPECIFICATION Spec
CHECK_DEADLOCK FALSE
INVARIANT
  TypeOK
  OnlyOverlookedDangle
  StructureKept
