SPECIFICATION Spec
CONSTANTS
  Masses = {"120", "125"}
  Inputs <- MCInputs
  MaxCards = 2
INVARIANTS
  TypeOK
  ProcessIdsSound
  ProcessesReadBack
  NuisancesReadBack
  ReadSystsHaveParams
PROPERTIES
  WrittenCardsParse
CHECK_DEADLOCK FALSE
