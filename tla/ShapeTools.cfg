SPECIFICATION Spec
CONSTANTS
  LastEdge = 4
  Procs = {"S", "A", "B"}
  Backgrounds = {"A", "B"}
  Starts <- MCStarts
  Searches <- MCSearches
  Factories <- MCFactories
  MaxCalls = 2
INVARIANTS TypeOK TemplatesKept
PROPERTIES Rebinned ErrorsMoved Covered
CHECK_DEADLOCK FALSE
