SPECIFICATION Spec
CONSTANTS
  Points = {p, q}
  p = p
  MaxSeed = 6
  MinToys = 2
  MaxToys = 3
  Signif <- MCSignif
  MaxCycles = 2
  Parallel = 2
  Modes = {"interactive", "dry", "script", "array"}
  Outcomes = {"result", "empty", "open", "nofile"}
  KillIn = {"assess", "save", "write"}
  MaxFails = 1
  MaxKills = 1
  Null = Null
INVARIANTS TypeOK NewSeeds StatusHonest NoOverrun
PROPERTIES ResultsKept ImplementsToyGrid
