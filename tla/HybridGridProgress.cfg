SPECIFICATION FairSpec
CONSTANTS
  Points = {p, q}
  p = p
  MaxSeed = 5
  MinToys = 2
  MaxToys = 3
  Signif <- MCSignif
  MaxCycles = 2
  Parallel = 2
  Modes = {"interactive", "dry"}
  Outcomes = {"result", "open", "nofile"}
  KillIn = {}
  MaxFails = 1
  MaxKills = 0
  Null = Null
PROPERTIES Progress
