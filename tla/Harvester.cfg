SPECIFICATION Spec
CONSTANTS
  Insts = {r, a}
  Root = r
  Names <- MCNames
  Procs = {p}
  Vals <- MCVals
  ParamIds = {P1, P2}
  SystIds = {S1, S2, S3}
  Null = Null
  Careful = TRUE
SYMMETRY HeapSymmetry
VIEW HeapView
INVARIANTS TypeOK KeyIsName SystsHaveParams
PROPERTIES EvaluationRestores FrozenHolds DeepCopiesIndependent
CHECK_DEADLOCK FALSE
