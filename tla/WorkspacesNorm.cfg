SPECIFICATION Spec
CONSTANTS
  Fams = {"original", "copy"}
  Root = "original"
  Sources = {s1, s2}
  s1 = s1
  s2 = s2
  p = p
  q = q
  NameOf <- MCNameOf
  Pdfs <- MCPdfs
  Norms <- MCNorms
  Start <- MCStart
  SystPdfs = {s1}
  Unmapped = {s2}
  Procs = {p, q}
  Par = "a"
  RatePars = {"a"}
  Vals = {0, 1, 2}
  Ids = {1, 2, 3, 4}
  MaxName = 1
  MaxCalls = 3
  None = None
INVARIANT NormFound
CHECK_DEADLOCK FALSE
