SPECIFICATION Spec
CONSTANTS
  NCats = 2
  NPdf <- MCNPdf
  PdfPars <- MCPdfPars
  Channels = {"A", "D", "B"}
  ChanCats <- MCChanCats
  ChanPars <- MCChanPars
  Constrained = {"n"}
  Pars = {"mu", "n", "a", "d"}
  POIs = {"mu"}
  Vals = {0, 1}
  Starts <- MCStarts
  Models <- MCModels
  Term <- MCTerm
  Penalty <- MCPenalty
  Options <- Sensible
  Fixed = {{"mu"}, {}}
  MaxDeviation = 5
  MaxIterations = 4
  MaxCalls = 2
  MaxFailures = 1
INVARIANTS TypeOK ConstantsKept LeftAsFound Settled
CHECK_DEADLOCK FALSE
