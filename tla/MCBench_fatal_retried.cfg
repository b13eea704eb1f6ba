\* benchmark.py with --errors lock: a call of the binary may time out, or print no metric
CONSTANTS
  None = None
  MaxSizeArg = MaxSizeArg
  Structs <- MCStructs
  StrictStructs <- MCStrict
  Runs = 2
  Points <- MCPoints
  StaticArgs <- MCStaticArgs
  Varying <- MCVarying
  WidthRatio <- MCWidthRatio
  Errors = "lock"
  RelaxationDuration <- MCRelaxationDuration
  AllowNull = FALSE
  Save = TRUE
  Outcomes <- MCOutcomes
  BuildFails = TRUE
  MaxFailures = 6
SPECIFICATION Spec
INVARIANT FatalErrorsAbort
