\* benchmark.py dcbo-lcrq lcrq --runs 2 --start 2 --to 1 --errors lock: empty sweep
CONSTANTS
  None = None
  MaxSizeArg = MaxSizeArg
  Structs <- MCStructs
  StrictStructs <- MCStrict
  Runs = 2
  Points <- MCEmptyPoints
  StaticArgs <- MCStaticArgs
  Varying <- MCVarying
  WidthRatio <- MCWidthRatio
  Errors = "lock"
  RelaxationDuration <- MCRelaxationDuration
  AllowNull = FALSE
  Save = TRUE
  Outcomes <- MCOutcomes
  BuildFails = TRUE
  MaxFailures = 6
SPECIFICATION Spec
INVARIANT ConfigErrorSurfacedFirst
