\* benchmark.py dcbo-lcrq lcrq --runs 2 --width-ratio 2 --errors lock
\*   --relaxation_duration 100: the stored dual-metric tensor
CONSTANTS
  None = None
  MaxSizeArg = MaxSizeArg
  Structs <- MCStructs
  StrictStructs <- MCStrict
  Runs = 2
  Points <- MCPoints
  StaticArgs <- MCStaticArgs
  Varying <- MCVarying
  WidthRatio <- MCWidthRatio
  Errors = "lock"
  RelaxationDuration <- MCRelaxationDuration
  AllowNull = FALSE
  Save = TRUE
  Outcomes <- MCOutcomes
  BuildFails = TRUE
  MaxFailures = 6
SPECIFICATION Spec
INVARIANT StoredLayoutAsSpec
