\* benchmark.py dcbo-lcrq lcrq --runs 2 --varying n --start 1 --to 2
\*   --width-ratio 2 --errors lock --relaxation_duration 100
CONSTANTS
  None = None
  MaxSizeArg = MaxSizeArg
  Structs <- MCStructs
  StrictStructs <- MCStrict
  Runs = 2
  Points <- MCPoints
  StaticArgs <- MCStaticArgs
  Varying <- MCVarying
  WidthRatio <- MCWidthRatio
  Errors = "lock"
  RelaxationDuration <- MCRelaxationDuration
  AllowNull = FALSE
  Save = TRUE
  Outcomes <- MCOutcomesRetry
  BuildFails = TRUE
  MaxFailures = 7
SPECIFICATION Spec
INVARIANT RetryAsSpec
INVARIANT StoredTensorFaithful
INVARIANT ArgsMatchPoint
INVARIANT ReplayFaithful
