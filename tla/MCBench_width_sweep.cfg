\* benchmark.py dcbo-lcrq lcrq --runs 2 --threads 1 --varying w --start 1
\*   --to 2 --width-ratio 2: a width sweep with a width ratio
CONSTANTS
  None = None
  MaxSizeArg = MaxSizeArg
  Structs <- MCStructs
  StrictStructs <- MCStrict
  Runs = 2
  Points <- MCPoints
  StaticArgs <- MCStaticArgsW
  Varying <- MCVaryingW
  WidthRatio <- MCWidthRatioW
  Errors = None
  RelaxationDuration <- MCRelaxationDurationW
  AllowNull = FALSE
  Save = TRUE
  Outcomes <- MCOutcomes
  BuildFails = TRUE
  MaxFailures = 6
SPECIFICATION Spec
INVARIANT ArgsMatchPoint
