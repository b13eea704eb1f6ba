\* benchmark.py dcbo-lcrq lcrq --runs 2 --threads 1 --varying k --start 2
\*   --to 4 --exp_steps --allow_null
CONSTANTS
  None = None
  MaxSizeArg = MaxSizeArg
  Structs <- MCStructs
  StrictStructs <- MCStrict
  Runs = 2
  Points <- MCPointsExp
  StaticArgs <- MCStaticArgsK
  Varying <- MCVaryingK
  WidthRatio <- MCWidthRatioK
  Errors = None
  RelaxationDuration <- MCRelaxationDurationK
  AllowNull = TRUE
  Save = TRUE
  Outcomes <- MCOutcomes
  BuildFails = TRUE
  MaxFailures = 2
SPECIFICATION Spec
INVARIANT StoredTensorFaithful
