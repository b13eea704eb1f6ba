\* benchmark-graph.py dcbo-ms dcbl-ms ms --runs 3 --start 1 --to 4 --exp_steps -g graph.mtx --root 0
\*   (--varying n, --track_first elapsed_time, --track_second total_work)
CONSTANTS
  None = None
  Structs <- MCStructs
  Runs = 3
  Points <- MCPoints
  StaticArgs <- MCStaticArgs
  Varying <- MCVarying
  WidthRatio <- MCWidthRatio
  TrackSecond = "total_work"
  Save = TRUE
  Outcomes <- MCOutcomes
  BuildFails = TRUE
SPECIFICATION Spec
INVARIANT StoredLayoutAsSpec
