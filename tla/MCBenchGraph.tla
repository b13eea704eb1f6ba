---------------------------- MODULE MCBenchGraph ----------------------------
(***************************************************************************)
(* Configurations of benchmark-graph.py for TLC: three structures, three   *)
(* trials, three sweep points, so the trial, metric and point axes all     *)
(* differ in length.  A call can print both metrics, only the first, or    *)
(* time out.                                                               *)
(***************************************************************************)
EXTENDS BenchGraph

MCStructs == <<"dcbo-ms", "dcbl-ms", "ms">>
\* --start 1 --to 4 --exp_steps
MCPoints == <<1, 2, 4>>

CL == INSTANCE CommandLine

\* benchmark-graph.py ... -g graph.mtx --root 0 (--varying n by default)
MCArgs == CL!ParseArgs(CL!GraphDefaults, [graph_path |-> "graph.mtx", root |-> 0])

\* what new_bench hands to Bench
MCStaticArgs == CL!StaticArgsOf(CL!GraphFlags, MCArgs)
MCVarying == CL!VaryingFlag(MCArgs)
MCWidthRatio == CL!WidthRatioOf(MCArgs)

BothMetrics == [status |-> "ok", tracked1 |-> TRUE, tracked2 |-> TRUE]
FirstOnly == [status |-> "ok", tracked1 |-> TRUE, tracked2 |-> FALSE]
TimedOut == [status |-> "timeout", tracked1 |-> FALSE, tracked2 |-> FALSE]

MCOutcomes == {BothMetrics, FirstOnly, TimedOut}

=============================================================================
