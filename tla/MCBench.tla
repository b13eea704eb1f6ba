------------------------------ MODULE MCBench -------------------------------
(***************************************************************************)
(* Configurations of benchmark.py for TLC.  Two structures, one of them in *)
(* STRICT_STRUCTS; two trials and two sweep points, so that the argument   *)
(* dict is reused across points and trials and the trial and channel axes  *)
(* have the same length (a swapped axis is then a wrong value, not a       *)
(* wrong shape).  A call of a binary can succeed, report nulls, print no   *)
(* metric, or time out; six rejected calls reach run_test's limit.         *)
(***************************************************************************)
EXTENDS Bench

MCStructs == <<"dcbo-lcrq", "lcrq">>
MCStrict == {"lcrq"}
MCPoints == <<1, 2>>
\* --start 2 --to 4 --exp_steps
MCPointsExp == <<2, 4>>
\* --start 2 --to 1: var_points() returns []
MCEmptyPoints == <<>>

CL == INSTANCE CommandLine

\* benchmark.py ... --width-ratio 2 --relaxation_duration 100: a thread sweep
MCArgs == CL!ParseArgs(CL!BenchDefaults, [width_ratio |-> 2, relaxation_duration |-> 100])
\* ... --threads 1 --varying k
MCArgsK == CL!ParseArgs(CL!BenchDefaults, [threads |-> 1, varying |-> "k"])
\* ... --threads 1 --varying w --width-ratio 2 --relaxation_duration 100
MCArgsW == CL!ParseArgs(CL!BenchDefaults, [threads |-> 1, varying |-> "w", width_ratio |-> 2,
                                             relaxation_duration |-> 100])

\* what new_bench hands to Bench for each command line
MCStaticArgs == CL!StaticArgsOf(CL!BenchFlags, MCArgs)
MCVarying == CL!VaryingFlag(MCArgs)
MCWidthRatio == CL!WidthRatioOf(MCArgs)
MCRelaxationDuration == MCArgs.relaxation_duration
MCStaticArgsK == CL!StaticArgsOf(CL!BenchFlags, MCArgsK)
MCVaryingK == CL!VaryingFlag(MCArgsK)
MCWidthRatioK == CL!WidthRatioOf(MCArgsK)
MCRelaxationDurationK == MCArgsK.relaxation_duration
MCStaticArgsW == CL!StaticArgsOf(CL!BenchFlags, MCArgsW)
MCVaryingW == CL!VaryingFlag(MCArgsW)
MCWidthRatioW == CL!WidthRatioOf(MCArgsW)
MCRelaxationDurationW == MCArgsW.relaxation_duration

Clean == [status |-> "ok", nulls |-> FALSE, tracked |-> TRUE]
Nulls == [status |-> "ok", nulls |-> TRUE, tracked |-> TRUE]
NoMetric == [status |-> "ok", nulls |-> FALSE, tracked |-> FALSE]
TimedOut == [status |-> "timeout", nulls |-> FALSE, tracked |-> FALSE]

MCOutcomes == {Clean, Nulls, NoMetric, TimedOut}

\* a clean call and a rejected one: every rejection takes the same path
\* through the retry loop
MCOutcomesRetry == {Clean, Nulls}

=============================================================================
