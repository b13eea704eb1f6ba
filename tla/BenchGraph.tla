----------------------------- MODULE BenchGraph -----------------------------
(***************************************************************************)
(* The BFS harness of src/scripts/benchmark-graph.py: Bench.compile,       *)
(* Bench.evaluate, Bench.run_tests, Bench.run_test, Bench.save_data and    *)
(* the replay branch of main.  Unlike benchmark.py it tracks two metrics   *)
(* of one call (a pair per point), calls each binary once (no retry), and  *)
(* ends the program from inside run_test on any problem: exit(e) for an    *)
(* exception (status 1), exit(0) for a missing metric (status 0).          *)
(***************************************************************************)
EXTENDS Integers, Sequences, Tensors

CONSTANTS
  Structs,        \* self.structs
  Runs,           \* self.runs
  Points,         \* the list self.var_points() returns
  StaticArgs,     \* self.static_args: flag -> value, None entries removed
  Varying,        \* the flag f'-{self.varying}'
  WidthRatio,     \* self.width_ratio: a number or None
  TrackSecond,    \* self.track_second: a metric name or None
  Save,           \* self.save
  Outcomes,       \* what one call of a binary can end with
  BuildFails,     \* whether `make <struct>` may fail
  None            \* Python's None (a model value)

Flags == DOMAIN StaticArgs \cup {Varying, "-n", "-w"}

OutcomeType == [status : {"ok", "timeout", "error"}, tracked1 : BOOLEAN, tracked2 : BOOLEAN]

ASSUME Runs \in Nat \ {0}
ASSUME Outcomes \subseteq OutcomeType

VARIABLES
  pc,           \* "compile", "run", "evaluated", "saved", "done", "replayed", "exited"
  exitStatus,   \* the status passed to exit(), or None
  ci,           \* index of the next structure the compile loop builds
  step,         \* inside run_tests: "enter", "point", "call"
  args,         \* the argument dict of the current run_tests call
  runResults,   \* run_results of the current trial: one pair per point
  results,      \* results of the current structure
  passMats,     \* the structures' results: [struct][trial][point][metric]
  raw,          \* evaluate's raw tensor: [struct][trial][metric][point]
  averages,     \* evaluate's averages, as the trial columns they are taken over
  stored,       \* the content of raw_data.npy, or None
  replayed      \* the averages main computes from raw_data.npy on replay

vars == <<pc, exitStatus, ci, step, args, runResults, results, passMats, raw,
          averages, stored, replayed>>

Position == <<Len(passMats) + 1, Len(results) + 1, Len(runResults) + 1>>

\* the value of metric k (1: track_first, 2: track_second) printed by the
\* call at position pos
Metric(pos, k) == [at |-> pos, metric |-> k]

TypeOK ==
  /\ pc \in {"compile", "run", "evaluated", "saved", "done", "replayed", "exited"}
  /\ exitStatus \in {None, 0, 1}
  /\ ci \in 1..(Len(Structs) + 1)
  /\ step \in {"enter", "point", "call"}
  /\ args \in [Flags -> Int \cup {None}]

Init ==
  /\ pc = "compile"
  /\ exitStatus = None
  /\ ci = 1
  /\ step = "enter"
  /\ args = [f \in Flags |-> IF f \in DOMAIN StaticArgs THEN StaticArgs[f] ELSE None]
  /\ runResults = <<>>
  /\ results = <<>>
  /\ passMats = <<>>
  /\ raw = None
  /\ averages = None
  /\ stored = None
  /\ replayed = None

\* the program ends through exit(status)
Exit(status) ==
  /\ pc' = "exited"
  /\ exitStatus' = status

(***************************************************************************)
(* Bench.compile: `make <struct>` with TEST=BFS for every structure; a     *)
(* failed make ends the program with exit(e).                              *)
(***************************************************************************)
CompileStruct ==
  /\ pc = "compile"
  /\ ci <= Len(Structs)
  /\ \/ /\ ci' = ci + 1
        /\ UNCHANGED <<pc, exitStatus>>
     \/ /\ BuildFails
        /\ Exit(1)
        /\ UNCHANGED ci
  /\ UNCHANGED <<step, args, runResults, results, passMats, raw, averages,
                 stored, replayed>>

CompileDone ==
  /\ pc = "compile"
  /\ ci > Len(Structs)
  /\ pc' = "run"
  /\ UNCHANGED <<exitStatus, ci, step, args, runResults, results, passMats,
                 raw, averages, stored, replayed>>

\* Bench.run_tests(struct, ...): args = self.static_args.copy()
EnterRunTests ==
  /\ pc = "run"
  /\ step = "enter"
  /\ Len(passMats) < Len(Structs)
  /\ args' = [f \in Flags |-> IF f \in DOMAIN StaticArgs THEN StaticArgs[f] ELSE None]
  /\ results' = <<>>
  /\ runResults' = <<>>
  /\ step' = "point"
  /\ UNCHANGED <<pc, exitStatus, ci, passMats, raw, averages, stored, replayed>>

\* the loop body up to run_test: set the varying flag and the width
\* (args['-n'] raises KeyError, status 1, when -n is absent)
StartPoint ==
  /\ pc = "run"
  /\ step = "point"
  /\ Len(results) < Runs
  /\ Len(runResults) < Len(Points)
  /\ LET withVar == [args EXCEPT ![Varying] = Points[Len(runResults) + 1]]
     IN  IF WidthRatio # None /\ withVar["-n"] = None
           THEN /\ Exit(1)
                /\ UNCHANGED <<args, step>>
           ELSE /\ args' = IF WidthRatio = None THEN withVar
                           ELSE [withVar EXCEPT !["-w"] = WidthRatio * withVar["-n"]]
                /\ step' = "call"
                /\ UNCHANGED <<pc, exitStatus>>
  /\ UNCHANGED <<ci, runResults, results, passMats, raw, averages, stored, replayed>>

(***************************************************************************)
(* Bench.run_test: one call of the binary.  An exception ends the program  *)
(* with exit(e); both metrics found give the pair; a missing metric calls  *)
(* exit(0), whose SystemExit is not an Exception and passes the handler;   *)
(* with one tracked metric float(tracked1, None) raises TypeError, caught  *)
(* and turned into exit(e).                                                *)
(***************************************************************************)
Call(o) ==
  /\ pc = "run"
  /\ step = "call"
  /\ CASE o.status # "ok" ->
            Exit(1) /\ UNCHANGED <<step, runResults>>
       [] TrackSecond # None /\ o.tracked1 /\ o.tracked2 ->
            /\ runResults' = Append(runResults, <<Metric(Position, 1), Metric(Position, 2)>>)
            /\ step' = "point"
            /\ UNCHANGED <<pc, exitStatus>>
       [] TrackSecond = None /\ o.tracked1 ->
            Exit(1) /\ UNCHANGED <<step, runResults>>
       [] OTHER ->
            Exit(0) /\ UNCHANGED <<step, runResults>>
  /\ UNCHANGED <<ci, args, results, passMats, raw, averages, stored, replayed>>

\* results.append(run_results)
EndRun ==
  /\ pc = "run"
  /\ step = "point"
  /\ Len(results) < Runs
  /\ Len(runResults) = Len(Points)
  /\ results' = Append(results, runResults)
  /\ runResults' = <<>>
  /\ UNCHANGED <<pc, exitStatus, ci, step, args, passMats, raw, averages,
                 stored, replayed>>

\* return np.array(results), stacked with the other structures' results
EndRunTests ==
  /\ pc = "run"
  /\ step = "point"
  /\ Len(results) = Runs
  /\ passMats' = Append(passMats, results)
  /\ step' = "enter"
  /\ UNCHANGED <<pc, exitStatus, ci, args, runResults, results, raw, averages,
                 stored, replayed>>

\* mutant: the metric and point axes are left unswapped
EndPassNoTranspose ==
  /\ pc = "run"
  /\ step = "enter"
  /\ Len(passMats) = Len(Structs)
  /\ raw' = passMats
  /\ averages' = TrialColumns4(passMats)
  /\ pc' = "evaluated"
  /\ UNCHANGED <<exitStatus, ci, step, args, runResults, results, passMats,
                 stored, replayed>>

\* the rest of Bench.evaluate: transpose to [struct][trial][metric][point]
\* and reduce over the trial axis
EndPass ==
  /\ pc = "run"
  /\ step = "enter"
  /\ Len(passMats) = Len(Structs)
  /\ raw' = SwapLastAxes(passMats, 2)
  /\ averages' = TrialColumns4(SwapLastAxes(passMats, 2))
  /\ pc' = "evaluated"
  /\ UNCHANGED <<exitStatus, ci, step, args, runResults, results, passMats,
                 stored, replayed>>

\* Bench.save_data
SaveData ==
  /\ pc = "evaluated"
  /\ IF Save THEN /\ stored' = raw
                  /\ pc' = "saved"
             ELSE /\ pc' = "done"
                  /\ UNCHANGED stored
  /\ UNCHANGED <<exitStatus, ci, step, args, runResults, results, passMats,
                 raw, averages, replayed>>

\* main with --old_bench: raw_data.mean(axis=1), raw_data.std(axis=1)
ReplayAverages(st) == TrialColumns4(st)

Replot ==
  /\ pc = "saved"
  /\ replayed' = ReplayAverages(stored)
  /\ pc' = "replayed"
  /\ UNCHANGED <<exitStatus, ci, step, args, runResults, results, passMats,
                 raw, averages, stored>>

Terminated ==
  /\ pc \in {"done", "replayed", "exited"}
  /\ UNCHANGED vars

Next ==
  \/ CompileStruct
  \/ CompileDone
  \/ EnterRunTests
  \/ StartPoint
  \/ \E o \in Outcomes : Call(o)
  \/ EndRun
  \/ EndRunTests
  \/ EndPass
  \/ SaveData
  \/ Replot
  \/ Terminated

Spec == Init /\ [][Next]_vars

-----------------------------------------------------------------------------
(***************************************************************************)
(* Spec 3 and 5: the stored tensor is complete and indexed [structure,     *)
(* trial, metric, point] in loop order: cell [s][t][c][p] holds metric c   *)
(* printed by the call for structure s, trial t, point p.  This is what    *)
(* the transpose in evaluate is for.                                       *)
(***************************************************************************)
StoredLayoutAsSpec ==
  stored # None =>
    /\ DOMAIN stored = 1..Len(Structs)
    /\ \A s \in DOMAIN stored :
         /\ DOMAIN stored[s] = 1..Runs
         /\ \A t \in 1..Runs :
              /\ DOMAIN stored[s][t] = 1..2
              /\ \A c \in 1..2 :
                   /\ DOMAIN stored[s][t][c] = 1..Len(Points)
                   /\ \A p \in 1..Len(Points) :
                        stored[s][t][c][p] = Metric(<<s, t, p>>, c)

(***************************************************************************)
(* Spec 7: a ParseError is fatal; the experiment aborts rather than        *)
(* completing, and a program that ends without completing its experiment   *)
(* reports failure through a non-zero exit status.                         *)
(***************************************************************************)
FailureExitStatus ==
  pc = "exited" => exitStatus # 0

=============================================================================
