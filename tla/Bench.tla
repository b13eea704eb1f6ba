------------------------------- MODULE Bench -------------------------------
(***************************************************************************)
(* The experiment driver of src/scripts/benchmark.py: Bench.compile,       *)
(* Bench.evaluate, Bench.run_tests, Bench.run_test, Bench.save_data and    *)
(* the replay branch of main.  The program is sequential; its steps are    *)
(* the builds, the argument updates of the sweep loop and the calls of the *)
(* benchmarked binary, whose outcome (exit, output) is chosen by the       *)
(* environment.  A sample is a record of where and how it was measured,    *)
(* not a number: the properties are about which measurement lands in which *)
(* cell of the tensors, and mean/std are functions of a trial column.      *)
(***************************************************************************)
EXTENDS Integers, Sequences, FiniteSets, Tensors

CONSTANTS
  Structs,            \* self.structs: sequence of structure names
  StrictStructs,      \* STRICT_STRUCTS
  Runs,               \* self.runs (trials)
  Points,             \* the list self.var_points() returns
  StaticArgs,         \* self.static_args: flag -> value, None entries removed
  Varying,            \* the flag f'-{self.varying}'
  WidthRatio,         \* self.width_ratio: a number or None
  Errors,             \* self.errors: None, "lock", "timer" or another string
  RelaxationDuration, \* self.relaxation_duration: a number or None
  AllowNull,          \* self.allow_null
  Save,               \* self.save (not --nosave)
  Outcomes,           \* what one call of a binary can end with
  BuildFails,         \* whether `make <struct>` may fail
  MaxFailures,        \* bound on rejected calls in one behaviour
  None,               \* Python's None (a model value)
  MaxSizeArg          \* the -r value 2**31 run_tests forces in a relaxation
                      \* run (a model value: it is outside TLC's integers)

Flags == DOMAIN StaticArgs \cup {Varying, "-n", "-w", "-d", "-r"}

\* for i in range(6)
MaxAttempts == 6

OutcomeType == [status : {"ok", "timeout", "error"}, nulls : BOOLEAN, tracked : BOOLEAN]

ASSUME Runs \in Nat \ {0}
ASSUME Outcomes \subseteq OutcomeType
ASSUME MaxFailures \in Nat

VARIABLES
  pc,           \* "compile", "normal", "relaxCompile", "relax", "evaluated",
                \* "saved", "done", "replayed", "aborted"
  ci,           \* index of the next structure the compile loop builds
  built,        \* structure -> build of bin/<struct>: "none", "normal", "relax"
  step,         \* inside run_tests: "enter", "point" (loop body), "call" (run_test)
  args,         \* the argument dict of the current run_tests call
  attempt,      \* calls of the binary made by the current run_test
  runResults,   \* run_results of the current trial
  results,      \* results of the current structure
  passMats,     \* the structures' results of the current pass
  matrices,     \* the normal pass: [struct][trial][point]
  raw,          \* evaluate's raw tensor: [ndim |-> 3 or 4, data |-> ...]
  averages,     \* evaluate's averages, as the trial columns they are taken over
  stored,       \* the content of raw_data.npy, or None
  replayed,     \* the averages main computes from raw_data.npy on replay
  rejections,   \* the rejected calls so far: where, and in which pass
  lastOutcome   \* outcome of the latest call of a binary, or None

vars == <<pc, ci, built, step, args, attempt, runResults, results, passMats,
          matrices, raw, averages, stored, replayed, rejections, lastOutcome>>

StructNames == {Structs[i] : i \in DOMAIN Structs}
Channel == IF pc \in {"relaxCompile", "relax"} THEN "relax" ELSE "normal"
Struct == Structs[Len(passMats) + 1]
Position == <<Len(passMats) + 1, Len(results) + 1, Len(runResults) + 1>>

Sample ==
  [at : (1..Len(Structs)) \X (1..Runs) \X (1..Len(Points)),
   chan : {"normal", "relax"},
   build : {"none", "normal", "relax", "sentinel"},
   out : Outcomes \cup {None},
   args : [Flags -> Int \cup {MaxSizeArg, None}]]

TypeOK ==
  /\ pc \in {"compile", "normal", "relaxCompile", "relax", "evaluated",
             "saved", "done", "replayed", "aborted"}
  /\ ci \in 1..(Len(Structs) + 1)
  /\ built \in [StructNames -> {"none", "normal", "relax"}]
  /\ step \in {"enter", "point", "call"}
  /\ args \in [Flags -> Int \cup {MaxSizeArg, None}]
  /\ attempt \in 0..MaxAttempts
  /\ runResults \in Seq(Sample)
  /\ results \in Seq(Seq(Sample))
  /\ passMats \in Seq(Seq(Seq(Sample)))
  /\ rejections \in Seq([at : (1..Len(Structs)) \X (1..Runs) \X (1..Len(Points)),
                          chan : {"normal", "relax"}])
  /\ Len(rejections) <= MaxFailures
  /\ lastOutcome \in Outcomes \cup {None}

-----------------------------------------------------------------------------
\* mutant: the relaxation run does not apply its overrides
InitialArgsNoOverride(relaxationRun) ==
  [f \in Flags |-> IF f \in DOMAIN StaticArgs THEN StaticArgs[f] ELSE None]

\* self.static_args.copy(), with the relaxation overrides of run_tests
InitialArgs(relaxationRun) ==
  [f \in Flags |->
     CASE relaxationRun /\ RelaxationDuration # None /\ f = "-d" -> RelaxationDuration
       [] relaxationRun /\ RelaxationDuration # None /\ f = "-r" -> MaxSizeArg
       [] f \in DOMAIN StaticArgs -> StaticArgs[f]
       [] OTHER -> None]

\* mutant: a call reporting nulls is accepted even without --allow_null
AcceptedIgnoringNulls(o, chan, build) ==
  /\ o.status = "ok"
  /\ o.tracked
  /\ chan = "normal" \/ build = "relax"

\* mutant: the metric is not looked for before returning
AcceptedUnparsed(o, chan, build) ==
  /\ o.status = "ok"
  /\ AllowNull \/ ~o.nulls
  /\ chan = "normal" \/ build = "relax"

\* a call is accepted by run_test: no exception, no nulls unless allowed,
\* and the tracked metric in the output (a relaxation run tracks
\* mean_relaxation, which only a RELAXATION_ANALYSIS build prints)
Accepted(o, chan, build) ==
  /\ o.status = "ok"
  /\ AllowNull \/ ~o.nulls
  /\ o.tracked
  /\ chan = "normal" \/ build = "relax"

-----------------------------------------------------------------------------
Init ==
  /\ pc = "compile"
  /\ ci = 1
  /\ built = [s \in StructNames |-> "none"]
  /\ step = "enter"
  /\ args = InitialArgs(FALSE)
  /\ attempt = 0
  /\ runResults = <<>>
  /\ results = <<>>
  /\ passMats = <<>>
  /\ matrices = <<>>
  /\ raw = None
  /\ averages = None
  /\ stored = None
  /\ replayed = None
  /\ rejections = <<>>
  /\ lastOutcome = None

(***************************************************************************)
(* Bench.compile(relaxation_errors): `make <struct>` for every structure,  *)
(* skipping strict ones when measuring relaxation; RELAXATION_ANALYSIS is  *)
(* only set for "lock" and "timer".  A failed make ends the program.       *)
(***************************************************************************)
CompileStruct ==
  /\ pc \in {"compile", "relaxCompile"}
  /\ ci <= Len(Structs)
  /\ LET s == Structs[ci]
         kind == IF pc = "relaxCompile" /\ Errors \in {"lock", "timer"}
                   THEN "relax" ELSE "normal"
     IN  IF pc = "relaxCompile" /\ s \in StrictStructs
           THEN /\ ci' = ci + 1
                /\ UNCHANGED <<pc, built>>
           ELSE \/ /\ built' = [built EXCEPT ![s] = kind]
                   /\ ci' = ci + 1
                   /\ UNCHANGED pc
                \/ /\ BuildFails
                   /\ pc' = "aborted"
                   /\ UNCHANGED <<ci, built>>
  /\ UNCHANGED <<step, args, attempt, runResults, results, passMats, matrices,
                 raw, averages, stored, replayed, rejections, lastOutcome>>

CompileDone ==
  /\ pc \in {"compile", "relaxCompile"}
  /\ ci > Len(Structs)
  /\ pc' = IF pc = "compile" THEN "normal" ELSE "relax"
  /\ ci' = 1
  /\ UNCHANGED <<built, step, args, attempt, runResults, results, passMats,
                 matrices, raw, averages, stored, replayed, rejections, lastOutcome>>

(***************************************************************************)
(* Bench.run_tests(struct, track, relaxation_run): copy the static         *)
(* arguments, apply the relaxation overrides.                              *)
(***************************************************************************)
EnterRunTests ==
  /\ pc \in {"normal", "relax"}
  /\ step = "enter"
  /\ Len(passMats) < Len(Structs)
  /\ args' = InitialArgs(pc = "relax")
  /\ results' = <<>>
  /\ runResults' = <<>>
  /\ step' = "point"
  /\ UNCHANGED <<pc, ci, built, attempt, passMats, matrices, raw, averages,
                 stored, replayed, rejections, lastOutcome>>

(***************************************************************************)
(* One iteration of `for var in self.var_points()`: set the varying flag,  *)
(* recompute -w from -n when a width ratio is given (KeyError when -n is   *)
(* absent), and call run_test, which returns 0.0 at once for a strict      *)
(* structure in a relaxation run.                                          *)
(***************************************************************************)
StartPoint ==
  /\ pc \in {"normal", "relax"}
  /\ step = "point"
  /\ Len(results) < Runs
  /\ Len(runResults) < Len(Points)
  /\ LET withVar == [args EXCEPT ![Varying] = Points[Len(runResults) + 1]]
     IN  IF WidthRatio # None /\ withVar["-n"] = None
           THEN /\ pc' = "aborted"
                /\ UNCHANGED <<args, step, attempt, runResults>>
           ELSE LET new == IF WidthRatio = None THEN withVar
                           ELSE [withVar EXCEPT !["-w"] = WidthRatio * withVar["-n"]]
                IN  /\ args' = new
                    /\ IF pc = "relax" /\ Struct \in StrictStructs
                         THEN /\ runResults' = Append(runResults,
                                   [at |-> Position, chan |-> "relax",
                                    build |-> "sentinel", out |-> None, args |-> new])
                              /\ UNCHANGED <<step, attempt>>
                         ELSE /\ step' = "call"
                              /\ attempt' = 0
                              /\ UNCHANGED runResults
                    /\ UNCHANGED pc
  /\ UNCHANGED <<ci, built, results, passMats, matrices, raw, averages, stored,
                 replayed, rejections, lastOutcome>>

\* mutant: the program gives up only after a seventh rejected call
AttemptGiveUpLate(o) ==
  /\ pc \in {"normal", "relax"}
  /\ step = "call"
  /\ lastOutcome' = o
  /\ IF Accepted(o, Channel, built[Struct])
       THEN /\ runResults' = Append(runResults,
                 [at |-> Position, chan |-> Channel, build |-> built[Struct],
                  out |-> o, args |-> args])
            /\ step' = "point"
            /\ UNCHANGED <<pc, attempt, rejections>>
       ELSE /\ Len(rejections) < MaxFailures
            /\ rejections' = Append(rejections, [at |-> Position, chan |-> Channel])
            /\ attempt' = attempt + 1
            /\ IF attempt + 1 > MaxAttempts
                 THEN pc' = "aborted"
                 ELSE UNCHANGED pc
            /\ UNCHANGED <<step, runResults>>
  /\ UNCHANGED <<ci, built, args, results, passMats, matrices, raw, averages,
                 stored, replayed>>

(***************************************************************************)
(* One pass of the retry loop of Bench.run_test: call the binary; an       *)
(* exception (timeout, non-zero exit), reported nulls (unless allowed) or  *)
(* an unparsable output goes on to the next attempt; the sixth rejected    *)
(* attempt ends the program with exit(1).                                 *)
(***************************************************************************)
Attempt(o) ==
  /\ pc \in {"normal", "relax"}
  /\ step = "call"
  /\ lastOutcome' = o
  /\ IF Accepted(o, Channel, built[Struct])
       THEN /\ runResults' = Append(runResults,
                 [at |-> Position, chan |-> Channel, build |-> built[Struct],
                  out |-> o, args |-> args])
            /\ step' = "point"
            /\ UNCHANGED <<pc, attempt, rejections>>
       ELSE /\ Len(rejections) < MaxFailures
            /\ rejections' = Append(rejections, [at |-> Position, chan |-> Channel])
            /\ attempt' = attempt + 1
            /\ IF attempt + 1 = MaxAttempts
                 THEN pc' = "aborted"
                 ELSE UNCHANGED pc
            /\ UNCHANGED <<step, runResults>>
  /\ UNCHANGED <<ci, built, args, results, passMats, matrices, raw, averages,
                 stored, replayed>>

\* run_results is complete: results.append(run_results)
EndRun ==
  /\ pc \in {"normal", "relax"}
  /\ step = "point"
  /\ Len(results) < Runs
  /\ Len(runResults) = Len(Points)
  /\ results' = Append(results, runResults)
  /\ runResults' = <<>>
  /\ UNCHANGED <<pc, ci, built, step, args, attempt, passMats, matrices, raw,
                 averages, stored, replayed, rejections, lastOutcome>>

\* return np.array(results), stacked with the other structures' results
EndRunTests ==
  /\ pc \in {"normal", "relax"}
  /\ step = "point"
  /\ Len(results) = Runs
  /\ passMats' = Append(passMats, results)
  /\ step' = "enter"
  /\ UNCHANGED <<pc, ci, built, args, attempt, runResults, results, matrices,
                 raw, averages, stored, replayed, rejections, lastOutcome>>

(***************************************************************************)
(* The rest of Bench.evaluate after a pass: averages over the trial axis;  *)
(* with --errors, rebuild and run the relaxation pass, then stack the two  *)
(* channels on axis 1 of the raw tensor and of the averages.               *)
(***************************************************************************)
EndPass ==
  /\ pc \in {"normal", "relax"}
  /\ step = "enter"
  /\ Len(passMats) = Len(Structs)
  /\ passMats' = <<>>
  /\ IF pc = "normal"
       THEN /\ matrices' = passMats
            /\ averages' = TrialColumns(passMats)
            /\ IF Errors # None
                 THEN /\ pc' = "relaxCompile"
                      /\ UNCHANGED raw
                 ELSE /\ pc' = "evaluated"
                      /\ raw' = [ndim |-> 3, data |-> passMats]
       ELSE /\ raw' = [ndim |-> 4, data |-> StackAxis1(matrices, passMats)]
            /\ averages' = StackAxis1(averages, TrialColumns(passMats))
            /\ pc' = "evaluated"
            /\ UNCHANGED matrices
  /\ UNCHANGED <<ci, built, step, args, attempt, runResults, results, stored,
                 replayed, rejections, lastOutcome>>

(***************************************************************************)
(* Bench.save_data: when saving, mkdir, np.save the raw tensor, pickle the *)
(* bench and dump its fields.                                              *)
(***************************************************************************)
SaveData ==
  /\ pc = "evaluated"
  /\ IF Save THEN /\ stored' = raw
                  /\ pc' = "saved"
             ELSE /\ pc' = "done"
                  /\ UNCHANGED stored
  /\ UNCHANGED <<ci, built, step, args, attempt, runResults, results, passMats,
                 matrices, raw, averages, replayed, rejections, lastOutcome>>

(***************************************************************************)
(* main with --old_bench: np.load the raw tensor and recompute the         *)
(* averages; a 4-dimensional tensor is split on axis 1 first.              *)
(***************************************************************************)
\* mutant: the 4-dimensional tensor is averaged over axis 1 unsplit
ReplayAveragesNoSplit(st) == TrialColumns(st.data)

ReplayAverages(st) ==
  IF st.ndim = 4
    THEN StackAxis1(TrialColumns(ChannelSlice(st.data, 1)),
                    TrialColumns(ChannelSlice(st.data, 2)))
    ELSE TrialColumns(st.data)

Replot ==
  /\ pc = "saved"
  /\ replayed' = ReplayAverages(stored)
  /\ pc' = "replayed"
  /\ UNCHANGED <<ci, built, step, args, attempt, runResults, results, passMats,
                 matrices, raw, averages, stored, rejections, lastOutcome>>

\* the program has exited
Terminated ==
  /\ pc \in {"done", "replayed", "aborted"}
  /\ UNCHANGED vars

Next ==
  \/ CompileStruct
  \/ CompileDone
  \/ EnterRunTests
  \/ StartPoint
  \/ \E o \in Outcomes : Attempt(o)
  \/ EndRun
  \/ EndRunTests
  \/ EndPass
  \/ SaveData
  \/ Replot
  \/ Terminated

Spec == Init /\ [][Next]_vars


-----------------------------------------------------------------------------
(***************************************************************************)
(* Properties.                                                             *)
(***************************************************************************)
ChannelName == <<"normal", "relax">>

\* x is the sample of structure s, trial t, point p of channel c: measured
\* there, on the build of its channel, from a call that exited normally and
\* printed the metric, without nulls unless --allow_null; a strict
\* structure's relaxation cell is the 0.0 sentinel
Measured(x, s, t, p, c) ==
  /\ x.at = <<s, t, p>>
  /\ x.chan = c
  /\ IF c = "relax" /\ Structs[s] \in StrictStructs
       THEN x.build = "sentinel"
       ELSE /\ x.build = c
            /\ x.out.status = "ok"
            /\ x.out.tracked
            /\ AllowNull \/ ~x.out.nulls

\* a complete [struct][trial][point] tensor of channel c
Complete(m, c) ==
  /\ DOMAIN m = 1..Len(Structs)
  /\ \A s \in DOMAIN m :
       /\ DOMAIN m[s] = 1..Runs
       /\ \A t \in 1..Runs :
            /\ DOMAIN m[s][t] = 1..Len(Points)
            /\ \A p \in 1..Len(Points) : Measured(m[s][t][p], s, t, p, c)

(***************************************************************************)
(* What save_data persists is the whole experiment in loop order: every    *)
(* (structure, trial, point) cell, of both channels with --errors, holds   *)
(* the sample measured at that position on that channel's build from an   *)
(* accepted output, strict structures' relaxation cells holding the        *)
(* sentinel.  Breaks if the relaxation rebuild overtakes the normal pass,  *)
(* a rejected output is kept, or the loops misplace a result.              *)
(***************************************************************************)
StoredTensorFaithful ==
  stored # None =>
    IF Errors # None
      THEN /\ stored.ndim = 4
           /\ DOMAIN stored.data = 1..Len(Structs)
           /\ \A s \in DOMAIN stored.data : DOMAIN stored.data[s] = 1..2
           /\ Complete(ChannelSlice(stored.data, 1), "normal")
           /\ Complete(ChannelSlice(stored.data, 2), "relax")
      ELSE /\ stored.ndim = 3
           /\ Complete(stored.data, "normal")

\* the command line a sample at point p was measured with: the varying flag
\* at the point, and the width from the ratio unless the width is what varies
\* (the --varying help: it "overwrites set values")
CommandLineOK(x, p) ==
  x.build # "sentinel" =>
    /\ x.args[Varying] = Points[p]
    /\ WidthRatio # None /\ Varying # "-w" => x.args["-w"] = WidthRatio * x.args["-n"]
    /\ x.chan = "relax" /\ RelaxationDuration # None /\ Varying \notin {"-d", "-r"}
         => x.args["-d"] = RelaxationDuration /\ x.args["-r"] = MaxSizeArg

(***************************************************************************)
(* Every call of a binary in the sweep loop (run_tests mutates one         *)
(* argument dict in place across points and trials) passes the current    *)
(* sweep point for the varying flag, a width equal to the width ratio      *)
(* times the thread count of that same call (unless the sweep is over the *)
(* width, which the varying flag overwrites), and, in a relaxation run with *)
(* --relaxation_duration, the duration override and the 2**31 size.       *)
(***************************************************************************)
ArgsMatchPoint ==
  \A i \in DOMAIN runResults : CommandLineOK(runResults[i], i)

(***************************************************************************)
(* Replaying a stored experiment (main --old_bench) recomputes the mean    *)
(* and std from exactly the trial columns evaluate took them over, for     *)
(* each structure, channel and point: the stored axis order and the        *)
(* replay's slicing agree.                                                 *)
(***************************************************************************)
ReplayFaithful ==
  pc = "replayed" => replayed = averages

\* the rejected calls of the binary for position a of pass c
RejectedAt(a, c) ==
  Cardinality({i \in DOMAIN rejections : rejections[i] = [at |-> a, chan |-> c]})

(***************************************************************************)
(* Spec 4.2 and 8 (anomaly retry): the retry budget of run_test is per     *)
(* measurement.  No measurement (structure, trial, point, pass) is ever    *)
(* rejected more than six times, and when the retry loop ends the program  *)
(* the measurement that ended it had been rejected exactly six times;      *)
(* rejections of earlier measurements, or of the same cell in the other    *)
(* pass, never count towards it.                                           *)
(***************************************************************************)
RetryAsSpec ==
  /\ \A i \in DOMAIN rejections :
       RejectedAt(rejections[i].at, rejections[i].chan) <= MaxAttempts
  /\ pc = "aborted" /\ step = "call" =>
       LET r == rejections[Len(rejections)] IN RejectedAt(r.at, r.chan) = MaxAttempts

(***************************************************************************)
(* Spec 4.2 and 7: a timeout and a missing metric (ParseError) are fatal   *)
(* to the experiment, never retried: once a call of the binary has timed   *)
(* out, or has printed a clean output without the tracked metric, the      *)
(* program has ended.  (Reported nulls are the anomaly the retry is for.)  *)
(***************************************************************************)
FatalErrorsAbort ==
  /\ lastOutcome # None
  /\ \/ lastOutcome.status = "timeout"
     \/ lastOutcome.status = "ok" /\ ~lastOutcome.nulls /\ ~lastOutcome.tracked
  => pc = "aborted"

\* a malformed configuration: an empty sweep (section 4.1), or an --errors
\* value that names no relaxation method (RELAXATION_ANALYSIS is LOCK or
\* TIMER, section 6)
ConfigError == Len(Points) = 0 \/ Errors \notin {None, "lock", "timer"}

(***************************************************************************)
(* Spec 4.1 and 7: a ConfigError is fatal and surfaced immediately: under  *)
(* a malformed configuration (an empty sweep, --errors other than lock or  *)
(* timer) Bench.compile builds nothing, no binary is called and no         *)
(* experiment is stored.                                                   *)
(***************************************************************************)
ConfigErrorSurfacedFirst ==
  ConfigError =>
    /\ \A s \in StructNames : built[s] = "none"
    /\ lastOutcome = None
    /\ stored = None

(***************************************************************************)
(* Spec 3: the raw tensor of a dual-metric experiment is indexed           *)
(* [structure, trial, channel, point].                                     *)
(***************************************************************************)
StoredLayoutAsSpec ==
  stored # None /\ stored.ndim = 4 =>
    \A s \in 1..Len(Structs) :
      /\ DOMAIN stored.data[s] = 1..Runs
      /\ \A t \in 1..Runs :
           /\ DOMAIN stored.data[s][t] = 1..2
           /\ \A c \in 1..2 : \A p \in DOMAIN stored.data[s][t][c] :
                /\ stored.data[s][t][c][p].at = <<s, t, p>>
                /\ stored.data[s][t][c][p].chan = ChannelName[c]

=============================================================================
