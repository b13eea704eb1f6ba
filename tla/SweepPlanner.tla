---------------------------- MODULE SweepPlanner ----------------------------
(***************************************************************************)
(* Bench.var_points (src/scripts/benchmark.py, lines 210-230; the same     *)
(* code is in src/scripts/benchmark-graph.py, lines 123-143): the ordered  *)
(* values of the varying argument of one experiment.  The three range      *)
(* based policies are single steps; the exponential policy is the while    *)
(* loop of the code, one iteration per step, so that a loop that never     *)
(* ends is a behaviour TLC can exhibit.                                    *)
(***************************************************************************)
EXTENDS Integers, Sequences, FiniteSets, SequencesExt

CONSTANTS
  Configs,    \* sweep configurations: records of the argparse fields
              \* start, to, step_size, exp_steps, include_start, athena_points
  MaxPoints   \* the doubling loop stops recording points past this many

ASSUME MaxPoints \in Nat \ {0}

VARIABLES
  cfg,        \* the Bench fields var_points reads
  pc,         \* "call", "loop" (inside the while loop), "done", "error"
  acc,        \* the loop variable of the exponential policy
  points      \* the list var_points builds and returns

vars == <<cfg, pc, acc, points>>

(***************************************************************************)
(* list(range(a, b, s)) for s # 0.                                         *)
(***************************************************************************)
RECURSIVE PyRange(_, _, _)
PyRange(a, b, s) ==
  IF (s > 0 /\ a < b) \/ (s < 0 /\ a > b)
    THEN <<a>> \o PyRange(a + s, b, s)
    ELSE <<>>

(***************************************************************************)
(* list(range(257))[::16] with its first element replaced by 1.            *)
(***************************************************************************)
AthenaList == [i \in 1..17 |-> IF i = 1 THEN 1 ELSE 16 * (i - 1)]

TypeOK ==
  /\ cfg \in Configs
  /\ pc \in {"call", "loop", "done", "error"}
  /\ acc \in Int
  /\ points \in Seq(Int)

Init ==
  /\ cfg \in Configs
  /\ pc = "call"
  /\ acc = 0
  /\ points = <<>>

\* if self.athena_points: points = list(range(257))[::16]; points[0] = 1
Athena ==
  /\ pc = "call"
  /\ cfg.athena_points
  /\ points' = AthenaList
  /\ pc' = "done"
  /\ UNCHANGED <<cfg, acc>>

\* mutant: `start` is appended even when the backward range ends on it
IncludeStartAlwaysAppend ==
  /\ pc = "call"
  /\ ~cfg.athena_points /\ ~cfg.exp_steps /\ cfg.include_start
  /\ LET back == PyRange(cfg.to, cfg.start - 1, -cfg.step_size)
     IN  IF cfg.step_size = 0 \/ back = <<>>
           THEN /\ pc' = "error"
                /\ UNCHANGED points
           ELSE /\ points' = Reverse(Append(back, cfg.start))
                /\ pc' = "done"
  /\ UNCHANGED <<cfg, acc>>

\* elif not self.exp_steps and self.include_start: step backwards from
\* `to`, append `start` unless the last value is it, reverse.  range()
\* raises ValueError for a zero step and points[-1] raises IndexError on
\* an empty list; both end var_points with an exception ("error").
IncludeStart ==
  /\ pc = "call"
  /\ ~cfg.athena_points /\ ~cfg.exp_steps /\ cfg.include_start
  /\ LET back == PyRange(cfg.to, cfg.start - 1, -cfg.step_size)
     IN  IF cfg.step_size = 0 \/ back = <<>>
           THEN /\ pc' = "error"
                /\ UNCHANGED points
           ELSE /\ points' = Reverse(IF Last(back) # cfg.start
                                       THEN Append(back, cfg.start)
                                       ELSE back)
                /\ pc' = "done"
  /\ UNCHANGED <<cfg, acc>>

\* elif not self.exp_steps: list(range(start, to + 1, step_size))
Linear ==
  /\ pc = "call"
  /\ ~cfg.athena_points /\ ~cfg.exp_steps /\ ~cfg.include_start
  /\ IF cfg.step_size = 0
       THEN /\ pc' = "error"
            /\ UNCHANGED points
       ELSE /\ points' = PyRange(cfg.start, cfg.to + 1, cfg.step_size)
            /\ pc' = "done"
  /\ UNCHANGED <<cfg, acc>>

\* else: acc = self.start; points = []
ExpStart ==
  /\ pc = "call"
  /\ ~cfg.athena_points /\ cfg.exp_steps
  /\ acc' = cfg.start
  /\ points' = <<>>
  /\ pc' = "loop"
  /\ UNCHANGED cfg

\* mutant: the loop variable is not doubled
ExpStepNoDouble ==
  /\ pc = "loop"
  /\ acc <= cfg.to
  /\ points' = IF Len(points) < MaxPoints THEN Append(points, acc) ELSE points
  /\ UNCHANGED <<cfg, pc, acc>>

\* while acc <= self.to: points.append(acc); acc *= 2
\* Past MaxPoints recorded points the step leaves the state unchanged, so a
\* loop that never ends is an infinite behaviour that never reaches "done".
ExpStep ==
  /\ pc = "loop"
  /\ acc <= cfg.to
  /\ IF Len(points) < MaxPoints
       THEN /\ points' = Append(points, acc)
            /\ acc' = acc * 2
       ELSE UNCHANGED <<points, acc>>
  /\ UNCHANGED <<cfg, pc>>

\* the loop condition fails: return points
ExpEnd ==
  /\ pc = "loop"
  /\ acc > cfg.to
  /\ pc' = "done"
  /\ UNCHANGED <<cfg, acc, points>>

\* var_points has returned or raised
Returned ==
  /\ pc \in {"done", "error"}
  /\ UNCHANGED vars

Next ==
  \/ Athena
  \/ IncludeStart
  \/ Linear
  \/ ExpStart
  \/ ExpStep
  \/ ExpEnd
  \/ Returned

Spec == Init /\ [][Next]_vars

\* var_points is plain sequential code: every enabled step is eventually taken.
FairSpec == Spec /\ WF_vars(Next)

-----------------------------------------------------------------------------
(***************************************************************************)
(* The sweep of section 4.1 of the specification, stated over sets.        *)
(***************************************************************************)
\* the elements of a finite set of integers in ascending order
SortedList(S) ==
  [i \in 1..Cardinality(S) |-> CHOOSE x \in S : Cardinality({y \in S : y < x}) = i - 1]

RefIsError(c) ==
  /\ ~c.athena_points /\ ~c.exp_steps /\ c.include_start
  /\ c.to < c.start

RefPoints(c) ==
  CASE c.athena_points ->
         SortedList({1} \cup {16 * k : k \in 1..16})
    [] ~c.exp_steps /\ c.include_start ->
         SortedList({c.start} \cup
                    ({c.to - k * c.step_size : k \in 0..(c.to - c.start)} \cap (c.start..c.to)))
    [] ~c.exp_steps ->
         SortedList({c.start + k * c.step_size : k \in 0..(c.to - c.start)} \cap (c.start..c.to))
    [] OTHER ->
         SortedList({c.start * 2^k : k \in 0..c.to} \cap (c.start..c.to))

(***************************************************************************)
(* When var_points returns, it has produced the sweep the specification    *)
(* describes for the configuration's policy: the Athena preset, the        *)
(* include-start sweep (stepped back from `to`, `start` added), the plain  *)
(* linear range, or the doubling sequence, each strictly ascending; and it *)
(* raises exactly when the include-start sweep would be empty.             *)
(***************************************************************************)
MatchesReference ==
  pc \in {"done", "error"} =>
    IF RefIsError(cfg) THEN pc = "error"
                       ELSE pc = "done" /\ points = RefPoints(cfg)

(***************************************************************************)
(* var_points always returns (or raises): the doubling loop of the         *)
(* exponential policy ends.                                                *)
(***************************************************************************)
Terminates == <>(pc \in {"done", "error"})

=============================================================================
