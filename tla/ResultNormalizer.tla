-------------------------- MODULE ResultNormalizer --------------------------
(***************************************************************************)
(* The relative rescaling at the top of Bench.plot in                      *)
(* src/scripts/benchmark-graph.py (lines 184-207): pick the baseline LCRQ, *)
(* express every time series as speedup over the baseline's first point    *)
(* and every work series as a ratio to the global minimum work, rescaling  *)
(* the standard deviations alongside.  The code updates the numpy arrays   *)
(* in place, one (structure, point) cell per loop iteration; the model     *)
(* takes one step per iteration so that what a later iteration reads is    *)
(* what an earlier one wrote.                                              *)
(*                                                                         *)
(* Floats are modelled as exact rationals <<numerator, denominator>>;      *)
(* rounding is not modelled.  Index 1 of the metric axis is track_first    *)
(* (time), index 2 is track_second (work).                                 *)
(***************************************************************************)
EXTENDS Integers, Sequences, FiniteSets

CONSTANTS
  StructLists,  \* candidate values of self.structs (sequences of names)
  LcrqNames,    \* the names in which 'lcrq' occurs
  DcbNames,     \* the names in which 'dcb' occurs
  NameLen,      \* len() of each name
  NumPoints,    \* len(self.var_points())
  Means,        \* positive integers a mean may take
  Devs          \* integers a standard deviation may take

ASSUME Means \subseteq Nat \ {0}
ASSUME NumPoints \in Nat \ {0}

VARIABLES
  structs,    \* self.structs
  inAvg,      \* the averages handed to plot (kept for the properties)
  inStd,      \* the stds handed to plot (kept for the properties)
  averages,   \* the averages array, rescaled in place
  stds,       \* the stds array, rescaled in place
  lcrqInd,    \* lcrq_ind
  warned,     \* whether the missing-baseline warning was printed
  lcrqTime,   \* lcrq_time
  baseWork,   \* base_work
  ds,         \* loop index over structures
  conf,       \* loop index over sweep points
  phase       \* "select", "time", "work", "done"

vars == <<structs, inAvg, inStd, averages, stds, lcrqInd, warned, lcrqTime,
          baseWork, ds, conf, phase>>

\* numpy floats as rationals
Rat(n) == <<n, 1>>
RDiv(a, b) == <<a[1] * b[2], a[2] * b[1]>>
RMul(a, b) == <<a[1] * b[1], a[2] * b[2]>>
REq(a, b) == a[1] * b[2] = b[1] * a[2]
RLeq(a, b) == a[1] * b[2] <= b[1] * a[2]

\* the cells [ds, metric, conf] of the averages and stds arrays
Cells(sl) == (1..Len(sl)) \X (1..2) \X (1..NumPoints)

\* np.min over a set of values
RMin(S) == CHOOSE x \in S : \A y \in S : RLeq(x, y)

TypeOK ==
  /\ structs \in StructLists
  /\ phase \in {"select", "time", "work", "done"}
  /\ lcrqInd \in 0..Len(structs)
  /\ warned \in BOOLEAN
  /\ ds \in 1..(Len(structs) + 1)
  /\ conf \in 1..NumPoints

\* the averages and stds evaluate computed (or replay loaded)
Init ==
  /\ structs \in StructLists
  /\ averages \in [Cells(structs) -> {Rat(m) : m \in Means}]
  /\ stds \in [Cells(structs) -> {Rat(d) : d \in Devs}]
  /\ inAvg = averages
  /\ inStd = stds
  /\ lcrqInd = 0
  /\ warned = FALSE
  /\ lcrqTime = Rat(0)
  /\ baseWork = Rat(0)
  /\ ds = 1
  /\ conf = 1
  /\ phase = "select"

\* the next (ds, conf) of the nested for loops
Advance ==
  IF conf < NumPoints THEN /\ conf' = conf + 1
                           /\ UNCHANGED ds
                      ELSE /\ conf' = 1
                           /\ ds' = ds + 1

(***************************************************************************)
(* filtered_structs: the names containing 'lcrq' but not 'dcb'; none: the  *)
(* first structure, with a warning; else min by len, which returns the     *)
(* first of equally short names.  lcrq_time = averages[lcrq_ind, 0, 0].    *)
(***************************************************************************)
SelectBaseline ==
  /\ phase = "select"
  /\ LET F == {i \in 1..Len(structs) : structs[i] \in LcrqNames \ DcbNames}
         b == IF F = {} THEN 1
              ELSE CHOOSE i \in F :
                     \A j \in F : \/ NameLen[structs[i]] < NameLen[structs[j]]
                                  \/ NameLen[structs[i]] = NameLen[structs[j]] /\ i <= j
     IN  /\ lcrqInd' = b
         /\ warned' = (F = {})
         /\ lcrqTime' = averages[<<b, 1, 1>>]
  /\ phase' = "time"
  /\ UNCHANGED <<structs, inAvg, inStd, averages, stds, baseWork, ds, conf>>

\* mutant: lcrq_time is re-read from the array at every iteration
TimeStepRereadBaseline ==
  /\ phase = "time"
  /\ ds <= Len(structs)
  /\ LET c == <<ds, 1, conf>>
         t == averages[<<lcrqInd, 1, 1>>]
     IN  /\ stds' = [stds EXCEPT ![c] = RMul(RDiv(stds[c], averages[c]), RDiv(t, averages[c]))]
         /\ averages' = [averages EXCEPT ![c] = RDiv(t, averages[c])]
  /\ Advance
  /\ UNCHANGED <<structs, inAvg, inStd, lcrqInd, warned, lcrqTime, baseWork, phase>>

\* mutant: the mean is rescaled before the std that divides by it
TimeStepMeanFirst ==
  /\ phase = "time"
  /\ ds <= Len(structs)
  /\ LET c == <<ds, 1, conf>>
         a == RDiv(lcrqTime, averages[c])
     IN  /\ averages' = [averages EXCEPT ![c] = a]
         /\ stds' = [stds EXCEPT ![c] = RMul(RDiv(stds[c], a), RDiv(lcrqTime, a))]
  /\ Advance
  /\ UNCHANGED <<structs, inAvg, inStd, lcrqInd, warned, lcrqTime, baseWork, phase>>

\* stds[ds,0,conf] = stds[ds,0,conf] / averages[ds,0,conf] * lcrq_time/averages[ds,0,conf]
\* averages[ds,0,conf] = lcrq_time/averages[ds,0,conf]
TimeStep ==
  /\ phase = "time"
  /\ ds <= Len(structs)
  /\ LET c == <<ds, 1, conf>>
     IN  /\ stds' = [stds EXCEPT ![c] = RMul(RDiv(stds[c], averages[c]), RDiv(lcrqTime, averages[c]))]
         /\ averages' = [averages EXCEPT ![c] = RDiv(lcrqTime, averages[c])]
  /\ Advance
  /\ UNCHANGED <<structs, inAvg, inStd, lcrqInd, warned, lcrqTime, baseWork, phase>>

\* the time loop ends; base_work = np.min(averages[:,1,:])
TimeEnd ==
  /\ phase = "time"
  /\ ds > Len(structs)
  /\ baseWork' = RMin({averages[<<s, 2, p>>] : s \in 1..Len(structs), p \in 1..NumPoints})
  /\ ds' = 1
  /\ conf' = 1
  /\ phase' = "work"
  /\ UNCHANGED <<structs, inAvg, inStd, averages, stds, lcrqInd, warned, lcrqTime>>

\* stds[ds,1,conf] /= base_work; averages[ds,1,conf] /= base_work
WorkStep ==
  /\ phase = "work"
  /\ ds <= Len(structs)
  /\ LET c == <<ds, 2, conf>>
     IN  /\ stds' = [stds EXCEPT ![c] = RDiv(stds[c], baseWork)]
         /\ averages' = [averages EXCEPT ![c] = RDiv(averages[c], baseWork)]
  /\ Advance
  /\ UNCHANGED <<structs, inAvg, inStd, lcrqInd, warned, lcrqTime, baseWork, phase>>

WorkEnd ==
  /\ phase = "work"
  /\ ds > Len(structs)
  /\ phase' = "done"
  /\ UNCHANGED <<structs, inAvg, inStd, averages, stds, lcrqInd, warned, lcrqTime,
                 baseWork, ds, conf>>

\* the arrays are handed to the plotting code
Normalized ==
  /\ phase = "done"
  /\ UNCHANGED vars

Next ==
  \/ SelectBaseline
  \/ TimeStep
  \/ TimeEnd
  \/ WorkStep
  \/ WorkEnd
  \/ Normalized

Spec == Init /\ [][Next]_vars

-----------------------------------------------------------------------------
\* the structures of the baseline family (section 4.6), and the shortest
\* of them
Family(sl) == {i \in 1..Len(sl) : sl[i] \in LcrqNames \ DcbNames}
SpecBaselines(sl) ==
  IF Family(sl) = {} THEN {1}
  ELSE {i \in Family(sl) : \A j \in Family(sl) : NameLen[sl[i]] <= NameLen[sl[j]]}

(***************************************************************************)
(* Section 4.6: after plot's rescaling, for a baseline that is a shortest  *)
(* member of the baseline family (the first structure, with a warning,     *)
(* when there is none), every time mean is the baseline's mean at the      *)
(* first point divided by the structure's own mean, every work mean is the *)
(* structure's work divided by the minimum work of all structures and      *)
(* points, and every standard deviation keeps its relative width (std      *)
(* divided by mean is what it was).  The in-place loops must read the      *)
(* baseline before overwriting it and each std before its mean changes.    *)
(***************************************************************************)
NormalizedAsSpec ==
  phase = "done" =>
    LET minWork == RMin({inAvg[<<s, 2, p>>] : s \in 1..Len(structs), p \in 1..NumPoints})
    IN  /\ warned = (Family(structs) = {})
        /\ \E ref \in SpecBaselines(structs) :
             \A s \in 1..Len(structs), p \in 1..NumPoints :
               LET t == <<s, 1, p>>
                   w == <<s, 2, p>>
               IN  /\ REq(averages[t], RDiv(inAvg[<<ref, 1, 1>>], inAvg[t]))
                   /\ REq(RDiv(stds[t], averages[t]), RDiv(inStd[t], inAvg[t]))
                   /\ REq(averages[w], RDiv(inAvg[w], minWork))
                   /\ REq(RDiv(stds[w], averages[w]), RDiv(inStd[w], inAvg[w]))

=============================================================================
