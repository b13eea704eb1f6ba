----------------------------- MODULE Presenter -----------------------------
(***************************************************************************)
(* The x axis of Bench.plot (src/scripts/benchmark.py 300-307; the same    *)
(* code is in src/scripts/benchmark-graph.py 226-232): plot calls          *)
(* var_points() again and labels the axis with a thinned copy of the list: *)
(* the last point is set aside, the others halved with [::2] while more    *)
(* than five remain, and the last point appended.  Composed here with the  *)
(* sweep planner whose list it thins.  The rest of plot draws curves and   *)
(* text and keeps no state.                                                *)
(***************************************************************************)
EXTENDS SweepPlanner

\* xticks[::2]
EveryOther(s) == [i \in 1..((Len(s) + 1) \div 2) |-> s[2 * i - 1]]

\* mutant: the loop also halves a list of exactly five
RECURSIVE ThinFiveOrMore(_)
ThinFiveOrMore(s) == IF Len(s) >= 5 THEN ThinFiveOrMore(EveryOther(s)) ELSE s

\* while len(xticks) > 5: xticks = xticks[::2]
RECURSIVE Thin(_)
Thin(s) == IF Len(s) > 5 THEN Thin(EveryOther(s)) ELSE s

\* last = xticks[-1]; xticks = xticks[:-1]; ...; xticks.append(last)
XTicks(pts) == Append(Thin(SubSeq(pts, 1, Len(pts) - 1)), pts[Len(pts)])

-----------------------------------------------------------------------------
\* the least k for which ceiling((n - 1) / 2^k) <= 5
Halvings(n) == CHOOSE k \in 0..n : (n - 1 + 2^k - 1) \div 2^k <= 5
                                   /\ \A j \in 0..(k - 1) : (n - 1 + 2^j - 1) \div 2^j > 5

\* the ticks in closed form: every 2^k-th point before the last, and the last
RefTicks(pts) ==
  LET n == Len(pts)
      d == 2^Halvings(n)
  IN  [i \in 1..((n - 2) \div d + 1) |-> pts[1 + (i - 1) * d]] \o <<pts[n]>>

(***************************************************************************)
(* The axis plot draws for a sweep shows its first point and its last      *)
(* point, at most six ticks in all, evenly spaced through var_points(),    *)
(* increasing: the while loop of plot agrees with the closed form above    *)
(* for every list the planner returns (an empty list never reaches here:   *)
(* xticks[-1] raises IndexError).                                          *)
(***************************************************************************)
TicksAsReference ==
  pc = "done" /\ points # <<>> =>
    /\ XTicks(points) = RefTicks(points)
    /\ Len(XTicks(points)) <= 6
    /\ \A i \in 1..(Len(XTicks(points)) - 1) : XTicks(points)[i] < XTicks(points)[i + 1]

=============================================================================
