------------------------------ MODULE Tensors -------------------------------
(***************************************************************************)
(* The numpy operations of the two harnesses on tensors held as nested     *)
(* sequences (the outermost axis first).  A mean or a standard deviation   *)
(* over the trial axis is a function of the trial column it is taken       *)
(* over, so the reductions return those columns.                           *)
(***************************************************************************)
EXTENDS Naturals, Sequences

\* m.mean(axis=1), m.std(axis=1) of a [struct][trial][point] tensor
TrialColumns(m) ==
  [s \in DOMAIN m |-> [p \in DOMAIN m[s][1] |-> [t \in DOMAIN m[s] |-> m[s][t][p]]]]

\* m.mean(axis=1), m.std(axis=1) of a [struct][trial][metric][point] tensor
TrialColumns4(m) ==
  [s \in DOMAIN m |-> [c \in DOMAIN m[s][1] |-> [p \in DOMAIN m[s][1][c] |->
     [t \in DOMAIN m[s] |-> m[s][t][c][p]]]]]

\* np.stack([a, b], axis=1)
StackAxis1(a, b) == [s \in DOMAIN a |-> <<a[s], b[s]>>]

\* raw_data[:, c, :, :]
ChannelSlice(d, c) == [s \in DOMAIN d |-> d[s][c]]

\* np.transpose(m, (0, 1, 3, 2)) of a [struct][trial][point][metric] tensor
\* whose last axis has k entries
SwapLastAxes(m, k) ==
  [s \in DOMAIN m |-> [t \in DOMAIN m[s] |-> [c \in 1..k |->
     [p \in DOMAIN m[s][t] |-> m[s][t][p][c]]]]]

=============================================================================
