--------------------------- MODULE MCSweepPlanner ---------------------------
(***************************************************************************)
(* Every sweep configuration with start in 1..4, to in 0..10, step_size in *)
(* 1..3 and every combination of the three policy flags: the sweeps of the *)
(* specification's examples (start=3, to=10, step=3 include-start; start=1 *)
(* to=8 doubling), unaligned steps, start = to, and to < start.            *)
(***************************************************************************)
EXTENDS Presenter

ValidConfigs ==
  [start : 1..4, to : 0..10, step_size : 1..3,
   exp_steps : BOOLEAN, include_start : BOOLEAN, athena_points : BOOLEAN]

(***************************************************************************)
(* Doubling sweeps whose start is not positive (e.g. --start 0 for the     *)
(* relaxation bound -k, which argparse accepts).                           *)
(***************************************************************************)
NonPositiveExpConfigs ==
  [start : {-1, 0}, to : 0..4, step_size : {1},
   exp_steps : {TRUE}, include_start : {FALSE}, athena_points : {FALSE}]

=============================================================================
