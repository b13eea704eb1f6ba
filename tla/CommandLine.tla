---------------------------- MODULE CommandLine ----------------------------
(***************************************************************************)
(* The command line of both harnesses as new_bench turns it into a Bench:  *)
(* parse_args fills every option left off the command line with its       *)
(* default, new_bench drops the width ratio when --width is given, builds  *)
(* static_args from the program's flags and deletes the None entries, and  *)
(* run_tests varies the flag '-' + --varying.  The MC modules take the     *)
(* constants of Bench and BenchGraph from here, so that each model starts  *)
(* from a configuration a real command line produces.                      *)
(*                                                                         *)
(* A command line is a record of the options given; options that only     *)
(* select presentation (titles, labels, legend) are left out.              *)
(***************************************************************************)
EXTENDS Integers, Sequences, TLC

CONSTANT None

\* benchmark.py parse_args: the defaults of the options new_bench reads
BenchDefaults ==
  [initial |-> 2^17, width |-> None, depth |-> None, relaxation |-> None,
   put_rate |-> None, threads |-> None, duration |-> 500, side_work |-> None,
   mode |-> None, choice |-> None, width_ratio |-> None, varying |-> "n",
   relaxation_duration |-> None]

\* benchmark-graph.py parse_args: the same for the graph harness
GraphDefaults ==
  [graph_path |-> None, width |-> None, depth |-> None, relaxation |-> None,
   threads |-> None, mode |-> None, choice |-> None, root |-> None,
   width_ratio |-> None, varying |-> "n"]

\* the static_args dict literal of new_bench: program flag -> option
BenchFlags ==
  ("-i" :> "initial") @@ ("-w" :> "width") @@ ("-l" :> "depth") @@
  ("-k" :> "relaxation") @@ ("-p" :> "put_rate") @@ ("-n" :> "threads") @@
  ("-d" :> "duration") @@ ("-s" :> "side_work") @@ ("-m" :> "mode") @@
  ("-c" :> "choice")

GraphFlags ==
  ("-f" :> "graph_path") @@ ("-w" :> "width") @@ ("-l" :> "depth") @@
  ("-k" :> "relaxation") @@ ("-n" :> "threads") @@ ("-m" :> "mode") @@
  ("-c" :> "choice") @@ ("-r" :> "root")

\* argparse: the options given, the defaults for the rest
ParseArgs(defaults, given) ==
  [o \in DOMAIN defaults |-> IF o \in DOMAIN given THEN given[o] ELSE defaults[o]]

\* if args.width is not None: args.width_ratio = None
WidthRatioOf(args) == IF args.width # None THEN None ELSE args.width_ratio

\* static_args, with every entry whose value is None deleted
StaticArgsOf(flags, args) ==
  [f \in {g \in DOMAIN flags : args[flags[g]] # None} |-> args[flags[f]]]

\* f'-{self.varying}' in run_tests
VaryingFlag(args) == "-" \o args.varying

=============================================================================
