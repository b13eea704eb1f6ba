\* Three harness runs, two of them under a name whose unstamped directory
\* already holds an earlier experiment, over two seconds of clock, with
\* runs that may be killed at any point before their last write, and a
\* replot that may name any directory.
CONSTANTS
  p1 = p1
  p2 = p2
  p3 = p3
  r1 = r1
  r2 = r2
  Replots = {r1}
  Procs = {p1, p2, p3}
  NameOf <- MCNameOf
  Names = {"queues", "bfs"}
  MaxTime = 1
  Earlier = Earlier
  Present = {"queues"}
  CanCrash = TRUE
  None = None
SPECIFICATION Spec
INVARIANT ReplayReadsOneExperiment
PROPERTY ImplementsStore
