------------------------- MODULE StoredExperiments -------------------------
(***************************************************************************)
(* What the ExperimentStore promises (specification sections 2 and 4.5),  *)
(* stated without files or processes: the results directory maps each     *)
(* directory name to the one experiment stored in it, or to None.  A      *)
(* stored experiment is written once, at completion, into a directory     *)
(* that held none, and is never replaced; an experiment is stored at most *)
(* once.                                                                   *)
(***************************************************************************)
CONSTANTS
  Writers,     \* the experiments (harness runs, and those of earlier days)
  Dirs,        \* the directory names
  Initial,     \* the directories stored before the runs considered start
  None

VARIABLE store   \* Dirs -> Writers \cup {None}

StoreTypeOK == store \in [Dirs -> Writers \cup {None}]

Init == store = Initial

\* experiment w completes and is stored in d
Store(w, d) ==
  /\ store[d] = None
  /\ \A e \in Dirs : store[e] # w
  /\ store' = [store EXCEPT ![d] = w]

Next == \E w \in Writers, d \in Dirs : Store(w, d)

Spec == Init /\ [][Next]_store

=============================================================================
