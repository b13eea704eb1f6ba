--------------------------- MODULE ExperimentStore ---------------------------
(***************************************************************************)
(* The result directory of both harnesses, as several harness runs see it: *)
(* new_bench picks the path when the run starts (benchmark.py 604-614,     *)
(* benchmark-graph.py 368-378), and save_data (benchmark.py 261-271,       *)
(* benchmark-graph.py 168-178) creates it with mkdir(parents=True) and     *)
(* writes raw_data.npy, the pickled bench and bench_dict.txt in turn,      *)
(* after the whole experiment, and plot saves the figure beside them     *)
(* (benchmark.py 512-514).  A run may be killed (or exit on a fatal error) *)
(* at any point before its last write.                                     *)
(*                                                                         *)
(* A replot (main with --old_bench, benchmark.py 550-569, 579;             *)
(* benchmark-graph.py 328-337, 346) reads a stored directory back while    *)
(* the harness runs go on: load_old_bench unpickles the bench, main then   *)
(* loads raw_data.npy, and plot saves the figure under the derived path    *)
(* <dir>-replot-<HH:MM:SS>.                                                *)
(*                                                                         *)
(* A directory name is the experiment name (the date is one day here)      *)
(* with an optional "_HH:MM:SS" stamp; a file's content is abstracted to   *)
(* the run that wrote it.                                                  *)
(***************************************************************************)
EXTENDS Naturals, FiniteSets

CONSTANTS
  Procs,        \* harness runs (with saving on)
  NameOf,       \* Procs -> the --name (or structure list) of the run
  Names,        \* experiment names
  MaxTime,      \* last second of the clock considered
  Earlier,      \* the run that wrote the directories present at the start
  Present,      \* names whose unstamped directory already holds an experiment
  CanCrash,     \* whether a run may be killed
  Replots,      \* replot runs (--old_bench)
  None

ASSUME \A p \in Procs : NameOf[p] \in Names
ASSUME Present \subseteq Names

\* results/<date>_<name> and results/<date>_<name>_<time>
Dirs == [name : Names, stamp : {None} \cup (0..MaxTime)]

Writers == Procs \cup {Earlier}

\* the experiment's data, and the figure plot saves beside it
DataFiles == {"raw", "bench", "dict"}

Files == DataFiles \cup {"pdf"}

\* <old_bench>-replot-<HH:MM:SS>: the stored directory and the second of
\* the clock (no date) at which it was loaded
ReplotDirs == [of : Dirs, at : 0..MaxTime]

VARIABLES
  clock,   \* datetime.now() in seconds
  pc,      \* per run: "start", "running", "mkdir", "raw", "bench", "dict",
           \* "saved", "failed" (save_data raised), "killed"
  path,    \* per run: self.path, or None before new_bench
  fs,      \* per directory: whether it exists, and the writer of each file
  rpc,     \* per replot: "start", "raw", "plot", "done", "failed"
  rpath,   \* per replot: old_bench.path, or None before load_old_bench
  got,     \* per replot: the writers of the bench and the raw tensor it read
  plots    \* per replot directory: the replot whose figure it holds

replotVars == <<rpc, rpath, got, plots>>

vars == <<clock, pc, path, fs, rpc, rpath, got, plots>>

NoFile == [f \in Files |-> None]

TypeOK ==
  /\ clock \in 0..MaxTime
  /\ pc \in [Procs -> {"start", "running", "mkdir", "saved", "failed", "killed"} \cup Files]
  /\ path \in [Procs -> Dirs \cup {None}]
  /\ fs \in [Dirs -> [exists : BOOLEAN, file : [Files -> Writers \cup {None}]]]
  /\ rpc \in [Replots -> {"start", "raw", "plot", "done", "failed"}]
  /\ rpath \in [Replots -> ReplotDirs \cup {None}]
  /\ got \in [Replots -> [bench : Writers \cup {None}, raw : Writers \cup {None}]]
  /\ plots \in [ReplotDirs -> Replots \cup {None}]

Init ==
  /\ clock = 0
  /\ pc = [p \in Procs |-> "start"]
  /\ path = [p \in Procs |-> None]
  /\ fs = [d \in Dirs |->
             IF d.stamp = None /\ d.name \in Present
               THEN [exists |-> TRUE, file |-> [f \in Files |-> Earlier]]
               ELSE [exists |-> FALSE, file |-> NoFile]]
  /\ rpc = [r \in Replots |-> "start"]
  /\ rpath = [r \in Replots |-> None]
  /\ got = [r \in Replots |-> [bench |-> None, raw |-> None]]
  /\ plots = [e \in ReplotDirs |-> None]

\* the clock moves on
Tick ==
  /\ clock < MaxTime
  /\ clock' = clock + 1
  /\ UNCHANGED <<pc, path, fs>>
  /\ UNCHANGED replotVars

(***************************************************************************)
(* new_bench: if path.exists() and not args.nosave, append the current     *)
(* time to the name.                                                       *)
(***************************************************************************)
NewBench(p) ==
  LET base == [name |-> NameOf[p], stamp |-> None]
  IN  /\ pc[p] = "start"
      /\ path' = [path EXCEPT ![p] = IF fs[base].exists
                                       THEN [base EXCEPT !.stamp = clock]
                                       ELSE base]
      /\ pc' = [pc EXCEPT ![p] = "running"]
      /\ UNCHANGED <<clock, fs>>
      /\ UNCHANGED replotVars

\* compile and evaluate: the experiment itself, hours long
Evaluate(p) ==
  /\ pc[p] = "running"
  /\ pc' = [pc EXCEPT ![p] = "mkdir"]
  /\ UNCHANGED <<clock, path, fs>>
  /\ UNCHANGED replotVars

\* mutant: mkdir(parents=True, exist_ok=True)
MkdirExistOk(p) ==
  /\ pc[p] = "mkdir"
  /\ fs' = [fs EXCEPT ![path[p]].exists = TRUE]
  /\ pc' = [pc EXCEPT ![p] = "raw"]
  /\ UNCHANGED <<clock, path>>
  /\ UNCHANGED replotVars

\* self.path.mkdir(parents=True): FileExistsError if the directory exists;
\* the exception ends the program and the measurements are lost
Mkdir(p) ==
  /\ pc[p] = "mkdir"
  /\ IF fs[path[p]].exists
       THEN /\ pc' = [pc EXCEPT ![p] = "failed"]
            /\ UNCHANGED fs
       ELSE /\ fs' = [fs EXCEPT ![path[p]].exists = TRUE]
            /\ pc' = [pc EXCEPT ![p] = "raw"]
  /\ UNCHANGED <<clock, path>>
  /\ UNCHANGED replotVars

\* np.save(path / 'raw_data'), then open(path / 'bench', 'wb') and
\* pickle.dump, then open(path / 'bench_dict.txt', 'w'); then plot's
\* mkdir(exist_ok=True), a no-op here, and savefig(path / <name>.pdf).
\* Each replaces the file it writes
NextWrite == [raw |-> "bench", bench |-> "dict", dict |-> "pdf", pdf |-> "saved"]

\* mutant: the tensor and the pickled bench saved in the other order
WriteFileSwapped(p) ==
  LET f == [raw |-> "bench", bench |-> "raw", dict |-> "dict", pdf |-> "pdf"][pc[p]]
  IN  /\ pc[p] \in Files
      /\ fs' = [fs EXCEPT ![path[p]].file[f] = p]
      /\ pc' = [pc EXCEPT ![p] = NextWrite[pc[p]]]
      /\ UNCHANGED <<clock, path>>
      /\ UNCHANGED replotVars

WriteFile(p) ==
  /\ pc[p] \in Files
  /\ fs' = [fs EXCEPT ![path[p]].file[pc[p]] = p]
  /\ pc' = [pc EXCEPT ![p] = NextWrite[pc[p]]]
  /\ UNCHANGED <<clock, path>>
  /\ UNCHANGED replotVars

\* the run is killed, or exits on a fatal error, before its last write
Kill(p) ==
  /\ CanCrash
  /\ pc[p] \in {"running", "mkdir"} \cup Files
  /\ pc' = [pc EXCEPT ![p] = "killed"]
  /\ UNCHANGED <<clock, path, fs>>
  /\ UNCHANGED replotVars

(***************************************************************************)
(* load_old_bench: open(old_bench_path / "bench", 'rb') and pickle.load,   *)
(* then re-path to <old_bench_path>-replot-<now>.  Any directory may be    *)
(* named on the command line.                                              *)
(***************************************************************************)
LoadOldBench(r) ==
  \E d \in Dirs :
    /\ rpc[r] = "start"
    /\ fs[d].file["bench"] # None
    /\ got' = [got EXCEPT ![r].bench = fs[d].file["bench"]]
    /\ rpath' = [rpath EXCEPT ![r] = [of |-> d, at |-> clock]]
    /\ rpc' = [rpc EXCEPT ![r] = "raw"]
    /\ UNCHANGED <<clock, pc, path, fs, plots>>

\* no bench file there (no directory, or a run that never got that far):
\* FileNotFoundError ends the replot
LoadOldBenchMissing(r) ==
  \E d \in Dirs :
    /\ rpc[r] = "start"
    /\ fs[d].file["bench"] = None
    /\ rpc' = [rpc EXCEPT ![r] = "failed"]
    /\ UNCHANGED <<clock, pc, path, fs, rpath, got, plots>>

\* np.load(args.old_bench / 'raw_data.npy'), FileNotFoundError if absent;
\* the averages over the trial axis follow (modelled in Bench, BenchGraph)
LoadRaw(r) ==
  LET d == rpath[r].of
  IN  /\ rpc[r] = "raw"
      /\ IF fs[d].file["raw"] = None
           THEN /\ rpc' = [rpc EXCEPT ![r] = "failed"]
                /\ UNCHANGED got
           ELSE /\ got' = [got EXCEPT ![r].raw = fs[d].file["raw"]]
                /\ rpc' = [rpc EXCEPT ![r] = "plot"]
      /\ UNCHANGED <<clock, pc, path, fs, rpath, plots>>

\* plot with save: mkdir(parents=True, exist_ok=True) and savefig into the
\* replot directory, replacing a figure already there
PlotReplot(r) ==
  /\ rpc[r] = "plot"
  /\ plots' = [plots EXCEPT ![rpath[r]] = r]
  /\ rpc' = [rpc EXCEPT ![r] = "done"]
  /\ UNCHANGED <<clock, pc, path, fs, rpath, got>>

Ended ==
  /\ \A p \in Procs : pc[p] \in {"saved", "failed", "killed"}
  /\ \A r \in Replots : rpc[r] \in {"done", "failed"}

Terminated ==
  /\ Ended
  /\ UNCHANGED vars

Next ==
  \/ Tick
  \/ \E p \in Procs : NewBench(p) \/ Evaluate(p) \/ Mkdir(p) \/ WriteFile(p) \/ Kill(p)
  \/ \E r \in Replots : LoadOldBench(r) \/ LoadOldBenchMissing(r) \/ LoadRaw(r) \/ PlotReplot(r)
  \/ Terminated

Spec == Init /\ [][Next]_vars

-----------------------------------------------------------------------------
\* a directory holds a stored experiment when all three files are there and
\* come from one run; the run then is the experiment stored
Complete(d) ==
  /\ \A f \in DataFiles : fs[d].file[f] # None
  /\ \A f, g \in DataFiles : fs[d].file[f] = fs[d].file[g]

StoredMap == [d \in Dirs |-> IF Complete(d) THEN fs[d].file["raw"] ELSE None]

Abstract == INSTANCE StoredExperiments
              WITH store <- StoredMap,
                   Initial <- [d \in Dirs |-> IF d.stamp = None /\ d.name \in Present
                                                THEN Earlier ELSE None]

(***************************************************************************)
(* The save protocol implements the store of section 4.5: whatever the     *)
(* interleaving of harness runs, kills and clock ticks, a directory gets   *)
(* a complete experiment at most once, from one run, into a directory      *)
(* holding none, and keeps it; files of two runs are never mixed.  This is *)
(* what mkdir without exist_ok buys.                                       *)
(***************************************************************************)
ImplementsStore == Abstract!Spec

(***************************************************************************)
(* A replot reads back one experiment (section 4.5, load): load_old_bench  *)
(* and np.load open the directory at two moments, while other harness runs *)
(* may be saving; still, the tensor a replot aggregates comes from the run *)
(* whose bench it unpickled, and a replot that found a bench never fails   *)
(* for want of the tensor.  This rests on the order of save_data's writes  *)
(* and on mkdir refusing a directory that exists.                          *)
(***************************************************************************)
ReplayReadsOneExperiment ==
  \A r \in Replots :
    /\ got[r].raw # None => got[r].raw = got[r].bench
    /\ rpc[r] = "failed" => got[r].bench = None

=============================================================================
