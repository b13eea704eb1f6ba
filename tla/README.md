# TLA+ models of the benchmark harnesses

This directory models the two experiment drivers under `src/scripts/` in TLA+:

- `benchmark.py` is the throughput and relaxation harness.
- `benchmark-graph.py` is the BFS harness with two metrics.

The TLC configurations here check the models.

## The system

Both scripts follow the same pipeline. They differ in how they measure, aggregate and fail.

| Part | Code | State | Operations |
|---|---|---|---|
| CommandLine | `parse_args`, `new_bench` | argparse namespace, argument dict, result path | fill defaults, drop the width ratio under `--width`, build `static_args`, build `Bench` |
| SweepPlanner | `Bench.var_points` | the cfg fields; loop variable `acc`, list `points` | athena preset, include-start, linear range, doubling loop |
| BuildStep | `Bench.compile` | binaries in `bin/` | `make <struct>` per structure; strict structures are skipped for the relaxation build; exit on failure |
| MeasurementRunner | `Bench.run_test` | attempt counter | call the binary with a timeout; parse the metrics; retry (benchmark.py) or exit (benchmark-graph.py) |
| TrialAggregator | `Bench.run_tests`, `Bench.evaluate` | argument dict (mutated in place), `run_results`, `results`, the per-structure matrices | per trial and point: set the varying flag and the width, call; stack; transpose; second relaxation pass |
| StatisticalAggregator | `evaluate`, replay branch of `main` | `test_results`, `raw_data` | mean and std over the trial axis |
| ExperimentStore | `save_data`, `load_old_bench`, `main` | `results/<name>/` with `raw_data.npy`, `bench`, `bench_dict.txt` and the figure | save; reload and replot into `<dir>-replot-<HH:MM:SS>` |
| ResultNormalizer | `Bench.plot` (benchmark-graph.py) | averages | baseline selection, speedup and work-increase rescaling |
| Presenter | `Bench.plot` | figure | x-axis ticks thinned from `var_points()`; matplotlib rendering |

The parts interact in one direction:

1. The planner fixes the points.
2. The build step puts the binaries in place.
3. The aggregator walks structures × trials × points, calling the runner and mutating one argument dict.
4. In benchmark.py with `--errors`, the aggregator rebuilds and runs a second pass.
5. `evaluate` stacks the passes into the raw tensor.
6. `save_data` writes the raw tensor.
7. `plot` saves the figure beside the data.
8. A later `--old_bench` run (of either script) reads the pickled bench and the raw tensor back, recomputes the averages, and saves a figure under a derived directory.

Both scripts save under the same `results/` directory, and several runs may be going at once: that is where the programs interact.

The raw tensor's index order is the contract between saving and replay. The specification says that order is `[structure, trial, channel, point]`.

Behaviours that make this code hard to test:

- retries with several rejection reasons and a fixed limit;
- a shared mutable argument dict across loops;
- a rebuild between two passes that skips some structures;
- axis orders that must agree across two programs and two points in time;
- loops whose termination depends on the configuration;
- failure paths that exit from deep inside the loops.

Nothing runs concurrently inside one program. Every model of one program is a sequential state machine with a `pc` variable. `ExperimentStore` models several programs sharing `results/`, with a `pc` per program.

## Modules

| Module | Models | State ↔ code |
|---|---|---|
| `SweepPlanner` | `var_points` (benchmark.py 210-230; identical in benchmark-graph.py 123-143) | `cfg`: the Bench fields it reads. `acc`, `points`: the locals. `pc`: call / loop / done / error. Each non-looping policy is one action. Each iteration of the doubling `while` loop is one `ExpStep`. `PyRange` is Python's `range`. |
| `Tensors` | numpy reshaping used by both scripts | `TrialColumns` / `TrialColumns4` stand for `mean/std(axis=1)`. `StackAxis1` is `np.stack(axis=1)`. `ChannelSlice` is `raw[:, c]`. `SwapLastAxes` is `transpose(0,1,3,2)`. |
| `Bench` | benchmark.py `compile`, `run_tests`, `run_test`, `evaluate`, `save_data`, replay in `main` | see below |
| `BenchGraph` | the same functions of benchmark-graph.py | same shape as `Bench`, with the two-metric call and the exits |
| `ResultNormalizer` | the `PLOT_RELATIVE` block of benchmark-graph.py `plot` (184-207) | `averages`, `stds`: the arrays rescaled in place, cells `<<struct, metric, point>>`. `lcrqInd`, `lcrqTime`, `baseWork`, `ds`, `conf`: the locals. `warned`: the warning was printed. `inAvg`, `inStd`: the input, kept for the property. One step selects the baseline. Each iteration of either loop is one step (`TimeStep`, `WorkStep`). Floats are exact rationals `<<num, den>>`. |
| `ExperimentStore` | `new_bench`'s path choice (benchmark.py 604-614), `save_data` (261-271) and the figure `plot` saves (512-514), for several harness runs at once; the replot of `main` and `load_old_bench` (524-569) | `clock`: `datetime.now()` in seconds. `pc`, `path`: per run. `fs`: per directory, whether it exists and which run wrote each of its files (three data files and the figure). `Kill` is the environment ending a run (Ctrl-C, a fatal error) at any point before its last write. Per replot: `rpc` (start / raw / plot / done / failed), `rpath` (the `-replot-` directory), `got` (which run wrote the bench and the tensor it read). `plots`: which replot's figure each replot directory holds. `LoadOldBench` and `LoadOldBenchMissing` are the two outcomes of unpickling; `LoadRaw` is `np.load`; `PlotReplot` is the save with `exist_ok=True`. |
| `StoredExperiments` | the store that specification §2 and §4.5 describe | `store`: directory ↦ the experiment stored there. `Store(w, d)` writes experiment `w` once, into an empty `d`. `ExperimentStore` refines it through `StoredMap`: a directory holding all three files from one run stores that run. |
| `CommandLine` | `parse_args` defaults and `new_bench`'s argument handling, both scripts | Operators only: `ParseArgs` fills the defaults, `WidthRatioOf` drops the ratio under `--width`, `StaticArgsOf` builds `static_args` without `None` entries, `VaryingFlag` is `'-' + varying`. `MCBench` and `MCBenchGraph` compute `StaticArgs`, `Varying`, `WidthRatio` and `RelaxationDuration` of every configuration from a command line through them (so `-i 131072` and `-d 500` are always there, as in the program). |
| `Presenter` | the x-axis ticks of `plot` (benchmark.py 300-307; benchmark-graph.py 226-232) | Extends `SweepPlanner`: `XTicks` thins the list the planner returned, with `Thin` the `while` loop (RECURSIVE) and `EveryOther` the `[::2]`. |
| `MC*` | instantiations | concrete structures, points, command lines and outcome sets |

### Bench variables

- `pc` is the phase: compile / normal / relaxCompile / relax / evaluated / saved / done / replayed / aborted.
- `step` is the place inside `run_tests`.
- `args` is the argument dict.
- `attempt` is the retry counter of the current `run_test`.
- `rejections` is a history: where each rejected call was made, and in which pass.
- `runResults`, `results`, `passMats`, `matrices` and `raw` are the code's arrays.
- `averages` is what `evaluate` computes.
- `stored` is the content of `raw_data.npy`.
- `replayed` is what `main` recomputes from `stored`.

### Data abstraction

A measured value is not a number. It is a record of where and how it was measured:

- the position (structure, trial, point);
- the channel;
- the binary build;
- the parsed output;
- the full command-line args.

That way the properties can say that every cell holds the sample of its own call, from the right build and with the right arguments. This is what the mutations of axis order, retry logic and argument handling would break. Mean and std are abstracted as the trial column they are computed over, so two averages are equal exactly when they reduce the same samples.

A call outcome is a record: status ok / timeout / error, whether the output reported nulls, and whether the tracked metric parsed. `Outcomes` is the set the run may draw from. `None` and the relaxation override `2**31` (`MaxSizeArg`) are model values.

## Runs

| Run | cfg | Expect | Shows |
|---|---|---|---|
| `planner` | `MCSweepPlanner.cfg` | pass | For 1056 small valid configurations, `var_points` returns the spec's sweep (`MatchesReference`, against a set-based reference) and always returns (`Terminates`). The ticks `plot` draws for each list are the first point, evenly spaced points and the last, at most six, in the closed form `RefTicks` (`TicksAsReference`). |
| `planner_exp_start` | `MCSweepPlanner_exp_start.cfg` | violation | With `--exp_steps` and `--start ≤ 0` the doubling loop never ends. |
| `bench_errors` | `MCBench_errors.cfg` | pass | See below. |
| `bench_allow_null` | `MCBench_allow_null.cfg` | pass | `StoredTensorFaithful` on the single-metric path, with `--allow_null`, a doubling sweep over `-k`, and `-n` static. It is the only run whose calls also time out or print no metric, so it shows that such calls never reach a stored cell. The argument and replay properties of `bench_errors` are not checked here: without a width ratio or a second channel they reduce to the assignment of line 195 and to the same `mean(axis=1)` on both sides. |
| `bench_fatal_retried` | `MCBench_fatal_retried.cfg` | violation | `FatalErrorsAbort`: a timed-out call, or an output without the tracked metric, is retried. The spec makes both fatal (a TimeoutError and a ParseError). |
| `bench_empty_sweep` | `MCBench_empty_sweep.cfg` | violation | `ConfigErrorSurfacedFirst`: under a malformed configuration (an empty sweep, or an `--errors` value other than lock/timer) nothing may be built, called or stored: §4.1 and §7 make it a fatal error surfaced immediately. With an empty sweep, benchmark.py builds every structure, measures nothing and saves the empty tensor. The property fails at the first `make`, so this run does not distinguish the `--errors` case; see Not modelled. |
| `bench_layout` | `MCBench_layout.cfg` | violation | benchmark.py saves `[struct, channel, trial, point]`, not the spec's `[struct, trial, channel, point]`. |
| `bench_width_sweep` | `MCBench_width_sweep.cfg` | violation | `ArgsMatchPoint`: with `--width-ratio` and `--varying w`, every call must still pass its sweep point as `-w`, because the `--varying` help says the varying argument overwrites set values (the width-ratio clause of the property yields to it). Line 197 overwrites the point with ratio × `-n`, so every point runs the same width. The same model with the two assignments of lines 195 and 197 in the other order satisfies the property. |
| `graph` | `MCBenchGraph.cfg` | pass | benchmark-graph.py saves the spec's layout (`StoredLayoutAsSpec`). Its replay (lines 334-336) applies the same `mean(axis=1)` as `evaluate`, so checking it would compare an expression with itself; it is modelled as an action, and no property checks it. |
| `graph_exit_status` | `MCBenchGraph_exit_status.cfg` | violation | A call lacking a metric ends the program with `exit(0)`, which reports a failed experiment as success. |
| `normalizer` | `MCResultNormalizer.cfg` | pass | `NormalizedAsSpec`: after the in-place rescaling, each time mean is the speedup over the baseline's first point, each work mean is the ratio to the global minimum work, and each std keeps its relative width. The warning is printed exactly when no structure is in the baseline family. The baseline is the shortest family member. Of the structure names the harness knows, only `lcrq` is in that family, so no configuration has two members, and choosing the shortest of several is not exercised. |
| `store` | `MCExperimentStore.cfg` | pass | `ImplementsStore`: under any interleaving of three harness runs, a replot, kills and clock ticks, the results directory refines `StoredExperiments`. A directory gets a complete experiment at most once, from one run, and keeps it. `ReplayReadsOneExperiment`: a replot that unpickled a bench aggregates the tensor of the same run, and never fails for want of the tensor, although it opens the directory twice while runs are saving. This rests on `save_data` writing the tensor before the pickle and on `mkdir` refusing an existing directory. |

`bench_errors` runs a dual-metric experiment with lock relaxation on two structures, one of them strict, plus retries and a possible build failure. Its properties are:

- `RetryAsSpec`: the six-call retry budget is per measurement (structure, trial, point, pass). No measurement is rejected a seventh time, and the retry loop ends the program only after six rejections of the same measurement;
- `StoredTensorFaithful`: every stored cell is the accepted sample of its own call, from the normal build in the normal channel and from the relaxation build (or the strict 0.0 shortcut) in the relaxation channel;
- `ArgsMatchPoint`: each call runs with its point's value and a width derived from the same call's `-n` (unless `-w` is what varies). In the relaxation pass, and only there, it runs with the relaxation overrides;
- `ReplayFaithful`: the replay splits the four-dimensional tensor on axis 1 (lines 560 and 564) and recomputes the averages `evaluate` computed. This holds only because that is the axis `evaluate` stacked the channels on (line 171).

Each property of a passing run is paired in `PROJECT.json` with a mutant: a plausible bug in the mapped code that TLC finds violating it. Examples:

- an off-by-one retry limit;
- accepting null returns;
- forgetting the relaxation override;
- replaying without splitting the channel axis;
- skipping the transpose;
- re-reading the baseline from the array after it has been rescaled;
- `mkdir(exist_ok=True)`, which lets a second run write into a stored experiment;
- saving the pickle before the tensor, which a concurrent replot then finds without its tensor;
- halving the ticks at exactly five.

## Bounds

- **SweepPlanner.**
  - Inputs: `start ∈ 1..4`, `to ∈ 0..10`, `step_size ∈ 1..3`, all 8 policy flag combinations.
  - This covers the cases that matter: an empty range (`to < start`), aligned and unaligned steps for include-start, one-point sweeps, and doubling sequences of several points.
  - `MaxPoints = 8` caps the record of a doubling loop. A loop that outruns it stutters at the cap, which turns non-termination into a liveness counterexample.
- **Bench.**
  - Two structures (one strict, to reach the 0.0 shortcut), two runs and two points. That is the least that can tell the trial, point and structure axes apart.
  - `MaxAttempts = 6` comes from the code.
  - `MaxFailures` bounds the rejection history.
    - `bench_errors` uses 7, which lets the mutant that allows a seventh attempt show, and lets rejections spread over two measurements.
    - `bench_allow_null` uses 2: its properties are not about retries.
  - The outcome sets include clean, null-reporting, unparsable and timed-out calls.
  - `bench_errors` draws only clean and null-reporting calls. Every rejection takes the same path through the retry loop, and the rejection history already multiplies the states (about 976,000).
- **BenchGraph.**
  - Three structures, three runs and three points. The state count is small because each call ends the program on anything but success.
- **ResultNormalizer.**
  - Two structures and two points. Every mean is in {1, 2, 4} and every std is 1: 6561 inputs for each of three structure lists.
  - The lists cover a baseline first, a baseline second (after a `dcb` variant, which must not be picked), and no baseline (the fallback, with its warning).
  - The baseline is overwritten during the first iterations, which is what a stale or repeated read of it would get wrong.
- **ExperimentStore.**
  - Three runs: two under a name whose directory already exists (the stamped branch), one under a fresh name. Two clock seconds.
  - The two same-name runs can stamp in the same second and clash.
  - Any run may be killed before its last write.
  - One replot, which may name any directory at any moment. With two replots the run takes over twenty minutes; the second replot only adds the figure collision of the same second, which no property is about.

## Fairness

Both programs are sequential. Every enabled step is the next statement of the one thread, so weak fairness on `Next` (`FairSpec`) is what the code's execution justifies. Only the `Terminates` property of the planner uses it. The refinement in `store` is a safety property and needs no fairness.

The terminal states (`Returned`, `Terminated`) stutter so that an ended program is not a deadlock. The `pass` runs still check deadlock.

## Not modelled, and planned

- **Presenter:** apart from the ticks, matplotlib output only (labels, scales, the `--to 256` tick override, the curve fit).
- **DisplayTables** (`RENAME_MAP`, `COLOR_LIST`): display only.
- **ResultNormalizer, zero values.** A zero mean or a zero minimum work makes numpy return inf/nan. The spec gives no expected result for that, so the model's means are positive.
- **ExperimentStore, what remains.**
  - The lost experiment when two runs of one name clash at `mkdir` (benchmark.py 611, 263). The model reaches it, and `ImplementsStore` shows it never mixes or replaces stored data. The spec's sequential-measurement rule (§5) excludes concurrent runs, so no run states the loss as a contract violation.
  - The partial bundle an interrupted `save_data` leaves. This is reachable, but the spec does not say what an interrupted save may leave.
  - `load_old_bench` defaulting only some fields of older pickles. Which fields older versions lacked cannot be recovered from the source.
  - Either script replaying the other's four-dimensional file (benchmark-graph.py 334, benchmark.py 558). Both save under `results/`, and neither checks the shape on reload. The disagreement is the axis order, which `bench_layout` shows; a run of the composition would be a second run on the same finding.
  - Two replots of one directory in the same second (or at the same time on two days: the stamp has no date) share the `-replot-` directory, and the later figure replaces the earlier. `PlotReplot` models this, but nothing in the specification rules it out.
  - A pickle write is atomic in the model; a run killed during `pickle.dump` would leave a truncated `bench` that fails to unpickle.
- **`--errors` validation** (benchmark.py 128). An `--errors` value other than lock/timer is modelled: it builds without `RELAXATION_ANALYSIS`, so every relaxation call fails to parse, and the run dies only after the whole normal pass. `ConfigErrorSurfacedFirst` states the contract, but its run instantiates the empty sweep, and the property fails at the first build whatever happens next, so no run covers this case. A run of its own would be a thirteenth.
- **DisplayTables** limits: `COLOR_LIST` has 20 colours, and `plot` indexes it by structure row, so an experiment over more than 20 structures is saved and then fails to plot, on every replot too. The specification bounds neither, so no property states it.
- **Single-metric benchmark-graph.py** (`float(tracked1, None)`, benchmark-graph.py 160). It is modelled: `Call` ends the program with `exit(e)`. A run stating that single-metric mode measures anything would be a thirteenth run.
- **Arithmetic:** the values of mean and std (the model keeps which trial column each is taken over, not its value).

`PROJECT.json` lists the components, runs, mutants, the map from every definition to its source lines, the findings and the hazards.
