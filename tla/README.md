# A TLA+ model of SOSPUAS

SOSPUAS simulates a swarm of UAVs that hold a formation by virtual forces, searches for good parameters of those forces by running the simulation many times, and replays recorded runs. This directory models its programs in TLA+, checks the models with TLC on small instances, and proves the most important results with TLAPS for every value of the parameters.

## The system

| Part | Source | State it keeps | Operations |
|---|---|---|---|
| UAV application | `scratch/non-ideal/uav.cc`, `uav.h` | role, velocity, last datum and packet counters per peer, two timers | `StartApplication`, `Send`, `HandleRead`, `Calculate`, `Cyberattack` |
| Simulation driver | `scratch/non-ideal/main.cc` | the positions file, the parameters | set-up, `LogPositions`, `SetColor`, end of the run |
| ns-3 core used by both | `src/core`, `src/network`, `src/mobility` | event queue, waypoints | take the next event, schedule, compare addresses, interpolate |
| Optimizer | `parameter_optimizer/src/optimization.rs` | `STATE` (a mutex), `RUNNING`, `LOWEST_ERROR` (atomics), files | `run`, `run_thread`, `run_binary`, `run_analysis`, Ctrl-C |
| Graph colours | `optimization.rs`, `util.rs` | table of limits | `RangeSmoother::new`, the colouring in `write_hot_cold` |
| Position parser | `parameter_optimizer/src/position_parser.rs` | key frames, interpolation state per UAV | `parse`, `pos_at_time` |
| Set-up and re-export | `main.rs`, `git.rs`, `util.rs`, `optimization.rs` | the clone, its configuration and build, the graphs | clone, check out, configure, build, `re_export`, `re_export_all` |
| Batch graphs | `parameter_optimizer/gen_graphs.py` | the columns of a file, points by distance, keys and values | list, `export_single`, `run_distance_analysis`, bars |
| Visualizer | `Visualizer/vis.py` | a cursor into the file per UAV, simulation time, keys | load, events of the window, one pass of the main loop |

They interact through files and processes. The optimizer's runner threads start the simulation as a child process; it writes a positions file (`LogPositions`), which the runner parses and reduces to one error, and tells the optimizer. The visualizer reads the same kind of file. When the search ends it writes its results to a backup file, which `re_export` and `gen_graphs.py` read. Inside the simulation the UAVs interact only through packets; the events of all UAVs share one queue.

What is hard here, and what the properties are aimed at:

- *Order of events at the same time.* The first `LogPositions`, which opens the file, and the start of the central UAV, which writes to it, are both due at time 0.
- *Loss, delay and reordering of packets.* A UAV steers by old data, and an older datum may replace a newer one, since nothing compares their age; what the data say of roles and of NaN must be true all the same.
- *Floating point.* Two UAVs at the same place yield NaN, which spreads.
- *Threads.* The runners race on two atomics outside the lock; a panic inside the lock poisons it for everyone, main included.
- *Shutdown.* By Ctrl-C at any moment, by the limit on the number of runs, with runners that have panicked.
- *Clocks.* The time of the system may be set back during a search, which stamps its results with it, and during a replay, which advances by it.
- *Kills and restarts* between the steps of the set-up, with a clone and a configuration that outlive the process.
- *Cached positions in a search.* Both the parser and the visualizer resume a search where the last one stopped.
- *Loops that remove from the lists they iterate over*, and statistics of what is left.
- *Integer conversions* in the colours of the graph.

`PROJECT.json` lists these hazards with their lines and the properties that cover them.

## The modules

| Module | Models | Used by |
|---|---|---|
| `Swarm` | UAV application, driver, and the ns-3 core they run on | `MCSwarm`, `SwarmProofs` |
| `Optimizer` | runners, shared state, shutdown, exports | `MCOptimizer`, `OptimizerProofs` |
| `Search` | abstract: what a search promises | `Optimizer` (by INSTANCE) |
| `HotCold` | `RangeSmoother` and the colours | `MCHotCold`, `HotColdProofs` |
| `PositionParser` | `parse`, `pos_at_time` | `MCPositionParser`, `ParserProofs` |
| `Visualizer` | loading, window and replay loop | `MCVisualizer`, `VisualizerProofs` |
| `GenGraphs` | `gen_graphs.py` | `MCGenGraphs`, `GenGraphsProofs` |
| `Startup` | `main.rs`, `git.rs`, re-export | `MCStartup`, `StartupProofs` |
| `Ordering` | what the programs take from their libraries about order: least, greatest, stable sorting | `HotCold`, `PositionParser`, `Visualizer`, `GenGraphs` |
| `NatOrder` | no code: arithmetic, induction over naturals, and what `Ordering` computes | `ParserProofs`, `VisualizerProofs`, `HotColdProofs`, `GenGraphsProofs` |

Every module lists its operations in the order of the code. An operator whose comment starts with *Fault* is a plausible mistake in the operator that follows it; nothing uses it. `PROJECT.json` pairs each property with a fault that violates it, which shows that the property depends on the code it is about.

### Swarm

The event queue is a set of events `[ts, uid, kind, node]`; `ProcessOneEvent` takes the least by time and then by uid, which is the order of `Scheduler::EventKey`, and gives new events the next uids. Each handler is one action and schedules its successor in the same step. `Init` is the state when `main` calls `Simulator::Run`: creating the nodes scheduled their initialization, then come `Stop` and the first `LogPositions`.

A packet carries position and role. The Wi-Fi, ARP and IP layers are, per ordered pair of UAVs, the packets in flight, of which any one may be read or lost at any time (`HandleRead`, `Lose`): packets are delayed, reordered and lost. `HandleRead` stores what it reads without comparing ages, so that older data may replace newer ones; the properties do not rest on the order of arrival. A packet that arrives before the socket is bound is dropped. A packet to the sender's own address is handed back up within `SendTo`, so `Send` includes its reception. The forces are abstracted: they act or do not, cancel or do not, and are NaN when a peer is at the same place or its position is NaN. The three cases of a velocity are at rest, moving and NaN; dampening multiplies it by a factor in (0, 1] for any calculation interval below 2 s and changes none of them. Overflow to infinity is left out.

A UAV has one pending waypoint: `Calculate` adds the next one exactly when the last is reached, which `WaypointsInStep` checks. `StopApplication` is not an action, because no application is given a stop time, and `DoDispose` only runs after the event loop.

### Optimizer

Each runner has a program counter. Each iteration writes a file of a new random name; `positions` says whether the file of the current iteration exists, and `leaked` whether one of an earlier iteration was left behind. The two critical sections (asking for parameters, telling the result) are one step each, since the lock makes them so to everyone who takes it; storing `RUNNING` inside the second one is visible to others only through the loop condition, a step of its own. Loading and storing `LOWEST_ERROR`, copying and removing the file are separate steps. The constant `Faults` says what may fail: the simulation (its file is removed), the analysis (the file stays; a file without positions panics), a NaN error (`tell().unwrap()` panics with the lock held), the copy, the removal of a file (which `run_analysis` reports and `run_thread` ignores), the clock (a result is stamped before the first one, `early`, and `write_error_time` panics; or the time is before 1970 and there is no backup), and the writing of the backup and the graphs. The history variable `failed` remembers whether a runner, or the export, has met a failure that leaves a file behind or no backup. The atomics are accessed with relaxed ordering; the model takes each of them to be a single location whose stores the next load sees. A runner that saw the store of `RUNNING` late could begin one more iteration, but that iteration starts by taking the lock of `STATE`, after which it sees it. Names of temporary files are random and taken to be different.

`Ended` covers the regular end, a panic of main and the forced exit at the sixth Ctrl-C; all end the process and with it the runners.

`Search` is the abstract specification: workers are active or not, each may finish with a result, give up or be lost; the best result is kept; after the stop no worker starts, and when none is active all results are saved. `Optimizer` maps to it by `Abstract`: a worker is active from its question to the tell, the runs in `out/` are the kept ones, the backup is what is saved. `ImplementsSearch` is checked by `optimizer` and proved.

### HotCold

Sorting, one step per limit of the smoothed table, one step per drawn point. Sorting is `Sorted` of `Ordering`: a result's place is the number of results that come no later, equal ones in the order they had. No error is NaN: `tell` refuses it, and the backup has no form of it that can be read. `Steps` and `ByteSize` are both 256 in the code; the runs use 4 for both, which keeps their relation.

### PositionParser

`ParsePosition`, `ParseColor` and `FinishParse` are the loop of `parse` and what follows it. `pos_at_time` is called with times that never decrease, which it asserts and its caller respects, for UAVs in any order. Positions are integers and answers are fractions, so the interpolation is exact. `HeaderNewline` says whether the first line holds only the header: it does in the parser's tests and does not in the files that `LogPositions` writes. A file without its first line is again one of the enumerated files, so the run with the newline covers what is read of the others.

### Visualizer

`Load` drops the first line, whatever it is, and keeps the positions. The events of the window are actions of their own before a pass; `camera_right` says whether any event has been handled yet, because the directions of the camera are local variables that only the event loop assigns. One action per pass of the loop: searches, drawing, recorded values and the advance of time; `Fails` lists what ends a pass with an exception. (Two lines of one time are never interpolated between: one of the two lines found is not after the simulation time and the other is. What OpenGL does with `glEnable` and `glLineWidth`, which are called in every pass although there is no context without a window, is left out.) With a window the time between passes is what the clock says, up to `MaxDelta` forwards and, when the clock is set back, `MaxSetBack` backwards; without one it is fixed. The order of `list(uavs)` is arbitrary; `Smallest` is the loop that takes the central UAV from it. Of the list of recorded values the model keeps the time of the last.

### GenGraphs

One action per turn of a loop that pops from the three columns; the other stages of `export_single` are one action each. Coordinates and errors are integers, and mean, standard deviation and percentile are multiplied out, so comparisons are exact; rounding is left out (for many equal values numpy's mean may differ from them in the last place, and the filter may then remove all). The mean of a file is represented by the file's place in the order of export, which is what tells bars apart. The files are sorted (`StableSort`) by the first number of the label, which is `d` only if the label starts with it. `exit` and `error` are the calls of `sys.exit` and the exceptions; a file that is not as expected has either, other parameters or a form that cannot be read. A fit may fail for want of points (fewer than three distances) or of an optimum.

### Startup

The process runs from `Start` to one of `returned`, `panicked` and `done`, or is killed; what is on the disk stays. A kill may hit git or waf in the middle: a partial clone, which no later start gets past, a clone with a HEAD but no files, files of two commits (`Mixed`; the history variable `torn` remembers which commit was wanted), no configuration, no build. `Upgrade` replaces the program by a version that wants another commit. git refuses to change commits over changed files and keeps changes if it is at the commit already. So there is one way to search with other files than wanted: a checkout of another commit is killed halfway, and then a version is started that wants the commit git is still at. `BuiltFromWanted` allows for exactly that; a program that always wants the same commit is not exposed to it. `run_git_command` does not pipe the output of git, so the hash it returns is empty (`CurrentHash`), and every start with `--use-git` checks out and configures again; `BuiltFromWanted` depends on that, as its mutant, which reads the hash, shows: a process killed between checkout and configuration would be followed by one that takes the configuration of the old commit.

A graph shows the file in its turn of this re-export. Plotters writes the picture when it is dropped: `write_hot_cold` panics if it cannot be written, `write_error_time` does not notice. A file without results keeps the program in `RangeSmoother::new` for ever, so that only a kill follows.

## The runs

| Run | Instance | Result |
|---|---|---|
| `swarm` | 2 UAVs, the second one attacks, 3 positions, duration 8 ticks | all 12 properties hold |
| `optimizer` | 2 runners, limit 2, errors below and above the default, every kind of failure, NaN, clock set back, Ctrl-C | holds, refinement and liveness included |
| `optimizer_no_results` | 2 runners | violated: no end without results |
| `parser` | all files of up to 4 lines, 2 UAVs, 4 frame times, 8 query times | holds |
| `parser_neighbours` | the same | violated: frames are skipped |
| `parser_header` | complete files without the newline | violated: first position lost |
| `hot_cold` | up to 6 results of 4 errors, 4 limits | holds |
| `hot_cold_red` | the same | violated: the worst are not red |
| `visualizer` | files of up to 4 lines and a header, 3 UAVs, with a window (steps of -2 to 2 ticks) and without (steps of 2), limit 5 | holds |
| `visualizer_endless` | the same | violated: the loop never ends |
| `gen_graphs` | one file of up to 4 results, or up to 4 files with 6 labels, 16 percentiles | holds |
| `startup` | 2 commits, up to 3 files in 2 directories, any kills and restarts | holds |

Why the bounds are enough. In `swarm`, the packet interval is twice the calculation interval, the peripheral UAV starts one tick late and changes its role one tick after that, so packets sent under both roles are in flight together and data are overwritten; three positions allow meeting, not meeting and moving away. `ShouldDoCyberAttack` is false as the program is built; until the attack the behaviours are those without it. (Without the attack, three UAVs and a duration of 3 ticks, two million states, pass as well; what is proved below holds for any number.) In `optimizer` one runner may store a worse error over a better one between the other's comparison and its store, and one result may come in late; the failures of both meet in one mutex, one export and one process. (For any number of runners the safety properties and the refinement are proved.) In the parser runs four lines allow a UAV to be missing from a frame between two of its own. In `hot_cold` there are fewer, as many and more results than limits. In the visualizer's runs a UAV may have no line before the time, none after it, several of one time, and several between two passes. In `gen_graphs` four results are the fewest of which one lies 1.5 standard deviations off the mean, on each axis another one, so that two results in a row are popped; four files allow three distances (the fewest the fit takes), four values of tx (one more than there are colours) and equal labels. In `startup` nothing is bounded but the files: kills, restarts and upgrades may happen for ever. `ForceExitLimit` and the lengths in the `.cfg` files are the only bounds on counters; the simulation is bounded by its own duration.

Deadlock is checked in `gen_graphs`, whose end is a step of its own, and in `startup`, where a new start follows; in the other runs it is not, since every program ends.

### Fairness

`Swarm`: weak fairness of the event loop, which runs until it is stopped; none is assumed of the radio. `Optimizer`: weak fairness of main and of each runner, which the operating system schedules; it includes that every simulation ends, which `SimulationEnds` shows. Nothing is assumed of Ctrl-C or of any failure. `Visualizer`: the program keeps making passes.

### What the violated properties show

Each states what a comment, a help text or a test of the repository says; `PROJECT.json` quotes them under `findings`. In short: stopping the optimizer before its first result leaves it in an endless loop; `pos_at_time` interpolates across key frames that a query has skipped; the header of the positions file swallows the first position; the visualizer without a window never finishes a file longer than 25 s; and the worst results of a search are drawn without red, because 256 does not fit a byte. Two more disagreements are in the models but not in a property. The check in `Send` that is to skip the own address compares two kinds of addresses (`AddressEqual`) and never holds, so every UAV sends to itself and `HandleRead` has to drop it (`NoSelfEntry`). The visualizer takes the wrong UAV for the central one when the central one is the first of `list(uavs)`: the loop (`Smallest`) begins with the second.

## What is proved

Every safety property that a passing run checks is also a theorem, the refinement and the action properties included. The proofs hold for any number of UAVs or runners, any intervals, files, errors and commits, under the named assumptions of the modules (counts and intervals are positive naturals, NaN is not a position or an error, a file is a sequence of lines or of results, and a run of `gen_graphs.py` without a directory has one file). Each inductive invariant was checked by TLC on the instance of the module's run before it was proved.

`SwarmProofs`, first about the events:

- `TypeCorrect`: `TypeOK` is an invariant.
- `TimersCorrect`: `QueueOrdered` and `OneTimerEach`. Alone they are not inductive: a UAV that starts twice would have two timers. `TimerInv` adds the phases of a UAV (`Phases`): while its `Initialize` is pending neither a `Start` nor a timer of it is, and while its `Start` is pending none of its timers is.
- `FileOpenBeforeUse`: `NoCrash`, for every positive duration. The strengthening `LogFirst` says that as long as the file is not open, the first `LogPositions` is still pending at time 0, that every event that writes a colour has a later uid, and that `Stop` is due at the duration.
- `CentralNeverMoves`: `CentralFixed`, from the fact that the root keeps its central role and so no force acts on it.
- `NoSelfKnowledge`: `NoSelfEntry`.

Then about what the UAVs know and how they move:

- `PacketsAccountedFor`: `PacketAccounting`. It is inductive with the types: a packet that is read or lost leaves the link, one that is sent enters it after it was counted.
- `NaNNeverLeft`: `NaNAbsorbing`. `NaNInStep` ties the next position of a UAV to its velocity.
- `NobodyMisled`: `KnowledgeSound`. What a packet claims stays true of its sender, because roles change only from peripheral to central, the root is central from the start, and NaN is not left; so a claim true at the `Send` is true whenever it is read, in whatever order, and as long as it is kept.
- `StationaryWithoutNews`: `StationaryUntilHeard`. Without peers the acceleration is zero, and dampening a velocity of zero leaves it zero.
- `HeartbeatNeverStops`: `Heartbeat`, from `QueueOrdered`: the handler that takes a timer schedules its successor, and no other step removes one.
- `WaypointsNeverDrift`: `WaypointsInStep`. `InStep` adds that a UAV keeps the waypoint it spawned with until it has started, and that it does not start before its start time. The theorem is what justifies keeping one pending waypoint in the model.

`OptimizerProofs`:

- `TypeCorrect`: `TypeOK`, in particular no result is NaN.
- `BestRunIsKept`: `BestExported`. `LOWEST_ERROR` itself may end up above the lowest error, when a runner stores an error it compared some time ago. `SearchInv` says what survives the race: the lowest error of the results is in `out/` or carried by a runner between its `tell` and its copy (or a runner has panicked); and if `LOWEST_ERROR` already equals it, so that others with the same error turn back, it is exported or the carrier is at the copy. It also needs that `LOWEST_ERROR` is the default or the error of some result.
- `BackupHoldsAll`: `BackupComplete`. `EndInv` says that once main has joined the runners none of them is left in the middle of an iteration, so that the results do not change after the export.
- `FilesRemoved`: `NoFileLeft`. `FileInv` ties the existence of a runner's file to its place in the loop: there is one from the analysis to the removal; anywhere else a file is there, or was forgotten, only if a failure is recorded, and once one is recorded such a file stays.
- `SearchImplemented`: `Spec => ImplementsSearch`. Initial states map to initial states, and every step of a runner or of main to a step of `Search` or to a stutter; the proof uses the type invariant, `SearchInv` and `EndInv` for the steps that keep a run and that save.
- `SearchStopsAtLimit`: `ResultsBound`. `LimitInv` bounds the results and the runners in the middle of an iteration together: each of these may still add one result, and none starts an iteration once the flag is down.

`StartupProofs`:

- `WantedCommitSearched`: `BuiltFromWanted`, for any commits, kills, restarts and upgrades. `SetUpInv` follows a start with `--use-git` from step to step: at the configuration the wanted commit is checked out, at the build the configuration is of these files, at the search so is the build. For the exception it adds that mixed files are there only while git is at another commit than the one whose checkout was killed. Its one subtle step is `RevParse`, which leads only to the checkout because the hash read back is never the wanted one.
- `LastGoodFileShown`: `GraphsShowLastGood`. `ExportInv` says the same of the files before the current one (`ShownAt`), with the exception of the current directory between the two graphs of one file.

`ParserProofs`:

- `RememberedFramesValid`: `StateValid`, inductive with the types. Its heart is that the scan of `pos_at_time` starts at a frame of the UAV that is not after the time asked for and ends at one that is, or at the last.
- `FramesHoldFile`: `FramesAreFile`. `ParseInv` says it of the lines read so far and of the frames together with the one being collected, which `std::mem::take` then hands over.
- `ParserNeverPanics`: `NoPanic`, from `ParseInv` and, for the assertions of `pos_at_time`, `StateValid`.
- `ExactInSortedFiles`: `ExactAtFrames`, for files whose position lines are in the order of time (`SortedFiles`), as `LogPositions` writes them and as the run enumerates them. `FramesInOrder` carries the order from the lines to the frames.

`VisualizerProofs`:

- `ReplayNeverFails`: `NoCrash`, for any file and any clock. `ReplayInv` says that a cursor is on the file, that its UAV has a line there or later, and that the cursor is on such a line or has not moved yet.
- `ResumedSearchExact`: `Brackets`, and `GraphRunsForward`: `GraphForward`, for files in the order of time: every line of the UAV before the cursor is at or before the time of the cursor, so that nothing is missed by not looking there.

`HotColdProofs`:

- `LimitsAreQuantiles`: `Quantiles`, for any number of errors and any table size above one. The inner loop of `RangeSmoother::new` ends at the first index whose scaled value is larger; `SourcePlace` says that all scaled values before it are equal, and `SourceRank` bounds it, with separate cases for fewer and more errors than limits.
- `GreenFollowsRank`: `GreenByRank`, for tables no larger than a byte; in the code both are 256. The limits rise because the errors are sorted and later limits come from later ranks (`SourceMonotone`), so the loop over them goes at least as far for a worse result. `ColorsInv` collects what the three stages have computed.

`GenGraphsProofs`, for any files and any number of percentiles:

- `OutputsShowTheLast`: `OutputsTrue`. `CursorInv` says where the program is among the files, `ListsInv` that `keys` and `values` are parallel lists with one member for every exported file. The order of the bars is `StableSort` of the keys by tx, which `NatOrder` shows to be a permutation that keeps equal keys in their order, so the last bar written for a tx and a d is that of the last file (`BarShown`).
- `ColorsFollowRank`: `ColorsByRank`. A percentile lies between two neighbours of the sorted errors and percentiles rise (`PercentileBetween`, `PercentilesRise`), so the rank of an error rises with it; with no more errors than percentiles some percentile falls between any two different errors, at or above the one and below the other (`NeighbourFound`), so the rank rises strictly.
- `PointsPooledByDistance`: `PooledByDistance`. A loop that pops while it iterates has, after n of its rows, the kept ones of these before the index and the untouched ones from the index on (`Looping`); each turn, popping or not, keeps that, so at its end the columns hold exactly the rows of the filter, in order and aligned (`FileInv`). That the test of the second loop, by rank, is the same as comparing with the 20th percentile is `TopTest`.
- `FailuresAreExplained`: `FailuresExplained`. The squared distances from the mean add up to the variance (`OffsetsTotal`), so by Chebyshev's argument fewer than four ninths of the rows are outliers on an axis, or none (`FewOutliers`: each one contributes more than 9/4 of the mean square), and with two axes some row is an outlier on neither (`SomeNear`). No percentile is below the least error, so the best row that is left passes the second filter and has a weight (`BestBelongs`). `FailInv` adds that behind the exports there is no current file.

`NatOrder` holds what several of these need: division and remainder, the least and greatest members of sets of naturals, induction up to a bound, and that `StableSort` permutes the indices and `Sorted` puts its values in order (`SortPermutes`, `SortedOrder`).

*Induction.* Where a loop or a recursive definition has to be followed through, the proofs argue by a least counterexample: `NatOrder` proves that every non-empty set of naturals has a least member, every non-empty bounded one a greatest, and that a set with 0 and with every successor up to N holds N (`UpTo`). So `PositionLines` and `Smallest` of the visualizer and the sums and joined sequences of `GenGraphs`, recursive functions, are shown to exist and to have the values their equations say; the least and greatest indices that the searches pick are shown to exist; and a finite set of results is shown to have a least error.

*What proving changed in the models.* `Startup!Read` had overlapping cases, one of them applying the walk outside its domain; it is a nested condition now, in the order of the code. `Visualizer!PositionLines`, the sort of `HotCold` and the sums, sorts and filters of `GenGraphs` were written with operators that the prover knows nothing about; they are defined directly now. The behaviours are the same ones.

Only model-checked:

- liveness (`SimulationEnds`, `ShutdownWithData`, `PoisonEndsAll`, `FinishesWithinLimit`), because the prover does not treat fairness;
- the five properties that are violated, which are counterexamples.

## Not modelled

- The ns-3 network stack (abstracted as above), the rest of ns-3 and its Python bindings. Nearly all of the repository's Python lines are these generated bindings (`src/*/bindings/modulegen__*.py`), third-party code that no part of the program calls; the repository's own Python is `vis.py` and `gen_graphs.py`, and both are modelled. The share of all Python lines that the models cover is therefore small and will stay so.
- `scratch/test.cc`, which the program does not use.
- `get_bounds_and_regression`, the regressions and all drawing: numbers computed and drawn, with no state.
- The text of files and lines; camera and rendering of the visualizer.

## Plan

1. Done: all modules above, their runs, and a theorem for every safety property the passing runs check.
2. Left: the waypoint model of ns-3 as a component of its own with its queue, which `WaypointsNeverDrift` makes unnecessary for the program as it is; and liveness, should the prover come to treat fairness.
