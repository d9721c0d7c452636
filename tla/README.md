# Verification of tool_comparison_benchmarks

TLA+ models of the harness in `src/tcb` (`tcb`), TLC runs that check them on
small instances, and TLAPS proofs for every instance. All paths below are
relative to the repository; every definition's source lines are in
`PROJECT.json` under `map`.

    tlc -workers 2 -config BundleStore.cfg BundleStore     # one run
    tlapm BundleStore_proofs.tla                           # one module's proofs

## 1. The system

`tcb` is a Python command line that runs C static analyzers on pinned inputs
and makes tables of what they found. A process executes one command. What
makes it hard is not the data flow but what surrounds it: worker threads that
each own a child process, timers that kill by pid, a memory cap whose cgroup
survives a run, several `tcb` processes that share `runs/` and `.cache/`
without a lock, and runs of hours that may die at any point and whose outcome
must still be readable, comparable and honest about what was left out.

| Component | State | Operations | What makes it correct |
|---|---|---|---|
| invocation, `tools/base.py` | child, pid, timer thread, two readers, `state`, pipes | `run_timed` | own child, own result; 124 iff the timeout won; returns |
| thread pools, `clang_tidy.py`, `cppcheck.py`, `frama_c.py` | work queue, futures, budget clock | `pool.map`, `with` | order independent of speed; nothing outlives the block |
| Frama-C coverage, `frama_c.py` | entry order, outcomes | `round_robin`, `_one`, `_tally`, `coverage` | counts add up; "not partial" means all that were proposed |
| Infer, `infer.py` | codes, captured units | capture, analyze, `capture_coverage` | a shortfall is recorded |
| compilation databases, scope, `compile_db.py`, `scope.py` | the database | `filtered` | each file in scope once |
| bundle store, `bundle.py` | `runs/<name>/` | create, write files, `finish`, list, read | whole or not final; final is frozen |
| finding records, `run.py`, `bundle.py` | records | `_dedupe`, sort | file independent of arrival order |
| Juliet run and tables, `run.py`, `tables.py` | `per_cwe.csv`, findings | classify, count, tables | the counts agree; what was cut short shows |
| real-world and other tables, `tables.py` | labels at a pin | `realworld_counts`, `realworld_precision`, ... | labels settle, and belong to the bundle |
| envelope, `envelope.py` | `_CURRENT`, `_runs`, cgroups | `tool_run`, `wrap_argv` | figures are the run's own; a cap kill means `oom` |
| timing, `timing.py` | page cache, repeats | `measure` | a valid record times one thing |
| build, `build.py` | checkout, binary, manifests | clone ... generate | a scan uses the pinned binary |
| checks, `check.py`, and pins, `pins.py` | packages, PATH, checkouts, pin files | rows, one look each; refusal | what passed is the pinned input, as far as a row can tell |
| selfcheck, `selfcheck.py` | four golden files | `--update`, compare | drift is no change of pins, no torn file |
| mapping, environment, `al_bench.py` | none (reads) | lookups | data |
| command line, `__main__.py` | one command | dispatch | — |

Interaction: a command makes a *run* (`run.py`); the run asserts its pins
(`check.py`), makes a bundle (`bundle.py`), enters a tool run
(`envelope.py`) and calls an adapter; the adapter's pool makes invocations
(`base.py`); their records return to the run, which deduplicates, counts and
finishes the bundle. `timing` and `selfcheck` make several runs in one
process; `tables` reads bundles at any time, of runs that may be going on.

## 2. Modules

| Module | Models | State and actions |
|---|---|---|
| `RunTimed` | `run_timed` | One action per blocking or shared step of the main thread (`Spawn`, `Observe` = `waitid`, `MarkExited`, `CancelTimer`, `Reap` = `wait4`, `Return`), of the timer (`TimerFire`, `Expire`, `ExpireKill`), of a reader (`Read`, `Eof`), and of the tool. The kernel's pid table `owner` is shared by all calls, so a pid can be handed out again after `Reap`. |
| `Invocation` | what `run_timed` promises | The abstract specification: no pids, pipes or threads. `RunTimed` implements it (`Implements`, mapping `phase`). |
| `ToolPool` | `with ThreadPoolExecutor ... list(pool.map(one, items))` | The caller (`Submit` ... `Shutdown`), the workers (`Take`, `Begin`, `End`), the budget. An item may raise before or after its tool ran; the generator then cancels from the last future down. |
| `SequentialMap` | what a pool promises | The abstract specification: a loop over the items, no threads. `ToolPool` implements it (`ActsAsLoop`). |
| `FramaC` | real-world Frama-C, extends `ToolPool` | Items are entry points in `RoundRobin` order, outcomes what `_one` looks at; `Tally`, `Partial` are operators on the final state. |
| `Infer` | real-world Infer with `compile_db.filtered` | `Filter`, `Capture`, `Analyze`, `Finish`. A capture may be ended early, die, or lose units without a word (`silent`), whatever it returns; a header may fail many units at once. |
| `BundleStore` | `runs/`, its writers and a reader | `Probe` and `Mkdir` are two steps; each file write is `Open` (truncates) and `Write`; `Crash` anywhere; the reader reads file by file between the writes. |
| `Ledger` | what `runs/` promises | The abstract specification: a bundle has one author and is finished in one step, no files. `BundleStore` implements it (`ActsAsLedger`). |
| `Findings` | `_dedupe`, `SORT_KEY`, `finish` | Two runs report records in any order; the files are operators. |
| `SelfCheck` | `tcb selfcheck`, extends `Findings` | Each run is a process: `Begin`, `RunReport`, `RunEnd`, then an update, each golden file of which is `OpenGolden` (empties it) and `CloseGolden`; `Leave` ends or kills it at any point. `MovePin` moves the pins either way between processes. `Answers` is what a comparison may say. |
| `Juliet` | `run_juliet` and the Juliet tables | `Scan`, `Skip` per CWE directory and bundle, an invocation of which may be cut short; `toolOf` gives several bundles to one tool; the tables are operators on what is on disk. |
| `RealworldTables` | `realworld_counts`, `realworld_precision` | The tables are operators; the actions pin a commit of the labels with one more row, or another commit of the codebase. |
| `ToolRun` | `tool_run`, `wrap_argv`, `_envelope_status` | Runs of one process in sequence, cgroups, processes that fork, grow, are OOM-killed, outlive their run. |
| `Timing` | `measure` | Warmups, drops, checks, the harness' own reads before the clock, repeats, other load. |
| `PinCheck` | the rows of `check_tool` and `check_repo`, the refusal, the second read of the pins | A row is one look (`Version`, `Path`, `OriginRow`, `Head`, `StatusRow`, `Lint`) and a command may not answer; `TouchHost`, `TouchTree`, `RaisePin` change the machine between any two looks. `since` notes what changed after the first look at it. Strays are files next to tracked ones, files whose names git quotes, and files in a directory of their own. |
| `Tcb` | `main` | Composes `Timing`, `PinCheck`, `Infer`, `Juliet`, `SelfCheck` and `RealworldTables`: one process runs one command, the variables of the others are `Off`; `TypeOK` types those of the command that runs. |
| `AuroraBuild` | `build`, `check_aurora_lint`, the scan's use of the checkout | Several processes and a developer share the checkout; git, cargo and the manifest script are steps; anything may die. |

The proofs of a module are in one of its name with `_proofs`; those of all
commands in `Tcb_proofs`, the lemmas on orders in `Ranks_proofs`.
`MCFramaC`, `MCToolRun`, `MCRealworldTables`, `MCTcb` give TLC its
instances. Definitions next to one of nearly the same name
(`MkdirExistOk` beside `Mkdir`) are the same code with a plausible bug; no
`Next` uses them. For each property of each passing run there is one that
the property rejects.

Abstractions used throughout: paths, names, check ids and messages are numbers
or model values; a CPython thread switch may fall between any two actions;
a file that is written (of a bundle, of a golden) is absent, torn or whole, with its opening and its end as two steps.

## 3. Runs

State counts are of distinct states.

| Run | States | What it shows |
|---|---|---|
| `runtimed` | 554,404 | Two calls, two pids that are reused: `KillHitsOwnChild`, `KilledReports124`, `ResultIsOwn`, `TimedOutSettles`, and the refinement of `Invocation`. |
| `runtimed_live` | 2,739 | One call, both streams larger than the pipe: `TimedCallReturns`, `ToolNeverStuck`. |
| `frama_c` | 190,577 | Four entries of three units, two workers, a budget that may end at any step: `NothingOutlivesThePool`, `NotPartialMeansAll`, `ShallowScan`, `PoolEnds` (liveness), and the refinement of `SequentialMap`. |
| `bundle_store` | 79,212 | Two runs and a reader: `FinalIsWhole`, `LoadIsConsistent`, `FinalIsFrozen`, and the refinement of `Ledger`. |
| `tool_run` | 63,657 | Two runs, four processes, cap of three units: `Confined`, `FiguresAreOwn`, `CapKillMeansOom`. |
| `tcb` | 1,862,598 | One process and each of six commands: `ValidIsOneThing`, `ColdCodebaseIsCold` (timing); `PassedRunMatchesRows` (pins); `ReportedLossesShow` (Infer); `CountsAgree`, `HitsAreMatched`, `CommonIsCovered`, `CutShortShows` (Juliet); `OrderStaysOut`, `FileIsExact`, `NoFalseAlarm`, `MismatchIsDrift` (selfcheck); `LabelsOnlySettle` (tables). |
| `aurora_build` | 189,881 | Two processes and a developer: `ScanUsesPinned`, `ReadyStaysReady`. |
| `runtimed_hang`, `timing_cold`, `infer_shortfall`, `stray_unseen`, `labels_other_commit` | violation | see 6.1 |

### Bounds

| Bound | Value | Why it is enough |
|---|---|---|
| `Inv`, `Pids` (RunTimed) | 2, 2 | A confusion of calls needs a pid handed from one to another: two calls, and a second pid so that both run at once. The proofs need no bound. |
| `OutLen`, `Cap` (RunTimed) | 1 or 2, 1 | A child blocks as soon as it writes one chunk more than the pipe holds. |
| `N`, `Jobs`, `Defined` (FramaC) | 4, 2, `<<3,1,1>>` | One unit past `MaxEntries`, one deep entry, more items than workers, so that an item waits in the queue when another raises. |
| `MaxClock`, `Runs` (BundleStore) | 1, 2 | Same second, later second. The proofs need no bound. |
| `Procs`, `MaxRuns`, `Cap` (ToolRun) | 4, 2, 3 | An invocation and a straggler in each of two runs, and memory for one to push the other over. Symmetric in `Procs`. The proofs need no bound. |
| `MaxRecords`, 2 columns, 2 checks, 2 severities (Findings) | 2 | Order and duplicates are relations of two records. `Reported` is a record and four others that differ from it in severity, column, check or line. |
| `MaxPin` (SelfCheck) | 1 | Two pins, moved either way between any two processes: raised for the newer run, and put back after it. |
| `MaxEntries`, `Sources` (Infer) | 3, 3 | A duplicate, an out-of-scope file and an entry in the wrong order in one database. |
| `MaxFindings`, `MaxLabels` (RealworldTables) | 2, 3 | Two records with one key; a TP and an FP for one check, then a third. |
| `Repeats`, `Warmup` (Timing) | 3, 1 | Any two of three repeats, and a run before the first. The proofs need no bound. |
| `MaxFindings`, 2 CWEs, 2 bundles, 2 lines (Juliet) | 2 | `Given`: both bundles of one tool, or of two. Adjacent flaw lines, a wrong check, a skipped CWE on one side, a tool that bounds its entries and one that does not. |
| `MaxTouches` (PinCheck) | 2 | One change before a look and one after it, or one that is undone. The proof needs no bound. |
| `MaxTime`, `Dirs` (AuroraBuild) | 6, 4 | Three changes of the sources with a build after each. The proofs need no bound. |

`CHECK_DEADLOCK FALSE` stands where the processes really end; `RunTimed` and
`AuroraBuild` are checked for deadlock (`RunTimed` has `AllOver` for the
regular end).

### Fairness

- `HarnessFairness`, `FairSpec`: weak fairness of each thread of the harness.
  They are kernel threads, each of whose steps stays enabled until taken; the
  lock of `run_timed` is never held across a blocking call.
- `HeirFairness` (`KillSpec`): a process a tool left behind lets go of the
  pipes sooner or later. The code does not ensure it, and `runtimed_hang`
  shows what happens without.
- `ToolFairness`: an assumption of `ToolNeverStuck` alone (a tool that is
  scheduled writes and ends); the property says that the harness does not
  stop it.
- In `ToolPool`, `End` is fair because each invocation has a timeout and
  returns (`RunTimed`, under the same assumption on descendants).

All other runs check safety and assume no fairness.

## 4. Proofs

Checked by TLAPS for every value of the constants (`PROJECT.json`,
`theorems`). Every safety and action property and every refinement that a
passing run checks is also a theorem; only liveness is not. Assumptions are
only the named `ASSUME`s of the modules (`Nobody` is neither a call nor a pid,
`Cap > 0`, `MaxClock \in Nat`, ...).

In the modules that `Tcb` instantiates the assumptions are an operator
`Parameters`, and `CommandAssumption` of `Tcb` states it for the instance.

**`RunTimed_proofs`**: `TypeCorrect`, `KillsOwnChild`, `KilledIsTimeout`,
`ResultsAreOwn`, `VerdictSettles`, `RefinesInvocation`,
`NeverWaitsForItself`. `KillHitsOwnChild` is
not inductive: why the pid is still the child's when `os.kill` runs depends on
where *three* threads are. `IInv` adds that (a) the pid table and the calls
agree and a pid stays the child's until `wait4` (`PidTable`); (b) a timer that
is about to kill has seen `exited = FALSE` under the lock, so the main thread
is before `MarkExited` and the child not reaped (`Threads`); (c) a status is
there exactly when the child has ended, and "killed" only after a declared
timeout (`Statuses`); (d) no chunk of output is lost (`Pipes`). The refinement
follows step by step: `Spawn` is `Start`, `MarkExited` is `See`, `Reap` is
`Report`, readers and pids stutter. `NeverWaitsForItself` is the part of the
liveness that can be proved: when no guard of the main thread, the timer or a
reader holds (`HarnessCanStep`), the call waits for something outside, a tool
without a timeout that finds its pipes empty or the leftovers of one that has
ended. It takes one more invariant: no child outlives its timer (`OverInv`).
`runtimed_hang` shows that the second wait is real.

**`ToolPool_proofs`**: `PoolTypeCorrect`, `PoolKeepsOrder`,
`PoolLeavesNothing`, `PoolNeverStuck`, `PoolStepsRunOut`, `RefinesLoop`.
`NothingOutlivesThePool` speaks of the end
only; what carries it there is that all items are submitted before the first
is collected (`SubmittedInv`), that what was collected has ended
(`CollectedInv`), and that the queue is empty from the moment the block is
left: either every result was collected or every queued future was cancelled
(`ClosedInv`). With an empty queue `shutdown(wait=True)` can only see the
workers finish. For the refinement the answer of an item is what its worker
has put into its future, or `NotYet`; `FailedInv` and `AnsweredInv` say that
the call raises for the first item in the order that has failed, and that an
answer which was collected does not change. After the call is over the answers
of items that still ran are hidden: the caller cannot see them. Two theorems
carry `PoolEnds` to any number of items and workers but for its last, temporal
step: until the call is over a guard of the caller or of a worker holds
(`CanGoOn`; a caller that waits for a result would be stuck on a cancelled
future, and `CancelledInv` says that there is none then), and every step lowers
`StepsLeft`, which counts what each item, the list, the call and the clock have
still to go.

**`BundleStore_proofs`**: `StoreTypeCorrect`, `NoSharedBundle`,
`FinishedIsWhole`, `LoadsAreConsistent`, `FinishedIsFrozen`, `RefinesLedger`.
`IInv` adds to the properties that a run which has no bundle is at its first
write (`NamedInv`), that its bundle exists once it has one (`OwnInv`), that
while it writes the status is not final and all earlier files are whole
(`ProgressInv`), and that a reader which saw a final status is in a bundle
that is final still (`ReaderInv`). `NoSharedBundle` rests on
`mkdir(exist_ok=False)`, not on the probe before it. In the refinement the
many writes of a run are two steps: `Mkdir` enters the bundle, and the write
that makes `meta.json` final finishes it.

**`AuroraBuild_proofs`**: `BuildTypeCorrect`, `ScansArePinned`, `ReadyIsKept`.
A run proves nothing about the binary but that it is not older than the
sources. That this is enough takes: the tree is the commit of HEAD
(`TreeInv`); a binary not older than the sources is of the tree, which a
compilation that began before a checkout and linked after it would break
(`BinInv`); it does not, because past its checkout no process meets another
commit (`AtPinInv`), since only a hand makes one and hands wait until all is
quiet; and what a row or a link has found lasts (`HasBinInv`, `LinkInv`).

**`ToolRun_proofs`**: `ToolsAreConfined`, `FiguresAreTheRuns`, `CapKillIsOom`.
The group of a run is new because its number is (`Shape`), so it has the run's
tools and no others (`MembersAreMine`), and the kernel's counters of the group
are those of the run as long as it lasts (`FigureInv`); `Leave` reads them
before anything else happens (`RecordInv`). `RunTypeCorrect` has the ranges:
memory is a set of units (`Units`), so a process holds no more than its group
(`OwnIsWithin`) and a request that is served stays within the cap; every kill
and every timeout that is counted is of another process that is gone
(`CountInv`, `GoneGrows`), so the counters never exceed the processes.

**`Ranks_proofs`**: the lemmas that stand in for induction. Where the code
sorts or visits in an order, the models say which element has how many before
it. In a finite set with a total order each place is the rank of exactly one
element (`RankNumbers`), and a correspondence that keeps the order keeps the
ranks (`SameRanks`). The entry order of Frama-C, the database of Infer and the
files of the findings rest on these.

**`FramaC_proofs`**: `WholeRunsAreWhole`, `RoundRobinVisitsAll`,
`BudgetLeavesShallowScan`. The coverage has only counts: that they cannot hide
an entry rests on analysed and unknown entries being different ones
(`CountsCoverAll`). For the shallow scan, `RoundRobin` gives each place to the
entry of that rank (`PlacesAreRanks`), so a unit's deeper entry has a later
place than every unit's shallower one (`ShallowFirst`). What is left is a race
of the pool alone: the workers take entries from the front (`QueueInv`), and
nothing is left out before the budget is used up (`BudgetInv`). So when an
entry is begun, all earlier ones that are not are in the hands of the other
`Jobs - 1` workers (`RaceInv`), and later steps only shrink that set.

**`Tcb_proofs`**: theorems about the composition. Each of six commands has
an inductive invariant of its own, which the steps of the other commands leave
alone (`TimingPart`, `PinsPart`, `JulietPart`, `GoldenPart`, `RawPart`,
`InferPart`, `TablePart`). `TypesHold` has the types of the variables of
whichever command runs, each of the six.

- `tcb timing`: `ValidTimesOneThing`, `ColdIsColdOnACodebase`. Each repeat is
  compared with the first alone (`KeysInv`), which by transitivity compares
  any two; `CountInv` counts the repeats off from the warmups; `ColdInv`
  follows the cache from the drop to the clock.
- The pins a run asserts: `PassedMatchesRows`. The invariant says what each place
  in the sequence of looks knows (`HostInv`, `CheckoutInv`) as long as what
  was looked at is left alone, and that a failed row refuses (`RefusedInv`).
  What is known is what the rows tell apart: the binary may be another build
  that prints the pinned version (`LooksPinned`, 6.2), and nothing is known
  of a machine that changed after the look.
- `tcb run juliet` and its tables: `BothCountsAgree`, `HitsRestOnMatches`,
  `CommonRowsAreCovered`, `CutShortIsSeen`. Nothing is known of a CWE before its row is written
  (`RowFirst`), so what a scan adds is counted alone: classification is a
  bijection from the records to the findings (`ClassifiedCount`) and its
  sections partition them (`RowAddsUp`). `HitBound` maps pairs of a matched
  finding and an offset onto the flaw lines that are hit.
- `tcb selfcheck`: `DriftIsDrift`. The older run is over before the newer
  begins, and pins do not move while a process works (`InTurn`); so a file is
  of the update that opened it last and has the pins that update's run
  asserted, and updates write the files in one order (`WrittenInOrder`). If
  `golden.json` is of the last update, that update came to its last file and
  the others are its own and whole; that the comparison went through makes
  its pins those of the run that asks (`MismatchMeans`). Of a
  `golden.json` that a later update left behind nothing of this follows.
- The files of the findings: `FileNamesEachOnce`, `OrderIsForgotten`,
  `EqualRunsAgree`. `_dedupe` keeps one record of each key
  (`DedupeKeepsOne`), and the file has them by rank (`FileIsRanked`). Two runs
  that reported the same keys therefore have a correspondence of their records
  that keeps the order, so their files have the same values at every place
  (`SameValues`): the order of arrival is gone, without a word on how the
  sort works. With equal files the keys and the counts per check that a
  whole golden file holds are equal, whichever run wrote it (`SameArtifacts`).
- `tcb run` of Infer: `ReportedLossesAreSeen`. `filtered` keeps one entry of each
  file (`KeptOncePerFile`) and its sort loses none (`FilteredIsKept`), so the
  units handed over are the files wanted (`UnitsAreWanted`). `InferInv` ties
  the coverage to the set of places that failed: no place counted means that
  no unit had a fatal error, so what is missing is `silent`. No return code
  says more.
- The real-world tables: `MoreLabelsSettle`. Verdicts of a key only grow, and
  the order in which they are looked for lets a class change only from
  unlabeled, and from FP to TP (`StepSettles`); the columns partition the keys
  (`ColumnsPartition`).

Only model-checked: liveness (`TimedCallReturns`, `ToolNeverStuck`,
`PoolEnds`), because fairness and ENABLED are out of the prover's reach:
`NeverWaitsForItself`, `PoolNeverStuck` and `PoolStepsRunOut` prove what they
rest on, and state the guards of the actions in place of ENABLED. What
the five violation runs show is a counterexample and needs no proof.

## 5. Not modelled, and why

- Parsing of tool output and of C (`parse_*`, `c_function_definitions`): pure
  functions of text.
- Path patterns, the mapping's regular expressions: what is in scope and
  which rules a check has are constants.
- `env.py`: a record of the host that is written and shown and decides nothing.
- The label row of `check.py`, which no run asserts; the rows of aurora-lint
  pass or fail as one in `PinCheck` and are one by one in `AuroraBuild`.
- The re-execution under `systemd-run` (`envelope.activate`): once, before
  any run.
- Rates, footers, and the timing, resources and environment tables: they copy
  or divide fields of records.

Assumptions about the surroundings, each named where it is used: the pins move
between two selfchecks and not while one works, and no two are at work at
once; a developer changes commits of the aurora-lint checkout, not files in
it, and only while no `tcb` works there, and what differs between two commits
is in the sources whose times are compared; file times tell apart a checkout,
a compilation and a link; one finding of a tool has one severity; a place is
labelled once per commit and rule; Infer starts to translate as many files as
it was handed. `ToolRun` does not model that the kernel charges page cache to
a group, nor `Juliet` that an out-of-memory kill overrides the status.

## 6. Divergences

### 6.1 Shown by a run

1. `runtimed_hang`: after the SIGKILL of a timeout `run_timed` joins its
   readers, and they end when every holder of the pipe is gone. A worker the
   tool left behind keeps the call waiting; `tests/test_envelope.py:99` says
   "does not hang" and tests a child without descendants.
2. `timing_cold`: `--cold` on a Juliet target drops the cache, then
   `run_juliet` reads every test file (`run.py:166`) before it starts the
   clock; `timing.py:14` says the cache is dropped "before every repeat ...
   never faked". On a codebase `ColdCodebaseIsCold` holds.
3. `infer_shortfall`: the coverage of a capture that timed out counts the
   units it never came to as captured (`infer.py:74-81, 125`);
   `infer.py:15-18` says the shortfall is recorded. Of a timeout the status
   of the bundle tells (`ReportedLossesShow`); of units that Infer loses
   without a fatal error nothing does, see 6.2.
4. `stray_unseen`: `check_repo` takes the lines of `git status` that end in
   `.c` or `.h` (`check.py:158-161`); git names a directory without tracked
   files by one line and not its files, and puts a path with unusual
   characters in quotes, so its line ends in `.c"`: such C files pass as
   clean. `check.py:166` and `README.md:46` say that they are refused. A
   plainly named one next to a tracked file is (`PassedRunMatchesRows`).
5. `labels_other_commit`: `realworld_precision` looks the findings of a bundle
   up among the labels of the commit pinned when the table is made
   (`tables.py:229`), and not of the commit the findings name; `bundle.py:147`
   has the commit in the key a label attaches to. While the pin stays,
   `LabelsOnlySettle` holds.

### 6.2 Seen while modelling, without a run

- `bundle.py:49-52`: two runs in one second probe the same name; the second
  `mkdir` raises and that run dies after its checks (`pc = "raised"`). No
  bundle is damaged (`NoSharedBundle`).
- `check.py:220-221` accepts any number of generated manifests above one: a
  run after a build that died in the manifest script notes CWEs as having
  "no per-CWE manifest ... at the pinned commit" (`run.py:183`) that the
  commit has. After a build that returned 0 this cannot happen
  (`ReadyStaysReady`).
- `build.py:51` says fast-mode Juliet runs "will be skipped" when there are
  no manifests; `check.py:220-222` refuses every run.
- `timing.py:19` speaks of "count and keys"; only keys are compared.
- The key of `_dedupe` (`run.py:29`) leaves out the severity:
  `OrderStaysOut` needs `SeverityIsFixed`, which `docs/reproducing.md:13-15`
  does not state.
- `selfcheck` compares keys and per-check counts, not bytes
  (`bundle.py:16-18`), writes `per_cwe.csv` and never compares it, and names
  the pins of the moment of the write.
- `selfcheck.py:46-62`: an `--update` that dies over an existing golden leaves
  the old `golden.json` over files that are torn or new. A later run that finds
  what the golden's runs found may then be called MISMATCH, or the command
  raises (torn files); and if that update was under other pins which are then
  put back, `golden.json` names the right pins and `keys.csv` is of the wrong
  ones: a change of pins is reported as drift, against `selfcheck.py:12-13`.
  The model has both cases. `NoFalseAlarm` therefore speaks of golden files
  that are whole and `MismatchIsDrift` of a `golden.json` of the last update;
  neither holds without.
- `tables.py:13` says that juliet-summary is over "the CWEs every given bundle
  covers". `tables.py:153-157` intersects per tool, over the union of the
  tool's bundles, and leaves out tools without an `ok` row: a CWE is common
  that one of two bundles of a tool covers, or that a bundle with skipped CWEs
  only does not. A CWE that two bundles of a tool cover is counted twice.
  `CommonIsCovered` says what does hold.
- `infer.py:74-81`: a unit that Infer loses without a line "fatal error:"
  counts as captured, also when the capture ends with 0, or with 1 and no
  ": error:", which `run.py:49` does not count as failed: such a bundle says
  `ok`, not partial, no failed invocation. `infer.py:5-7` knows of exit 0 with
  nothing captured. An error in a header counts once, however many units
  include it, so `tus_captured` is too high.
- `frama_c.py:270` takes the first `REALWORLD_MAX_ENTRIES_PER_TU` functions of
  a unit; those past it appear in no count, and `partial` is False when all
  others were analysed, while `frama_c.py:33-35` calls every real-world row a
  partial scan. `NotPartialMeansAll` speaks of the functions below the cap.
- `_dedupe` works on one CWE directory at a time in a Juliet run
  (`run.py:189`): a finding in a support file appears once per directory.
  `FileIsExact` is of one call.
- `realworld_precision`: TP may exceed `known_TP_in_labels`, when two checks on
  a line map to one labelled rule.
- `check.py:119-124`: of a prebuilt tool (Infer) the row checks that a file
  exists; the sha256 of the pin is shown and never computed, while
  `pins/tools.json:24-26` says that the archive or binary "must hash to
  `sha256`" and `docs/DESIGN.md:18` lists the digest as asserted. The package version
  of clang-tidy is matched up to its build. `LooksPinned` says what is told
  apart, and `PassedRunMatchesRows` promises no more.
- `run.py:96-98`: each row is one look and the pins are read again after the
  rows; a machine or a pin that changes in between is not noticed.
  `PassedRunMatchesRows` says nothing of such a run.
- `frama_c.py:202`: without `opam` the adapter falls back to the frama-c on
  PATH; the rows have passed through `opam exec`.
- `timing.py:124` reads `load_before` after the run.
- `tables.py:54`: the footer prints the pins of the moment of the table.
- `selfcheck.py:78`: Infer runs with parallel jobs in a selfcheck.
- `compile_db.py:68`: a database that does not parse is reported as one
  without in-scope entries.
- `run.py:205`: a CWE whose invocation was cut short has status `ok` in its row;
  `CutShortShows` is what can be relied on instead.
- `check.py` compares the aurora-lint checkout by HEAD and file times and
  never asks whether it is clean. A checkout that changes nothing under
  `src/**/*.rs` (`Cargo.lock` alone, say) leaves a binary that passes
  `check.py:217`; the commits of `AuroraBuild` all differ in the sources.

## 7. Plan

Order of the work, most important behaviour first; done in this order so far:
`Invocation`/`RunTimed` with its proofs, `ToolPool`/`FramaC`, `BundleStore`,
`ToolRun`, `AuroraBuild`, `Timing`, `Findings`/`SelfCheck`, `Juliet`,
`Infer`/`RealworldTables`; the proofs of `ToolPool` and `BundleStore`; the
abstract specifications `SequentialMap` and `Ledger` with their refinements;
`PinCheck`; `Tcb` with six commands; the proofs of `AuroraBuild`, `ToolRun`,
`FramaC` and `Tcb`; `Ranks_proofs` and with it every safety property of every
passing run.

Left:

1. Model: the two notions of scope, `compile_db._in_scope` and
   `scope.in_scope`, against each other; `mapping.resolve` and its coverage;
   Infer on Juliet per CWE; the resources and timing tables over bundles of
   died runs; a developer who edits the aurora-lint sources without a commit.
2. Prove: the properties of what item 1 adds.
