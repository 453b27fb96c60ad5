# A TLA+ model of sv2ghdl's simulation driver

sv2ghdl is a collection of tools around open simulators. Its largest program is
`vamos` (`src/vamos`), which takes the command line of a commercial simulator
(vcs, xsim, spectre), translates the input, runs one or more engines (nvc,
Verilator, VACASK, Xyce) as child processes, and writes results the way that
simulator does. Beside it is `regress`, a regression harness that builds the
simulators, runs their test suites and gates pushes. This directory specifies
the parts that are hard to test: what happens to the engines, to the files on
the disk, to the database and to the exit status when signals, errors, kills and
other processes come at any instant.

## The system

| part | state it keeps | operations | interacts with |
| --- | --- | --- | --- |
| `vamos/proc.py` | `Interrupts`: the saved handlers, the child, the first signal, the flags, the grace timer | enter, attach, take_flags, exit; handlers for stop signals, flags, SIGALRM, SIGTSTP; `kill_group`; `child_setup` in the forked child | every backend and runner; the kernel and `subprocess` |
| `vamos/spectre/stop.py` | the time of the last hangup | `classify`, `take_over_flags`, `give_back_flags` | cli, flow, runners |
| `vamos/cli.py` | `_EarlySignals`: signals received before the flow is there | record, hand over, exit | flow |
| `vamos/spectre/flow.py` | `_Signals` (state, count, signum, flags), `_Run`, `_Conversion` (lists of written and listed results) | install, take over, steps, engine_run, convert, end, restore | runners, results, writers |
| `vamos/spectre/run_vacask.py`, `run_xyce.py` | a subclass of `Interrupts` with the second signal; the engine result | compile, run the engine or the decks, classify the end | proc, stop, flow |
| `vamos/spectre/results.py` | per analysis: groups, failed points, status | `collect`: parents and leaves in point-major order | flow |
| `vamos/output/*.py` | files `<name>.vamos-tmp` and `<name>` | write, replace | flow |
| `run_vacask.py`: `compile_va` | a directory of compiled Verilog-A, shared by every run that names it | hash, reuse or compile, replace | openvaf-r, other vamos processes |
| `vamos/personalities/vcs.py`, `simv.py`, `vamos/backends` | `./simv`, `<exe>.daidir`, its job record, the AMS report | compile, invalidate, run | proc, the tools, compiles before and runs beside it |
| `vamos/netlist`, `vamos/ams` | parsed netlists, plans, decks | parse, plan, render | flow, backends |
| `regress/lib/Regress/Gate.pm`, `coord-gate.sh` | a gate job; the checkout and build area of each repository | fetch, check out, build, `regress run`, judge, push, set the baseline | git, the database, other gates, `regress baseline` |
| `regress/regress`, `DB.pm` | an SQLite database of runs, block runs and baselines | run, dispatch to smak or make, record, compare | the suites, smak, make |
| `packages/`, `sv2ghdl.pl`, `yosys/`, `bfit/` | VHDL packages, translators, generators | pure translation | simulators |

What is hard in it:

* **Signals.** CPython runs a handler between any two bytecodes (vamos supports
  Python 3.9 and newer), also inside another handler, an `except` clause or
  `__exit__`. During one spectre run the handlers change hands six times.
* **Child processes.** They are started, asked to end, killed after a grace
  period, stopped and continued; vamos itself may be killed.
* **Files.** Results are written one by one while signals, full disks and
  malformed engine output may end the conversion at any step.
* **Status.** One number has to be right for every combination of these.
* **Shared files.** Compiled Verilog-A, a daidir, a build area and a baseline are
  used by several processes at a time, and nothing locks them.
* **Abandoned processes.** A killed parent leaves children that go on writing.

`PROJECT.json` lists these hazards at their source lines.

## Modules

| module | models | used for |
| --- | --- | --- |
| `Interrupts` | `proc.py` and how its callers use it, one action per statement, handlers as a stack of frames | TLC, TLAPS |
| `InterruptsProofs` | theorems about `Interrupts` | TLAPS |
| `SpectreRun` | a whole spectre run: cli's, the flow's and a runner's handlers, the children, the conversion, the trailer, the exit | TLC, TLAPS |
| `SpectreRunProofs` | lemmas about the flag signals of `SpectreRun` | TLAPS |
| `SpectreStopProofs` | theorems about its stop signals, its trailer and its exit status | TLAPS |
| `Collect` | `results.collect()` and the flow's filter on it, as operators (recursive: sweeps nest) | TLC |
| `Conversion` | the results on the disk: stale index, `_Conversion.psf` and `nutmeg`, state files, exit status | TLC, TLAPS |
| `ConversionProofs` | theorems about `Conversion` | TLAPS |
| `OsdiStore` | what the directory of compiled Verilog-A promises its users: whole files, one step each, never taken away | abstract specification |
| `AhdlCache` | `compile_va` and `compile_one` of several runs, openvaf-r, and edits of the sources; implements `OsdiStore` | TLC, TLAPS |
| `AhdlCacheProofs` | theorems about `AhdlCache`, the refinement among them | TLAPS |
| `Daidir` | `vcs` compiles into one daidir and `simv` runs of it | TLC, TLAPS |
| `DaidirProofs` | theorems about `Daidir` | TLAPS |
| `Gate` | `Gate.pm`'s `run`, several gates on several repositories, beside `coord-gate.sh` and `regress baseline` | TLC, TLAPS |
| `GateProofs` | theorems about `Gate` | TLAPS |
| `Dispatch` | a parallel `regress run`: smak, then make for what smak left | TLC, TLAPS |
| `DispatchProofs` | theorems about `Dispatch` | TLAPS |
| `MC*` | the instances TLC checks | TLC |

Definitions called *mutant* in a comment are plausible bugs of the definition
that follows them; each property is violated when one of them takes its place.

### Interrupts

`pc` is the statement of the main program (`with`, Popen, attach, wait, the
`finally`, `__exit__`), `frames` the stack of handlers in progress, `pending`
the signals tripped (a set: standard signals do not queue). `handlers` and
`saved` are the installed handlers and `self._saved`; they change one signal at
a time. The child goes from fork over the three steps of `child_setup`'s
pre-exec function to its exec; it may ignore every signal but SIGKILL. `reaped`
and `returncode` are separate, because `Popen.wait` stores the code after
`waitpid` has freed the pid. The swap in `take_flags` is two steps, since a handler
may run between them: `TakeFlags` reads the list object, `TakeFlagsStore` binds a
new one, `FlagsUsed` answers; `lists` are the list objects, `cur` the one
`self._flags` names and `out` the one handed out. A flag handled in between is
appended to the list that is handed out. The caller's loop may raise.

### SpectreRun

The main program from cli.py's early handlers to `sys.exit`. A handler is one
step here; what `Interrupts` proves about a child under it (a recorded signal is
passed on when the child is attached, and the grace period runs from then on)
is what this module assumes of it. `Engine` chooses the runner. VACASK has an
openvaf-r compile and one engine process, Xyce a `-norun` check and one process
per deck. SIGTERM and SIGQUIT are handled as SIGINT, SIGUSR2 as SIGUSR1, so each
group has one member. Flags are counted, not named. `stop._last_hangup` is
abstracted to none, recent (inside `HANGUP_WINDOW`) and old.

Exceptions that are no signal's may come at any step (`Fault`): out of `steps()`, out
of the runner's block (a full disk in the pump, a deck that cannot be opened), or
from a line of the log; they go through `guarded` and `main` as in the code, where a
signal handled in an except clause goes one level further out. They set `failed`
or `logError`, because those clauses do not look at `sig.signum`, and the properties
name them as exceptions. The grace timer is here too: `__exit__` stops it (`rExit`)
and puts the handlers back (`rRestore`) in two steps, a first signal between them
starts it again (`exitStop`), and its SIGALRM then meets the default action and
ends vamos (`LateAlarm`, `died`). After the handlers are given back the interpreter
goes through its teardown, where a stop signal has its default action
(`TeardownStop`).

### Collect and Conversion

A plan is a sequence of analyses with their sweeps, the groups the engine left
and what is known to have failed; `CollectRun` yields the records the conversion
gets, without rows, headers and names. `Conversion` takes any stream (a
constant), so its theorems hold for more than `collect` can yield; MCConversion
feeds it every stream of the plans up to `MaxSteps` analyses. A point whose row is
missing fails although its group was there, so its parent lists it and it has no
data (`lost`); `save=nooutput` keeps a parent and drops its leaves. What the
conversion counts on of `collect` is stated as `Blocked` (a block starts where
`_starts_block` says so) and `Whole` (and only there; a parent's leaves are in its
block); the `ASSUME` of `MCConversion` evaluates both on those streams. A state file
may be written, fail (`write_error`), or only be warned about (`warned`: an analysis
of a kind without state, one that left no point, a point that cannot be read),
which leaves the exit status alone. `files` is the set
of results with a complete file (nutmeg: plots in the file), `index` the logFile
(nutmeg: the results file). A kill of vamos changes nothing on the disk, so an
invariant of the disk is a statement about a killed vamos too. Every write may
fail; reading the engine's output may raise anything else (an internal error).

### AhdlCache and OsdiStore

`pc[r]` is the statement of run `r` in `compile_va`/`compile_one`; `osdi` maps a
target, named by the source and the text that was hashed (sha1 is taken to be
injective), to what the file holds, or `None`; `part` is the run's own `.part`
file, which openvaf-r has `Torn` before it is whole. Signals appear as what the
runner's `Interrupts` recorded. SIGKILL of vamos leaves openvaf-r running. An
edit of a source may fall anywhere; `raced` remembers the sources edited between
a hash and openvaf-r's reading of them. An exception out of the wait loop, or from
`os.replace`, ends the run ("raised") and may leave its `.part` file. The refinement maps the store to `osdi`
and what a run has loaded to the targets of its load lines.

### Daidir

A compile is the sequence of `vcs.py`'s `main` (`_verilator_compile` has the same
one): refuse, unrecord, unreport, one tool after another, record, real `./simv`.
The tools' output is `Parts`, each whole, half-written or absent, by the number of
the compile that wrote it. Compiles come one after another; runs start at any
time, through `./simv` or by naming the daidir, read the record and then the parts.
Runs only read here; the cache of the resolver plugin and the work library that a
run keeps in the daidir (`nvc.py` 259-266) are derived from the parts and left out.
`GroupKill` says what ends `vcs`: TRUE, a Ctrl-C at the terminal, which reaches the
tool as well; FALSE, a signal to `vcs` alone. The theorems but the type's assume
TRUE, and the finding below is the run with FALSE.

### Gate

One variable per thing gates share: `head` and `built` (the build area of each
repository), `main` (the default branch on origin), `runs` and `baseline` (the
database). A gate's `regress run` is sequential (`--seq`). A child that reports an
error makes the gate fail, but for the repositories in `Unchecked`: `build_nvc` does
not look at the status of `rm`, `smak` and `make -k`, so a build that failed goes on
with whatever is in the build directory (`ignored`). A child *killed by a signal*
gives exit status 0 in `run_capture`, so the gate goes on (`RunKilled`: with its own
run if "Run #N" was out, else with the latest of the table; `ChildKilled`). A push may
be refused, reach origin and lose its answer (`PushLost`), or go to another branch
that `default_branch` picked (`PushElsewhere`). A gate that dies does so with its
session, or between two children. Others work on the same things: `coord-gate.sh`
checks out, runs and pushes (`CoordCheckout`, `CoordRun`, `CoordPush`), and `regress
baseline` sets any run (`BaselineByHand`). A result is good or not; a block whose
adapter died counts as not good.

The history variables name the conditions of the properties: `alone` (nobody else
worked on the repository), `killed`, `ignored`, `drift` (the branch or the baseline
moved without the other) and `early` (a run still under way was made the
baseline). Without a lock, each of these breaks what the gate is for.

### Dispatch

`job[<<t, b>>]` is the run-one that dispatcher `t` started for block `b`, with the
tests it runs; `row` the `block_run` it inserted; `astray` the tests that outlive a
killed runner, for which no run-one waits (`run_capture` gives the run-one status 0).
The fork of a dispatcher and its `setsid` are two steps. `$stop`, the handler of
INT, TERM and HUP, first copies the log to the console, where SIGPIPE may end
regress (`CopyPipe`), and then ends the session. `_end_session` is a look at
`/proc`, SIGTERM to what it saw, looks until nothing is left or five seconds are
over (`Look`), and SIGKILL to what the last look saw (`Kill`); jobs go on between them,
and a test started after the last look survives. SIGTERM ends the dispatchers and
every run-one (they have no handler), and leaves what tests ignore it. Without
`/proc` (`os`) it is one SIGTERM to the leader's group (`TermGroup`). `gaps` remembers
the instants at which `_end_session` misses something: a signal before the handlers
are set or before `setsid`, SIGPIPE in the copy, a test started after the last look.

## Runs

| run | bounds | shows |
| --- | --- | --- |
| `interrupts_nvc` | two stop signals, Ctrl-Z, three deliveries, default handlers outside | a child that was asked to end ends (liveness) |
| `interrupts_spectre` | two stop signals, two flags, Ctrl-Z, three deliveries, vamos may be killed | `SignalPassedOn`, `GraceRunning`, `KillOnlyAfterSignal`, `ChildResumed`, `FlagsInOrder`, `NoChildLeft` |
| `spectre_xyce` | check + two decks, two results, three stop signals, one flag | `StopGivesThree`, `HangupKeepsResults`, `TrailerOnce`, `EscapeBounded`, `ExitAsInTrailer`, `AlarmOnlyFromExit`, `FlagsAnswered` |
| `spectre_vacask` | compile + engine, two results, three stop signals | `NoEngineLeft`, `NoEngineAfterStop`, `OneStopConverts`, `SecondConvertsNothing`, `StopEnds` (liveness) |
| `conversion` | every plan of one or two analyses in no sweep, in A, in B (2 points each) or in B inside A, seven ways each (whole, with a row missing, `save=nooutput`, failed at its last point, failed with and without output, interrupted), both namings, both formats, two stop signals | `TypeOK`, `LogListsFiles`, `ParentsListLeaves`, `CompleteListed`, `NoTempLeft`, `StatusHonest` |
| `ahdl_cache` | two runs, one with two sources and one with one of them, two texts, one edit, two signals per run | `ImplementsStore` (the refinement), `NothingLeft`, `StaleNeedsRace` |
| `daidir` | three compiles, the second AMS, two parts, two runs | `NeverHalfRunnable`, `SuccessRuns`, `FailureRefuses`, `MixedNeedsRebuild`, `ReportOfRecord` |
| `gate` | two gates (or one and a step of others: `MaxJobs`), two repositories, one of which ignores failing steps, a commit ahead of the branch, one block | `JudgedOwnRun`, `TestedWhatItPushes`, `BaselineIsMain`, `BaselineKeepsGood` (action property) |
| `dispatch` | three blocks, the first and the last of one suite; without `/proc` smak's dispatch only (constraint `WithProc`) | `EveryBlockOnce`, `SuiteExclusive`, `NothingRunsOn` |

Three deliveries are what the deepest interleavings need: one signal inside the
handler of another, and a third around it; the windows found all need at most
two. For a run as a whole the interesting number of stop signals is three (an
except clause in each of `psf`/`steps`, `guarded` and `main`), which both spectre
runs have. Two results and two decks give a first, a last and a "between"
for the stop tests. Two analyses and two sweep levels give adjacent blocks,
merged blocks (two analyses under one sweep), and nesting; one sweep of two points
is the smallest in which a parent lists some of its points only. An analysis
without its row is one whose first point has none.

Two runs and an edit show every race for a cache file (a third run only repeats
one of the roles), and a run with two sources has a target before and after the
one at hand. Three compiles are a success, a failure after it and a repair, in any
order, with a report to go stale; two runs can straddle different compiles. Two
gates meet on one repository or share only the table of runs; gates are
interchangeable (symmetry), repositories are not, since one is `Unchecked`. A gate
and one step of another program (`MaxJobs` counts both) show how they meet. What
smak's dispatch leaves running without `/proc` meets make's jobs, of which nothing
is claimed there, so `WithProc` cuts those states. The theorems remove these bounds
and that constraint.

CHECK_DEADLOCK is off in every run: a program ends.

### Fairness

`Interrupts!Fairness` and `SpectreRun!FairSpec` assume that the interpreter goes
on (weak fairness of the main program and of the handlers in progress), that the
kernel's interval timer expires, that a forked child reaches its exec, and that
a user who stopped vamos continues it. Nothing is assumed of users (nobody has
to send anything), of engines (none has to end, or to obey a signal), nor of
exceptions (`Fault` is in no fairness condition; nothing has to fail).

### Findings

Three runs check a sentence of the source's documentation that the code does not
quite keep; each ends in a counterexample.

* `spectre_StopIsNoSuccess`: on VACASK a first signal after `finish()` has looked at
  `intr.signum`, while the block still holds the handlers, is forgotten: the run
  converts and exits 0 (`run_vacask.py:1122`).
* `daidir_NeverHalfRunnable`: a tool that outlives a `vcs` killed alone overwrites
  the daidir of the next, successful compile (`nvc.py:358`).
* `gate_NoEarlierRunJudged`: a `regress run` killed by a signal counts as
  successful, and the gate judges the latest run of the table, in the trace the one
  recorded before it began (`Gate.pm:80`).

Four more are stated in the modules and have no run of their own. To see the
counterexample, add the property to the configuration named.

* `ExactlyOneForward` (`Interrupts`, `MCInterruptsSpectre.cfg`): a signal between the
  two statements of `attach` is passed on twice (`proc.py:70`).
* `TimerEndsWithBlock` (same): a first signal between the two statements of
  `__exit__` arms the grace timer again; its SIGALRM meets the default action
  (`proc.py:107`). `SpectreRun` has the consequence: `AlarmOnlyFromExit` says that this
  is the only way the alarm ends vamos.
* `DeathReachesChild` (same): the death signal between the `getppid` test and the
  exec runs a Python handler and is lost (`proc.py:204`).
* `ResultReachesConversion` (`SpectreRun`, `MCSpectreVacask.cfg`): a first signal
  after the runner's block and before `sig.state = "deferred"` discards a finished
  run (`flow.py:965`).

Met while modelling, and not stated as properties: psf's docstring says that every
parent lists exactly the leaves that exist, which a missing operating-point row
(`results.py:893`) and `save=nooutput` inside a sweep (`flow.py:1002`) break, the
exceptions in `ParentsListLeaves`; a signal inside the last
instructions of `Popen.wait` goes to a reaped pid (`proc.py:152`); a process the
engine left in its group outlives an engine that exits by itself
(`proc.py:164`); Ctrl-Z before `attach` stops vamos alone; the SIGHUP that follows a
SIGTERM the runner took is a new signal in the gap before `flow.py:966`; two
signals after the trailer reach `os._exit(3)` (`cli.py:74`), and one in the
interpreter's teardown has its default action; two signals escape from `main` when
the first comes in the except clause of `steps()` (`flow.py:427`); an internal error
during a stopped run gives status 2; flags the runner holds
are lost when `_Interrupted` leaves its `__exit__`; a second signal between
`os.replace` and the end of the `try` reports a file as dropped that is there; the
temporary files of the logFile and of state files stay when their write fails; an
edit between the hash and the compile of a Verilog-A source stays in the cache
under the old name (`run_vacask.py:759`, the exception in `StaleNeedsRace`); an
exception in `compile_one`'s wait loop or `os.replace` leaves the `.part` file
(`run_vacask.py:804`, `:821`); two
compiles of one executable at a time share their temporary names (`vcs.py:1186`);
`default_branch` asks `run_capture` for output without a log, gets none, and never
uses origin/HEAD (`Gate.pm:199`); a gate with `--filter` and push makes a smaller run
the baseline; one with `--no-build` pushes what it did not build; a rejected
candidate stays built for the gates of the other repository, whose blocks use it;
`coord-gate.sh` judges the run with the largest number (line 134) and pushes without
setting the baseline (line 241); `build_nvc` tests what an older build left when its
own failed (`Gate.pm:166`); a signal between the fork of a dispatcher and regress's
handlers or the child's `setsid` leaves the session running, and so does SIGPIPE in
the copy of the log (`regress:338`, `:330`, `:345`, the exceptions in `NothingRunsOn`).

## Proofs

All theorems hold for every value of the constants that the named assumptions
(`InterruptsAssumption`, `SpectreAssumption`, `ConversionAssumption`,
`CacheAssumption`, `DaidirAssumption`, `GateAssumption`, `DispatchAssumption`) allow,
in particular any number of signals, decks, results, processes, compiles, gates and
blocks.

* `InterruptsProofs`: `TypeCorrect`, and six safety theorems from one inductive
  invariant `IInv` (theorem `Inductive`). `FlagsInv` says what the list objects hold
  between the two halves of `take_flags`' swap: what was answered, the list that is
  out and the current one are together the flags handled, in order. `HandlersInv` ties the installed handlers to the place in
  `__enter__`/`__exit__`, `ChildInv` the child to the place in the block,
  `SignalInv` timer, pending SIGALRM and kill to a recorded signal. The parts
  for `SignalPassedOn` and `GraceRunning` say which frame of the handler stack or
  which statement of `attach` still owes the child its signal or its timer;
  `StopInv` says which frame still owes the SIGCONT. Each part has its own step
  lemma; sequence facts about the stack (`SomeCons`, `Uncons`, `PushSome`,
  `TailSome`) are lemmas of their own.
* `SpectreRunProofs`: lemmas only. `FlagsInv` = `FlagCounts` (the counts are numbers),
  `FlagBalance` (every flag handled is with one of the three owners, in hand,
  answered or dropped) and `PollHolds` (flags are in hand only between the two
  statements of `poll`). It is bookkeeping, and says that no flag is lost only
  together with `AnswerInv` below.
* `SpectreStopProofs`: the types and every safety property of the two spectre
  runs, from one inductive invariant `StopInv` (theorem `StopInvAlways`). None of the
  properties is inductive: each speaks of the exit, and what leads there is spread
  over the handlers. `Owners` says whose handler a signal has at each place, also in
  the middle of an install or a restore, so which of the three handlers can take a
  signal where; `FlowInv` says in which state the flow's handler is there, so whether
  it records or raises; `AlarmInv` says who holds SIGALRM and that the timer runs on
  behind the block only after a signal inside `__exit__`. On these rest `ChildInv` (a child runs in the wait loop only),
  `CountInv` (each exception inside the handling of another cost a signal, unless
  that other one was no signal's),
  `TrailerInv` and `StatusInv`, `KillInv` (after the kill the way out is `stop.Stop`),
  `CalmInv` (with hangups only, or one signal only, nobody counts a second), and
  `AnswerInv` (without a raise every flag is with the flow at the last poll, or
  answered; it uses `FlagsInv`). `ThreeInv` follows a stop signal through the records
  to the status; it is inductive for Xyce, so `XyceStopGivesThree` has the hypothesis
  `Engine = "xyce"`. For VACASK it fails at `RunnerOut`, which is the finding
  `spectre_StopIsNoSuccess`.

  Two errors of the model came out of this proof: a signal during the `finally` of
  `main`, after an exception had escaped, led back to `guarded` instead of on to the
  interpreter, and `SecondConvertsNothing` did not allow for an escape after the
  kill.
* `ConversionProofs`: `IndexHonest` from `DiskInv`: the statements of a format are
  run for that format only, what psf's lists hold is on the disk (with the result
  in hand once its write has returned), an earlier index is there only before the
  first file, the new index lists files. `NoTempAlways` from `TempInv`: at which
  statements a temporary file exists, and that `current` is set there, which is
  what the except clauses test. `ConversionTyped` and `StatusHonestAlways` hold for
  any stream, from `ConvInv`: psf's loop is through with exactly the results on its
  two lists (`PassedListed`), all are listed when it ends without a signal or an
  error (`AllListed`), the same for nutmeg's plots (`Plots`), every result was
  tracked (`Tested`) and has its state file (`StatesDone`: written, or warned about). `BlocksListed` supposes
  `Blocked` of the streams and adds `OneBlock` (`done` holds the block in hand only)
  and `OneStop`; `ParentsWhole` supposes `Whole` and adds `WholeBlocks` (a block is
  listed whole or not at all). What it proves is `LeavesListed`, the part of
  `ParentsListLeaves` that depends on the conversion: every leaf with data of a
  listed parent is listed. That the parent lists no other points is a matter of what
  `collect` yields.
* `AhdlCacheProofs`: one inductive invariant ties each `pc` to what the run's child
  and `.part` file can be (a run at `replace` holds a whole file; one without a
  child cannot be writing; one that an exception ended may have any `.part` file) and
  the targets in `out` to files that are there.
  `Implements` follows: only `Replace` changes the store, only `Load` what is loaded.
  `StaleOnlyByRace` needs that a text that was hashed is still the source's text
  unless the source is in `raced`.
* `DaidirProofs`: compiles are ordered, so at most one is under way; what the
  record, `./simv`, the report and the parts can be is a function of where that
  one is, and of the last one that ended if none is.
* `GateProofs`: `OwnRow` (a run is recorded by one gate, and nobody else writes to it)
  gives `JudgesItsOwn`. `Candidate` follows the build area of an undisturbed gate from
  its checkout to its push; `Exclusive` is why no other gate moves it meanwhile.
  `BaselineFollows` needs that what a gate pushed is still on the branch
  (`PushedIsMain`) and that two gates between push and `set_baseline` count as drift
  (`PushApart`). `NothingLost` is a step property of `SetBaseline`: the comparison that
  found nothing is still the same then (`StillClean`), because the baseline's row is
  not being written any more (`Frozen`).
* `DispatchProofs`: `NothingLeft` from `Session`: where there is `/proc`, only the
  dispatcher at hand has a session, and none where regress is settled but for a test
  of the gap "look"; the last look saw every job; a dispatcher that was waited for
  has exited. `OneAtATime` adds `Chain`: a block of
  a suite waits only for the one before it in the makefile, so that all earlier
  ones have exited is an induction along the run; the step at `JobStarts` needs
  that there is a greatest earlier block (`Greatest`, from the well-foundedness of
  the naturals). `EachBlockOnce` adds what the two dispatches share of the rows
  (`Divided`), that no row changes between `_unfinished`'s read and the deletion
  (`Left`), and the result of the deletion (`Done`).

Only model-checked: liveness (`ChildEnds`, `StopEnds`; the prover has no fairness),
that the streams of `collect` are `Blocked` and `Whole`, and how many points a parent
of `ParentsListLeaves` lists, since `Collect` is recursive over the nesting of the
sweeps. Every other property of a passing run is stated by a theorem; `StopGivesThree`
for the engine of its run.

## Not modelled

The map covers a small share of the repository's lines, and cannot cover most of
them: nine tenths are translators. The netlist parsers, planners and renderers, the AMS cut, `sv2ghdl.pl`, the yosys
generators and `bfit` are translators over unbounded text or numbers; option tables,
console and log formatting have no state others depend on. The engines and the
kernel are modelled by what vamos uses of them. The text inside the results files
is not modelled.

## Plan

Done: `Interrupts`, `SpectreRun`, `Collect`, `Conversion`, `OsdiStore` and
`AhdlCache`, `Daidir`, `Gate`, `Dispatch`, with theorems about each. Next:

1. The cosim backend: the published rawfile against concurrent and interrupted
   runs; xsim's library records.
2. The per-test history of the regression database against its replay
   (`backfill`), with runs that overlap.
3. An abstract engine ("asked, then ended within the grace period") that
   `Interrupts` implements and `SpectreRun` uses.
4. The resolution functions of `packages/` as operators, with their algebra.
