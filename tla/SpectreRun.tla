---------------------------- MODULE SpectreRun ----------------------------
(***************************************************************************)
(* One run of the spectre personality and the signals it gets, from the    *)
(* early handlers of vamos/cli.py to the exit: spectre/flow.py (_Signals,  *)
(* _Received, _Run.main, guarded, steps, engine_run, convert, end) around  *)
(* one engine runner (spectre/run_vacask.py or spectre/run_xyce.py), with  *)
(* spectre/stop.py's classify and its hand-over of the flags.              *)
(*                                                                         *)
(* The signals change hands six times: cli.py's early handler, the flow's  *)
(* (installed one signal at a time), the runner's proc.Interrupts, the     *)
(* flow's again, cli.py's again.  A handler runs between any two steps of  *)
(* the main program; here it is one step (Interrupts.tla interleaves the   *)
(* statements of the runner's handler, and its theorems are what is        *)
(* assumed of a child: it gets a recorded signal when it is attached, and  *)
(* its grace period runs from then on).                                    *)
(***************************************************************************)
EXTENDS Naturals, Sequences

CONSTANTS
    INT,         \* SIGINT; SIGTERM and SIGQUIT are handled alike
    HUP,         \* SIGHUP
    USR1,        \* SIGUSR1; SIGUSR2 is handled alike
    Engine,      \* self.engine: "vacask" or "xyce"
    HasVa,       \* the netlist names a Verilog-A file that is not compiled yet
    Decks,       \* Xyce: the decks, one per analysis
    Files,       \* the results the conversion writes
    MaxStops,    \* bound: stop signals sent
    MaxFlags     \* bound: flag signals sent

ASSUME SpectreAssumption ==
    /\ INT # HUP /\ USR1 \notin {INT, HUP}
    /\ Engine \in {"vacask", "xyce"}
    /\ HasVa \in BOOLEAN
    /\ Decks \in Nat \ {0} /\ Files \in Nat /\ MaxStops \in Nat /\ MaxFlags \in Nat

VARIABLES
    pc,          \* where the main program is
    left,        \* the signals still to be installed or restored
    owner,       \* whose handler each signal has
    hangup,      \* stop._last_hangup: none, at most HANGUP_WINDOW old, older
    earlyStops,  \* _EarlySignals.received: the stop signals in it
    earlyFlags,  \* ... and the flags in it
    flowState,   \* _Signals.state
    flowSignum,  \* _Signals.signum is not None
    flowCount,   \* _Signals.count
    flowFlags,   \* len(_Signals._flags)
    runSignum,   \* the runner's Interrupts.signum is not None
    runSecond,   \* ... .second is not None
    runFlags,    \* len(... ._flags)
    exc,         \* the exception that leaves the runner's with block
    timer,       \* ITIMER_REAL runs: the grace period of the runner's block
    onAlarm,     \* SIGALRM's handler is the block's (else its default action)
    watching,    \* _Received's wakeup descriptor is set
    got,         \* _Received saw a stop signal
    child,       \* the child process of the runner
    nth,         \* which child it is: openvaf-r, VACASK; -norun, the decks
    outcome,     \* how it ended
    rc,          \* EngineResult.rc, as far as it is known
    done,        \* the runner has set EngineResult.rc for good
    converted,   \* results the conversion has been through (one without data has no file)
    writeError,  \* _Conversion.write_error
    taken,       \* flags poll() has taken and not printed yet
    answered,    \* flags printed
    quietRun,    \* _Run.quiet: -V or -W alone, no trailer
    how,         \* how steps() ended
    status,      \* the exit status
    trailer,     \* the statuses of the trailers printed
    \* history
    sentStops, sentFlags,
    dropped,     \* flags poll() had taken when _Interrupted was raised
    due,         \* flags handled before the last poll
    raised,      \* a handler raised _Interrupted
    stopTaken,   \* a stop signal that is no repeat, before the quiet state
    intSent,     \* a stop signal other than SIGHUP came
    killSecond,  \* a second stop signal came while a child ran
    failed,      \* steps() ended with an exception other than the signals'
    logError,    \* a line of the log could not be written
    died,        \* the default action of a signal ended vamos: which one
    exitStop     \* the runner took its first stop signal after its _alarm(0)

sigVars == <<left, owner>>
alarmVars == <<timer, onAlarm>>
earlyVars == <<earlyStops, earlyFlags>>
flowVars == <<flowState, flowSignum, flowCount, flowFlags>>
runVars == <<runSignum, runSecond, runFlags>>
engineVars == <<child, nth, outcome, rc, done>>
convVars == <<converted, writeError>>
flagVars == <<taken, answered, dropped, due>>
endVars == <<quietRun, how, status, trailer>>
failVars == <<failed, logError, died>>
histVars == <<sentStops, sentFlags, raised, stopTaken, intSent, killSecond,
              failVars, exitStop>>
gotVars == <<watching, got>>
vars == <<pc, sigVars, hangup, alarmVars, earlyVars, flowVars, runVars, exc, gotVars, engineVars,
          convVars, flagVars, endVars, histVars>>

Stops == {INT, HUP}
Sigs == Stops \cup {USR1}
Order == <<INT, HUP, USR1>>      \* stop.HANDLED, then stop.FLAGS
NoStatus == 9

Points == {"start", "install", "takeover", "held", "setup", "setupPoll",
           "rEnter", "rTake", "rCheck", "rSpawn", "rWait", "rAfter", "rClassify",
           "rLast", "rExit", "rRestore", "rGive", "rOut", "gap", "count", "convNext", "convWrite",
           "convPoll", "convCut", "convEnd", "returned", "failed", "guard", "main",
           "end", "finish", "restore", "done", "teardown", "exit"}

Init ==
    /\ pc = "start" /\ left = <<>> /\ owner = [s \in Sigs |-> "early"]
    /\ hangup = "none" /\ earlyStops = 0 /\ earlyFlags = 0
    /\ flowState = "held" /\ flowSignum = FALSE /\ flowCount = 0 /\ flowFlags = 0
    /\ runSignum = FALSE /\ runSecond = FALSE /\ runFlags = 0 /\ exc = "none"
    /\ watching = FALSE /\ got = FALSE
    /\ child = "none" /\ nth = 0 /\ outcome = "none" /\ rc = 0 /\ done = FALSE
    /\ converted = 0 /\ writeError = FALSE
    /\ taken = 0 /\ answered = 0 /\ dropped = 0 /\ due = 0
    /\ quietRun = FALSE /\ how = "none" /\ status = NoStatus /\ trailer = <<>>
    /\ sentStops = 0 /\ sentFlags = 0 /\ raised = FALSE
    /\ stopTaken = FALSE /\ intSent = FALSE /\ killSecond = FALSE
    /\ timer = FALSE /\ onAlarm = FALSE
    /\ failed = FALSE /\ logError = FALSE /\ died = "no" /\ exitStop = FALSE

Goto(p) == pc' = p

\* The runner's block, up to the _alarm(0) of its __exit__
InBlock == {"rEnter", "rTake", "rCheck", "rSpawn", "rWait", "rAfter", "rClassify", "rLast",
            "rExit"}

---------------------------------------------------------------------------
(* spectre/stop.py: what a stop signal is.                                 *)

\* mutant: a SIGHUP after a stop signal is the user's second signal
ClassifyHangups(s, afterFirst) ==
    IF afterFirst THEN "second" ELSE "first"

\* classify(): the same hangup again, the user's second signal, or the first
Classify(s, afterFirst) ==
    IF (s = HUP /\ (afterFirst \/ hangup # "none")) \/ hangup = "recent"
    THEN "repeat"
    ELSE IF afterFirst THEN "second" ELSE "first"

Recorded(s) == IF s = HUP THEN "recent" ELSE hangup

\* HANGUP_WINDOW passes
WindowPasses ==
    /\ hangup = "recent" /\ hangup' = "old"
    /\ UNCHANGED <<pc, sigVars, alarmVars, earlyVars, flowVars, runVars, exc, gotVars,
                   engineVars, convVars, flagVars, endVars, histVars>>

---------------------------------------------------------------------------
(* The three handlers of a stop signal.                                    *)

\* What is noted of a stop signal that a handler took as `kind'
Noted(s, kind) ==
    /\ hangup' = Recorded(s)
    /\ sentStops' = sentStops + 1
    /\ got' = (got \/ watching)
    /\ stopTaken' = (stopTaken \/ (kind # "repeat" /\ flowState # "quiet"))
    /\ intSent' = (intSent \/ s # HUP)

\* mutant: any stop signal ends vamos at once
EarlyStopAtOnce(s) ==
    LET kind == Classify(s, earlyStops > 0) IN
    /\ Noted(s, kind)
    /\ earlyStops' = IF kind = "repeat" THEN earlyStops ELSE earlyStops + 1
    /\ Goto("exit") /\ status' = 3
    /\ UNCHANGED <<sigVars, alarmVars, earlyFlags, flowVars, runVars, exc, watching, engineVars,
                   convVars, flagVars, quietRun, how, trailer, sentFlags, raised, killSecond,
                   failVars, exitStop>>

\* cli.py _EarlySignals.__call__: recorded; a second one ends vamos at once
EarlyStop(s) ==
    LET kind == Classify(s, earlyStops > 0) IN
    /\ Noted(s, kind)
    /\ earlyStops' = IF kind = "repeat" THEN earlyStops ELSE earlyStops + 1
    /\ IF kind = "second"
       THEN Goto("exit") /\ status' = 3
       ELSE UNCHANGED <<pc, status>>
    /\ UNCHANGED <<sigVars, alarmVars, earlyFlags, flowVars, runVars, exc, watching, engineVars,
                   convVars, flagVars, quietRun, how, trailer, sentFlags, raised, killSecond,
                   failVars, exitStop>>

\* mutant: main has no except clause of its own
InterruptedOnce ==
    /\ Goto(CASE pc \in {"convNext", "convWrite", "convPoll"} -> "convCut"
              [] pc \in {"guard", "failed", "main"} -> "restore"
              [] pc \in {"restore", "done"} -> "done"
              [] OTHER -> "guard")
    /\ how' = IF pc \in {"convNext", "convWrite", "convPoll"} THEN how
              ELSE IF pc \in {"guard", "failed", "main", "restore", "done"} THEN "escaped" ELSE "interrupted"
    /\ watching' = FALSE
    /\ dropped' = dropped + taken /\ taken' = 0
    /\ left' = IF pc \in {"guard", "failed", "main"} THEN Order ELSE <<>>
    /\ exc' = "none"
    /\ raised' = TRUE

\* raise _Interrupted: it is caught by the conversion, by guarded (from inside
\* its try; from one of its except clauses it goes on), by main's own except
\* clause, or by nobody (main's finally restores the handlers, up
\* to where the next one raises); the runner's with block and poll's local
\* list are left behind
Interrupted ==
    /\ Goto(CASE pc \in {"convNext", "convWrite", "convPoll"} -> "convCut"
              [] pc \in {"guard", "failed"} -> "main"
              [] pc = "main" -> "restore"
              [] pc \in {"restore", "done"} -> "done"
              [] OTHER -> "guard")
    /\ how' = IF pc \in {"convNext", "convWrite", "convPoll"} THEN how
              ELSE IF pc \in {"main", "restore", "done"} THEN "escaped" ELSE "interrupted"
    /\ watching' = FALSE
    /\ dropped' = dropped + taken /\ taken' = 0
    /\ left' = IF pc = "main" THEN Order ELSE <<>>
    /\ exc' = "none"
    /\ raised' = TRUE

\* flow.py _Signals._on_stop
FlowStop(s) ==
    LET kind == Classify(s, flowCount > 0) IN
    /\ Noted(s, kind)
    /\ IF kind = "repeat"
       THEN UNCHANGED <<flowCount, flowSignum>>
       ELSE flowCount' = flowCount + 1 /\ flowSignum' = TRUE
    /\ IF kind # "repeat" /\ (flowState = "now" \/ (flowState = "deferred" /\ kind = "second"))
       THEN Interrupted
       ELSE UNCHANGED <<pc, left, how, watching, dropped, taken, exc, raised>>
    /\ UNCHANGED <<owner, alarmVars, earlyVars, flowState, flowFlags, runVars, engineVars,
                   convVars, answered, due, quietRun, status, trailer, sentFlags, killSecond,
                   failVars, exitStop>>

\* run_vacask _Interrupts._on_signal, run_xyce Signals._on_signal and
\* proc.Interrupts._on_signal: the first is passed on and starts the grace
\* period (_alarm: if the block holds SIGALRM), the second kills
RunnerStop(s) ==
    LET kind == Classify(s, runSignum) IN
    /\ Noted(s, kind)
    /\ timer' = (timer \/ (kind = "first" /\ onAlarm))
    /\ exitStop' = (exitStop \/ (kind = "first" /\ pc \notin InBlock))
    /\ runSignum' = (runSignum \/ kind # "repeat")
    /\ runSecond' = (runSecond \/ kind = "second")
    /\ IF kind = "second" /\ child = "running"
       THEN child' = "ended" /\ outcome' = "signal" /\ killSecond' = TRUE
       ELSE UNCHANGED <<child, outcome, killSecond>>
    /\ UNCHANGED <<pc, sigVars, onAlarm, earlyVars, flowVars, runFlags, exc, watching, nth, rc,
                   done, convVars, flagVars, endVars, sentFlags, raised, failVars>>

\* The interpreter's teardown puts the handlers back to their default action:
\* a stop signal ends vamos, or comes just before and is not looked at
TeardownStop ==
    /\ pc = "teardown" /\ sentStops < MaxStops
    /\ sentStops' = sentStops + 1
    /\ \/ Goto("exit") /\ died' = "stop" /\ status' = NoStatus
       \/ UNCHANGED <<pc, died, status>>
    /\ UNCHANGED <<sigVars, hangup, alarmVars, earlyVars, flowVars, runVars, exc, gotVars,
                   engineVars, convVars, flagVars, quietRun, how, trailer, sentFlags, raised,
                   stopTaken, intSent, killSecond, failed, logError, exitStop>>

\* A stop signal comes, and the handler in place takes it
StopArrives ==
    /\ pc \notin {"teardown", "exit"} /\ sentStops < MaxStops
    /\ \E s \in Stops :
        \/ owner[s] = "early" /\ EarlyStop(s)
        \/ owner[s] = "flow" /\ FlowStop(s)
        \/ owner[s] = "runner" /\ RunnerStop(s)

\* A flag signal comes: every handler only records it.  After the personality
\* has returned (_EarlySignals.finish) it is ignored.
FlagArrives ==
    /\ pc \notin {"done", "teardown", "exit"} /\ sentFlags < MaxFlags
    /\ sentFlags' = sentFlags + 1
    /\ \/ owner[USR1] = "early" /\ earlyFlags' = earlyFlags + 1 /\ UNCHANGED <<flowFlags, runFlags>>
       \/ owner[USR1] = "flow" /\ flowFlags' = flowFlags + 1 /\ UNCHANGED <<earlyFlags, runFlags>>
       \/ owner[USR1] = "runner" /\ runFlags' = runFlags + 1 /\ UNCHANGED <<earlyFlags, flowFlags>>
    /\ UNCHANGED <<pc, sigVars, hangup, alarmVars, earlyStops, flowState, flowSignum, flowCount, runSignum,
                   runSecond, exc, gotVars, engineVars, convVars, flagVars, endVars, sentStops,
                   raised, stopTaken, intSent, killSecond, failVars, exitStop>>

---------------------------------------------------------------------------
(* flow.py: the start of the run.                                          *)

\* _Signals.install: stop.forget(), then one handler after the other
InstallBegins ==
    /\ pc = "start" /\ Goto("install")
    /\ hangup' = "none" /\ left' = Order
    /\ UNCHANGED <<owner, alarmVars, earlyVars, flowVars, runVars, exc, gotVars, engineVars, convVars,
                   flagVars, endVars, histVars>>

\* One signal.signal() call of an install or a restore at `at'; `next' once
\* the last one is made
Hand(at, to, next) ==
    /\ pc = at
    /\ IF left = <<>>
       THEN Goto(next) /\ UNCHANGED sigVars
       ELSE /\ owner' = [owner EXCEPT ![Head(left)] = to]
            /\ left' = Tail(left)
            /\ UNCHANGED pc
    /\ UNCHANGED <<hangup, timer, earlyVars, flowVars, runVars, exc, gotVars, engineVars, convVars,
                   flagVars, endVars, histVars>>

InstallOne == Hand("install", "flow", "takeover") /\ UNCHANGED onAlarm

\* _take_over: what the early handler recorded is this run's
TakeOver ==
    /\ pc = "takeover" /\ Goto("held")
    /\ flowSignum' = (flowSignum \/ earlyStops > 0)
    /\ flowCount' = flowCount + earlyStops
    /\ flowFlags' = flowFlags + earlyFlags
    /\ earlyStops' = 0 /\ earlyFlags' = 0
    /\ UNCHANGED <<sigVars, hangup, alarmVars, flowState, runVars, exc, gotVars, engineVars, convVars,
                   flagVars, endVars, histVars>>

\* steps() returns this status
Ends(st) == how' = "returned" /\ status' = st /\ Goto("returned")

\* An exception other than the signals' leaves steps(): guarded catches it
\* (_Fail, NoteError, ScanError and ToolError, Exception) and the status is 2,
\* whatever sig.signum says
Fails ==
    /\ how' = "failed" /\ failed' = TRUE /\ status' = 2
    /\ Goto("failed")

\* mutant: what was recorded while the signals were held is not looked at
OpenLogOn ==
    /\ pc = "held"
    /\ flowState' = "now" /\ Goto("setup")
    /\ UNCHANGED <<sigVars, hangup, alarmVars, earlyVars, flowSignum, flowCount, flowFlags, runVars, exc,
                   gotVars, engineVars, convVars, flagVars, endVars, histVars>>

\* step 1b: the log is opened while the stop signals are held; then a signal
\* raises, and one that was recorded meanwhile ends the run
OpenLog ==
    /\ pc = "held"
    /\ \/ /\ flowState' = "now"
          /\ IF flowSignum
             THEN Goto("guard") /\ how' = "interrupted"
             ELSE Goto("setup") /\ UNCHANGED how
          /\ UNCHANGED <<status, failed>>
       \/ Fails /\ UNCHANGED flowState             \* the log cannot be opened
    /\ UNCHANGED <<sigVars, hangup, alarmVars, earlyVars, flowSignum, flowCount, flowFlags,
                   runVars, exc, gotVars, engineVars, convVars, flagVars, quietRun, trailer,
                   sentStops, sentFlags, raised, stopTaken, intSent, killSecond, logError, died,
                   exitStop>>

\* poll(): the flags are taken, then printed
PollTake(at, to) ==
    /\ pc = at /\ flowFlags > 0
    /\ taken' = flowFlags /\ flowFlags' = 0
    /\ Goto(to)
    /\ UNCHANGED <<sigVars, hangup, alarmVars, earlyVars, flowState, flowSignum, flowCount, runVars, exc,
                   gotVars, engineVars, convVars, answered, dropped, due, endVars, histVars>>

PollPrint(at, to) ==
    /\ pc = at
    /\ IF taken > 0
       THEN taken' = taken - 1 /\ answered' = answered + 1 /\ UNCHANGED pc
       ELSE Goto(to) /\ UNCHANGED <<taken, answered>>
    /\ UNCHANGED <<sigVars, hangup, alarmVars, earlyVars, flowVars, runVars, exc, gotVars, engineVars,
                   convVars, dropped, due, endVars, histVars>>

SetupPoll == PollTake("setup", "setupPoll")
SetupPollPrint == PollPrint("setupPoll", "setup")

\* steps 2 to 9 end without an engine run: -V or -W alone, nothing to run, an
\* error report() has counted
SetupEnds ==
    /\ pc = "setup"
    /\ \/ Ends(0) /\ quietRun' = TRUE
       \/ \E st \in {0, 2} : Ends(st) /\ UNCHANGED quietRun
    /\ UNCHANGED <<sigVars, hangup, alarmVars, earlyVars, flowVars, runVars, exc, gotVars,
                   engineVars, convVars, flagVars, trailer, histVars>>

\* An error of the input, the tools or the plan, an engine that cannot be
\* prepared, or an internal error: in the steps before the engine runs, and in
\* the conversion (where only OSError and _Interrupted are caught).  The flags
\* poll() had taken are gone with it.
StepsFail ==
    /\ pc \in {"setup", "setupPoll", "convNext", "convWrite", "convPoll", "convEnd"}
    /\ Fails
    /\ dropped' = dropped + taken /\ taken' = 0
    /\ UNCHANGED <<sigVars, hangup, alarmVars, earlyVars, flowVars, runVars, exc, gotVars,
                   engineVars, convVars, answered, due, quietRun, trailer, sentStops, sentFlags,
                   raised, stopTaken, intSent, killSecond, logError, died, exitStop>>

---------------------------------------------------------------------------
(* engine_run and the runner.                                              *)

\* engine_run: _Received watches, and the runner is called.  Xyce's runner may
\* fail before its signal block (no Xyce, a deck that cannot be written); else
\* the block's object is made: stop.forget().
EngineRun ==
    /\ pc = "setup"
    /\ watching' = TRUE
    /\ \/ Goto("rEnter") /\ hangup' = "none" /\ left' = Order /\ UNCHANGED <<rc, done>>
       \/ /\ Engine = "xyce"
          /\ Goto("rOut") /\ rc' = 2 /\ done' = TRUE /\ UNCHANGED <<hangup, left>>
    /\ UNCHANGED <<owner, alarmVars, earlyVars, flowVars, runVars, exc, got, child, nth, outcome,
                   convVars, flagVars, endVars, histVars>>

\* __enter__: the runner's handlers, SIGALRM's the last
RunnerEnter ==
    /\ Hand("rEnter", "runner", "rTake")
    /\ onAlarm' = (left = <<>>)

\* __enter__: stop.take_over_flags
RunnerTake ==
    /\ pc = "rTake" /\ Goto("rCheck")
    /\ runFlags' = runFlags + flowFlags /\ flowFlags' = 0
    /\ nth' = IF Engine = "vacask" /\ ~HasVa THEN 2 ELSE 1
    /\ UNCHANGED <<sigVars, hangup, alarmVars, earlyVars, flowState, flowSignum, flowCount, runSignum,
                   runSecond, exc, gotVars, child, outcome, rc, done, convVars, flagVars,
                   endVars, histVars>>

\* The runner's main program moves; its own variables are named by the caller
RunnerFrame == UNCHANGED <<owner, hangup, onAlarm, earlyVars, flowVars, runSignum, runSecond,
                           gotVars, convVars, dropped, due, taken, endVars, histVars>>

\* The with block ends with EngineResult.rc = r
Result(r) == rc' = r /\ done' = TRUE /\ Goto("rExit") /\ left' = Order

\* Before a child is started: run_vacask's tests of intr.signum (_Stopped) and
\* its compile_va and render errors (_Fail), run_xyce's loop over the decks
RunnerCheck ==
    /\ pc = "rCheck"
    /\ \/ Engine = "vacask" /\ Result(2)
       \/ /\ runSignum /\ ~(Engine = "xyce" /\ nth = 1)
          /\ IF Engine = "vacask" THEN Result(3)
             ELSE Goto("rLast") /\ UNCHANGED <<left, rc, done>>
       \/ /\ ~runSignum \/ (Engine = "xyce" /\ nth = 1)
          /\ Goto("rSpawn") /\ UNCHANGED <<left, rc, done>>
    /\ UNCHANGED <<child, nth, outcome, exc, runFlags, answered, timer>>
    /\ RunnerFrame

\* Popen and attach, which passes on a signal that came since the test and
\* starts its grace period (again, when it has passed already)
RunnerSpawn ==
    /\ pc = "rSpawn"
    /\ \/ /\ child' = "running" /\ outcome' = "none" /\ Goto("rWait")
          /\ timer' = (timer \/ runSignum)
          /\ UNCHANGED <<left, rc, done>>
       \/ /\ Engine = "vacask" /\ Result(2) /\ UNCHANGED <<child, outcome, timer>>
       \/ /\ Engine = "xyce" /\ outcome' = "nostart" /\ Goto("rAfter")
          /\ UNCHANGED <<child, left, rc, done, timer>>
    /\ UNCHANGED <<nth, exc, runFlags, answered>>
    /\ RunnerFrame

\* flags(), every POLL seconds of the loop: the runner prints what it holds
RunnerFlags ==
    /\ pc = "rWait" /\ runFlags > 0
    /\ answered' = answered + runFlags /\ runFlags' = 0
    /\ UNCHANGED <<pc, left, child, nth, outcome, rc, done, exc, timer>>
    /\ RunnerFrame

\* The child exits, or is ended from outside vamos
ChildEnds ==
    /\ child = "running" /\ child' = "ended"
    /\ outcome' \in {"ok", "error", "signal"}
    /\ UNCHANGED <<pc, left, nth, rc, done, exc, runFlags, answered, timer>>
    /\ RunnerFrame

\* mutant: the grace period kills only after a second signal
GraceNeedsSecond ==
    /\ timer /\ onAlarm /\ pc \notin {"teardown", "exit"} /\ timer' = FALSE
    /\ IF child = "running" /\ runSecond THEN child' = "ended" /\ outcome' = "signal"
                                        ELSE UNCHANGED <<child, outcome>>
    /\ UNCHANGED <<pc, left, nth, rc, done, exc, runFlags, answered>>
    /\ RunnerFrame

\* proc.Interrupts._on_alarm: a child that outlived the grace period is killed
GraceExpires ==
    /\ timer /\ onAlarm /\ pc \notin {"teardown", "exit"} /\ timer' = FALSE
    /\ IF child = "running" THEN child' = "ended" /\ outcome' = "signal"
                            ELSE UNCHANGED <<child, outcome>>
    /\ UNCHANGED <<pc, left, nth, rc, done, exc, runFlags, answered>>
    /\ RunnerFrame

\* The timer expires where SIGALRM has its default action, which ends vamos:
\* after the block has put it back, or in the interpreter's teardown
LateAlarm ==
    /\ timer /\ pc # "exit" /\ (~onAlarm \/ pc = "teardown")
    /\ timer' = FALSE /\ Goto("exit") /\ died' = "alarm" /\ status' = NoStatus
    /\ UNCHANGED <<sigVars, hangup, onAlarm, earlyVars, flowVars, runVars, exc, gotVars,
                   engineVars, convVars, flagVars, quietRun, how, trailer, sentStops, sentFlags,
                   raised, stopTaken, intSent, killSecond, failed, logError, exitStop>>

\* mutant: the loop is left on a second signal without kill_group
RunnerWaitLeaves ==
    /\ pc = "rWait"
    /\ \/ child = "ended"
       \/ Engine = "vacask" /\ runSecond
    /\ UNCHANGED <<child, outcome>>
    /\ Goto("rAfter")
    /\ UNCHANGED <<left, nth, rc, done, exc, runFlags, answered, timer>>
    /\ RunnerFrame

\* The loop ends with the child; run_vacask's also with a second signal that
\* came before the child was attached, and kill_group ends the child then
RunnerWait ==
    /\ pc = "rWait"
    /\ \/ child = "ended" /\ UNCHANGED outcome
       \/ Engine = "vacask" /\ runSecond /\ child = "running" /\ outcome' = "signal"
    /\ child' = "ended"
    /\ Goto("rAfter")
    /\ UNCHANGED <<left, nth, rc, done, exc, runFlags, answered, timer>>
    /\ RunnerFrame

\* mutant: the second signal is not looked at
RunnerAfterOn ==
    /\ pc = "rAfter"
    /\ Goto("rClassify") /\ UNCHANGED <<exc, left>>
    /\ UNCHANGED <<child, nth, outcome, rc, done, runFlags, answered, timer>>
    /\ RunnerFrame

\* After the loop: stop.Stop for a second signal
RunnerAfter ==
    /\ pc = "rAfter"
    /\ IF runSecond
       THEN exc' = "stop" /\ Goto("rExit") /\ left' = Order
       ELSE Goto("rClassify") /\ UNCHANGED <<exc, left>>
    /\ UNCHANGED <<child, nth, outcome, rc, done, runFlags, answered, timer>>
    /\ RunnerFrame

Stopped == runSignum \/ outcome = "signal"
Maximum(a, b) == IF a >= b THEN a ELSE b

\* compile_one after openvaf-r, and finish() after VACASK
ClassifyVacask ==
    /\ pc = "rClassify" /\ Engine = "vacask"
    /\ IF nth = 1
       THEN IF runSignum THEN Result(3) /\ UNCHANGED nth
            ELSE IF outcome # "ok" THEN Result(2) /\ UNCHANGED nth
            ELSE nth' = 2 /\ Goto("rCheck") /\ UNCHANGED <<left, rc, done>>
       ELSE /\ IF Stopped THEN Result(3)
               ELSE IF outcome = "error" THEN Result(2)
               ELSE \E r \in {0, 1} : Result(r)
            /\ UNCHANGED nth
    /\ UNCHANGED <<child, outcome, exc, runFlags, answered, timer>>
    /\ RunnerFrame

\* norun() after the check of the first deck, and classify() after each deck;
\* a worst rc of 2 or 3 ends the loop
ClassifyXyce ==
    /\ pc = "rClassify" /\ Engine = "xyce"
    /\ \E r \in CASE outcome = "nostart" -> {2}
                  [] outcome # "nostart" /\ Stopped -> {3}
                  [] outcome = "error" /\ ~Stopped -> IF nth = 1 THEN {2} ELSE {1, 2}
                  [] OTHER -> IF nth = 1 THEN {0, 2} ELSE {0, 1, 2} :
        /\ rc' = Maximum(rc, r)
        /\ IF rc' >= 2 \/ nth = Decks + 1
           THEN Goto("rLast") /\ UNCHANGED nth
           ELSE Goto("rCheck") /\ nth' = nth + 1
    /\ UNCHANGED <<left, done, child, outcome, exc, runFlags, answered, timer>>
    /\ RunnerFrame

\* run_xyce: the flags once more, then stop.Stop for a second signal that came
\* while no Xyce ran
RunnerLast ==
    /\ pc = "rLast"
    /\ answered' = answered + runFlags /\ runFlags' = 0
    /\ exc' = IF runSecond THEN "stop" ELSE "none"
    /\ done' = ~runSecond
    /\ Goto("rExit") /\ left' = Order
    /\ UNCHANGED <<child, nth, outcome, rc, timer>>
    /\ RunnerFrame

\* Any other exception in the block (the engine's log on a full disk, a run
\* directory that is gone, an internal error) leaves it through __exit__; the
\* finally clause of the wait loop ends the child, and flags() may have had
\* the flags in its hands
RunnerRaises ==
    /\ pc \in {"rCheck", "rSpawn", "rWait", "rAfter", "rClassify", "rLast"}
    /\ exc' = "error" /\ Goto("rExit") /\ left' = Order
    /\ child' = IF child = "running" THEN "ended" ELSE child
    /\ \E lost \in {0, runFlags} : dropped' = dropped + lost /\ runFlags' = runFlags - lost
    /\ UNCHANGED <<owner, hangup, alarmVars, earlyVars, flowVars, runSignum, runSecond, gotVars,
                   nth, outcome, rc, done, convVars, taken, answered, due, endVars, histVars>>

\* mutant: __exit__ leaves the timer running
RunnerExitTimed ==
    /\ pc = "rExit" /\ Goto("rRestore") /\ UNCHANGED timer
    /\ UNCHANGED <<left, child, nth, outcome, rc, done, exc, runFlags, answered>>
    /\ RunnerFrame

\* __exit__: self._alarm(0); a first stop signal after it starts the timer again
RunnerExit ==
    /\ pc = "rExit" /\ Goto("rRestore") /\ timer' = FALSE
    /\ UNCHANGED <<left, child, nth, outcome, rc, done, exc, runFlags, answered>>
    /\ RunnerFrame

\* ... the flow's handlers are put back, one after the other, then SIGALRM's
\* default action ...
RunnerRestore ==
    /\ Hand("rRestore", "flow", "rGive")
    /\ onAlarm' = (onAlarm /\ left # <<>>)

\* The block is left: by its end, stop.Stop or another exception
RunnerLeft ==
    /\ \/ exc = "none" /\ Goto("rOut") /\ UNCHANGED <<how, status, watching, failed>>
       \/ exc = "stop" /\ Goto("guard") /\ how' = "stop" /\ watching' = FALSE
          /\ UNCHANGED <<status, failed>>
       \/ exc = "error" /\ Fails /\ watching' = FALSE
    /\ UNCHANGED <<sigVars, hangup, alarmVars, earlyVars, flowState, flowSignum, flowCount,
                   runSignum, runSecond, exc, got, engineVars, convVars, flagVars, quietRun,
                   trailer, sentStops, sentFlags, raised, stopTaken, intSent, killSecond,
                   logError, died, exitStop>>

\* mutant: the flags stay with the runner's block
RunnerGiveNot ==
    /\ pc = "rGive"
    /\ UNCHANGED <<flowFlags, runFlags>>
    /\ RunnerLeft

\* ... and stop.give_back_flags
RunnerGive ==
    /\ pc = "rGive"
    /\ flowFlags' = flowFlags + runFlags /\ runFlags' = 0
    /\ RunnerLeft

\* mutant: run_xyce does not look at its signum after the block
RunnerOutAsIs ==
    /\ pc = "rOut" /\ Goto("gap")
    /\ UNCHANGED rc
    /\ watching' = FALSE
    /\ UNCHANGED <<sigVars, hangup, alarmVars, earlyVars, flowVars, runVars, exc, got, child, nth, outcome,
                   done, convVars, flagVars, endVars, histVars>>

\* The runner returns: run_xyce looks once more at its signum, run_vacask does
\* not; _Received ends
RunnerOut ==
    /\ pc = "rOut" /\ Goto("gap")
    /\ rc' = IF Engine = "xyce" /\ runSignum THEN 3 ELSE rc
    /\ watching' = FALSE
    /\ UNCHANGED <<sigVars, hangup, alarmVars, earlyVars, flowVars, runVars, exc, got, child, nth, outcome,
                   done, convVars, flagVars, endVars, histVars>>

\* engine_run: from here on the conversion rule holds ...
Deferred ==
    /\ pc = "gap" /\ Goto("count")
    /\ flowState' = "deferred"
    /\ UNCHANGED <<sigVars, hangup, alarmVars, earlyVars, flowSignum, flowCount, flowFlags, runVars, exc,
                   gotVars, engineVars, convVars, flagVars, endVars, histVars>>

\* mutant: the runner's stop signal stops the conversion
CountRunnersStops ==
    /\ pc = "count" /\ Goto("convPoll")
    /\ flowCount' = IF got THEN Maximum(flowCount, 1) ELSE flowCount
    /\ flowSignum' = (flowSignum \/ got)
    /\ taken' = flowFlags /\ flowFlags' = 0
    /\ UNCHANGED <<sigVars, hangup, alarmVars, earlyVars, flowState, runVars, exc, gotVars, engineVars,
                   convVars, answered, dropped, due, endVars, histVars>>

\* ... and a stop signal the runner took is the first one
CountRunners ==
    /\ pc = "count" /\ Goto("convPoll")
    /\ flowCount' = IF got THEN Maximum(flowCount, 1) ELSE flowCount
    /\ taken' = flowFlags /\ flowFlags' = 0
    /\ UNCHANGED <<sigVars, hangup, alarmVars, earlyVars, flowState, flowSignum, runVars, exc,
                   gotVars, engineVars, convVars, answered, dropped, due, endVars, histVars>>

---------------------------------------------------------------------------
(* convert: the results, one file after the other.                         *)

ConvPoll == PollPrint("convPoll", "convNext")

ConvFrame == UNCHANGED <<sigVars, hangup, alarmVars, earlyVars, flowSignum, flowCount, runVars, exc, gotVars,
                         engineVars, answered, dropped, due, quietRun, trailer, histVars>>

\* The loop over the results: a first stop signal ends it
ConvNext ==
    /\ pc = "convNext"
    /\ Goto(IF flowSignum \/ converted = Files THEN "convEnd" ELSE "convWrite")
    /\ UNCHANGED <<flowState, flowFlags, taken, converted, writeError, how, status>>
    /\ ConvFrame

\* One file, then the flags; or it cannot be written (OSError: _Conversion.failed)
ConvWrite ==
    /\ pc = "convWrite"
    /\ \/ /\ converted' = converted + 1 /\ Goto("convPoll")
          /\ taken' = flowFlags /\ flowFlags' = 0 /\ UNCHANGED writeError
       \/ /\ writeError' = TRUE /\ Goto("convEnd") /\ UNCHANGED <<converted, taken, flowFlags>>
    /\ UNCHANGED <<flowState, how, status>>
    /\ ConvFrame

\* psf and nutmeg: except _Interrupted
ConvCut ==
    /\ pc = "convCut" /\ Goto("convEnd")
    /\ flowState' = "quiet"
    /\ UNCHANGED <<flowFlags, taken, converted, writeError, how, status>>
    /\ ConvFrame

\* The end of convert: quiet, and the exit status
ConvEnd ==
    /\ pc = "convEnd"
    /\ flowState' = "quiet"
    /\ how' = "returned"
    /\ \E bad \in BOOLEAN :
        LET engine == IF bad THEN Maximum(rc, 1) ELSE rc
            wrote == IF writeError THEN Maximum(engine, 2) ELSE engine
        IN  status' = IF flowSignum THEN 3 ELSE wrote
    /\ Goto("returned")
    /\ UNCHANGED <<flowFlags, taken, converted, writeError>>
    /\ ConvFrame

---------------------------------------------------------------------------
(* guarded, main and end.                                                  *)

EndFrame == UNCHANGED <<hangup, alarmVars, earlyVars, flowSignum, flowCount, runVars, exc, gotVars,
                        engineVars, convVars, taken, dropped, histVars>>

\* guarded: quiet, then end(); a quiet run has no trailer
Returned ==
    /\ pc = "returned"
    /\ flowState' = "quiet"
    /\ IF quietRun THEN Goto("restore") /\ left' = Order
                   ELSE Goto("end") /\ UNCHANGED left
    /\ UNCHANGED <<owner, flowFlags, answered, due, endVars>>
    /\ EndFrame

\* guarded: the other except clauses; the status is set
Failed ==
    /\ pc = "failed"
    /\ flowState' = "quiet"
    /\ Goto("end")
    /\ UNCHANGED <<sigVars, flowFlags, answered, due, endVars>>
    /\ EndFrame

\* guarded: except _Interrupted, except stop.Stop
Guarded ==
    /\ pc = "guard"
    /\ flowState' = "quiet" /\ status' = 3
    /\ IF quietRun THEN Goto("restore") /\ left' = Order
                   ELSE Goto("end") /\ UNCHANGED left
    /\ UNCHANGED <<owner, flowFlags, answered, due, quietRun, how, trailer>>
    /\ EndFrame

\* mutant: main returns without end()
MainReturns ==
    /\ pc = "main"
    /\ flowState' = "quiet" /\ status' = 3
    /\ Goto("restore") /\ left' = Order
    /\ UNCHANGED <<owner, flowFlags, answered, due, quietRun, how, trailer>>
    /\ EndFrame

\* main: a stop signal in the instant before the quiet state
Main ==
    /\ pc = "main"
    /\ flowState' = "quiet" /\ status' = 3
    /\ IF quietRun \/ trailer # <<>> THEN Goto("restore") /\ left' = Order
                                     ELSE Goto("end") /\ UNCHANGED left
    /\ UNCHANGED <<owner, flowFlags, answered, due, quietRun, how, trailer>>
    /\ EndFrame

\* end: the run directory, the last poll ...
End ==
    /\ pc = "end" /\ Goto("finish")
    /\ answered' = answered + flowFlags /\ flowFlags' = 0
    /\ due' = sentFlags
    /\ UNCHANGED <<sigVars, flowState, endVars>>
    /\ EndFrame

\* ... and the trailer
Finish ==
    /\ pc = "finish" /\ Goto("restore") /\ left' = Order
    /\ trailer' = Append(trailer, status)
    /\ UNCHANGED <<owner, flowState, flowFlags, answered, due, quietRun, how, status>>
    /\ EndFrame

\* _Signals.restore: the early handlers again; then the personality returns,
\* or _Interrupted goes on to the interpreter
RestoreOne == Hand("restore", "early", "done") /\ UNCHANGED onAlarm

\* The log file cannot be written (a full disk) outside guarded's try: the
\* OSError passes main's except clause and goes on to the interpreter
LogRaises ==
    /\ pc \in {"failed", "guard", "main", "end", "finish"}
    /\ flowState' = "quiet"
    /\ logError' = TRUE /\ how' = "escaped"
    /\ Goto("restore") /\ left' = Order
    /\ UNCHANGED <<owner, hangup, alarmVars, earlyVars, flowSignum, flowCount, flowFlags, runVars,
                   exc, gotVars, engineVars, convVars, flagVars, quietRun, status, trailer,
                   sentStops, sentFlags, raised, stopTaken, intSent, killSecond, failed, died,
                   exitStop>>

\* The personality has returned, or the interpreter prints a traceback
Exit ==
    /\ pc = "done" /\ Goto("teardown")
    /\ status' = IF how = "escaped" THEN 1 ELSE status
    /\ UNCHANGED <<sigVars, flowState, flowFlags, answered, due, quietRun, how, trailer>>
    /\ EndFrame

\* The interpreter's teardown ends
Gone ==
    /\ pc = "teardown" /\ Goto("exit")
    /\ UNCHANGED <<sigVars, flowState, flowFlags, answered, due, endVars>>
    /\ EndFrame

---------------------------------------------------------------------------
MainProgram ==
    \/ InstallBegins \/ InstallOne \/ TakeOver \/ OpenLog
    \/ SetupPoll \/ SetupPollPrint \/ SetupEnds \/ EngineRun
    \/ RunnerEnter \/ RunnerTake \/ RunnerCheck \/ RunnerSpawn \/ RunnerFlags \/ RunnerWait
    \/ RunnerAfter \/ ClassifyVacask \/ ClassifyXyce \/ RunnerLast
    \/ RunnerExit \/ RunnerRestore \/ RunnerGive \/ RunnerOut \/ Deferred \/ CountRunners
    \/ ConvPoll \/ ConvNext \/ ConvWrite \/ ConvCut \/ ConvEnd
    \/ Returned \/ Failed \/ Guarded \/ Main \/ End \/ Finish \/ RestoreOne
    \/ Exit \/ Gone

\* An exception of its own ends a part of the main program
Fault == StepsFail \/ RunnerRaises \/ LogRaises

Next ==
    \/ MainProgram \/ Fault \/ StopArrives \/ TeardownStop \/ FlagArrives
    \/ ChildEnds \/ GraceExpires \/ LateAlarm \/ WindowPasses

Spec == Init /\ [][Next]_vars

\* The main program goes on; the grace timer expires.  Nobody has to send a
\* signal, nothing has to fail, and an engine never has to end by itself.
FairSpec == Spec /\ WF_vars(MainProgram) /\ WF_vars(GraceExpires)

---------------------------------------------------------------------------
(* Properties.                                                             *)

Over == pc = "exit"

\* The numbers of flags held, printed and lost
FlagCounts ==
    /\ earlyFlags \in Nat /\ flowFlags \in Nat /\ runFlags \in Nat
    /\ taken \in Nat /\ answered \in Nat /\ dropped \in Nat /\ sentFlags \in Nat

\* The type invariant: flow.py's and the runners' fields keep their types.
TypeOK ==
    /\ pc \in Points
    /\ left \in Seq(Sigs)
    /\ owner \in [Sigs -> {"early", "flow", "runner"}]
    /\ hangup \in {"none", "recent", "old"}
    /\ flowState \in {"held", "now", "deferred", "quiet"}
    /\ child \in {"none", "running", "ended"}
    /\ outcome \in {"none", "ok", "error", "signal", "nostart"}
    /\ exc \in {"none", "stop", "error"}
    /\ how \in {"none", "returned", "failed", "interrupted", "stop", "escaped"}
    /\ died \in {"no", "stop", "alarm"}
    /\ rc \in 0 .. 3 /\ status \in 0 .. 3 \cup {NoStatus}
    /\ nth \in Nat /\ converted \in Nat /\ trailer \in Seq(0 .. 3)
    /\ {earlyStops, flowCount, sentStops, due} \subseteq Nat
    /\ {flowSignum, runSignum, runSecond, watching, got, done, writeError, quietRun,
        raised, stopTaken, intSent, killSecond, timer, onAlarm, failed, logError,
        exitStop} \subseteq BOOLEAN
    /\ FlagCounts

\* A stop signal that any handler took before the quiet state makes the exit
\* status 3: cli.py's, the flow's and the runner's records all reach convert or
\* guarded.  Not so when steps() fails with an exception of its own (guarded's
\* other except clauses do not look at sig.signum), when an exception escapes
\* (EscapeBounded) and when a signal's default action ends vamos.
StopGivesThree ==
    Over /\ stopTaken /\ how \notin {"failed", "escaped"} /\ died = "no" => status = 3

\* A second INT, TERM or QUIT while a child runs ends the run without a
\* result and with status 3 (stop.Stop, flow.py guarded), with the exceptions
\* of StopGivesThree.
SecondConvertsNothing ==
    Over /\ killSecond =>
        /\ converted = 0
        /\ status = 3 \/ how \in {"failed", "escaped"} \/ died = "stop"

\* A hangup is one signal: when every stop signal was a SIGHUP, whoever took
\* it, no engine is killed as by a second signal and no file is dropped, and
\* the results of the engine run it stopped are all converted, but for a
\* results file that cannot be written, an exception out of the runner or the
\* conversion, and the alarm of AlarmOnlyFromExit.
HangupKeepsResults ==
    ~intSent => /\ ~runSecond /\ exc # "stop"
                /\ Over /\ runSignum /\ ~writeError /\ ~failed /\ died # "alarm"
                     => converted = Files

\* A first stop signal that the engine was given is no reason to lose a
\* result: with no other signal, the conversion runs to its end (with the
\* exceptions of HangupKeepsResults).
OneStopConverts ==
    Over /\ sentStops = 1 /\ runSignum /\ ~writeError /\ ~failed /\ died # "alarm"
        => converted = Files

\* The runner's grace timer ends vamos (SIGALRM's default action) only if the
\* first stop signal of the block came after __exit__ had stopped the timer:
\* on every way out of the block, an exception included, a timer started
\* before is stopped before SIGALRM's default action is back.
AlarmOnlyFromExit == died = "alarm" => exitStop

\* A stop signal before the engine starts ends the run before it does: the
\* one taken over from cli.py too.
NoEngineAfterStop == child = "running" => ~flowSignum

\* No child of a runner is running once the runner's signal block has ended.
NoEngineLeft == pc \notin {"rWait", "rAfter"} => child # "running"

\* The trailer is printed once, by end(), on every path but -V or -W alone, a
\* second signal before the flow's handlers are installed, an escape, and a
\* SIGALRM that ends vamos before it.
TrailerOnce ==
    /\ Len(trailer) <= 1
    /\ Over /\ ~quietRun /\ how \notin {"none", "escaped"} /\ died # "alarm"
         => Len(trailer) = 1

\* flow.run "never raises": with a log that can be written, the except clauses
\* of guarded and main, whose first statement is the quiet state, let a stop
\* signal through to the interpreter only as the third one, each in the instant
\* before that statement; as the second, when guarded was handling an exception
\* of steps() already.
EscapeBounded ==
    how = "escaped" /\ ~logError => sentStops >= (IF failed THEN 2 ELSE 3)

\* One stop signal after the trailer (or a hangup's two) does not change the
\* exit status as long as a Python handler can run: restore puts cli.py's
\* handler back with its record emptied by the take-over.  (In the
\* interpreter's teardown one ends vamos.)
ExitAsInTrailer ==
    Over /\ trailer # <<>> /\ died = "no" => status = trailer[1] \/ earlyStops >= 2

\* Every flag signal that came before the last poll of end() has its answer
\* when the trailer is out, unless a stop signal raised _Interrupted or another
\* exception left steps(): each hand-over (take_early_signals, take_over_flags,
\* give_back_flags) passes on what it holds.
FlagsAnswered == trailer # <<>> /\ ~raised /\ ~failed => answered >= due

\* Where every flag signal is: answered, in someone's hands, or gone with an
\* exception
FlagBalance ==
    answered + taken + dropped + earlyFlags + flowFlags + runFlags = sentFlags

\* After a stop signal the run ends, whatever the engine does.
StopEnds == stopTaken ~> Over

---------------------------------------------------------------------------
(* What the documentation says and the code does not do.                   *)

\* A run that a stop signal stopped does not end as a successful one (exit
\* status 0 or 1): stop.py, "3  stopped by a signal: INT, TERM, HUP or QUIT to
\* vamos".
StopIsNoSuccess ==
    Over /\ stopTaken /\ how # "escaped" /\ died = "no" => status \notin {0, 1}

\* flow.py engine_run: once the runner has its result the conversion rule
\* holds, so the results are converted (up to a stop signal).
ResultReachesConversion == Over /\ done => how = "returned"
===========================================================================
