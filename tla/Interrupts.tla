---------------------------- MODULE Interrupts ----------------------------
(***************************************************************************)
(* vamos/proc.py: the context manager Interrupts, child_setup and          *)
(* kill_group, and the way every caller uses them (backends/nvc.py stream, *)
(* spectre/run_vacask.py engine and compile_one, spectre/run_xyce.py       *)
(* engine):                                                                *)
(*                                                                         *)
(*   with intr:                                                            *)
(*       p = Popen(..., preexec_fn=child_setup())                          *)
(*       intr.attach(p)                                                    *)
(*       try:  ... read its output, intr.take_flags(), p.wait() ...        *)
(*       finally: kill_group(p)                                            *)
(*                                                                         *)
(* One step of the main program or of a handler is one statement of the    *)
(* code.  CPython runs a Python signal handler between two bytecodes of    *)
(* whatever runs, another handler included, so handlers nest: `frames' is  *)
(* the stack of the handlers in progress (the head is the innermost), and  *)
(* the main program goes on when it is empty.  Standard signals do not     *)
(* queue: `pending' is a set.                                              *)
(***************************************************************************)
EXTENDS Naturals, Sequences, FiniteSets

CONSTANTS
    Handled,        \* self.handled: SIGINT, SIGTERM, SIGHUP (SIGQUIT)
    Flags,          \* self.flags: SIGUSR1, SIGUSR2 (spectre), none (nvc)
    TSTP, ALRM,     \* SIGTSTP and SIGALRM
    DeathSig,       \* the SIGTERM of prctl(PR_SET_PDEATHSIG)
    Ignored,        \* the signals that are SIG_IGN when the block is entered
    NoSig,          \* self.signum = None
    OuterHandles,   \* the handlers replaced record signals (flow.py); else SIG_DFL
    MayKillVamos,   \* someone may send vamos a SIGKILL
    MaxSignals      \* bound: signals sent to vamos in a behaviour

UserSignals == Handled \cup Flags \cup {TSTP}
Signals == UserSignals \cup {ALRM}

ASSUME InterruptsAssumption ==
    /\ Handled \cap Flags = {}
    /\ TSTP \notin Handled \cup Flags
    /\ ALRM \notin UserSignals
    /\ NoSig \notin Signals
    /\ DeathSig \in Handled
    /\ Ignored \subseteq UserSignals
    /\ OuterHandles \in BOOLEAN
    /\ MayKillVamos \in BOOLEAN
    /\ MaxSignals \in Nat

VARIABLES
    pc,          \* the statement the main program is at
    frames,      \* the handlers in progress, innermost first
    pending,     \* signals tripped, whose Python handler has not run yet
    handlers,    \* the signals whose handler is Interrupts' own
    saved,       \* the keys of self._saved
    proc,        \* self.proc is not None
    signum,      \* self.signum
    killed,      \* self.killed
    lists,       \* the flag lists: two list objects are in use at a time at most
    cur,         \* the list self._flags refers to
    out,         \* the list take_flags' `out' refers to (NoList: it is not running)
    answered,    \* what take_flags() has returned so far
    timer,       \* ITIMER_REAL is running
    vamos,       \* the vamos process
    child,       \* the child process
    reaped,      \* waitpid() has returned the child: its pid is free
    returncode,  \* Popen.returncode is not None
    asked,       \* the forwarded or death signals the child got (0, 1, 2 = more)
    sent,        \* signals sent to vamos so far (MaxSignals)
    flagged      \* the flag signals whose handler ran, in order (history)

mainVars == <<pc, handlers, saved, proc>>
flagVars == <<lists, cur, out, answered>>
selfVars == <<signum, killed, timer, flagVars>>
childVars == <<child, reaped, returncode, asked>>
vars == <<pc, frames, pending, handlers, saved, proc, signum, killed, lists,
          cur, out, answered, timer, vamos, child, reaped, returncode, asked, sent, flagged>>

Points == {"enter", "block", "popen", "popped", "attach", "attachSend",
           "attachAlarm", "wait", "taking", "taken", "waitpid", "reap",
           "cleanup", "leave", "restore", "done"}
\* child_setup's preexec runs in the forked child up to its exec
ChildStates == {"none", "forked", "grouped", "deathsig", "checked", "running",
                "stopped", "exited"}
NoList == 2
Steps == {"set", "send", "alarm", "selfstop", "cont"}
Frame == {f \in [sig : Signals, at : Steps] : f.at = "set" => f.sig \in Handled}

Init ==
    /\ pc = "enter" /\ frames = <<>> /\ pending = {}
    /\ handlers = {} /\ saved = {} /\ proc = FALSE
    /\ signum = NoSig /\ killed = FALSE
    /\ lists = [i \in 0..1 |-> <<>>] /\ cur = 0 /\ out = NoList
    /\ answered = <<>> /\ flagged = <<>>
    /\ timer = FALSE
    /\ vamos = "running" /\ child = "none"
    /\ reaped = FALSE /\ returncode = FALSE
    /\ asked = 0 /\ sent = 0

---------------------------------------------------------------------------
(* The child and its pid: subprocess.Popen.                                *)

More(n) == IF n = 0 THEN 1 ELSE 2

\* Popen's _waitpid_lock: held inside wait(), from before the waitpid() call
\* until its result is stored
LockHeld == pc \in {"waitpid", "reap"}

\* What Popen.poll() answers: TRUE for a return code, FALSE for None.  It
\* reaps a child that has exited, unless another call holds the lock.
PollEnded == returncode \/ (~LockHeld /\ child = "exited")

Alive == child \in {"running", "stopped"}

\* What a signal that reached the child (or its group) does to it
Delivered(what) ==
    /\ child' = CASE what = "kill" /\ Alive -> "exited"
                  [] what = "stop" /\ child = "running" -> "stopped"
                  [] what = "cont" /\ child = "stopped" -> "running"
                  [] OTHER -> child
    /\ asked' = IF what = "forward" /\ Alive THEN More(asked) ELSE asked

\* Interrupts._send, _signal_group and Popen.send_signal: nothing without a
\* child or once poll() has its return code; else kill(2), which hits a free
\* pid when the child has been reaped and its return code is not stored yet
Send(what) ==
    IF ~proc \/ returncode
    THEN UNCHANGED childVars
    ELSE IF PollEnded
    THEN /\ reaped' = TRUE /\ returncode' = TRUE
         /\ UNCHANGED <<child, asked>>
    ELSE IF reaped
    THEN UNCHANGED childVars
    ELSE Delivered(what) /\ UNCHANGED <<reaped, returncode>>

\* Interrupts._kill
Kill ==
    /\ killed' = (killed \/ (proc /\ ~PollEnded))
    /\ Send("kill")

\* Interrupts._alarm(grace): only while the block holds SIGALRM
StartTimer == timer' = (timer \/ ALRM \in saved)

---------------------------------------------------------------------------
(* The main program.                                                       *)

Main == vamos = "running" /\ frames = <<>>

\* __enter__ installs the handled and flag signals, then SIGTSTP, then
\* SIGALRM; __exit__ restores them in the same order (_saved is a dict)
Rank(s) == IF s = ALRM THEN 3 ELSE IF s = TSTP THEN 2 ELSE 1
First(s, S) == s \in S /\ \A t \in S : Rank(s) <= Rank(t)
Uninstalled == Signals \ (Ignored \cup saved)

Install(s) ==
    /\ Main /\ pc = "enter" /\ First(s, Uninstalled)
    /\ saved' = saved \cup {s} /\ handlers' = handlers \cup {s}
    /\ UNCHANGED <<pc, frames, pending, proc, vamos, sent, flagged>>
    /\ UNCHANGED <<selfVars, childVars>>

Entered ==
    /\ Main /\ pc = "enter" /\ Uninstalled = {}
    /\ pc' = "block"
    /\ UNCHANGED <<frames, pending, handlers, saved, proc, vamos, sent, flagged>>
    /\ UNCHANGED <<selfVars, childVars>>

\* Popen(): fork, then the parent waits for the child's exec
Fork ==
    /\ Main /\ pc = "block" /\ child = "none"
    /\ pc' = "popen" /\ child' = "forked"
    /\ UNCHANGED <<frames, pending, handlers, saved, proc, vamos, sent, flagged>>
    /\ UNCHANGED <<selfVars, reaped, returncode, asked>>

\* Popen() raises OSError (no such program): the block is left
PopenFails ==
    /\ Main /\ pc = "block" /\ child = "none"
    /\ pc' = "leave"
    /\ UNCHANGED <<frames, pending, handlers, saved, proc, vamos, sent, flagged>>
    /\ UNCHANGED <<selfVars, childVars>>

PopenReturns ==
    /\ Main /\ pc = "popen" /\ child \in {"running", "exited"}
    /\ pc' = "popped"
    /\ UNCHANGED <<frames, pending, handlers, saved, proc, vamos, sent, flagged>>
    /\ UNCHANGED <<selfVars, childVars>>

\* attach: self.proc = proc
AttachProc ==
    /\ Main /\ pc = "popped"
    /\ pc' = "attach" /\ proc' = TRUE
    /\ UNCHANGED <<frames, pending, handlers, saved, vamos, sent, flagged>>
    /\ UNCHANGED <<selfVars, childVars>>

\* mutant: attach forgets the signal that came before it
AttachTestForgets ==
    /\ Main /\ pc = "attach" /\ pc' = "wait"
    /\ UNCHANGED <<frames, pending, handlers, saved, proc, vamos, sent, flagged>>
    /\ UNCHANGED <<selfVars, childVars>>

\* attach: if self.signum is not None
AttachTest ==
    /\ Main /\ pc = "attach"
    /\ pc' = IF signum = NoSig THEN "wait" ELSE "attachSend"
    /\ UNCHANGED <<frames, pending, handlers, saved, proc, vamos, sent, flagged>>
    /\ UNCHANGED <<selfVars, childVars>>

\* mutant: attach passes the signal on and does not start the grace period
AttachSendOnly ==
    /\ Main /\ pc = "attachSend" /\ pc' = "wait" /\ Send("forward")
    /\ UNCHANGED <<frames, pending, handlers, saved, proc, vamos, sent, flagged>>
    /\ UNCHANGED selfVars

\* attach: self._send(self.forward)
AttachSend ==
    /\ Main /\ pc = "attachSend"
    /\ pc' = "attachAlarm" /\ Send("forward")
    /\ UNCHANGED <<frames, pending, handlers, saved, proc, vamos, sent, flagged>>
    /\ UNCHANGED selfVars

\* attach: self._alarm(self.grace)
AttachAlarm ==
    /\ Main /\ pc = "attachAlarm"
    /\ pc' = "wait" /\ StartTimer
    /\ UNCHANGED <<frames, pending, handlers, saved, proc, vamos, sent, flagged>>
    /\ UNCHANGED <<signum, killed, flagVars, childVars>>

\* take_flags, from the caller's loop (nvc's caller has no flags): out, self._flags =
\* self._flags, [] reads the list first ...
TakeFlags ==
    /\ Main /\ pc = "wait" /\ Flags # {}
    /\ pc' = "taking" /\ out' = cur
    /\ UNCHANGED <<frames, pending, handlers, saved, proc, vamos, sent, flagged>>
    /\ UNCHANGED <<signum, killed, timer, lists, cur, answered, childVars>>

\* ... and then puts an empty one in its place: a handler that runs between
\* the two still appends to the list that was read
TakeFlagsStore ==
    /\ Main /\ pc = "taking"
    /\ pc' = "taken" /\ cur' = 1 - out /\ lists' = [lists EXCEPT ![1 - out] = <<>>]
    /\ UNCHANGED <<frames, pending, handlers, saved, proc, vamos, sent, flagged>>
    /\ UNCHANGED <<signum, killed, timer, out, answered, childVars>>

\* The caller's loop answers the flags take_flags returned
FlagsUsed ==
    /\ Main /\ pc = "taken"
    /\ pc' = "wait" /\ answered' = answered \o lists[out] /\ out' = NoList
    /\ UNCHANGED <<frames, pending, handlers, saved, proc, vamos, sent, flagged>>
    /\ UNCHANGED <<signum, killed, timer, lists, cur, childVars>>

\* The caller calls Popen.wait(), which takes the lock and calls waitpid()
CallWait ==
    /\ Main /\ pc = "wait" /\ ~returncode
    /\ pc' = "waitpid"
    /\ UNCHANGED <<frames, pending, handlers, saved, proc, vamos, sent, flagged>>
    /\ UNCHANGED <<selfVars, childVars>>

\* wait(timeout=POLL) expires: back to the loop
WaitExpires ==
    /\ Main /\ pc = "waitpid" /\ child # "exited"
    /\ pc' = "wait"
    /\ UNCHANGED <<frames, pending, handlers, saved, proc, vamos, sent, flagged>>
    /\ UNCHANGED <<selfVars, childVars>>

\* waitpid() returns the child: its pid is free from here on
Waitpid ==
    /\ Main /\ pc = "waitpid" /\ child = "exited"
    /\ pc' = "reap" /\ reaped' = TRUE
    /\ UNCHANGED <<frames, pending, handlers, saved, proc, vamos, sent, flagged>>
    /\ UNCHANGED <<selfVars, child, returncode, asked>>

\* wait() stores the return code and gives the lock back
StoreCode ==
    /\ Main /\ pc = "reap"
    /\ pc' = "leave" /\ returncode' = TRUE
    /\ UNCHANGED <<frames, pending, handlers, saved, proc, vamos, sent, flagged>>
    /\ UNCHANGED <<selfVars, child, reaped, asked>>

\* a handler's poll() reaped the child: wait() returns at once
WaitKnown ==
    /\ Main /\ pc = "wait" /\ returncode
    /\ pc' = "leave"
    /\ UNCHANGED <<frames, pending, handlers, saved, proc, vamos, sent, flagged>>
    /\ UNCHANGED <<selfVars, childVars>>

\* mutant: the exception leaves the block with no finally clause
LoopFailsAtOnce ==
    /\ Main /\ pc = "wait" /\ pc' = "leave"
    /\ UNCHANGED <<frames, pending, handlers, saved, proc, vamos, sent, flagged>>
    /\ UNCHANGED <<selfVars, childVars>>

\* an exception in the caller's loop (answering a flag writes a line, which
\* may fail): its finally clause
LoopFails ==
    /\ Main /\ pc \in {"wait", "taken"}
    /\ pc' = "cleanup"
    /\ UNCHANGED <<frames, pending, handlers, saved, proc, vamos, sent, flagged>>
    /\ UNCHANGED <<selfVars, childVars>>

\* kill_group: SIGKILL to the group unless poll() has a return code, then
\* p.wait(): the exception leaves the block
KillGroup ==
    /\ Main /\ pc = "cleanup"
    /\ pc' = "leave"
    /\ IF returncode THEN UNCHANGED childVars
       ELSE /\ child' = "exited" /\ reaped' = TRUE /\ returncode' = TRUE
            /\ UNCHANGED asked
    /\ UNCHANGED <<frames, pending, handlers, saved, proc, vamos, sent, flagged>>
    /\ UNCHANGED selfVars

\* __exit__: self._alarm(0)
StopTimer ==
    /\ Main /\ pc = "leave"
    /\ pc' = "restore" /\ timer' = FALSE
    /\ UNCHANGED <<frames, pending, handlers, saved, proc, vamos, sent, flagged>>
    /\ UNCHANGED <<signum, killed, flagVars, childVars>>

\* __exit__: signal.signal(sig, handler) for each saved handler, which first
\* runs the handlers of the signals already tripped
Restore(s) ==
    /\ Main /\ pc = "restore" /\ First(s, handlers) /\ pending = {}
    /\ handlers' = handlers \ {s}
    /\ UNCHANGED <<pc, frames, pending, saved, proc, vamos, sent, flagged>>
    /\ UNCHANGED <<selfVars, childVars>>

\* __exit__: self._saved = {}
Exited ==
    /\ Main /\ pc = "restore" /\ handlers = {}
    /\ pc' = "done" /\ saved' = {}
    /\ UNCHANGED <<frames, pending, handlers, proc, vamos, sent, flagged>>
    /\ UNCHANGED <<selfVars, childVars>>

---------------------------------------------------------------------------
(* The handlers, run by the interpreter between two statements.            *)

Push(s, at) == frames' = <<[sig |-> s, at |-> at]>> \o frames
Goto(at) == frames' = <<[Head(frames) EXCEPT !.at = at]>> \o Tail(frames)

Running == vamos = "running"
Top(at) == Running /\ frames # <<>> /\ Head(frames).at = at

\* _on_signal, its test: a first signal goes on below, a second one kills
OnSignal(s) ==
    /\ Running /\ s \in pending \cap Handled
    /\ pending' = pending \ {s}
    /\ IF signum = NoSig
       THEN Push(s, "set") /\ UNCHANGED <<killed, childVars>>
       ELSE Kill /\ UNCHANGED frames
    /\ UNCHANGED <<mainVars, vamos, sent, flagged, signum, flagVars, timer>>

\* mutant: the first signal is passed on and not recorded
OnSignalUnset ==
    /\ Top("set") /\ Goto("send")
    /\ UNCHANGED <<mainVars, pending, vamos, sent, flagged, selfVars, childVars>>

\* _on_signal: self.signum = signum
OnSignalSet ==
    /\ Top("set")
    /\ signum' = Head(frames).sig /\ Goto("send")
    /\ UNCHANGED <<mainVars, pending, vamos, sent, flagged, killed, flagVars, timer>>
    /\ UNCHANGED childVars

\* _on_signal: self._send(self.forward)
OnSignalSend ==
    /\ Top("send")
    /\ Send("forward") /\ Goto("alarm")
    /\ UNCHANGED <<mainVars, pending, vamos, sent, flagged, selfVars>>

\* _on_signal: self._alarm(self.grace)
OnSignalAlarm ==
    /\ Top("alarm")
    /\ StartTimer /\ frames' = Tail(frames)
    /\ UNCHANGED <<mainVars, pending, vamos, sent, flagged, signum, killed, flagVars>>
    /\ UNCHANGED childVars

\* mutant: self._flags = self._flags + [signum], a new list object
OnFlagRebinds(s) ==
    /\ Running /\ s \in pending \cap Flags /\ out # 1 - cur
    /\ pending' = pending \ {s} /\ cur' = 1 - cur
    /\ lists' = [lists EXCEPT ![1 - cur] = Append(lists[cur], s)]
    /\ flagged' = Append(flagged, s)
    /\ UNCHANGED <<mainVars, frames, vamos, sent, signum, killed, out, answered, timer>>
    /\ UNCHANGED childVars

\* _on_flag: self._flags.append(signum), to the list object itself
OnFlag(s) ==
    /\ Running /\ s \in pending \cap Flags
    /\ pending' = pending \ {s}
    /\ lists' = [lists EXCEPT ![cur] = Append(@, s)] /\ flagged' = Append(flagged, s)
    /\ UNCHANGED <<mainVars, frames, vamos, sent, signum, killed, cur, out, answered, timer>>
    /\ UNCHANGED childVars

\* mutant: the alarm asks the child again and does not kill it
OnAlarmAsks ==
    /\ Running /\ ALRM \in pending
    /\ pending' = pending \ {ALRM} /\ Send("forward")
    /\ UNCHANGED <<mainVars, frames, vamos, sent, flagged, selfVars>>

\* _on_alarm
OnAlarm ==
    /\ Running /\ ALRM \in pending
    /\ pending' = pending \ {ALRM}
    /\ Kill
    /\ UNCHANGED <<mainVars, frames, vamos, sent, flagged, signum, flagVars, timer>>

\* _on_stop: SIGSTOP to the child ...
OnStop ==
    /\ Running /\ TSTP \in pending
    /\ pending' = pending \ {TSTP}
    /\ Send("stop") /\ Push(TSTP, "selfstop")
    /\ UNCHANGED <<mainVars, vamos, sent, flagged, selfVars>>

\* ... then to vamos itself ...
OnStopSelf ==
    /\ Top("selfstop")
    /\ vamos' = "stopped" /\ Goto("cont")
    /\ UNCHANGED <<mainVars, pending, sent, flagged, selfVars, childVars>>

\* mutant: vamos goes on without the child
OnStopNoCont ==
    /\ Top("cont") /\ frames' = Tail(frames)
    /\ UNCHANGED <<mainVars, pending, vamos, sent, flagged, selfVars, childVars>>

\* ... and SIGCONT to the child once vamos goes on
OnStopCont ==
    /\ Top("cont")
    /\ Send("cont") /\ frames' = Tail(frames)
    /\ UNCHANGED <<mainVars, pending, vamos, sent, flagged, selfVars>>

---------------------------------------------------------------------------
(* The rest of the world: the kernel, the user, the child's program.       *)

\* Death of vamos: the child gets DeathSig if its prctl is done; between the
\* prctl and the exec the handler it inherited from vamos swallows it
DeathSignal ==
    /\ asked' = IF Alive THEN More(asked) ELSE asked
    /\ child' = IF child \in {"deathsig", "checked"} /\ DeathSig \notin handlers
                THEN "exited" ELSE child
    /\ UNCHANGED <<reaped, returncode>>

\* A signal for vamos: to the handler of the block, or as before the block
Arrive(s) ==
    /\ vamos # "dead" /\ sent < MaxSignals /\ s \in UserSignals \ Ignored
    /\ sent' = sent + 1
    /\ IF s \in handlers
       THEN pending' = pending \cup {s} /\ UNCHANGED <<vamos, childVars>>
       ELSE IF OuterHandles
       THEN UNCHANGED <<pending, vamos, childVars>>
       ELSE IF s = TSTP
       THEN vamos' = "stopped" /\ UNCHANGED <<pending, childVars>>
       ELSE vamos' = "dead" /\ DeathSignal /\ UNCHANGED pending
    /\ UNCHANGED <<mainVars, frames, flagged, selfVars>>

KillVamos ==
    /\ MayKillVamos /\ vamos # "dead"
    /\ vamos' = "dead" /\ DeathSignal
    /\ UNCHANGED <<mainVars, frames, pending, sent, flagged, selfVars>>

Resume ==
    /\ vamos = "stopped" /\ vamos' = "running"
    /\ UNCHANGED <<mainVars, frames, pending, sent, flagged, selfVars, childVars>>

\* The interval timer expires: SIGALRM, whose default action ends vamos
TimerExpires ==
    /\ vamos # "dead" /\ timer
    /\ timer' = FALSE
    /\ IF ALRM \in handlers
       THEN pending' = pending \cup {ALRM} /\ UNCHANGED <<vamos, childVars>>
       ELSE vamos' = "dead" /\ DeathSignal /\ UNCHANGED pending
    /\ UNCHANGED <<mainVars, frames, sent, flagged, signum, killed, flagVars>>

\* child_setup's preexec, one statement after the other, then exec
Preexec ==
    /\ \/ child = "forked" /\ child' = "grouped"
       \/ child = "grouped" /\ child' = "deathsig"
       \/ child = "deathsig" /\ child' = IF vamos = "dead" THEN "exited" ELSE "checked"
       \/ child = "checked" /\ child' = "running"
    /\ UNCHANGED <<mainVars, frames, pending, vamos, sent, flagged, selfVars>>
    /\ UNCHANGED <<reaped, returncode, asked>>

\* The child's program ends by itself or for the signals it got
ChildExits ==
    /\ child = "running" /\ child' = "exited"
    /\ UNCHANGED <<mainVars, frames, pending, vamos, sent, flagged, selfVars>>
    /\ UNCHANGED <<reaped, returncode, asked>>

---------------------------------------------------------------------------
MainStep ==
    \/ \E s \in Signals : Install(s) \/ Restore(s)
    \/ Entered \/ Fork \/ PopenFails \/ PopenReturns
    \/ AttachProc \/ AttachTest \/ AttachSend \/ AttachAlarm
    \/ TakeFlags \/ TakeFlagsStore \/ FlagsUsed
    \/ CallWait \/ WaitExpires \/ Waitpid \/ StoreCode
    \/ WaitKnown \/ LoopFails \/ KillGroup \/ StopTimer \/ Exited

HandlerStep ==
    \/ \E s \in Signals : OnSignal(s) \/ OnFlag(s)
    \/ OnSignalSet \/ OnSignalSend \/ OnSignalAlarm
    \/ OnAlarm \/ OnStop \/ OnStopSelf \/ OnStopCont

World ==
    \/ \E s \in UserSignals : Arrive(s)
    \/ KillVamos \/ Resume \/ TimerExpires
    \/ Preexec \/ ChildExits

Next == MainStep \/ HandlerStep \/ World

Spec == Init /\ [][Next]_vars

\* The interpreter runs the handlers of tripped signals and its own program,
\* the kernel's timer expires, a forked child gets to its exec, and a user
\* who stopped vamos continues it.  Nothing is assumed of the child's
\* program: it may ignore every signal it can.
Fairness ==
    /\ WF_vars(HandlerStep) /\ WF_vars(MainStep)
    /\ WF_vars(TimerExpires) /\ WF_vars(Preexec) /\ WF_vars(Resume)

FairSpec == Spec /\ Fairness

---------------------------------------------------------------------------
(* Properties.                                                             *)

ChildType ==
    /\ child \in ChildStates
    /\ reaped \in BOOLEAN /\ returncode \in BOOLEAN
    /\ asked \in 0..2

\* Every variable holds a value of its kind (the attributes of Interrupts,
\* the interpreter's and the kernel's view of the child).
TypeOK ==
    /\ pc \in Points /\ frames \in Seq(Frame) /\ pending \subseteq Signals
    /\ handlers \subseteq Signals /\ saved \subseteq Signals
    /\ proc \in BOOLEAN /\ signum \in Handled \cup {NoSig} /\ killed \in BOOLEAN
    /\ lists \in [0..1 -> Seq(Flags)] /\ cur \in 0..1 /\ out \in 0..2
    /\ pc \in {"taking", "taken"} => out # NoList
    /\ answered \in Seq(Flags) /\ flagged \in Seq(Flags)
    /\ timer \in BOOLEAN /\ sent \in 0..MaxSignals
    /\ vamos \in {"running", "stopped", "dead"}
    /\ ChildType

\* The caller waits for its child and no handler is in progress
Waiting == vamos # "dead" /\ frames = <<>> /\ pc \in {"wait", "taking", "taken", "waitpid"}

\* A stop signal is never lost between the handler that recorded it and the
\* child (attach passes on one that came before it): once the caller waits
\* and a signal is on record, the child was asked to end, or has ended.
SignalPassedOn ==
    Waiting /\ signum # NoSig => asked > 0 \/ child = "exited"

\* The grace period is always running while a child that was asked to end
\* still runs, whatever the order of attach, the handlers and the alarm:
\* a child that ignores the signal cannot make vamos wait for ever.
GraceRunning ==
    Waiting /\ signum # NoSig /\ Alive => timer \/ ALRM \in pending

\* vamos never kills a child before a stop signal is on record (_kill is
\* reached by a second signal or by the alarm of a first one only), and no
\* timer runs nor SIGALRM is tripped without one.
KillOnlyAfterSignal ==
    killed \/ timer \/ ALRM \in pending => signum # NoSig

\* Ctrl-Z and fg leave the child as they found it: whenever vamos runs its
\* own program again the child is not stopped.
ChildResumed ==
    vamos = "running" /\ frames = <<>> => child # "stopped"

\* What take_flags has read out of self._flags and the caller has not answered
Handed == IF out \in {NoList, cur} THEN <<>> ELSE lists[out]

\* SIGUSR1 and SIGUSR2 are answered once each and in the order they came, also
\* one whose handler runs between take_flags' read of the list and its store of
\* an empty one: every flag is answered, in the caller's hands, or in self._flags.
FlagsInOrder == flagged = answered \o Handed \o lists[cur]

\* The block leaves no child behind: when it is left, by the end of the
\* child, a failed start or an exception in the loop, the child is reaped.
NoChildLeft ==
    pc \in {"leave", "restore", "done"} => child = "none" \/ (child = "exited" /\ reaped)

\* After the first stop signal the attached child ends, even one that
\* ignores every signal it can (the grace period's SIGKILL).
ChildEnds == (signum # NoSig /\ proc /\ vamos # "dead") ~> (child = "exited" \/ vamos = "dead")

---------------------------------------------------------------------------
(* The inductive invariant behind the safety properties.                   *)

\* A handler in progress is at one of the given statements
Some(q, S) == \E i \in 1..Len(q) : q[i].at \in S

\* The block's SIGALRM handler is in place wherever a child may run
InBlock == pc \notin {"enter", "restore", "done"}
HandlersInv ==
    /\ pc # "restore" => handlers = saved
    /\ InBlock => ALRM \in handlers

\* Where the child can be at each statement of the main program, and what
\* its pid and return code say of it
ChildInv ==
    /\ pc \in {"enter", "block"} => child = "none"
    /\ proc => child \in {"running", "stopped", "exited"}
    /\ pc \in {"attach", "attachSend", "attachAlarm", "wait", "taking", "taken", "waitpid",
              "reap", "cleanup"} => proc
    /\ pc \in {"enter", "block", "popen", "popped"} => ~proc
    /\ reaped => child = "exited"
    /\ returncode => reaped
    /\ pc = "popped" => child \in {"running", "exited"}
    /\ pc = "reap" => reaped
    /\ child = "stopped" => proc
    /\ NoChildLeft

\* A recorded signal stays on record, and everything that follows from it
\* comes after it is recorded
SignalInv ==
    /\ Some(frames, {"send", "alarm"}) => signum # NoSig
    /\ pc \in {"attachSend", "attachAlarm"} => signum # NoSig
    /\ KillOnlyAfterSignal

\* SignalPassedOn and GraceRunning at every statement: what is still to be
\* done is done by a handler in progress or by attach
PassedOnInv ==
    proc /\ signum # NoSig =>
        asked > 0 \/ child = "exited" \/ Some(frames, {"send"}) \/ pc \in {"attach", "attachSend"}

GraceInv ==
    proc /\ signum # NoSig /\ Alive /\ vamos # "dead" =>
        \/ timer \/ ALRM \in pending
        \/ Some(frames, {"send", "alarm"})
        \/ pc \in {"attach", "attachSend", "attachAlarm"}

\* The list take_flags is about to return is self._flags up to its store, and
\* another one after it
FlagsInv ==
    /\ pc = "taking" => out = cur
    /\ pc = "taken" => out \in 0..1 /\ out # cur
    /\ pc \in {"enter", "block", "popen", "popped", "attach", "attachSend", "attachAlarm",
              "wait", "waitpid", "reap"} => out = NoList
    /\ out = cur => pc = "taking"
    /\ FlagsInOrder

\* A stopped child waits for a stop handler in progress
StopInv == child = "stopped" => Some(frames, {"selfstop", "cont"})

IInv ==
    /\ TypeOK /\ HandlersInv /\ ChildInv /\ SignalInv /\ PassedOnInv
    /\ GraceInv /\ StopInv /\ FlagsInv

---------------------------------------------------------------------------
(* What the documentation of the code says and the code does not keep.     *)

\* proc.py child_setup: "the child gets exactly one signal, from vamos".
ExactlyOneForward == asked <= 1

\* proc.py: Interrupts is "a context manager for the time a child runs": the
\* grace timer does not outlive it.
TimerEndsWithBlock == pc = "done" => ~timer

\* proc.py child_setup: the death signal means that "a killed vamos never
\* leaves a simulator running": one that runs on was at least asked to end.
DeathReachesChild == vamos = "dead" /\ Alive => asked > 0
===========================================================================
