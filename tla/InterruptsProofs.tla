------------------------- MODULE InterruptsProofs -------------------------
(* Proofs about Interrupts (vamos/proc.py) for every set of signals and    *)
(* every number of them.                                                   *)
EXTENDS Interrupts, TLAPS

USE InterruptsAssumption

\* Where a stack with a frame pushed on it has a frame at one of S.
LEMMA SomeCons ==
    ASSUME NEW q \in Seq(Frame), NEW f \in Frame, NEW S
    PROVE  Some(<<f>> \o q, S) <=> (f.at \in S \/ Some(q, S))
<1> DEFINE r == <<f>> \o q
<1>1. Len(r) = Len(q) + 1 /\ r[1] = f /\ \A i \in 1..Len(q) : r[i + 1] = q[i]
  OBVIOUS
<1>2. ASSUME Some(r, S) PROVE f.at \in S \/ Some(q, S)
  <2>1. PICK i \in 1..Len(r) : r[i].at \in S
    BY <1>2 DEF Some
  <2>2. CASE i = 1
    BY <2>1, <2>2, <1>1
  <2>3. CASE i # 1
    <3>1. i - 1 \in 1..Len(q) /\ r[(i - 1) + 1] = q[i - 1] /\ (i - 1) + 1 = i
      BY <2>3, <1>1
    <3> QED BY <3>1, <2>1 DEF Some
  <2> QED BY <2>2, <2>3
<1>3. ASSUME f.at \in S \/ Some(q, S) PROVE Some(r, S)
  <2>1. CASE f.at \in S
    BY <2>1, <1>1 DEF Some
  <2>2. CASE Some(q, S)
    <3>1. PICK i \in 1..Len(q) : q[i].at \in S
      BY <2>2 DEF Some
    <3>2. i + 1 \in 1..Len(r) /\ r[i + 1].at \in S
      BY <3>1, <1>1
    <3> QED BY <3>2 DEF Some
  <2> QED BY <1>3, <2>1, <2>2
<1> QED BY <1>2, <1>3

\* A non-empty stack is its head on its tail.
LEMMA Uncons ==
    ASSUME NEW q \in Seq(Frame), q # <<>>
    PROVE  /\ Head(q) \in Frame /\ Tail(q) \in Seq(Frame)
           /\ q = <<Head(q)>> \o Tail(q)
  OBVIOUS

LEMMA SomeEmpty == ASSUME NEW S PROVE ~Some(<<>>, S)
  BY DEF Some

LEMMA SendType ==
    ASSUME ChildType, NEW what, Send(what) PROVE ChildType'
<1>1. CASE ~proc \/ returncode
  BY <1>1 DEF Send, ChildType, childVars
<1>2. CASE ~(~proc \/ returncode) /\ PollEnded
  BY <1>2 DEF Send, ChildType
<1>3. CASE ~(~proc \/ returncode) /\ ~PollEnded /\ reaped
  BY <1>3 DEF Send, ChildType, childVars
<1>4. CASE ~(~proc \/ returncode) /\ ~PollEnded /\ ~reaped
  <2>1. Delivered(what) /\ UNCHANGED <<reaped, returncode>>
    BY <1>4 DEF Send
  <2>2. child' \in ChildStates
    BY <2>1 DEF Delivered, ChildType, ChildStates
  <2>3. asked' \in 0..2
    BY <2>1 DEF Delivered, ChildType, More
  <2> QED BY <2>1, <2>2, <2>3 DEF ChildType
<1> QED BY <1>1, <1>2, <1>3, <1>4

LEMMA KillType ==
    ASSUME ChildType, Kill PROVE ChildType' /\ killed' \in BOOLEAN
  BY SendType DEF Kill

LEMMA DeathType ==
    ASSUME ChildType, DeathSignal PROVE ChildType'
  BY DEF DeathSignal, ChildType, ChildStates, More

LEMMA PushType ==
    ASSUME frames \in Seq(Frame), NEW s \in Signals, NEW at \in Steps,
           at = "set" => s \in Handled, Push(s, at)
    PROVE  frames' \in Seq(Frame)
  BY DEF Push, Frame

LEMMA GotoType ==
    ASSUME frames \in Seq(Frame), frames # <<>>, NEW at \in Steps, at # "set", Goto(at)
    PROVE  /\ frames' \in Seq(Frame)
           /\ [Head(frames) EXCEPT !.at = at] \in Frame
<1>1. Head(frames) \in Frame /\ Tail(frames) \in Seq(Frame)
  BY Uncons
<1>2. [Head(frames) EXCEPT !.at = at] \in Frame
  BY <1>1 DEF Frame
<1> QED BY <1>1, <1>2 DEF Goto

\* Type correctness is kept by every step.
LEMMA TypeStep == TypeOK /\ [Next]_vars => TypeOK'
<1> SUFFICES ASSUME TypeOK, [Next]_vars PROVE TypeOK'
  OBVIOUS
<1> USE DEF TypeOK, mainVars, selfVars, flagVars, NoList
<1>0. ASSUME UNCHANGED childVars PROVE ChildType'
  BY <1>0 DEF ChildType, childVars
<1>1. CASE UNCHANGED vars
  BY <1>1, <1>0 DEF vars, childVars
<1>2. CASE MainStep
  <2>1. ASSUME NEW s \in Signals, Install(s) PROVE TypeOK'
    BY <2>1, <1>0 DEF Install
  <2>2. ASSUME NEW s \in Signals, Restore(s) PROVE TypeOK'
    BY <2>2, <1>0 DEF Restore
  <2>3. CASE Entered
    BY <2>3, <1>0 DEF Entered, Points
  <2>4. CASE Fork
    BY <2>4 DEF Fork, Points, ChildType, ChildStates
  <2>5. CASE PopenFails
    BY <2>5, <1>0 DEF PopenFails, Points
  <2>6. CASE PopenReturns
    BY <2>6, <1>0 DEF PopenReturns, Points
  <2>7. CASE AttachProc
    BY <2>7, <1>0 DEF AttachProc, Points
  <2>8. CASE AttachTest
    BY <2>8, <1>0 DEF AttachTest, Points
  <2>9. CASE AttachSend
    BY <2>9, SendType DEF AttachSend, Points
  <2>10. CASE AttachAlarm
    BY <2>10, <1>0 DEF AttachAlarm, Points, StartTimer
  <2>11. CASE TakeFlags \/ TakeFlagsStore \/ FlagsUsed
    <3>1. CASE TakeFlags
      BY <3>1, <1>0 DEF TakeFlags, Points
    <3>2. CASE TakeFlagsStore
      <4>1. out \in 0..1 /\ 1 - out \in 0..1 /\ <<>> \in Seq(Flags)
        BY <3>2 DEF TakeFlagsStore
      <4>2. lists' \in [0..1 -> Seq(Flags)] /\ cur' \in 0..1
        BY <3>2, <4>1 DEF TakeFlagsStore
      <4> QED BY <3>2, <1>0, <4>1, <4>2 DEF TakeFlagsStore, Points
    <3>3. CASE FlagsUsed
      <4>1. lists[out] \in Seq(Flags)
        BY <3>3 DEF FlagsUsed
      <4>2. answered' \in Seq(Flags)
        BY <3>3, <4>1 DEF FlagsUsed
      <4> QED BY <3>3, <1>0, <4>2 DEF FlagsUsed, Points
    <3> QED BY <2>11, <3>1, <3>2, <3>3
  <2>12. CASE CallWait
    BY <2>12, <1>0 DEF CallWait, Points
  <2>13. CASE WaitExpires
    BY <2>13, <1>0 DEF WaitExpires, Points
  <2>14. CASE Waitpid
    BY <2>14 DEF Waitpid, Points, ChildType
  <2>15. CASE StoreCode
    BY <2>15 DEF StoreCode, Points, ChildType
  <2>16. CASE WaitKnown
    BY <2>16, <1>0 DEF WaitKnown, Points
  <2>17. CASE LoopFails
    BY <2>17, <1>0 DEF LoopFails, Points
  <2>18. CASE KillGroup
    <3>1. ChildType'
      BY <2>18, <1>0 DEF KillGroup, ChildType, ChildStates
    <3> QED BY <2>18, <3>1 DEF KillGroup, Points
  <2>19. CASE StopTimer
    BY <2>19, <1>0 DEF StopTimer, Points
  <2>20. CASE Exited
    BY <2>20, <1>0 DEF Exited, Points
  <2> QED
    BY <1>2, <2>1, <2>2, <2>3, <2>4, <2>5, <2>6, <2>7, <2>8, <2>9, <2>10, <2>11,
       <2>12, <2>13, <2>14, <2>15, <2>16, <2>17, <2>18, <2>19, <2>20 DEF MainStep
<1>3. CASE HandlerStep
  <2>1. ASSUME NEW s \in Signals, OnSignal(s) PROVE TypeOK'
    <3>1. CASE signum = NoSig
      BY <2>1, <3>1, <1>0, PushType DEF OnSignal, Steps
    <3>2. CASE signum # NoSig
      BY <2>1, <3>2, KillType DEF OnSignal
    <3> QED BY <3>1, <3>2
  <2>2. ASSUME NEW s \in Signals, OnFlag(s) PROVE TypeOK'
    BY <2>2, <1>0 DEF OnFlag
  <2>3. CASE OnSignalSet
    <3>1. frames' \in Seq(Frame)
      BY <2>3, GotoType DEF OnSignalSet, Top, Steps
    <3>2. Head(frames) \in Frame
      BY <2>3, Uncons DEF OnSignalSet, Top
    <3>3. signum' \in Handled
      BY <2>3, <3>2 DEF OnSignalSet, Top, Frame
    <3> QED BY <2>3, <1>0, <3>1, <3>3 DEF OnSignalSet
  <2>4. CASE OnSignalSend
    BY <2>4, SendType, GotoType DEF OnSignalSend, Top, Steps
  <2>5. CASE OnSignalAlarm
    BY <2>5, <1>0, Uncons DEF OnSignalAlarm, Top, StartTimer
  <2>6. CASE OnAlarm
    BY <2>6, KillType DEF OnAlarm
  <2>7. CASE OnStop
    BY <2>7, SendType, PushType DEF OnStop, Steps, Signals, UserSignals
  <2>8. CASE OnStopSelf
    BY <2>8, <1>0, GotoType DEF OnStopSelf, Top, Steps
  <2>9. CASE OnStopCont
    BY <2>9, SendType, Uncons DEF OnStopCont, Top
  <2> QED
    BY <1>3, <2>1, <2>2, <2>3, <2>4, <2>5, <2>6, <2>7, <2>8, <2>9 DEF HandlerStep
<1>4. CASE World
  <2>1. ASSUME NEW s \in UserSignals, Arrive(s) PROVE TypeOK'
    <3>1. ChildType'
      BY <2>1, <1>0, DeathType DEF Arrive
    <3> QED BY <2>1, <3>1 DEF Arrive, Signals
  <2>2. CASE KillVamos
    BY <2>2, DeathType DEF KillVamos
  <2>3. CASE Resume
    BY <2>3, <1>0 DEF Resume
  <2>4. CASE TimerExpires
    <3>1. ChildType'
      BY <2>4, <1>0, DeathType DEF TimerExpires
    <3> QED BY <2>4, <3>1 DEF TimerExpires, Signals
  <2>5. CASE Preexec
    BY <2>5 DEF Preexec, ChildStates, ChildType
  <2>6. CASE ChildExits
    BY <2>6 DEF ChildExits, ChildStates, ChildType
  <2> QED
    BY <1>4, <2>1, <2>2, <2>3, <2>4, <2>5, <2>6 DEF World
<1> QED BY <1>1, <1>2, <1>3, <1>4 DEF Next

LEMMA TypeInit == Init => TypeOK
<1> SUFFICES ASSUME Init PROVE TypeOK
  OBVIOUS
<1>1. ChildType
  <2>1. child \in ChildStates
    BY DEF Init, ChildStates
  <2>2. reaped \in BOOLEAN /\ returncode \in BOOLEAN
    BY DEF Init
  <2>3. asked \in 0..2
    BY DEF Init
  <2> QED BY <2>1, <2>2, <2>3 DEF ChildType
<1>2. frames \in Seq(Frame) /\ lists \in [0..1 -> Seq(Flags)] /\ cur \in 0..1 /\ out \in 0..2
      /\ answered \in Seq(Flags) /\ flagged \in Seq(Flags)
  BY DEF Init, NoList
<1>3. pc \in Points /\ proc \in BOOLEAN /\ killed \in BOOLEAN /\ timer \in BOOLEAN
  BY DEF Init, Points
<1>4. sent \in 0..MaxSignals
  BY DEF Init
<1> QED BY <1>1, <1>2, <1>3, <1>4 DEF Init, TypeOK

\* The type invariant: the attributes of Interrupts and the child's view of
\* it stay in their sets, for any number of signals and any nesting.
THEOREM TypeCorrect == Spec => []TypeOK
<1> QED BY TypeInit, TypeStep, PTL DEF Spec

\* What _send does to the child, by the state the child is in.
LEMMA SendEffect ==
    ASSUME TypeOK, ChildInv, NEW what, Send(what)
    PROVE  /\ ~proc => UNCHANGED childVars
           /\ ~Alive => child' = child /\ asked' = asked
           /\ proc /\ Alive =>
                /\ what = "kill" => child' = "exited"
                /\ what = "forward" => child' = child /\ asked' > 0
                /\ what = "stop" => child' = "stopped"
                /\ what = "cont" => child' = "running"
                /\ what # "forward" => asked' = asked
                /\ reaped' = reaped /\ returncode' = returncode
           /\ child' # child => proc /\ Alive /\ child' \in {"running", "stopped", "exited"}
           /\ asked > 0 => asked' > 0
           /\ reaped' => child' = "exited"
           /\ returncode' => reaped'
           /\ reaped => reaped'
<1> USE DEF TypeOK, ChildType, Alive
<1>1. CASE ~proc \/ returncode
  BY <1>1 DEF Send, childVars, ChildInv
<1>2. CASE ~(~proc \/ returncode) /\ PollEnded
  <2>1. child = "exited"
    BY <1>2 DEF PollEnded
  <2> QED BY <1>2, <2>1 DEF Send, ChildInv
<1>3. CASE ~(~proc \/ returncode) /\ ~PollEnded /\ reaped
  BY <1>3 DEF Send, ChildInv, childVars
<1>4. CASE ~(~proc \/ returncode) /\ ~PollEnded /\ ~reaped
  <2>1. Delivered(what) /\ UNCHANGED <<reaped, returncode>>
    BY <1>4 DEF Send
  <2>2. proc
    BY <1>4
  <2>3. asked > 0 => asked' > 0
    BY <2>1 DEF Delivered, More
  <2>4. ~Alive => child' = child /\ asked' = asked
    BY <2>1 DEF Delivered
  <2>5. Alive => /\ what = "kill" => child' = "exited"
                 /\ what = "forward" => child' = child /\ asked' > 0
                 /\ what = "stop" => child' = "stopped"
                 /\ what = "cont" => child' = "running"
                 /\ what # "forward" => asked' = asked
    BY <2>1 DEF Delivered, More
  <2>6. child' # child => Alive /\ child' \in {"running", "stopped", "exited"}
    BY <2>1 DEF Delivered
  <2> QED BY <1>4, <2>1, <2>2, <2>3, <2>4, <2>5, <2>6
<1> QED BY <1>1, <1>2, <1>3, <1>4

\* What the death of vamos does to the child.
LEMMA DeathEffect ==
    ASSUME TypeOK, ChildInv, DeathSignal
    PROVE  /\ child' = child \/ (child \in {"deathsig", "checked"} /\ child' = "exited")
           /\ asked > 0 => asked' > 0
           /\ UNCHANGED <<reaped, returncode>>
  BY DEF DeathSignal, More, TypeOK, ChildType

---------------------------------------------------------------------------
\* SIGALRM's handler is the block's own from its first statement to its last.
LEMMA HandlersStep == TypeOK /\ HandlersInv /\ [Next]_vars => HandlersInv'
<1> SUFFICES ASSUME TypeOK, HandlersInv, [Next]_vars PROVE HandlersInv'
  OBVIOUS
<1> USE DEF HandlersInv, InBlock, mainVars
<1>1. CASE UNCHANGED <<pc, handlers, saved>>
  BY <1>1
<1>2. ASSUME NEW s \in Signals, Install(s) PROVE HandlersInv'
  BY <1>2 DEF Install
<1>3. ASSUME NEW s \in Signals, Restore(s) PROVE HandlersInv'
  BY <1>3 DEF Restore
<1>4. CASE Entered
  BY <1>4 DEF Entered, Uninstalled, Signals
<1>5. CASE Exited
  BY <1>5 DEF Exited
<1>6. CASE \/ Fork \/ PopenFails \/ PopenReturns \/ AttachProc \/ AttachTest
           \/ AttachSend \/ AttachAlarm \/ CallWait \/ WaitExpires \/ Waitpid
           \/ StoreCode \/ WaitKnown \/ LoopFails \/ KillGroup \/ StopTimer
           \/ TakeFlags \/ TakeFlagsStore \/ FlagsUsed
  BY <1>6 DEF TakeFlags, TakeFlagsStore, FlagsUsed, Fork, PopenFails, PopenReturns, AttachProc, AttachTest, AttachSend,
       AttachAlarm, CallWait, WaitExpires, Waitpid, StoreCode, WaitKnown, LoopFails,
       KillGroup, StopTimer
<1>7. UNCHANGED vars \/ HandlerStep \/ World => UNCHANGED <<pc, handlers, saved>>
  BY DEF vars, HandlerStep, OnSignal, OnFlag, OnSignalSet, OnSignalSend,
       OnSignalAlarm, OnAlarm, OnStop, OnStopSelf, OnStopCont, World, Arrive, KillVamos,
       Resume, TimerExpires, Preexec, ChildExits
<1> QED BY <1>1, <1>2, <1>3, <1>4, <1>5, <1>6, <1>7 DEF Next, MainStep

---------------------------------------------------------------------------
(* Handlers in progress under the three changes of the stack.              *)

LEMMA PushSome ==
    ASSUME frames \in Seq(Frame), NEW s \in Signals, NEW at \in Steps,
           at = "set" => s \in Handled, Push(s, at), NEW S
    PROVE  Some(frames, S)' <=> (at \in S \/ Some(frames, S))
<1>1. [sig |-> s, at |-> at] \in Frame
  BY DEF Frame
<1> QED BY <1>1, SomeCons DEF Push

LEMMA TailSome ==
    ASSUME frames \in Seq(Frame), frames # <<>>, NEW S
    PROVE  Some(frames, S) <=> (Head(frames).at \in S \/ Some(Tail(frames), S))
<1>1. /\ Head(frames) \in Frame /\ Tail(frames) \in Seq(Frame)
      /\ frames = <<Head(frames)>> \o Tail(frames)
  BY Uncons
<1>2. Some(<<Head(frames)>> \o Tail(frames), S)
         <=> (Head(frames).at \in S \/ Some(Tail(frames), S))
  BY <1>1, SomeCons
<1> QED BY <1>1, <1>2

LEMMA GotoSome ==
    ASSUME frames \in Seq(Frame), frames # <<>>, NEW at \in Steps, at # "set", Goto(at), NEW S
    PROVE  Some(frames, S)' <=> (at \in S \/ Some(Tail(frames), S))
<1> DEFINE f == [Head(frames) EXCEPT !.at = at]
<1>1. f \in Frame /\ Tail(frames) \in Seq(Frame)
  BY GotoType, Uncons
<1>2. f.at = at
  <2>1. Head(frames) \in [sig : Signals, at : Steps]
    BY Uncons DEF Frame
  <2> QED BY <2>1
<1>3. Some(<<f>> \o Tail(frames), S) <=> (f.at \in S \/ Some(Tail(frames), S))
  BY <1>1, SomeCons
<1> QED BY <1>2, <1>3 DEF Goto

---------------------------------------------------------------------------
\* The child is where the main program's statement says it is.
LEMMA ChildStep == TypeOK /\ ChildInv /\ [Next]_vars => ChildInv'
<1> SUFFICES ASSUME TypeOK, ChildInv, [Next]_vars PROVE ChildInv'
  OBVIOUS
<1> USE DEF mainVars
<1>0. ASSUME UNCHANGED <<pc, proc, child, reaped, returncode>> PROVE ChildInv'
  BY <1>0 DEF ChildInv, NoChildLeft
<1>1. ASSUME NEW what, Send(what), UNCHANGED <<pc, proc>> PROVE ChildInv'
  BY <1>1, SendEffect DEF ChildInv, NoChildLeft, childVars, Alive
<1>2. ASSUME DeathSignal, UNCHANGED <<pc, proc>> PROVE ChildInv'
  BY <1>2, DeathEffect DEF ChildInv, NoChildLeft
<1>3. CASE MainStep
  <2> USE DEF ChildInv, NoChildLeft
  <2>1. ASSUME NEW s \in Signals, Install(s) \/ Restore(s) PROVE ChildInv'
    BY <2>1, <1>0 DEF Install, Restore, childVars
  <2>2. CASE TakeFlags \/ TakeFlagsStore \/ FlagsUsed
    BY <2>2 DEF TakeFlags, TakeFlagsStore, FlagsUsed, childVars
  <2>3. CASE Entered
    BY <2>3 DEF Entered, childVars
  <2>4. CASE Fork
    BY <2>4 DEF Fork
  <2>5. CASE PopenFails
    BY <2>5 DEF PopenFails, childVars
  <2>6. CASE PopenReturns
    BY <2>6 DEF PopenReturns, childVars
  <2>7. CASE AttachProc
    BY <2>7 DEF AttachProc, childVars
  <2>8. CASE AttachTest
    BY <2>8 DEF AttachTest, childVars
  <2>9. CASE AttachSend
    BY <2>9, SendEffect DEF AttachSend, Alive
  <2>10. CASE AttachAlarm
    BY <2>10 DEF AttachAlarm, childVars
  <2>11. CASE CallWait
    BY <2>11 DEF CallWait, childVars
  <2>12. CASE WaitExpires
    BY <2>12 DEF WaitExpires, childVars
  <2>13. CASE Waitpid
    BY <2>13 DEF Waitpid
  <2>14. CASE StoreCode
    BY <2>14 DEF StoreCode
  <2>15. CASE WaitKnown
    BY <2>15 DEF WaitKnown, childVars
  <2>16. CASE LoopFails
    BY <2>16 DEF LoopFails, childVars
  <2>17. CASE KillGroup
    BY <2>17 DEF KillGroup, childVars
  <2>18. CASE StopTimer
    BY <2>18 DEF StopTimer, childVars
  <2>19. CASE Exited
    BY <2>19 DEF Exited, childVars
  <2> QED
    BY <1>3, <2>1, <2>2, <2>3, <2>4, <2>5, <2>6, <2>7, <2>8, <2>9, <2>10, <2>11,
       <2>12, <2>13, <2>14, <2>15, <2>16, <2>17, <2>18, <2>19 DEF MainStep
<1>4. CASE HandlerStep
  <2>1. ASSUME NEW s \in Signals, OnSignal(s) PROVE ChildInv'
    BY <2>1, <1>0, <1>1 DEF OnSignal, Kill, childVars
  <2>2. ASSUME NEW s \in Signals, OnFlag(s) PROVE ChildInv'
    BY <2>2, <1>0 DEF OnFlag, childVars
  <2>3. CASE OnSignalSet \/ OnSignalAlarm \/ OnStopSelf
    BY <2>3, <1>0 DEF OnSignalSet, OnSignalAlarm, OnStopSelf, childVars
  <2>4. CASE OnSignalSend \/ OnStop \/ OnStopCont
    BY <2>4, <1>1 DEF OnSignalSend, OnStop, OnStopCont
  <2>5. CASE OnAlarm
    BY <2>5, <1>1 DEF OnAlarm, Kill
  <2> QED BY <1>4, <2>1, <2>2, <2>3, <2>4, <2>5 DEF HandlerStep
<1>5. CASE World
  <2>1. ASSUME NEW s \in UserSignals, Arrive(s) PROVE ChildInv'
    BY <2>1, <1>0, <1>2 DEF Arrive, childVars
  <2>2. CASE KillVamos \/ TimerExpires
    BY <2>2, <1>0, <1>2 DEF KillVamos, TimerExpires, childVars
  <2>3. CASE Resume
    BY <2>3, <1>0 DEF Resume, childVars
  <2>4. CASE Preexec
    BY <2>4 DEF Preexec, ChildInv, NoChildLeft
  <2>5. CASE ChildExits
    BY <2>5 DEF ChildExits, ChildInv, NoChildLeft
  <2> QED BY <1>5, <2>1, <2>2, <2>3, <2>4, <2>5 DEF World
<1>6. CASE UNCHANGED vars
  BY <1>6, <1>0 DEF vars
<1> QED BY <1>3, <1>4, <1>5, <1>6 DEF Next

---------------------------------------------------------------------------
LEMMA AppendCat ==
    ASSUME NEW a \in Seq(Flags), NEW b \in Seq(Flags), NEW x \in Flags
    PROVE  Append(a \o b, x) = a \o Append(b, x)
  BY ONLY SMT

\* The flags recorded are those answered followed by those waiting.
LEMMA FlagsStep == TypeOK /\ FlagsInv /\ [Next]_vars => FlagsInv'
<1> SUFFICES ASSUME TypeOK, FlagsInv, [Next]_vars PROVE FlagsInv'
  OBVIOUS
<1> USE DEF FlagsInv, FlagsInOrder, NoList
<1>0. /\ lists \in [0..1 -> Seq(Flags)] /\ cur \in 0..1 /\ out \in 0..2
      /\ answered \in Seq(Flags) /\ flagged \in Seq(Flags)
  BY DEF TypeOK
<1>t. Handed \in Seq(Flags) /\ lists[cur] \in Seq(Flags)
  BY <1>0 DEF Handed
<1>1. ASSUME NEW s \in Signals, OnFlag(s) PROVE FlagsInv'
  <2>1. /\ lists' = [lists EXCEPT ![cur] = Append(@, s)] /\ flagged' = Append(flagged, s)
        /\ answered' = answered /\ cur' = cur /\ out' = out /\ pc' = pc /\ s \in Flags
    BY <1>1 DEF OnFlag, mainVars
  <2>2. lists'[cur] = Append(lists[cur], s) /\ Handed' = Handed
    BY <2>1, <1>0 DEF Handed
  <2>4. flagged' = answered' \o Handed' \o lists'[cur']
    <3>1. flagged = answered \o Handed \o lists[cur]
      BY DEF FlagsInOrder
    <3>2. Append(answered \o Handed \o lists[cur], s) = answered \o Handed \o Append(lists[cur], s)
      <4>1. answered \o Handed \in Seq(Flags)
        BY ONLY <1>0, <1>t, SMT
      <4> QED BY ONLY <4>1, <1>t, <2>1, AppendCat
    <3>3. /\ flagged' = Append(answered \o Handed \o lists[cur], s)
          /\ answered' \o Handed' \o lists'[cur'] = answered \o Handed \o Append(lists[cur], s)
      BY ONLY <3>1, <2>1, <2>2
    <3> QED BY ONLY <3>2, <3>3
  <2> QED BY <2>1, <2>4
<1>2. CASE TakeFlags
  <2>1. /\ pc' = "taking" /\ out' = cur /\ pc = "wait"
        /\ UNCHANGED <<lists, cur, answered, flagged>>
    BY <1>2 DEF TakeFlags
  <2>2. Handed = <<>> /\ Handed' = <<>>
    BY <2>1 DEF Handed
  <2> QED BY <2>1, <2>2
<1>3. CASE TakeFlagsStore
  <2>1. /\ pc = "taking" /\ pc' = "taken" /\ cur' = 1 - out /\ out = cur /\ out' = out
        /\ lists' = [lists EXCEPT ![1 - out] = <<>>] /\ UNCHANGED <<answered, flagged>>
    BY <1>3 DEF TakeFlagsStore
  <2>2. 1 - out \in 0..1 /\ 1 - out # out /\ out # 2
    BY <2>1, <1>0
  <2>3. Handed = <<>> /\ Handed' = lists[cur] /\ lists'[cur'] = <<>>
    BY <2>1, <2>2, <1>0 DEF Handed
  <2>4. flagged = answered \o <<>> \o lists[cur]
    BY <2>3
  <2>5. answered \o <<>> \o lists[cur] = answered \o lists[cur] \o <<>>
    BY <1>0, <1>t
  <2>6. flagged' = answered' \o Handed' \o lists'[cur']
    BY <2>1, <2>3, <2>4, <2>5
  <2> QED BY <2>1, <2>2, <2>6, <1>0
<1>4. CASE FlagsUsed
  <2>1. /\ pc = "taken" /\ pc' = "wait" /\ answered' = answered \o lists[out] /\ out' = 2
        /\ UNCHANGED <<lists, cur, flagged>>
    BY <1>4 DEF FlagsUsed
  <2>2. Handed = lists[out] /\ Handed' = <<>> /\ lists[out] \in Seq(Flags)
    BY <2>1, <1>0 DEF Handed
  <2>3. (answered \o lists[out]) \o <<>> = answered \o lists[out]
    BY <2>2, <1>0
  <2>4. answered' \o Handed' \o lists'[cur'] = answered \o Handed \o lists[cur]
    BY <2>1, <2>2, <2>3
  <2>5. flagged' = answered' \o Handed' \o lists'[cur']
    BY <2>1, <2>4
  <2> QED BY <2>1, <2>5, <1>0
<1>5. ASSUME UNCHANGED <<flagged, flagVars>>,
             \/ pc' = pc
             \/ /\ pc # "taking" /\ pc' # "taking" /\ pc' # "taken"
                /\ pc \in {"taken", "cleanup", "leave", "restore", "done"}
                     => pc' \in {"cleanup", "leave", "restore", "done"}
      PROVE  FlagsInv'
  <2>1. FlagsInOrder'
    BY <1>5 DEF flagVars, Handed
  <2>2. CASE pc' = pc
    BY <1>5, <2>1, <2>2 DEF flagVars
  <2>3. CASE pc' # pc
    BY <1>5, <1>0, <2>1, <2>3 DEF flagVars, TypeOK, Points
  <2> QED BY <2>2, <2>3
<1> USE DEF selfVars, flagVars
<1>6. CASE MainStep /\ ~TakeFlags /\ ~TakeFlagsStore /\ ~FlagsUsed
  BY <1>6, <1>5 DEF MainStep, Install, Restore, Entered, Fork, PopenFails, PopenReturns,
       AttachProc, AttachTest, AttachSend, AttachAlarm, CallWait, WaitExpires, Waitpid,
       StoreCode, WaitKnown, LoopFails, KillGroup, StopTimer, Exited
<1> USE DEF mainVars
<1>7. CASE HandlerStep
  <2>1. ASSUME NEW s \in Signals, OnSignal(s) PROVE FlagsInv'
    <3>1. UNCHANGED <<pc, flagged, flagVars>>
      BY <2>1 DEF OnSignal
    <3> QED BY <3>1, <1>5
  <2>2. CASE \/ OnSignalSet \/ OnSignalSend \/ OnSignalAlarm \/ OnAlarm
             \/ OnStop \/ OnStopSelf \/ OnStopCont
    <3>1. UNCHANGED <<pc, flagged, flagVars>>
      BY <2>2 DEF OnSignalSet, OnSignalSend, OnSignalAlarm, OnAlarm, OnStop,
           OnStopSelf, OnStopCont
    <3> QED BY <3>1, <1>5
  <2> QED BY <1>1, <1>7, <2>1, <2>2 DEF HandlerStep
<1>8. CASE World \/ UNCHANGED vars
  <2>1. UNCHANGED <<pc, flagged, flagVars>>
    BY <1>8 DEF World, Arrive, KillVamos, Resume, TimerExpires, Preexec, ChildExits, vars
  <2> QED BY <2>1, <1>5
<1> QED BY <1>2, <1>3, <1>4, <1>6, <1>7, <1>8 DEF Next

---------------------------------------------------------------------------
\* Nothing that follows from a stop signal happens before one is recorded.
LEMMA SignalStep == TypeOK /\ SignalInv /\ [Next]_vars => SignalInv'
<1> SUFFICES ASSUME TypeOK, SignalInv, [Next]_vars PROVE SignalInv'
  OBVIOUS
<1> USE DEF SignalInv, KillOnlyAfterSignal, mainVars, selfVars, flagVars
<1>0. frames \in Seq(Frame)
  BY DEF TypeOK
<1>1. CASE MainStep
  <2>1. ASSUME NEW s \in Signals, Install(s) \/ Restore(s) PROVE SignalInv'
    BY <2>1 DEF Install, Restore
  <2>2. CASE Entered \/ Fork \/ PopenFails \/ PopenReturns \/ AttachProc
    BY <2>2 DEF Entered, Fork, PopenFails, PopenReturns, AttachProc
  <2>3. CASE AttachTest \/ AttachSend \/ AttachAlarm
    BY <2>3 DEF AttachTest, AttachSend, AttachAlarm, StartTimer
  <2>4. CASE TakeFlags \/ TakeFlagsStore \/ FlagsUsed \/ CallWait \/ WaitExpires \/ Waitpid \/ StoreCode
    BY <2>4 DEF TakeFlags, TakeFlagsStore, FlagsUsed, CallWait, WaitExpires, Waitpid, StoreCode
  <2>5. CASE WaitKnown \/ LoopFails \/ KillGroup \/ StopTimer \/ Exited
    BY <2>5 DEF WaitKnown, LoopFails, KillGroup, StopTimer, Exited
  <2> QED BY <1>1, <2>1, <2>2, <2>3, <2>4, <2>5 DEF MainStep
<1>2. CASE HandlerStep
  <2>1. ASSUME NEW s \in Signals, OnSignal(s) PROVE SignalInv'
    <3>0. ALRM \in pending' => ALRM \in pending
      BY <2>1 DEF OnSignal
    <3>1. CASE signum = NoSig
      <4>1. Push(s, "set") /\ s \in Handled
        BY <2>1, <3>1 DEF OnSignal
      <4>2. Some(frames, {"send", "alarm"})' <=> Some(frames, {"send", "alarm"})
        BY <4>1, <1>0, PushSome DEF Steps
      <4> QED BY <2>1, <3>0, <3>1, <4>2 DEF OnSignal
    <3>2. CASE signum # NoSig
      BY <2>1, <3>2 DEF OnSignal
    <3> QED BY <3>1, <3>2
  <2>2. ASSUME NEW s \in Signals, OnFlag(s) PROVE SignalInv'
    BY <2>2 DEF OnFlag
  <2>3. CASE OnSignalSet
    <3>1. signum' \in Handled
      <4>1. Head(frames) \in Frame
        BY <1>0, <2>3, Uncons DEF OnSignalSet, Top
      <4> QED BY <2>3, <4>1 DEF OnSignalSet, Top, Frame
    <3>2. signum' # NoSig
      BY <3>1 DEF Signals, UserSignals
    <3> QED BY <3>2
  <2>4. CASE OnSignalSend
    <3>1. frames # <<>> /\ Head(frames).at = "send" /\ Goto("alarm")
      BY <2>4 DEF OnSignalSend, Top
    <3>2. Some(frames, {"send", "alarm"})
      BY <1>0, <3>1, TailSome
    <3> QED BY <2>4, <3>2 DEF OnSignalSend
  <2>5. CASE OnSignalAlarm
    <3>1. Some(frames, {"send", "alarm"})
      BY <1>0, <2>5, TailSome DEF OnSignalAlarm, Top
    <3> QED BY <2>5, <3>1 DEF OnSignalAlarm
  <2>6. CASE OnAlarm
    BY <2>6 DEF OnAlarm
  <2>7. CASE OnStop
    <3>1. Some(frames, {"send", "alarm"})' <=> Some(frames, {"send", "alarm"})
      BY <1>0, <2>7, PushSome DEF OnStop, Steps, Signals, UserSignals
    <3>2. ALRM \in pending' => ALRM \in pending
      BY <2>7 DEF OnStop
    <3> QED BY <2>7, <3>1, <3>2 DEF OnStop
  <2>8. CASE OnStopSelf
    <3>1. Some(frames, {"send", "alarm"})' => Some(frames, {"send", "alarm"})
      BY <1>0, <2>8, GotoSome, TailSome DEF OnStopSelf, Top, Steps
    <3> QED BY <2>8, <3>1 DEF OnStopSelf
  <2>9. CASE OnStopCont
    <3>1. Some(frames, {"send", "alarm"})' => Some(frames, {"send", "alarm"})
      BY <1>0, <2>9, TailSome DEF OnStopCont, Top
    <3> QED BY <2>9, <3>1 DEF OnStopCont
  <2> QED
    BY <1>2, <2>1, <2>2, <2>3, <2>4, <2>5, <2>6, <2>7, <2>8, <2>9 DEF HandlerStep
<1>3. CASE World
  <2>1. ASSUME NEW s \in UserSignals, Arrive(s) PROVE SignalInv'
    <3>1. s # ALRM
      OBVIOUS
    <3>2. ALRM \in pending' => ALRM \in pending
      BY <2>1, <3>1 DEF Arrive
    <3> QED BY <2>1, <3>2 DEF Arrive
  <2>2. CASE TimerExpires
    BY <2>2 DEF TimerExpires
  <2>3. CASE KillVamos \/ Resume \/ Preexec \/ ChildExits
    BY <2>3 DEF KillVamos, Resume, Preexec, ChildExits
  <2> QED BY <1>3, <2>1, <2>2, <2>3 DEF World
<1>4. CASE UNCHANGED vars
  BY <1>4 DEF vars
<1> QED BY <1>1, <1>2, <1>3, <1>4 DEF Next

---------------------------------------------------------------------------
\* A recorded signal has reached the child, or a handler in progress or
\* attach is about to pass it on.
LEMMA PassedOnStep ==
    TypeOK /\ ChildInv /\ SignalInv /\ PassedOnInv /\ [Next]_vars => PassedOnInv'
<1> SUFFICES ASSUME TypeOK, ChildInv, SignalInv, PassedOnInv, [Next]_vars PROVE PassedOnInv'
  OBVIOUS
<1> USE DEF PassedOnInv, mainVars, selfVars, flagVars
<1>0. frames \in Seq(Frame)
  BY DEF TypeOK
<1>1. CASE MainStep
  <2>0. ASSUME UNCHANGED <<frames, proc, signum, asked, child>>,
               pc \in {"attach", "attachSend"} => pc' \in {"attach", "attachSend"}
        PROVE  PassedOnInv'
    BY <2>0
  <2>1. ASSUME NEW s \in Signals, Install(s) \/ Restore(s) PROVE PassedOnInv'
    BY <2>0, <2>1 DEF Install, Restore, childVars
  <2>2. CASE Entered \/ PopenFails \/ PopenReturns
    BY <2>0, <2>2 DEF Entered, PopenFails, PopenReturns, childVars
  <2>3. CASE Fork
    BY <2>3 DEF Fork, ChildInv
  <2>4. CASE AttachProc
    BY <2>4 DEF AttachProc
  <2>5. CASE AttachTest
    BY <2>5 DEF AttachTest, childVars
  <2>6. CASE AttachSend
    <3>1. proc
      BY <2>6 DEF AttachSend, ChildInv
    <3>2. asked' > 0 \/ child' = "exited"
      BY <2>6, <3>1, SendEffect DEF AttachSend, ChildInv, Alive
    <3> QED BY <3>2
  <2>7. CASE AttachAlarm \/ TakeFlags \/ TakeFlagsStore \/ FlagsUsed \/ CallWait \/ WaitExpires
    BY <2>0, <2>7 DEF AttachAlarm, TakeFlags, TakeFlagsStore, FlagsUsed, CallWait, WaitExpires, childVars
  <2>8. CASE Waitpid \/ StoreCode \/ WaitKnown \/ LoopFails \/ StopTimer \/ Exited
    BY <2>0, <2>8 DEF Waitpid, StoreCode, WaitKnown, LoopFails, StopTimer, Exited, childVars
  <2>9. CASE KillGroup
    <3>1. child' = "exited"
      BY <2>9 DEF KillGroup, ChildInv, childVars
    <3> QED BY <3>1
  <2> QED
    BY <1>1, <2>1, <2>2, <2>3, <2>4, <2>5, <2>6, <2>7, <2>8, <2>9 DEF MainStep
<1>2. CASE HandlerStep
  <2>0. ASSUME NEW what, Send(what)
        PROVE  /\ asked > 0 => asked' > 0
               /\ child = "exited" => child' = "exited"
    BY <2>0, SendEffect DEF Alive
  <2>1. ASSUME NEW s \in Signals, OnSignal(s) PROVE PassedOnInv'
    <3>1. CASE signum = NoSig
      BY <2>1, <3>1 DEF OnSignal
    <3>2. CASE signum # NoSig
      BY <2>0, <2>1, <3>2 DEF OnSignal, Kill
    <3> QED BY <3>1, <3>2
  <2>2. ASSUME NEW s \in Signals, OnFlag(s) PROVE PassedOnInv'
    BY <2>2 DEF OnFlag, childVars
  <2>3. CASE OnSignalSet
    <3>1. Some(frames, {"send"})'
      BY <1>0, <2>3, GotoSome DEF OnSignalSet, Top, Steps
    <3> QED BY <3>1
  <2>4. CASE OnSignalSend
    <3>1. proc => asked' > 0 \/ child' = "exited"
      BY <2>4, SendEffect DEF OnSignalSend, ChildInv, Alive
    <3> QED BY <2>4, <3>1 DEF OnSignalSend
  <2>5. CASE OnSignalAlarm
    <3>1. Some(frames, {"send"}) => Some(frames, {"send"})'
      BY <1>0, <2>5, TailSome DEF OnSignalAlarm, Top
    <3> QED BY <2>5, <3>1 DEF OnSignalAlarm, childVars
  <2>6. CASE OnAlarm
    BY <2>0, <2>6 DEF OnAlarm, Kill
  <2>7. CASE OnStop
    <3>1. Some(frames, {"send"}) => Some(frames, {"send"})'
      BY <1>0, <2>7, PushSome DEF OnStop, Steps, Signals, UserSignals
    <3> QED BY <2>0, <2>7, <3>1 DEF OnStop
  <2>8. CASE OnStopSelf
    <3>1. Some(frames, {"send"}) => Some(frames, {"send"})'
      BY <1>0, <2>8, GotoSome, TailSome DEF OnStopSelf, Top, Steps
    <3> QED BY <2>8, <3>1 DEF OnStopSelf, childVars
  <2>9. CASE OnStopCont
    <3>1. Some(frames, {"send"}) => Some(frames, {"send"})'
      BY <1>0, <2>9, TailSome DEF OnStopCont, Top
    <3> QED BY <2>0, <2>9, <3>1 DEF OnStopCont
  <2> QED
    BY <1>2, <2>1, <2>2, <2>3, <2>4, <2>5, <2>6, <2>7, <2>8, <2>9 DEF HandlerStep
<1>3. CASE World
  <2>0. ASSUME DeathSignal
        PROVE  (asked > 0 => asked' > 0) /\ (child = "exited" => child' = "exited")
    BY <2>0, DeathEffect
  <2>1. ASSUME NEW s \in UserSignals, Arrive(s) PROVE PassedOnInv'
    BY <2>0, <2>1 DEF Arrive, childVars
  <2>2. CASE KillVamos \/ TimerExpires
    BY <2>0, <2>2 DEF KillVamos, TimerExpires, childVars
  <2>3. CASE Resume
    BY <2>3 DEF Resume, childVars
  <2>4. CASE Preexec \/ ChildExits
    BY <2>4 DEF Preexec, ChildExits
  <2> QED BY <1>3, <2>1, <2>2, <2>3, <2>4 DEF World
<1>4. CASE UNCHANGED vars
  BY <1>4 DEF vars
<1> QED BY <1>1, <1>2, <1>3, <1>4 DEF Next

---------------------------------------------------------------------------
\* While a child that a signal is recorded for lives, its grace period runs
\* or is about to be started.
LEMMA GraceStep ==
    TypeOK /\ HandlersInv /\ ChildInv /\ GraceInv /\ [Next]_vars => GraceInv'
<1> SUFFICES ASSUME TypeOK, HandlersInv, ChildInv, GraceInv, [Next]_vars,
                    (proc /\ signum # NoSig /\ Alive /\ vamos # "dead")'
             PROVE  \/ timer' \/ ALRM \in pending'
                    \/ Some(frames, {"send", "alarm"})'
                    \/ pc' \in {"attach", "attachSend", "attachAlarm"}
  BY DEF GraceInv
<1> DEFINE Goal == \/ timer' \/ ALRM \in pending'
                   \/ Some(frames, {"send", "alarm"})'
                   \/ pc' \in {"attach", "attachSend", "attachAlarm"}
<1> USE DEF GraceInv, mainVars, selfVars, flagVars, Alive
<1>0. frames \in Seq(Frame)
  BY DEF TypeOK
\* with a child alive the block's handlers are in place
<1>a. ASSUME Alive, proc PROVE ALRM \in handlers /\ ALRM \in saved
  BY <1>a DEF ChildInv, NoChildLeft, HandlersInv, InBlock
<1>b. ASSUME UNCHANGED <<frames, pending, timer, proc, signum, vamos>>, Alive,
             pc \in {"attach", "attachSend", "attachAlarm"}
                 => pc' \in {"attach", "attachSend", "attachAlarm"}
      PROVE  Goal
  BY <1>b
<1>1. CASE MainStep
  <2>1. ASSUME NEW s \in Signals, Install(s) \/ Restore(s) PROVE Goal
    BY <1>b, <2>1 DEF Install, Restore, childVars
  <2>2. CASE Entered \/ PopenFails \/ PopenReturns
    BY <1>b, <2>2 DEF Entered, PopenFails, PopenReturns, childVars
  <2>3. CASE Fork
    BY <2>3 DEF Fork
  <2>4. CASE AttachProc
    BY <2>4 DEF AttachProc
  <2>5. CASE AttachTest
    BY <2>5 DEF AttachTest
  <2>6. CASE AttachSend
    BY <2>6 DEF AttachSend
  <2>7. CASE AttachAlarm
    BY <1>a, <2>7 DEF AttachAlarm, StartTimer, childVars
  <2>8. CASE TakeFlags \/ TakeFlagsStore \/ FlagsUsed \/ CallWait \/ WaitExpires
    BY <1>b, <2>8 DEF TakeFlags, TakeFlagsStore, FlagsUsed, CallWait, WaitExpires, childVars
  <2>9. CASE Waitpid \/ StoreCode \/ WaitKnown \/ LoopFails \/ Exited
    BY <1>b, <2>9 DEF Waitpid, StoreCode, WaitKnown, LoopFails, Exited, childVars
  <2>10. CASE KillGroup
    <3>1. child' = "exited"
      BY <2>10 DEF KillGroup, ChildInv, childVars
    <3> QED BY <3>1
  <2>11. CASE StopTimer
    BY <2>11 DEF StopTimer, childVars, ChildInv, NoChildLeft
  <2> QED
    BY <1>1, <2>1, <2>2, <2>3, <2>4, <2>5, <2>6, <2>7, <2>8, <2>9, <2>10, <2>11 DEF MainStep
<1>2. CASE HandlerStep
  <2>0. ASSUME NEW what, Send(what), UNCHANGED proc PROVE Alive /\ what # "kill"
    BY <2>0, SendEffect
  <2>1. ASSUME NEW s \in Signals, OnSignal(s) PROVE Goal
    <3>1. signum # NoSig
      BY <2>1 DEF OnSignal
    <3>2. Send("kill") /\ UNCHANGED proc
      BY <2>1, <3>1 DEF OnSignal, Kill
    <3> QED BY <2>0, <3>2
  <2>2. ASSUME NEW s \in Signals, OnFlag(s) PROVE Goal
    BY <2>2 DEF OnFlag, childVars, Signals, UserSignals
  <2>3. CASE OnSignalSet
    BY <1>0, <2>3, GotoSome DEF OnSignalSet, Top, Steps
  <2>4. CASE OnSignalSend
    BY <1>0, <2>4, GotoSome DEF OnSignalSend, Top, Steps
  <2>5. CASE OnSignalAlarm
    BY <1>a, <2>5 DEF OnSignalAlarm, StartTimer, childVars
  <2>6. CASE OnAlarm
    BY <2>0, <2>6 DEF OnAlarm, Kill
  <2>7. CASE OnStop
    <3>1. Alive
      BY <2>0, <2>7 DEF OnStop
    <3>2. Some(frames, {"send", "alarm"}) => Some(frames, {"send", "alarm"})'
      BY <1>0, <2>7, PushSome DEF OnStop, Steps, Signals, UserSignals
    <3>3. ALRM \in pending => ALRM \in pending'
      BY <2>7 DEF OnStop, UserSignals
    <3> QED BY <2>7, <3>1, <3>2, <3>3 DEF OnStop
  <2>8. CASE OnStopSelf
    <3>1. Some(frames, {"send", "alarm"}) => Some(frames, {"send", "alarm"})'
      BY <1>0, <2>8, GotoSome, TailSome DEF OnStopSelf, Top, Steps
    <3> QED BY <2>8, <3>1 DEF OnStopSelf, childVars, Top, Running
  <2>9. CASE OnStopCont
    <3>1. Alive
      BY <2>0, <2>9 DEF OnStopCont
    <3>2. Some(frames, {"send", "alarm"}) => Some(frames, {"send", "alarm"})'
      BY <1>0, <2>9, TailSome DEF OnStopCont, Top
    <3> QED BY <2>9, <3>1, <3>2 DEF OnStopCont
  <2> QED
    BY <1>2, <2>1, <2>2, <2>3, <2>4, <2>5, <2>6, <2>7, <2>8, <2>9 DEF HandlerStep
<1>3. CASE World
  <2>1. ASSUME NEW s \in UserSignals, Arrive(s) PROVE Goal
    BY <2>1 DEF Arrive, childVars
  <2>2. CASE KillVamos
    BY <2>2 DEF KillVamos
  <2>3. CASE TimerExpires
    BY <1>a, <2>3 DEF TimerExpires, childVars
  <2>4. CASE Resume
    BY <2>4 DEF Resume, childVars
  <2>5. CASE Preexec \/ ChildExits
    BY <2>5 DEF Preexec, ChildExits, ChildInv
  <2> QED BY <1>3, <2>1, <2>2, <2>3, <2>4, <2>5 DEF World
<1>4. CASE UNCHANGED vars
  BY <1>4 DEF vars
<1> QED BY <1>1, <1>2, <1>3, <1>4 DEF Next

---------------------------------------------------------------------------
\* A stopped child has a stop handler in progress, which will continue it.
LEMMA StopStep == TypeOK /\ ChildInv /\ StopInv /\ [Next]_vars => StopInv'
<1> SUFFICES ASSUME TypeOK, ChildInv, StopInv, [Next]_vars, child' = "stopped"
             PROVE  Some(frames, {"selfstop", "cont"})'
  BY DEF StopInv
<1> USE DEF StopInv, mainVars, selfVars, flagVars
<1>0. frames \in Seq(Frame)
  BY DEF TypeOK
<1>1. ASSUME NEW what, Send(what), what \in {"forward", "kill", "cont"}
      PROVE  child = "stopped" /\ what = "forward"
  BY <1>1, SendEffect DEF Alive, ChildInv
<1>2. CASE MainStep
  BY <1>1, <1>2 DEF MainStep, Install, Restore, Entered, Fork, PopenFails, PopenReturns,
       AttachProc, AttachTest, AttachSend, AttachAlarm, TakeFlags, TakeFlagsStore, FlagsUsed, CallWait, WaitExpires,
       Waitpid, StoreCode, WaitKnown, LoopFails, KillGroup, StopTimer, Exited, childVars
<1>3. CASE HandlerStep
  <2>1. ASSUME NEW s \in Signals, OnSignal(s) PROVE Some(frames, {"selfstop", "cont"})'
    <3>1. signum = NoSig
      BY <1>1, <2>1 DEF OnSignal, Kill
    <3>2. Push(s, "set") /\ s \in Handled /\ child = "stopped"
      BY <2>1, <3>1 DEF OnSignal, childVars
    <3> QED BY <1>0, <3>2, PushSome DEF Steps
  <2>2. ASSUME NEW s \in Signals, OnFlag(s) PROVE Some(frames, {"selfstop", "cont"})'
    BY <2>2 DEF OnFlag, childVars
  <2>3. CASE OnSignalSet
    BY <1>0, <2>3, GotoSome, TailSome DEF OnSignalSet, Top, Steps, childVars
  <2>4. CASE OnSignalSend
    BY <1>0, <1>1, <2>4, GotoSome, TailSome DEF OnSignalSend, Top, Steps
  <2>5. CASE OnSignalAlarm
    BY <1>0, <2>5, TailSome DEF OnSignalAlarm, Top, childVars
  <2>6. CASE OnAlarm
    BY <1>1, <2>6 DEF OnAlarm, Kill
  <2>7. CASE OnStop
    BY <1>0, <2>7, PushSome DEF OnStop, Steps, Signals, UserSignals
  <2>8. CASE OnStopSelf
    BY <1>0, <2>8, GotoSome DEF OnStopSelf, Top, Steps
  <2>9. CASE OnStopCont
    BY <1>1, <2>9 DEF OnStopCont
  <2> QED
    BY <1>3, <2>1, <2>2, <2>3, <2>4, <2>5, <2>6, <2>7, <2>8, <2>9 DEF HandlerStep
<1>4. CASE World
  <2>1. child = "stopped" /\ frames' = frames
    BY <1>4 DEF World, Arrive, KillVamos, Resume, TimerExpires, DeathSignal, Preexec,
         ChildExits, childVars
  <2> QED BY <2>1
<1>5. CASE UNCHANGED vars
  BY <1>5 DEF vars
<1> QED BY <1>2, <1>3, <1>4, <1>5 DEF Next

---------------------------------------------------------------------------
LEMMA IInvInit == Init => IInv
<1> SUFFICES ASSUME Init PROVE IInv
  OBVIOUS
<1>1. TypeOK
  BY TypeInit
<1>2. HandlersInv
  BY DEF Init, HandlersInv, InBlock
<1>3. ChildInv
  BY DEF Init, ChildInv, NoChildLeft
<1>4. frames = <<>> /\ signum = NoSig /\ ~killed /\ ~timer /\ pending = {}
  BY DEF Init
<1>5. SignalInv
  BY <1>4, SomeEmpty DEF SignalInv, KillOnlyAfterSignal, Init
<1>6. PassedOnInv /\ GraceInv
  BY <1>4 DEF PassedOnInv, GraceInv
<1>7. StopInv
  BY DEF Init, StopInv
<1>8. FlagsInv
  BY DEF Init, FlagsInv, FlagsInOrder, Handed, NoList
<1> QED BY <1>1, <1>2, <1>3, <1>5, <1>6, <1>7, <1>8 DEF IInv

LEMMA IInvStep == IInv /\ [Next]_vars => IInv'
  BY TypeStep, HandlersStep, ChildStep, SignalStep, PassedOnStep, GraceStep, StopStep,
     FlagsStep DEF IInv

\* The inductive invariant holds in every reachable state.
THEOREM Inductive == Spec => []IInv
  BY IInvInit, IInvStep, PTL DEF Spec

\* A stop signal that was recorded before or after attach reaches the child.
THEOREM PassedOnAlways == Spec => []SignalPassedOn
<1>1. IInv => SignalPassedOn
  BY SomeEmpty DEF IInv, PassedOnInv, ChildInv, SignalPassedOn, Waiting
<1> QED BY <1>1, Inductive, PTL

\* A child that was asked to end never runs without its grace period.
THEOREM GraceAlways == Spec => []GraceRunning
<1>1. IInv => GraceRunning
  BY SomeEmpty DEF IInv, GraceInv, ChildInv, GraceRunning, Waiting
<1> QED BY <1>1, Inductive, PTL

\* vamos kills its child only after a stop signal.
THEOREM KillJustified == Spec => []KillOnlyAfterSignal
<1>1. IInv => KillOnlyAfterSignal
  BY DEF IInv, SignalInv
<1> QED BY <1>1, Inductive, PTL

\* Ctrl-Z and fg leave no child stopped.
THEOREM ResumedAlways == Spec => []ChildResumed
<1>1. IInv => ChildResumed
  BY SomeEmpty DEF IInv, StopInv, ChildResumed
<1> QED BY <1>1, Inductive, PTL

\* No SIGUSR1 or SIGUSR2 is lost, doubled or moved, whenever its handler runs,
\* inside take_flags too.
THEOREM FlagsAlways == Spec => []FlagsInOrder
<1>1. IInv => FlagsInOrder
  BY DEF IInv, FlagsInv
<1> QED BY <1>1, Inductive, PTL

\* The block leaves no child behind.
THEOREM NoneLeft == Spec => []NoChildLeft
<1>1. IInv => NoChildLeft
  BY DEF IInv, ChildInv
<1> QED BY <1>1, Inductive, PTL
===========================================================================
