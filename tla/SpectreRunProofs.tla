-------------------------- MODULE SpectreRunProofs --------------------------
(***************************************************************************)
(* Theorems about SpectreRun: the flag signals on their way through the    *)
(* four lists that hold them (cli.py's, the flow's, the runner's, poll's). *)
(* The count of flags is inductive together with the types of the counters *)
(* and the fact that poll()'s local list is empty outside of poll (else    *)
(* the next poll would overwrite it).  A step either leaves every counter  *)
(* alone (Untouched) or moves flags from one to another.                   *)
(***************************************************************************)
EXTENDS SpectreRun, TLAPS

flags == <<earlyFlags, flowFlags, runFlags, taken, answered, dropped, sentFlags>>

InPoll == {"setupPoll", "convPoll", "exit"}

\* poll()'s local list lives no longer than the call
PollHolds == pc \notin InPoll => taken = 0

\* The inductive invariant of the flags
FlagsInv == FlagCounts /\ FlagBalance /\ PollHolds

\* A step that changes no counter and does not leave poll() keeps the invariant.
LEMMA Untouched ==
    FlagsInv /\ UNCHANGED flags /\ (pc' \in {pc, "exit"} \/ pc \notin InPoll) => FlagsInv'
BY DEF FlagsInv, FlagCounts, FlagBalance, PollHolds, InPoll, flags

\* _on_stop, cli.py's handler and the runner's: a stop signal moves no flag,
\* but the ones poll() holds are dropped when _Interrupted is raised.
LEMMA StopKeepsFlags == FlagsInv /\ StopArrives => FlagsInv'
<1> SUFFICES ASSUME FlagsInv, StopArrives PROVE FlagsInv'
    OBVIOUS
<1>1. PICK s \in Stops : \/ EarlyStop(s)
                         \/ FlowStop(s)
                         \/ RunnerStop(s)
      BY DEF StopArrives
<1>2. CASE EarlyStop(s)
      <2>1. UNCHANGED flags /\ pc' \in {pc, "exit"}
            BY <1>2 DEF EarlyStop, Noted, Goto, flags, earlyVars, flowVars, runVars, flagVars
      <2> QED BY <2>1, Untouched
<1>3. CASE FlowStop(s)
      <2>1. UNCHANGED <<earlyFlags, flowFlags, runFlags, answered, sentFlags>>
            BY <1>3 DEF FlowStop, earlyVars, runVars
      <2>2. \/ dropped' = dropped + taken /\ taken' = 0
            \/ UNCHANGED <<dropped, taken, pc>>
            BY <1>3 DEF FlowStop, Interrupted
      <2>3. CASE dropped' = dropped + taken /\ taken' = 0
            BY <2>1, <2>3 DEF FlagsInv, FlagCounts, FlagBalance, PollHolds, InPoll
      <2>4. CASE UNCHANGED <<dropped, taken, pc>>
            BY <2>1, <2>4, Untouched DEF flags
      <2> QED BY <2>2, <2>3, <2>4
<1>4. CASE RunnerStop(s)
      <2>1. UNCHANGED flags /\ pc' = pc
            BY <1>4 DEF RunnerStop, Noted, flags, earlyVars, flowVars, flagVars
      <2> QED BY <2>1, Untouched
<1> QED BY <1>1, <1>2, <1>3, <1>4

\* A flag signal is recorded by the handler in place, once.
LEMMA FlagCounted == FlagsInv /\ FlagArrives => FlagsInv'
<1> SUFFICES ASSUME FlagsInv, FlagArrives PROVE FlagsInv'
    OBVIOUS
<1>1. UNCHANGED <<pc, taken, answered, dropped>> /\ sentFlags' = sentFlags + 1
      BY DEF FlagArrives, flagVars
<1>2. \/ earlyFlags' = earlyFlags + 1 /\ UNCHANGED <<flowFlags, runFlags>>
      \/ flowFlags' = flowFlags + 1 /\ UNCHANGED <<earlyFlags, runFlags>>
      \/ runFlags' = runFlags + 1 /\ UNCHANGED <<earlyFlags, flowFlags>>
      BY DEF FlagArrives
<1> QED BY <1>1, <1>2 DEF FlagsInv, FlagCounts, FlagBalance, PollHolds, InPoll

\* poll() prints one flag, or returns with none left.
LEMMA PrintKeepsFlags ==
    ASSUME NEW at \in {"setupPoll", "convPoll"}, NEW to, FlagsInv, PollPrint(at, to)
    PROVE  FlagsInv'
<1>1. UNCHANGED <<earlyFlags, flowFlags, runFlags, dropped, sentFlags>> /\ pc = at
      BY DEF PollPrint, earlyVars, flowVars, runVars, histVars
<1>2. CASE taken > 0
      <2>1. taken' = taken - 1 /\ answered' = answered + 1 /\ pc' = pc
            BY <1>2 DEF PollPrint
      <2>2. FlagCounts' /\ FlagBalance'
            BY <1>1, <1>2, <2>1 DEF FlagsInv, FlagCounts, FlagBalance
      <2> QED BY <1>1, <2>1, <2>2 DEF FlagsInv, PollHolds, InPoll
<1>3. CASE ~(taken > 0)
      <2>1. UNCHANGED <<taken, answered>>
            BY <1>3 DEF PollPrint
      <2>2. taken = 0
            BY <1>3 DEF FlagsInv, FlagCounts
      <2> QED BY <1>1, <2>1, <2>2 DEF FlagsInv, FlagCounts, FlagBalance, PollHolds
<1> QED BY <1>2, <1>3

\* The steps of the main program, the engine and the clock.
LEMMA MainKeepsFlags ==
    FlagsInv /\ (\/ MainProgram \/ ChildEnds \/ GraceExpires \/ WindowPasses
                 \/ LateAlarm \/ TeardownStop \/ Fault)
    => FlagsInv'
<1> SUFFICES ASSUME FlagsInv,
                    \/ MainProgram \/ ChildEnds \/ GraceExpires \/ WindowPasses
                    \/ LateAlarm \/ TeardownStop \/ Fault
             PROVE  FlagsInv'
    OBVIOUS
<1> USE DEF flags, earlyVars, flowVars, runVars, flagVars, histVars, failVars
<1>1. CASE WindowPasses
      <2>1. UNCHANGED flags /\ pc' = pc
            BY <1>1 DEF WindowPasses
      <2> QED BY <2>1, Untouched
<1>2. CASE InstallBegins
      <2>1. UNCHANGED flags /\ pc \notin InPoll
            BY <1>2 DEF InstallBegins, Goto, InPoll
      <2> QED BY <2>1, Untouched
<1>3. CASE InstallOne
      <2>1. UNCHANGED flags /\ pc \notin InPoll
            BY <1>3 DEF InstallOne, Hand, Goto, InPoll
      <2> QED BY <2>1, Untouched
<1>4. CASE OpenLog
      <2>1. UNCHANGED flags /\ pc \notin InPoll
            BY <1>4 DEF OpenLog, Fails, Goto, InPoll
      <2> QED BY <2>1, Untouched
<1>5. CASE SetupEnds
      <2>1. UNCHANGED flags /\ pc \notin InPoll
            BY <1>5 DEF SetupEnds, Ends, Goto, InPoll
      <2> QED BY <2>1, Untouched
<1>6. CASE EngineRun
      <2>1. UNCHANGED flags /\ pc \notin InPoll
            BY <1>6 DEF EngineRun, Goto, InPoll
      <2> QED BY <2>1, Untouched
<1>7. CASE RunnerEnter
      <2>1. UNCHANGED flags /\ pc \notin InPoll
            BY <1>7 DEF RunnerEnter, Hand, Goto, InPoll
      <2> QED BY <2>1, Untouched
<1>8. CASE RunnerCheck
      <2>1. UNCHANGED flags /\ pc \notin InPoll
            BY <1>8 DEF RunnerCheck, RunnerFrame, Result, Goto, InPoll
      <2> QED BY <2>1, Untouched
<1>9. CASE RunnerSpawn
      <2>1. UNCHANGED flags /\ pc \notin InPoll
            BY <1>9 DEF RunnerSpawn, RunnerFrame, Result, Goto, InPoll
      <2> QED BY <2>1, Untouched
<1>10. CASE RunnerWait
      <2>1. UNCHANGED flags /\ pc \notin InPoll
            BY <1>10 DEF RunnerWait, RunnerFrame, Goto, InPoll
      <2> QED BY <2>1, Untouched
<1>11. CASE RunnerAfter
      <2>1. UNCHANGED flags /\ pc \notin InPoll
            BY <1>11 DEF RunnerAfter, RunnerFrame, Goto, InPoll
      <2> QED BY <2>1, Untouched
<1>12. CASE ClassifyVacask
      <2>1. UNCHANGED flags /\ pc \notin InPoll
            BY <1>12 DEF ClassifyVacask, RunnerFrame, Result, Goto, InPoll
      <2> QED BY <2>1, Untouched
<1>13. CASE ClassifyXyce
      <2>1. UNCHANGED flags /\ pc \notin InPoll
            BY <1>13 DEF ClassifyXyce, RunnerFrame, Goto, InPoll
      <2> QED BY <2>1, Untouched
<1>14. CASE RunnerExit
      <2>1. UNCHANGED flags /\ pc \notin InPoll
            BY <1>14 DEF RunnerExit, RunnerFrame, Goto, InPoll
      <2> QED BY <2>1, Untouched
<1>15. CASE RunnerOut
      <2>1. UNCHANGED flags /\ pc \notin InPoll
            BY <1>15 DEF RunnerOut, Goto, InPoll
      <2> QED BY <2>1, Untouched
<1>16. CASE Deferred
      <2>1. UNCHANGED flags /\ pc \notin InPoll
            BY <1>16 DEF Deferred, Goto, InPoll
      <2> QED BY <2>1, Untouched
<1>17. CASE ConvNext
      <2>1. UNCHANGED flags /\ pc \notin InPoll
            BY <1>17 DEF ConvNext, ConvFrame, Goto, InPoll
      <2> QED BY <2>1, Untouched
<1>18. CASE ConvCut
      <2>1. UNCHANGED flags /\ pc \notin InPoll
            BY <1>18 DEF ConvCut, ConvFrame, Goto, InPoll
      <2> QED BY <2>1, Untouched
<1>19. CASE ConvEnd
      <2>1. UNCHANGED flags /\ pc \notin InPoll
            BY <1>19 DEF ConvEnd, ConvFrame, Goto, InPoll
      <2> QED BY <2>1, Untouched
<1>20. CASE Returned
      <2>1. UNCHANGED flags /\ pc \notin InPoll
            BY <1>20 DEF Returned, EndFrame, Goto, InPoll
      <2> QED BY <2>1, Untouched
<1>21. CASE Guarded
      <2>1. UNCHANGED flags /\ pc \notin InPoll
            BY <1>21 DEF Guarded, EndFrame, Goto, InPoll
      <2> QED BY <2>1, Untouched
<1>22. CASE Main
      <2>1. UNCHANGED flags /\ pc \notin InPoll
            BY <1>22 DEF Main, EndFrame, Goto, InPoll
      <2> QED BY <2>1, Untouched
<1>23. CASE Finish
      <2>1. UNCHANGED flags /\ pc \notin InPoll
            BY <1>23 DEF Finish, EndFrame, Goto, InPoll
      <2> QED BY <2>1, Untouched
<1>24. CASE RestoreOne
      <2>1. UNCHANGED flags /\ pc \notin InPoll
            BY <1>24 DEF RestoreOne, Hand, Goto, InPoll
      <2> QED BY <2>1, Untouched
<1>25. CASE Exit
      <2>1. UNCHANGED flags /\ pc \notin InPoll
            BY <1>25 DEF Exit, EndFrame, Goto, InPoll
      <2> QED BY <2>1, Untouched
<1>26. CASE ChildEnds
      <2>1. UNCHANGED flags /\ pc' = pc
            BY <1>26 DEF ChildEnds, RunnerFrame
      <2> QED BY <2>1, Untouched
<1>27. CASE GraceExpires
      <2>1. UNCHANGED flags /\ pc' = pc
            BY <1>27 DEF GraceExpires, RunnerFrame
      <2> QED BY <2>1, Untouched
<1>28. CASE TakeOver
      BY <1>28 DEF Goto, TakeOver, FlagsInv, FlagCounts, FlagBalance, PollHolds, InPoll
<1>29. CASE SetupPoll
      BY <1>29 DEF Goto, SetupPoll, PollTake, FlagsInv, FlagCounts, FlagBalance, PollHolds, InPoll
<1>30. CASE SetupPollPrint
      BY <1>30, PrintKeepsFlags DEF SetupPollPrint
<1>31. CASE RunnerTake
      BY <1>31 DEF Goto, RunnerTake, FlagsInv, FlagCounts, FlagBalance, PollHolds, InPoll
<1>32. CASE RunnerFlags
      BY <1>32 DEF Goto, RunnerFlags, RunnerFrame, FlagsInv, FlagCounts, FlagBalance, PollHolds, InPoll
<1>33. CASE RunnerLast
      BY <1>33 DEF Goto, RunnerLast, RunnerFrame, FlagsInv, FlagCounts, FlagBalance, PollHolds, InPoll
<1>34. CASE RunnerGive
      BY <1>34 DEF Goto, RunnerGive, RunnerLeft, Fails, FlagsInv, FlagCounts, FlagBalance, PollHolds, InPoll
<1>35. CASE CountRunners
      BY <1>35 DEF Goto, CountRunners, FlagsInv, FlagCounts, FlagBalance, PollHolds, InPoll
<1>36. CASE ConvPoll
      BY <1>36, PrintKeepsFlags DEF ConvPoll
<1>37. CASE ConvWrite
      BY <1>37 DEF Goto, ConvWrite, ConvFrame, FlagsInv, FlagCounts, FlagBalance, PollHolds, InPoll
<1>38. CASE End
      BY <1>38 DEF Goto, End, EndFrame, FlagsInv, FlagCounts, FlagBalance, PollHolds, InPoll
<1>39. CASE RunnerRestore
      <2>1. UNCHANGED flags /\ pc \notin InPoll
            BY <1>39 DEF RunnerRestore, Hand, Goto, InPoll
      <2> QED BY <2>1, Untouched
<1>40. CASE Failed
      <2>1. UNCHANGED flags /\ pc \notin InPoll
            BY <1>40 DEF Failed, EndFrame, Goto, InPoll
      <2> QED BY <2>1, Untouched
<1>41. CASE LogRaises
      <2>1. UNCHANGED flags /\ pc \notin InPoll
            BY <1>41 DEF LogRaises, Goto, InPoll
      <2> QED BY <2>1, Untouched
<1>42. CASE Gone
      <2>1. UNCHANGED flags /\ pc \notin InPoll
            BY <1>42 DEF Gone, EndFrame, Goto, InPoll
      <2> QED BY <2>1, Untouched
<1>43. CASE TeardownStop
      <2>1. UNCHANGED flags /\ pc' \in {pc, "exit"}
            BY <1>43 DEF TeardownStop, Goto
      <2> QED BY <2>1, Untouched
<1>44. CASE LateAlarm
      <2>1. UNCHANGED flags /\ pc' = "exit"
            BY <1>44 DEF LateAlarm, Goto
      <2> QED BY <2>1, Untouched
<1>45. CASE StepsFail
      BY <1>45 DEF Goto, StepsFail, Fails, FlagsInv, FlagCounts, FlagBalance, PollHolds, InPoll
<1>46. CASE RunnerRaises
      <2>1. PICK lost \in {0, runFlags} : dropped' = dropped + lost /\ runFlags' = runFlags - lost
            BY <1>46 DEF RunnerRaises
      <2>2. UNCHANGED <<earlyFlags, flowFlags, taken, answered, sentFlags>> /\ pc' = "rExit"
            /\ pc \notin InPoll
            BY <1>46 DEF RunnerRaises, Goto, InPoll
      <2> QED BY <2>1, <2>2 DEF FlagsInv, FlagCounts, FlagBalance, PollHolds, InPoll
<1> QED
      BY <1>1, <1>2, <1>3, <1>4, <1>5, <1>6, <1>7, <1>8, <1>9, <1>10, <1>11, <1>12, <1>13, <1>14, <1>15, <1>16, <1>17, <1>18, 
         <1>19, <1>20, <1>21, <1>22, <1>23, <1>24, <1>25, <1>26, <1>27, <1>28, <1>29, <1>30, <1>31, <1>32, <1>33, <1>34, <1>35, <1>36, <1>37, <1>38,
         <1>39, <1>40, <1>41, <1>42, <1>43, <1>44, <1>45, <1>46
      DEF MainProgram, Fault

\* FlagsInv is inductive.
LEMMA FlagsInductive == FlagsInv /\ [Next]_vars => FlagsInv'
<1> SUFFICES ASSUME FlagsInv, [Next]_vars PROVE FlagsInv'
    OBVIOUS
<1>1. CASE \/ MainProgram \/ ChildEnds \/ GraceExpires \/ WindowPasses
           \/ LateAlarm \/ TeardownStop \/ Fault
      BY <1>1, MainKeepsFlags
<1>2. CASE StopArrives
      BY <1>2, StopKeepsFlags
<1>3. CASE FlagArrives
      BY <1>3, FlagCounted
<1>4. CASE UNCHANGED vars
      <2>1. UNCHANGED flags /\ pc' = pc
            BY <1>4 DEF vars, flags, earlyVars, flowVars, runVars, flagVars, histVars, failVars
      <2> QED BY <2>1, Untouched
<1> QED BY <1>1, <1>2, <1>3, <1>4 DEF Next

\* Every flag signal is answered, held by one of the lists or gone with an
\* exception, for any number of signals, decks and results and either engine:
\* the accounting FlagsAnswered rests on.
LEMMA FlagBalanceAlways == Spec => []FlagBalance
<1>1. Init => FlagsInv
      BY DEF Init, FlagsInv, FlagCounts, FlagBalance, PollHolds, InPoll
<1>2. FlagsInv => FlagBalance
      BY DEF FlagsInv
<1> QED BY <1>1, <1>2, FlagsInductive, PTL DEF Spec
=============================================================================
