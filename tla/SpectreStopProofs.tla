------------------------- MODULE SpectreStopProofs -------------------------
(***************************************************************************)
(* Theorems about SpectreRun: what the stop signals do to the run.  The    *)
(* inductive invariant StopInv is a conjunction of named parts, one per    *)
(* record or per end of the run, each with a step lemma of its own:        *)
(* which handler a signal has at each place (Owners), in which state the   *)
(* flow's handler is there (FlowInv), how many signals it took to come     *)
(* there (CountInv), and from these what the properties say of the exit    *)
(* (TrailerInv, StatusInv, KillInv, CalmInv, AnswerInv; ThreeInv for Xyce  *)
(* only: VACASK's runner does not look at its signum once more after its   *)
(* block, which is what the run spectre_StopIsNoSuccess shows).  AlarmInv  *)
(* has the grace timer and SIGALRM's default action.                       *)
(***************************************************************************)
EXTENDS SpectreRunProofs

(* The types, but for the two sequences: Owners and StatusInv have them.   *)

Names ==
    /\ pc \in Points
    /\ owner \in [Sigs -> {"early", "flow", "runner"}]
    /\ hangup \in {"none", "recent", "old"}
    /\ flowState \in {"held", "now", "deferred", "quiet"}
    /\ child \in {"none", "running", "ended"}
    /\ outcome \in {"none", "ok", "error", "signal", "nostart"}
    /\ exc \in {"none", "stop", "error"}
    /\ how \in {"none", "returned", "failed", "interrupted", "stop", "escaped"}
    /\ died \in {"no", "stop", "alarm"}

Numbers ==
    /\ rc \in 0 .. 3 /\ status \in 0 .. 3 \cup {NoStatus}
    /\ nth \in Nat /\ converted \in Nat
    /\ earlyStops \in Nat /\ flowCount \in Nat /\ sentStops \in Nat /\ due \in Nat

Booleans ==
    /\ flowSignum \in BOOLEAN /\ runSignum \in BOOLEAN /\ runSecond \in BOOLEAN
    /\ watching \in BOOLEAN /\ got \in BOOLEAN /\ done \in BOOLEAN
    /\ writeError \in BOOLEAN /\ quietRun \in BOOLEAN /\ raised \in BOOLEAN
    /\ stopTaken \in BOOLEAN /\ intSent \in BOOLEAN /\ killSecond \in BOOLEAN
    /\ timer \in BOOLEAN /\ onAlarm \in BOOLEAN /\ exitStop \in BOOLEAN
    /\ failed \in BOOLEAN /\ logError \in BOOLEAN

(* Where the main program is: the flow's handlers, the runner's, and the   *)
(* end.                                                                    *)

FlowAt == {"takeover", "held", "setup", "setupPoll"}
RunnerAt == {"rTake", "rCheck", "rSpawn", "rWait", "rAfter", "rClassify", "rLast", "rExit"}
ConvAt == {"convNext", "convWrite", "convPoll", "convCut"}
AfterRunner == {"rGive", "rOut", "gap", "count", "convEnd", "returned", "failed"} \cup ConvAt
Late == {"guard", "main", "end", "finish", "restore", "done", "teardown"}
\* from the log's opening to the conversion rule: a stop signal raises
Fresh == {"setup", "setupPoll", "rEnter", "rRestore", "rGive", "rOut", "gap"} \cup RunnerAt

\* The signals still to be handed over, in Order
Suffixes == {Order, <<HUP, USR1>>, <<USR1>>, <<>>}
Waiting == IF left = Order THEN Sigs
           ELSE IF left = <<HUP, USR1>> THEN {HUP, USR1}
           ELSE IF left = <<USR1>> THEN {USR1} ELSE {}

\* Whose handler a signal has, at each place
OwnerOf(s) ==
    /\ pc = "start" => owner[s] = "early"
    /\ pc = "install" => owner[s] = IF s \in Waiting THEN "early" ELSE "flow"
    /\ pc \in FlowAt \cup AfterRunner => owner[s] = "flow"
    /\ pc = "rEnter" => owner[s] = IF s \in Waiting THEN "flow" ELSE "runner"
    /\ pc \in RunnerAt => owner[s] = "runner"
    /\ pc = "rRestore" => owner[s] = IF s \in Waiting THEN "runner" ELSE "flow"
    /\ pc \in {"guard", "main", "end", "finish"} => owner[s] # "early"
    /\ pc = "rExit" => left = Order
    /\ pc = "restore" => (owner[s] = "early" <=> s \notin Waiting)

Owners == left \in Suffixes /\ \A s \in Sigs : OwnerOf(s)

\* The state of the flow's handler, at each place
FlowInv ==
    /\ pc \in {"start", "install", "takeover", "held"} =>
         /\ flowState = "held" /\ how = "none"
         /\ flowSignum = FALSE => flowCount = 0
         /\ flowSignum = TRUE => flowCount > 0
    /\ pc \in Fresh => flowState = "now" /\ flowSignum = FALSE /\ flowCount = 0 /\ how = "none"
    /\ pc \in ConvAt \cup {"count"} => flowState = "deferred"
    /\ pc = "convEnd" => flowState \in {"deferred", "quiet"}
    /\ pc = "returned" => how # "none" /\ flowState \in {"now", "quiet"}
    /\ pc = "failed" => how = "failed" /\ failed = TRUE
    /\ pc \in {"end", "finish"} => flowState = "quiet"
    /\ pc \in {"restore", "done", "teardown"} => flowState = "quiet" \/ how = "escaped"
    /\ pc \in Late => how # "none"

\* Where a child may run
ChildInv == child = "running" => pc = "rWait"

\* The grace timer: the block holds SIGALRM until its __exit__ has stopped the
\* timer, and only a first signal after that starts it again
AlarmInv ==
    /\ pc \in {"start", "install", "rEnter"} \cup FlowAt => onAlarm = FALSE
    /\ pc \in RunnerAt => onAlarm = TRUE
    /\ timer = TRUE => pc \in RunnerAt \/ exitStop = TRUE
    /\ exitStop = TRUE => pc \in {"rRestore", "exit"} \cup AfterRunner \cup Late
    /\ died = "alarm" => exitStop = TRUE
    /\ died # "no" => pc = "exit"

\* How many stop signals it took to come here
CountInv ==
    /\ flowSignum = TRUE \/ earlyStops > 0 \/ runSignum = TRUE \/ exc = "stop" => sentStops >= 1
    /\ runSecond = TRUE => runSignum = TRUE
    /\ exc = "stop" => runSecond = TRUE
    /\ exc = "error" => pc \in {"rExit", "rRestore", "rGive", "exit"} \/ failed = TRUE
    /\ pc = "guard" => sentStops >= 1
    /\ pc = "main" => sentStops >= 1 /\ (failed = FALSE => sentStops >= 2)
    /\ how = "escaped" =>
         /\ pc \in {"restore", "done", "teardown", "exit"}
         /\ logError = FALSE => sentStops >= 2 /\ (failed = FALSE => sentStops >= 3)

\* The trailer: none before end(), then one, with the status the run exits with
TrailerInv ==
    /\ pc \notin {"restore", "done", "teardown", "exit"} => trailer = <<>>
    /\ trailer = <<>> \/ Len(trailer) = 1
    /\ pc \in {"restore", "done", "teardown", "exit"} /\ trailer = <<>>
         => quietRun = TRUE \/ how \in {"escaped", "none"} \/ died = "alarm"
    /\ trailer # <<>> => /\ how # "escaped" /\ flowState = "quiet"
                         /\ \/ status = trailer[1]
                            \/ pc = "exit" /\ (earlyStops >= 2 \/ died # "no")

\* Where the record of a stop signal is that some handler took
ThreeInv ==
    stopTaken = TRUE =>
        /\ pc \in {"start", "install", "takeover"} => earlyStops > 0 \/ flowSignum = TRUE
        /\ pc = "held" => flowSignum = TRUE
        /\ pc \notin {"setup", "setupPoll"}
        /\ pc \in {"rEnter", "rRestore", "rGive", "rOut"} \cup RunnerAt => runSignum = TRUE
        /\ pc = "gap" => rc = 3
        /\ pc \in {"count", "convEnd"} \cup ConvAt => rc = 3 \/ flowSignum = TRUE
        /\ pc \in {"returned", "end", "finish", "restore", "done", "teardown", "exit"} =>
             status = 3 \/ how \in {"failed", "escaped"} \/ died # "no"

\* Nothing is converted before convert, nor after a second signal killed a child
KillInv ==
    /\ pc \in {"start", "install", "rEnter", "rRestore", "rGive", "rOut", "gap"} \cup FlowAt \cup RunnerAt
         => converted = 0
    /\ exitStop = TRUE => killSecond = FALSE
    /\ killSecond = TRUE =>
        /\ converted = 0 /\ runSecond = TRUE
        /\ pc \in {"rWait", "rAfter", "rExit", "rRestore", "rGive", "failed", "exit"} \cup Late
        /\ pc \in {"rExit", "rRestore", "rGive"} => exc \in {"stop", "error"}
        /\ pc = "rWait" => child # "running"
        /\ pc \in {"end", "finish", "restore", "done", "teardown", "exit"} =>
             status = 3 \/ how \in {"failed", "escaped"} \/ died = "stop"

\* Every stop signal was a hangup, or there was one only
Calm == intSent = FALSE \/ sentStops <= 1

\* What such signals cannot do
CalmInv ==
    /\ pc \in {"start", "install"} \cup FlowAt => runSignum = FALSE
    /\ sentStops = 0 => intSent = FALSE
    /\ pc \in Late /\ sentStops = 0 => \A s \in Stops : owner[s] # "runner"
    /\ intSent = FALSE => /\ pc \in Late => owner[HUP] # "runner"
                          /\ pc \in {"guard", "main"} => flowCount > 0
    /\ Calm => /\ runSecond = FALSE /\ exc # "stop"
               /\ runSignum = TRUE =>
                    /\ flowSignum = FALSE
                    /\ intSent = FALSE => hangup # "none"
                    /\ pc \notin {"guard", "main", "convCut"}
                    /\ pc \in {"convEnd", "returned", "end", "finish", "restore", "done", "teardown",
                               "exit"} =>
                         \/ writeError = TRUE \/ converted = Files
                         \/ failed = TRUE \/ died = "alarm"

\* Where the flags are: with the flow by the last poll, if nothing was raised
AnswerInv ==
    /\ pc \notin {"start", "install", "takeover", "restore", "done", "teardown", "exit"}
         => earlyFlags = 0
    /\ raised = FALSE /\ failed = FALSE =>
        /\ exc # "error" => dropped = 0
        /\ pc \in {"rEnter", "rRestore", "rGive", "exit"} \cup RunnerAt \/ runFlags = 0
        /\ pc \in Late => owner[USR1] # "runner"
        /\ pc = "finish" \/ trailer # <<>> => answered >= due

\* What end() prints is a status
StatusInv ==
    /\ pc \in {"returned", "failed", "end", "finish"} => status \in 0 .. 3
    /\ trailer \in Seq(0 .. 3)

\* The inductive invariant, for either engine
StopInv ==
    /\ Names /\ Numbers /\ Booleans /\ FlagsInv
    /\ Owners /\ FlowInv /\ AlarmInv /\ ChildInv /\ CountInv
    /\ TrailerInv /\ StatusInv /\ KillInv /\ CalmInv /\ AnswerInv

---------------------------------------------------------------------------
(* One lemma per part: a step keeps it, given the parts it rests on.       *)


\* The places and the named states keep their types on every step.
LEMMA NamesStep ==
    Names /\ [Next]_vars => Names'
<1> SUFFICES ASSUME Names, [Next]_vars PROVE Names'
  OBVIOUS
<1> USE DEF sigVars, alarmVars, earlyVars, flowVars, runVars, engineVars, convVars, flagVars, endVars,
   histVars, failVars, gotVars, Goto
<1>1. CASE InstallBegins
  BY <1>1 DEF InstallBegins, Names, Points, Recorded
<1>2. CASE InstallOne
  BY <1>2 DEF InstallOne, Hand, Names, Points, Recorded
<1>3. CASE TakeOver
  BY <1>3 DEF TakeOver, Names, Points, Recorded
<1>4. CASE OpenLog
  BY <1>4 DEF OpenLog, Fails, Names, Points, Recorded
<1>5. CASE SetupPoll
  BY <1>5 DEF SetupPoll, PollTake, Names, Points, Recorded
<1>6. CASE SetupPollPrint
  BY <1>6 DEF SetupPollPrint, PollPrint, Names, Points, Recorded
<1>7. CASE SetupEnds
  BY <1>7 DEF SetupEnds, Ends, Names, Points, Recorded
<1>8. CASE StepsFail
  BY <1>8 DEF StepsFail, Fails, Names, Points, Recorded
<1>9. CASE EngineRun
  BY <1>9 DEF EngineRun, Names, Points, Recorded
<1>10. CASE RunnerEnter
  BY <1>10 DEF RunnerEnter, Hand, Names, Points, Recorded
<1>11. CASE RunnerTake
  BY <1>11 DEF RunnerTake, Names, Points, Recorded
<1>12. CASE RunnerCheck
  BY <1>12 DEF RunnerCheck, RunnerFrame, Result, Names, Points, Recorded
<1>13. CASE RunnerSpawn
  BY <1>13 DEF RunnerSpawn, RunnerFrame, Result, Names, Points, Recorded
<1>14. CASE RunnerFlags
  BY <1>14 DEF RunnerFlags, RunnerFrame, Names, Points, Recorded
<1>15. CASE RunnerWait
  BY <1>15 DEF RunnerWait, RunnerFrame, Names, Points, Recorded
<1>16. CASE RunnerAfter
  BY <1>16 DEF RunnerAfter, RunnerFrame, Names, Points, Recorded
<1>17. CASE ClassifyVacask
  BY <1>17 DEF ClassifyVacask, RunnerFrame, Result, Names, Points, Recorded
<1>18. CASE ClassifyXyce
  BY <1>18 DEF ClassifyXyce, RunnerFrame, Maximum, Names, Points, Recorded
<1>19. CASE RunnerLast
  BY <1>19 DEF RunnerLast, RunnerFrame, Names, Points, Recorded
<1>20. CASE RunnerRaises
  BY <1>20 DEF RunnerRaises, Names, Points, Recorded
<1>21. CASE RunnerExit
  BY <1>21 DEF RunnerExit, RunnerFrame, Names, Points, Recorded
<1>22. CASE RunnerRestore
  BY <1>22 DEF RunnerRestore, Hand, Names, Points, Recorded
<1>23. CASE RunnerGive
  BY <1>23 DEF RunnerGive, RunnerLeft, Fails, Names, Points, Recorded
<1>24. CASE RunnerOut
  BY <1>24 DEF RunnerOut, Names, Points, Recorded
<1>25. CASE Deferred
  BY <1>25 DEF Deferred, Names, Points, Recorded
<1>26. CASE CountRunners
  BY <1>26 DEF CountRunners, Maximum, Names, Points, Recorded
<1>27. CASE ConvPoll
  BY <1>27 DEF ConvPoll, PollPrint, Names, Points, Recorded
<1>28. CASE ConvNext
  BY <1>28 DEF ConvNext, ConvFrame, Names, Points, Recorded
<1>29. CASE ConvWrite
  BY <1>29 DEF ConvWrite, ConvFrame, Names, Points, Recorded
<1>30. CASE ConvCut
  BY <1>30 DEF ConvCut, ConvFrame, Names, Points, Recorded
<1>31. CASE ConvEnd
  BY <1>31 DEF ConvEnd, ConvFrame, Maximum, Names, Points, Recorded
<1>32. CASE Returned
  BY <1>32 DEF Returned, EndFrame, Names, Points, Recorded
<1>33. CASE Failed
  BY <1>33 DEF Failed, EndFrame, Names, Points, Recorded
<1>34. CASE Guarded
  BY <1>34 DEF Guarded, EndFrame, Names, Points, Recorded
<1>35. CASE Main
  BY <1>35 DEF Main, EndFrame, Names, Points, Recorded
<1>36. CASE End
  BY <1>36 DEF End, EndFrame, Names, Points, Recorded
<1>37. CASE Finish
  BY <1>37 DEF Finish, EndFrame, Names, Points, Recorded
<1>38. CASE LogRaises
  BY <1>38 DEF LogRaises, Names, Points, Recorded
<1>39. CASE RestoreOne
  BY <1>39 DEF RestoreOne, Hand, Names, Points, Recorded
<1>40. CASE Exit
  BY <1>40 DEF Exit, EndFrame, Names, Points, Recorded
<1>41. CASE Gone
  BY <1>41 DEF Gone, EndFrame, Names, Points, Recorded
<1>42. CASE FlagArrives
  BY <1>42 DEF FlagArrives, Names, Points, Recorded
<1>43. CASE ChildEnds
  BY <1>43 DEF ChildEnds, RunnerFrame, Names, Points, Recorded
<1>44. CASE GraceExpires
  BY <1>44 DEF GraceExpires, RunnerFrame, Names, Points, Recorded
<1>45. CASE LateAlarm
  BY <1>45 DEF LateAlarm, Names, Points, Recorded
<1>46. CASE TeardownStop
  BY <1>46 DEF TeardownStop, Names, Points, Recorded
<1>47. CASE WindowPasses
  BY <1>47 DEF WindowPasses, Names, Points, Recorded
<1>48. ASSUME NEW s \in Stops, sentStops < MaxStops, pc \notin {"teardown", "exit"},
             owner[s] = "early", EarlyStop(s)
      PROVE  Names'
  BY <1>48 DEF EarlyStop, Noted, Names, Points, Recorded
<1>49. ASSUME NEW s \in Stops, sentStops < MaxStops, pc \notin {"teardown", "exit"},
             owner[s] = "flow", FlowStop(s)
      PROVE  Names'
  BY <1>49 DEF FlowStop, Noted, Interrupted, Names, Points, Recorded
<1>50. ASSUME NEW s \in Stops, sentStops < MaxStops, pc \notin {"teardown", "exit"},
             owner[s] = "runner", RunnerStop(s)
      PROVE  Names'
  BY <1>50 DEF RunnerStop, Noted, Names, Points, Recorded
<1>51. CASE StopArrives
  BY <1>51, <1>48, <1>49, <1>50 DEF StopArrives
<1>52. CASE UNCHANGED vars
  BY <1>52 DEF vars, Names, Points, Recorded
<1> QED
  BY <1>1, <1>2, <1>3, <1>4, <1>5, <1>6, <1>7, <1>8, <1>9, <1>10, <1>11, <1>12, <1>13,
     <1>14, <1>15, <1>16, <1>17, <1>18, <1>19, <1>20, <1>21, <1>22, <1>23, <1>24, <1>25, <1>26,
     <1>27, <1>28, <1>29, <1>30, <1>31, <1>32, <1>33, <1>34, <1>35, <1>36, <1>37, <1>38, <1>39,
     <1>40, <1>41, <1>42, <1>43, <1>44, <1>45, <1>46, <1>47, <1>51, <1>52
  DEF Next, MainProgram, Fault

\* The counters, rc and the exit status keep their types (rc comes from the runner's
\* results 0 to 3, status from convert, guarded and cli.py's second signal).
LEMMA NumbersStep ==
    Numbers /\ FlagCounts /\ [Next]_vars => Numbers'
<1> SUFFICES ASSUME Numbers, FlagCounts, [Next]_vars PROVE Numbers'
  OBVIOUS
<1> USE DEF sigVars, alarmVars, earlyVars, flowVars, runVars, engineVars, convVars, flagVars, endVars,
   histVars, failVars, gotVars, Goto
<1>1. CASE InstallBegins
  BY <1>1 DEF InstallBegins, Numbers, NoStatus, FlagCounts
<1>2. CASE InstallOne
  BY <1>2 DEF InstallOne, Hand, Numbers, NoStatus, FlagCounts
<1>3. CASE TakeOver
  BY <1>3 DEF TakeOver, Numbers, NoStatus, FlagCounts
<1>4. CASE OpenLog
  BY <1>4 DEF OpenLog, Fails, Numbers, NoStatus, FlagCounts
<1>5. CASE SetupPoll
  BY <1>5 DEF SetupPoll, PollTake, Numbers, NoStatus, FlagCounts
<1>6. CASE SetupPollPrint
  BY <1>6 DEF SetupPollPrint, PollPrint, Numbers, NoStatus, FlagCounts
<1>7. CASE SetupEnds
  BY <1>7 DEF SetupEnds, Ends, Numbers, NoStatus, FlagCounts
<1>8. CASE StepsFail
  BY <1>8 DEF StepsFail, Fails, Numbers, NoStatus, FlagCounts
<1>9. CASE EngineRun
  BY <1>9 DEF EngineRun, Numbers, NoStatus, FlagCounts
<1>10. CASE RunnerEnter
  BY <1>10 DEF RunnerEnter, Hand, Numbers, NoStatus, FlagCounts
<1>11. CASE RunnerTake
  BY <1>11 DEF RunnerTake, Numbers, NoStatus, FlagCounts
<1>12. CASE RunnerCheck
  BY <1>12 DEF RunnerCheck, RunnerFrame, Result, Numbers, NoStatus, FlagCounts
<1>13. CASE RunnerSpawn
  BY <1>13 DEF RunnerSpawn, RunnerFrame, Result, Numbers, NoStatus, FlagCounts
<1>14. CASE RunnerFlags
  BY <1>14 DEF RunnerFlags, RunnerFrame, Numbers, NoStatus, FlagCounts
<1>15. CASE RunnerWait
  BY <1>15 DEF RunnerWait, RunnerFrame, Numbers, NoStatus, FlagCounts
<1>16. CASE RunnerAfter
  BY <1>16 DEF RunnerAfter, RunnerFrame, Numbers, NoStatus, FlagCounts
<1>17. CASE ClassifyVacask
  BY <1>17 DEF ClassifyVacask, RunnerFrame, Result, Numbers, NoStatus, FlagCounts
<1>18. CASE ClassifyXyce
  BY <1>18 DEF ClassifyXyce, RunnerFrame, Maximum, Numbers, NoStatus, FlagCounts
<1>19. CASE RunnerLast
  BY <1>19 DEF RunnerLast, RunnerFrame, Numbers, NoStatus, FlagCounts
<1>20. CASE RunnerRaises
  BY <1>20 DEF RunnerRaises, Numbers, NoStatus, FlagCounts
<1>21. CASE RunnerExit
  BY <1>21 DEF RunnerExit, RunnerFrame, Numbers, NoStatus, FlagCounts
<1>22. CASE RunnerRestore
  BY <1>22 DEF RunnerRestore, Hand, Numbers, NoStatus, FlagCounts
<1>23. CASE RunnerGive
  BY <1>23 DEF RunnerGive, RunnerLeft, Fails, Numbers, NoStatus, FlagCounts
<1>24. CASE RunnerOut
  BY <1>24 DEF RunnerOut, Numbers, NoStatus, FlagCounts
<1>25. CASE Deferred
  BY <1>25 DEF Deferred, Numbers, NoStatus, FlagCounts
<1>26. CASE CountRunners
  BY <1>26 DEF CountRunners, Maximum, Numbers, NoStatus, FlagCounts
<1>27. CASE ConvPoll
  BY <1>27 DEF ConvPoll, PollPrint, Numbers, NoStatus, FlagCounts
<1>28. CASE ConvNext
  BY <1>28 DEF ConvNext, ConvFrame, Numbers, NoStatus, FlagCounts
<1>29. CASE ConvWrite
  BY <1>29 DEF ConvWrite, ConvFrame, Numbers, NoStatus, FlagCounts
<1>30. CASE ConvCut
  BY <1>30 DEF ConvCut, ConvFrame, Numbers, NoStatus, FlagCounts
<1>31. CASE ConvEnd
  BY <1>31 DEF ConvEnd, ConvFrame, Maximum, Numbers, NoStatus, FlagCounts
<1>32. CASE Returned
  BY <1>32 DEF Returned, EndFrame, Numbers, NoStatus, FlagCounts
<1>33. CASE Failed
  BY <1>33 DEF Failed, EndFrame, Numbers, NoStatus, FlagCounts
<1>34. CASE Guarded
  BY <1>34 DEF Guarded, EndFrame, Numbers, NoStatus, FlagCounts
<1>35. CASE Main
  BY <1>35 DEF Main, EndFrame, Numbers, NoStatus, FlagCounts
<1>36. CASE End
  BY <1>36 DEF End, EndFrame, Numbers, NoStatus, FlagCounts
<1>37. CASE Finish
  BY <1>37 DEF Finish, EndFrame, Numbers, NoStatus, FlagCounts
<1>38. CASE LogRaises
  BY <1>38 DEF LogRaises, Numbers, NoStatus, FlagCounts
<1>39. CASE RestoreOne
  BY <1>39 DEF RestoreOne, Hand, Numbers, NoStatus, FlagCounts
<1>40. CASE Exit
  BY <1>40 DEF Exit, EndFrame, Numbers, NoStatus, FlagCounts
<1>41. CASE Gone
  BY <1>41 DEF Gone, EndFrame, Numbers, NoStatus, FlagCounts
<1>42. CASE FlagArrives
  BY <1>42 DEF FlagArrives, Numbers, NoStatus, FlagCounts
<1>43. CASE ChildEnds
  BY <1>43 DEF ChildEnds, RunnerFrame, Numbers, NoStatus, FlagCounts
<1>44. CASE GraceExpires
  BY <1>44 DEF GraceExpires, RunnerFrame, Numbers, NoStatus, FlagCounts
<1>45. CASE LateAlarm
  BY <1>45 DEF LateAlarm, Numbers, NoStatus, FlagCounts
<1>46. CASE TeardownStop
  BY <1>46 DEF TeardownStop, Numbers, NoStatus, FlagCounts
<1>47. CASE WindowPasses
  BY <1>47 DEF WindowPasses, Numbers, NoStatus, FlagCounts
<1>48. ASSUME NEW s \in Stops, sentStops < MaxStops, pc \notin {"teardown", "exit"},
             owner[s] = "early", EarlyStop(s)
      PROVE  Numbers'
  BY <1>48 DEF EarlyStop, Noted, Numbers, NoStatus, FlagCounts
<1>49. ASSUME NEW s \in Stops, sentStops < MaxStops, pc \notin {"teardown", "exit"},
             owner[s] = "flow", FlowStop(s)
      PROVE  Numbers'
  BY <1>49 DEF FlowStop, Noted, Interrupted, Numbers, NoStatus, FlagCounts
<1>50. ASSUME NEW s \in Stops, sentStops < MaxStops, pc \notin {"teardown", "exit"},
             owner[s] = "runner", RunnerStop(s)
      PROVE  Numbers'
  BY <1>50 DEF RunnerStop, Noted, Numbers, NoStatus, FlagCounts
<1>51. CASE StopArrives
  BY <1>51, <1>48, <1>49, <1>50 DEF StopArrives
<1>52. CASE UNCHANGED vars
  BY <1>52 DEF vars, Numbers, NoStatus, FlagCounts
<1> QED
  BY <1>1, <1>2, <1>3, <1>4, <1>5, <1>6, <1>7, <1>8, <1>9, <1>10, <1>11, <1>12, <1>13,
     <1>14, <1>15, <1>16, <1>17, <1>18, <1>19, <1>20, <1>21, <1>22, <1>23, <1>24, <1>25, <1>26,
     <1>27, <1>28, <1>29, <1>30, <1>31, <1>32, <1>33, <1>34, <1>35, <1>36, <1>37, <1>38, <1>39,
     <1>40, <1>41, <1>42, <1>43, <1>44, <1>45, <1>46, <1>47, <1>51, <1>52
  DEF Next, MainProgram, Fault

\* The flags of the flow, the runner and the history stay Booleans.
LEMMA BooleansStep ==
    Booleans /\ [Next]_vars => Booleans'
<1> SUFFICES ASSUME Booleans, [Next]_vars PROVE Booleans'
  OBVIOUS
<1> USE DEF sigVars, alarmVars, earlyVars, flowVars, runVars, engineVars, convVars, flagVars, endVars,
   histVars, failVars, gotVars, Goto
<1>1. CASE InstallBegins
  BY <1>1 DEF InstallBegins, Booleans
<1>2. CASE InstallOne
  BY <1>2 DEF InstallOne, Hand, Booleans
<1>3. CASE TakeOver
  BY <1>3 DEF TakeOver, Booleans
<1>4. CASE OpenLog
  <2>1. failed' \in BOOLEAN
    BY <1>4, Zenon DEF OpenLog, Fails, Booleans
  <2>2. UNCHANGED <<flowSignum, runSignum, runSecond, watching, got, done, writeError,
                    quietRun, raised, stopTaken, intSent, killSecond, timer, onAlarm,
                    exitStop, logError>>
    BY <1>4 DEF OpenLog, Fails
  <2> QED
    BY <2>1, <2>2 DEF Booleans
<1>5. CASE SetupPoll
  BY <1>5 DEF SetupPoll, PollTake, Booleans
<1>6. CASE SetupPollPrint
  BY <1>6 DEF SetupPollPrint, PollPrint, Booleans
<1>7. CASE SetupEnds
  <2>1. quietRun' \in BOOLEAN
    BY <1>7, Zenon DEF SetupEnds, Ends, Booleans
  <2>2. UNCHANGED <<flowSignum, runSignum, runSecond, watching, got, done, writeError,
                    raised, stopTaken, intSent, killSecond, timer, onAlarm, exitStop,
                    failed, logError>>
    BY <1>7 DEF SetupEnds, Ends
  <2> QED
    BY <2>1, <2>2 DEF Booleans
<1>8. CASE StepsFail
  BY <1>8 DEF StepsFail, Fails, Booleans
<1>9. CASE EngineRun
  <2>1. watching' \in BOOLEAN /\ done' \in BOOLEAN
    BY <1>9, Zenon DEF EngineRun, Booleans
  <2>2. UNCHANGED <<flowSignum, runSignum, runSecond, got, writeError, quietRun,
                    raised, stopTaken, intSent, killSecond, timer, onAlarm, exitStop,
                    failed, logError>>
    BY <1>9 DEF EngineRun
  <2> QED
    BY <2>1, <2>2 DEF Booleans
<1>10. CASE RunnerEnter
  BY <1>10 DEF RunnerEnter, Hand, Booleans
<1>11. CASE RunnerTake
  BY <1>11 DEF RunnerTake, Booleans
<1>12. CASE RunnerCheck
  <2>1. done' \in BOOLEAN
    BY <1>12, Zenon DEF RunnerCheck, RunnerFrame, Result, Booleans
  <2>2. UNCHANGED <<flowSignum, runSignum, runSecond, watching, got, writeError,
                    quietRun, raised, stopTaken, intSent, killSecond, timer, onAlarm,
                    exitStop, failed, logError>>
    BY <1>12 DEF RunnerCheck, RunnerFrame, Result
  <2> QED
    BY <2>1, <2>2 DEF Booleans
<1>13. CASE RunnerSpawn
  <2>1. done' \in BOOLEAN /\ timer' \in BOOLEAN
    BY <1>13, Zenon DEF RunnerSpawn, RunnerFrame, Result, Booleans
  <2>2. UNCHANGED <<flowSignum, runSignum, runSecond, watching, got, writeError,
                    quietRun, raised, stopTaken, intSent, killSecond, onAlarm,
                    exitStop, failed, logError>>
    BY <1>13 DEF RunnerSpawn, RunnerFrame, Result
  <2> QED
    BY <2>1, <2>2 DEF Booleans
<1>14. CASE RunnerFlags
  BY <1>14 DEF RunnerFlags, RunnerFrame, Booleans
<1>15. CASE RunnerWait
  BY <1>15 DEF RunnerWait, RunnerFrame, Booleans
<1>16. CASE RunnerAfter
  BY <1>16 DEF RunnerAfter, RunnerFrame, Booleans
<1>17. CASE ClassifyVacask
  <2>1. done' \in BOOLEAN
    BY <1>17, Zenon DEF ClassifyVacask, RunnerFrame, Result, Booleans
  <2>2. UNCHANGED <<flowSignum, runSignum, runSecond, watching, got, writeError,
                    quietRun, raised, stopTaken, intSent, killSecond, timer, onAlarm,
                    exitStop, failed, logError>>
    BY <1>17 DEF ClassifyVacask, RunnerFrame, Result
  <2> QED
    BY <2>1, <2>2 DEF Booleans
<1>18. CASE ClassifyXyce
  BY <1>18 DEF ClassifyXyce, RunnerFrame, Maximum, Booleans
<1>19. CASE RunnerLast
  BY <1>19 DEF RunnerLast, RunnerFrame, Booleans
<1>20. CASE RunnerRaises
  BY <1>20 DEF RunnerRaises, Booleans
<1>21. CASE RunnerExit
  <2>1. timer' \in BOOLEAN
    BY <1>21, Zenon DEF RunnerExit, RunnerFrame, Booleans
  <2>2. UNCHANGED <<flowSignum, runSignum, runSecond, watching, got, done, writeError,
                    quietRun, raised, stopTaken, intSent, killSecond, onAlarm,
                    exitStop, failed, logError>>
    BY <1>21 DEF RunnerExit, RunnerFrame
  <2> QED
    BY <2>1, <2>2 DEF Booleans
<1>22. CASE RunnerRestore
  BY <1>22 DEF RunnerRestore, Hand, Booleans
<1>23. CASE RunnerGive
  <2>1. watching' \in BOOLEAN /\ failed' \in BOOLEAN
    BY <1>23, Zenon DEF RunnerGive, RunnerLeft, Fails, Booleans
  <2>2. UNCHANGED <<flowSignum, runSignum, runSecond, got, done, writeError, quietRun,
                    raised, stopTaken, intSent, killSecond, timer, onAlarm, exitStop,
                    logError>>
    BY <1>23 DEF RunnerGive, RunnerLeft, Fails
  <2> QED
    BY <2>1, <2>2 DEF Booleans
<1>24. CASE RunnerOut
  <2>1. watching' \in BOOLEAN
    BY <1>24, Zenon DEF RunnerOut, Booleans
  <2>2. UNCHANGED <<flowSignum, runSignum, runSecond, got, done, writeError, quietRun,
                    raised, stopTaken, intSent, killSecond, timer, onAlarm, exitStop,
                    failed, logError>>
    BY <1>24 DEF RunnerOut
  <2> QED
    BY <2>1, <2>2 DEF Booleans
<1>25. CASE Deferred
  BY <1>25 DEF Deferred, Booleans
<1>26. CASE CountRunners
  BY <1>26 DEF CountRunners, Maximum, Booleans
<1>27. CASE ConvPoll
  BY <1>27 DEF ConvPoll, PollPrint, Booleans
<1>28. CASE ConvNext
  BY <1>28 DEF ConvNext, ConvFrame, Booleans
<1>29. CASE ConvWrite
  <2>1. writeError' \in BOOLEAN
    BY <1>29, Zenon DEF ConvWrite, ConvFrame, Booleans
  <2>2. UNCHANGED <<flowSignum, runSignum, runSecond, watching, got, done, quietRun,
                    raised, stopTaken, intSent, killSecond, timer, onAlarm, exitStop,
                    failed, logError>>
    BY <1>29 DEF ConvWrite, ConvFrame
  <2> QED
    BY <2>1, <2>2 DEF Booleans
<1>30. CASE ConvCut
  BY <1>30 DEF ConvCut, ConvFrame, Booleans
<1>31. CASE ConvEnd
  BY <1>31 DEF ConvEnd, ConvFrame, Maximum, Booleans
<1>32. CASE Returned
  BY <1>32 DEF Returned, EndFrame, Booleans
<1>33. CASE Failed
  BY <1>33 DEF Failed, EndFrame, Booleans
<1>34. CASE Guarded
  BY <1>34 DEF Guarded, EndFrame, Booleans
<1>35. CASE Main
  BY <1>35 DEF Main, EndFrame, Booleans
<1>36. CASE End
  BY <1>36 DEF End, EndFrame, Booleans
<1>37. CASE Finish
  BY <1>37 DEF Finish, EndFrame, Booleans
<1>38. CASE LogRaises
  BY <1>38 DEF LogRaises, Booleans
<1>39. CASE RestoreOne
  BY <1>39 DEF RestoreOne, Hand, Booleans
<1>40. CASE Exit
  BY <1>40 DEF Exit, EndFrame, Booleans
<1>41. CASE Gone
  BY <1>41 DEF Gone, EndFrame, Booleans
<1>42. CASE FlagArrives
  BY <1>42 DEF FlagArrives, Booleans
<1>43. CASE ChildEnds
  BY <1>43 DEF ChildEnds, RunnerFrame, Booleans
<1>44. CASE GraceExpires
  <2>1. timer' \in BOOLEAN
    BY <1>44, Zenon DEF GraceExpires, RunnerFrame, Booleans
  <2>2. UNCHANGED <<flowSignum, runSignum, runSecond, watching, got, done, writeError,
                    quietRun, raised, stopTaken, intSent, killSecond, onAlarm,
                    exitStop, failed, logError>>
    BY <1>44 DEF GraceExpires, RunnerFrame
  <2> QED
    BY <2>1, <2>2 DEF Booleans
<1>45. CASE LateAlarm
  <2>1. timer' \in BOOLEAN
    BY <1>45, Zenon DEF LateAlarm, Booleans
  <2>2. UNCHANGED <<flowSignum, runSignum, runSecond, watching, got, done, writeError,
                    quietRun, raised, stopTaken, intSent, killSecond, onAlarm,
                    exitStop, failed, logError>>
    BY <1>45 DEF LateAlarm
  <2> QED
    BY <2>1, <2>2 DEF Booleans
<1>46. CASE TeardownStop
  BY <1>46 DEF TeardownStop, Booleans
<1>47. CASE WindowPasses
  BY <1>47 DEF WindowPasses, Booleans
<1>48. ASSUME NEW s \in Stops, sentStops < MaxStops, pc \notin {"teardown", "exit"},
             owner[s] = "early", EarlyStop(s)
      PROVE  Booleans'
  BY <1>48 DEF EarlyStop, Noted, Booleans
<1>49. ASSUME NEW s \in Stops, sentStops < MaxStops, pc \notin {"teardown", "exit"},
             owner[s] = "flow", FlowStop(s)
      PROVE  Booleans'
  <2>1. flowSignum' \in BOOLEAN /\ got' \in BOOLEAN /\ watching' \in BOOLEAN /\ raised' \in BOOLEAN /\ stopTaken' \in BOOLEAN /\ intSent' \in BOOLEAN
    BY <1>49, Zenon DEF FlowStop, Noted, Interrupted, Booleans
  <2>2. UNCHANGED <<runSignum, runSecond, done, writeError, quietRun, killSecond,
                    timer, onAlarm, exitStop, failed, logError>>
    BY <1>49 DEF FlowStop, Noted, Interrupted
  <2> QED
    BY <2>1, <2>2 DEF Booleans
<1>50. ASSUME NEW s \in Stops, sentStops < MaxStops, pc \notin {"teardown", "exit"},
             owner[s] = "runner", RunnerStop(s)
      PROVE  Booleans'
  BY <1>50 DEF RunnerStop, Noted, Booleans
<1>51. CASE StopArrives
  BY <1>51, <1>48, <1>49, <1>50 DEF StopArrives
<1>52. CASE UNCHANGED vars
  BY <1>52 DEF vars, Booleans
<1> QED
  BY <1>1, <1>2, <1>3, <1>4, <1>5, <1>6, <1>7, <1>8, <1>9, <1>10, <1>11, <1>12, <1>13,
     <1>14, <1>15, <1>16, <1>17, <1>18, <1>19, <1>20, <1>21, <1>22, <1>23, <1>24, <1>25, <1>26,
     <1>27, <1>28, <1>29, <1>30, <1>31, <1>32, <1>33, <1>34, <1>35, <1>36, <1>37, <1>38, <1>39,
     <1>40, <1>41, <1>42, <1>43, <1>44, <1>45, <1>46, <1>47, <1>51, <1>52
  DEF Next, MainProgram, Fault

\* The distinct signals and the tails of Order.
LEMMA OrderTails ==
    /\ Order # <<HUP, USR1>> /\ Order # <<USR1>> /\ Order # <<>>
    /\ <<HUP, USR1>> # <<USR1>> /\ <<HUP, USR1>> # <<>> /\ <<USR1>> # <<>>
    /\ Head(Order) = INT /\ Tail(Order) = <<HUP, USR1>>
    /\ Head(<<HUP, USR1>>) = HUP /\ Tail(<<HUP, USR1>>) = <<USR1>>
    /\ Head(<<USR1>>) = USR1 /\ Tail(<<USR1>>) = <<>>
BY DEF Order

\* One signal.signal() call hands over one of the waiting signals.
LEMMA HandMoves ==
    ASSUME NEW at, NEW to, NEW next, SpectreAssumption, left \in Suffixes, Hand(at, to, next),
           owner \in [Sigs -> {"early", "flow", "runner"}]
    PROVE  /\ pc = at /\ left' \in Suffixes
           /\ \/ Waiting = {} /\ pc' = next /\ UNCHANGED owner
              \/ \E s \in Waiting : /\ pc' = at /\ Waiting' = Waiting \ {s} /\ s \in Sigs
                                    /\ owner' = [owner EXCEPT ![s] = to]
<1> USE DEF sigVars, Goto
<1>1. CASE left = <<>>
  BY <1>1, OrderTails DEF Hand, Waiting, Suffixes
<1>2. CASE left = Order
  <2>1. left' = <<HUP, USR1>> /\ owner' = [owner EXCEPT ![INT] = to] /\ pc' = pc /\ pc = at
    BY <1>2, OrderTails DEF Hand
  <2>2. Waiting = Sigs /\ Waiting' = {HUP, USR1}
    BY <1>2, <2>1, OrderTails DEF Waiting
  <2> QED
    BY <2>1, <2>2 DEF Suffixes, Sigs, Stops, SpectreAssumption
<1>3. CASE left = <<HUP, USR1>>
  <2>1. left' = <<USR1>> /\ owner' = [owner EXCEPT ![HUP] = to] /\ pc' = pc /\ pc = at
    BY <1>3, OrderTails DEF Hand
  <2>2. Waiting = {HUP, USR1} /\ Waiting' = {USR1}
    BY <1>3, <2>1, OrderTails DEF Waiting
  <2> QED
    BY <2>1, <2>2 DEF Suffixes, Sigs, Stops, SpectreAssumption
<1>4. CASE left = <<USR1>>
  <2>1. left' = <<>> /\ owner' = [owner EXCEPT ![USR1] = to] /\ pc' = pc /\ pc = at
    BY <1>4, OrderTails DEF Hand
  <2>2. Waiting = {USR1} /\ Waiting' = {}
    BY <1>4, <2>1, OrderTails DEF Waiting
  <2> QED
    BY <2>1, <2>2 DEF Suffixes, Sigs, Stops, SpectreAssumption
<1> QED
  BY <1>1, <1>2, <1>3, <1>4 DEF Suffixes


\* Install, the runner's block and restore hand the signals over one at a time, and a
\* raised _Interrupted leaves them with the flow or with the runner, never with cli.py.
LEMMA OwnersStep ==
    SpectreAssumption /\ Names /\ Owners /\ FlowInv /\ [Next]_vars => Owners'
<1> SUFFICES ASSUME SpectreAssumption, Names, Owners, FlowInv, [Next]_vars, NEW u \in Sigs 
             PROVE (left \in Suffixes)' /\ OwnerOf(u)'
  BY DEF Owners, Sigs, Stops
<1>0. left \in Suffixes /\ OwnerOf(u)
  BY DEF Owners
<1> USE DEF FlowAt, RunnerAt, ConvAt, AfterRunner, Late, Waiting, sigVars, alarmVars, earlyVars,
   flowVars, runVars, engineVars, convVars, flagVars, endVars, histVars, failVars, gotVars, Goto
<1>1. CASE InstallBegins
  BY <1>0, <1>1 DEF InstallBegins, OwnerOf, Suffixes
<1>2. CASE InstallOne
  BY <1>0, <1>2, HandMoves, SpectreAssumption DEF InstallOne, Names, OwnerOf
<1>3. CASE TakeOver
  BY <1>0, <1>3 DEF TakeOver, OwnerOf, Suffixes
<1>4. CASE OpenLog
  BY <1>0, <1>4 DEF OpenLog, Fails, OwnerOf, Suffixes
<1>5. CASE SetupPoll
  BY <1>0, <1>5 DEF SetupPoll, PollTake, OwnerOf, Suffixes
<1>6. CASE SetupPollPrint
  BY <1>0, <1>6 DEF SetupPollPrint, PollPrint, OwnerOf, Suffixes
<1>7. CASE SetupEnds
  BY <1>0, <1>7 DEF SetupEnds, Ends, OwnerOf, Suffixes
<1>8. CASE StepsFail
  BY <1>0, <1>8 DEF StepsFail, Fails, OwnerOf, Suffixes
<1>9. CASE EngineRun
  BY <1>0, <1>9 DEF EngineRun, OwnerOf, Suffixes
<1>10. CASE RunnerEnter
  BY <1>0, <1>10, HandMoves, SpectreAssumption DEF RunnerEnter, Names, OwnerOf
<1>11. CASE RunnerTake
  BY <1>0, <1>11 DEF RunnerTake, OwnerOf, Suffixes
<1>12. CASE RunnerCheck
  BY <1>0, <1>12 DEF RunnerCheck, RunnerFrame, Result, OwnerOf, Suffixes
<1>13. CASE RunnerSpawn
  BY <1>0, <1>13 DEF RunnerSpawn, RunnerFrame, Result, OwnerOf, Suffixes
<1>14. CASE RunnerFlags
  BY <1>0, <1>14 DEF RunnerFlags, RunnerFrame, OwnerOf, Suffixes
<1>15. CASE RunnerWait
  BY <1>0, <1>15 DEF RunnerWait, RunnerFrame, OwnerOf, Suffixes
<1>16. CASE RunnerAfter
  BY <1>0, <1>16 DEF RunnerAfter, RunnerFrame, OwnerOf, Suffixes
<1>17. CASE ClassifyVacask
  BY <1>0, <1>17 DEF ClassifyVacask, RunnerFrame, Result, OwnerOf, Suffixes
<1>18. CASE ClassifyXyce
  BY <1>0, <1>18 DEF ClassifyXyce, RunnerFrame, Maximum, OwnerOf, Suffixes
<1>19. CASE RunnerLast
  BY <1>0, <1>19 DEF RunnerLast, RunnerFrame, OwnerOf, Suffixes
<1>20. CASE RunnerRaises
  BY <1>0, <1>20 DEF RunnerRaises, OwnerOf, Suffixes
<1>21. CASE RunnerExit
  BY <1>0, <1>21 DEF RunnerExit, RunnerFrame, OwnerOf, Suffixes
<1>22. CASE RunnerRestore
  BY <1>0, <1>22, HandMoves, SpectreAssumption DEF RunnerRestore, Names, OwnerOf
<1>23. CASE RunnerGive
  BY <1>0, <1>23 DEF RunnerGive, RunnerLeft, Fails, OwnerOf, Suffixes
<1>24. CASE RunnerOut
  BY <1>0, <1>24 DEF RunnerOut, OwnerOf, Suffixes
<1>25. CASE Deferred
  BY <1>0, <1>25 DEF Deferred, OwnerOf, Suffixes
<1>26. CASE CountRunners
  BY <1>0, <1>26 DEF CountRunners, Maximum, OwnerOf, Suffixes
<1>27. CASE ConvPoll
  BY <1>0, <1>27 DEF ConvPoll, PollPrint, OwnerOf, Suffixes
<1>28. CASE ConvNext
  BY <1>0, <1>28 DEF ConvNext, ConvFrame, OwnerOf, Suffixes
<1>29. CASE ConvWrite
  BY <1>0, <1>29 DEF ConvWrite, ConvFrame, OwnerOf, Suffixes
<1>30. CASE ConvCut
  BY <1>0, <1>30 DEF ConvCut, ConvFrame, OwnerOf, Suffixes
<1>31. CASE ConvEnd
  BY <1>0, <1>31 DEF ConvEnd, ConvFrame, Maximum, OwnerOf, Suffixes
<1>32. CASE Returned
  BY <1>0, <1>32 DEF Returned, EndFrame, OwnerOf, Suffixes
<1>33. CASE Failed
  BY <1>0, <1>33 DEF Failed, EndFrame, OwnerOf, Suffixes
<1>34. CASE Guarded
  BY <1>0, <1>34 DEF Guarded, EndFrame, OwnerOf, Suffixes
<1>35. CASE Main
  BY <1>0, <1>35 DEF Main, EndFrame, OwnerOf, Suffixes
<1>36. CASE End
  BY <1>0, <1>36 DEF End, EndFrame, OwnerOf, Suffixes
<1>37. CASE Finish
  BY <1>0, <1>37 DEF Finish, EndFrame, OwnerOf, Suffixes
<1>38. CASE LogRaises
  BY <1>0, <1>38 DEF LogRaises, OwnerOf, Suffixes
<1>39. CASE RestoreOne
  BY <1>0, <1>39, HandMoves, SpectreAssumption DEF RestoreOne, Names, OwnerOf
<1>40. CASE Exit
  BY <1>0, <1>40 DEF Exit, EndFrame, OwnerOf, Suffixes
<1>41. CASE Gone
  BY <1>0, <1>41 DEF Gone, EndFrame, OwnerOf, Suffixes
<1>42. CASE FlagArrives
  BY <1>0, <1>42 DEF FlagArrives, OwnerOf, Suffixes
<1>43. CASE ChildEnds
  BY <1>0, <1>43 DEF ChildEnds, RunnerFrame, OwnerOf, Suffixes
<1>44. CASE GraceExpires
  BY <1>0, <1>44 DEF GraceExpires, RunnerFrame, OwnerOf, Suffixes
<1>45. CASE LateAlarm
  BY <1>0, <1>45 DEF LateAlarm, OwnerOf, Suffixes
<1>46. CASE TeardownStop
  BY <1>0, <1>46 DEF TeardownStop, OwnerOf, Suffixes
<1>47. CASE WindowPasses
  BY <1>0, <1>47 DEF WindowPasses, OwnerOf, Suffixes
<1>48. ASSUME NEW s \in Stops, sentStops < MaxStops, pc \notin {"teardown", "exit"},
             owner[s] = "early", EarlyStop(s)
      PROVE  (left \in Suffixes)' /\ OwnerOf(u)'
  BY <1>0, <1>48 DEF EarlyStop, Noted, OwnerOf, Suffixes
<1>49. ASSUME NEW s \in Stops, sentStops < MaxStops, pc \notin {"teardown", "exit"},
             owner[s] = "flow", FlowStop(s)
      PROVE  (left \in Suffixes)' /\ OwnerOf(u)'
  <2>1. UNCHANGED owner
    BY <1>49 DEF FlowStop
  <2>2. \/ Interrupted /\ flowState \in {"now", "deferred"}
        \/ UNCHANGED <<pc, left>>
    BY <1>49 DEF FlowStop
  <2>3. CASE Interrupted /\ flowState \in {"now", "deferred"}
    <3>1. pc \notin {"start", "install", "takeover", "held", "end", "finish", "teardown", "exit"} /\ pc \in Points
      BY <2>3, <1>49 DEF FlowInv, Names
    <3>2. pc' \in {"convCut", "main", "restore", "done", "guard"}
      BY <2>3 DEF Interrupted
    <3>3. left' \in Suffixes /\ (pc' = "restore" => pc = "main" /\ left' = Order)
      BY <2>3 DEF Interrupted, Suffixes
    <3>4. pc' = "convCut" => pc \in ConvAt
      BY <2>3 DEF Interrupted
    <3>5. pc' \in {"guard", "main"} => pc \notin {"restore", "done"}
      BY <2>3 DEF Interrupted
    <3>6. pc \notin {"restore", "done"} => owner[u] # "early"
      BY <1>0, <3>1 DEF OwnerOf, Points
    <3> QED
      BY <1>0, <2>1, <3>1, <3>2, <3>3, <3>4, <3>5, <3>6 DEF OwnerOf
  <2>4. CASE UNCHANGED <<pc, left>>
    BY <1>0, <2>1, <2>4 DEF OwnerOf
  <2> QED
    BY <2>2, <2>3, <2>4
<1>50. ASSUME NEW s \in Stops, sentStops < MaxStops, pc \notin {"teardown", "exit"},
             owner[s] = "runner", RunnerStop(s)
      PROVE  (left \in Suffixes)' /\ OwnerOf(u)'
  BY <1>0, <1>50 DEF RunnerStop, Noted, OwnerOf, Suffixes
<1>51. CASE StopArrives
  BY <1>51, <1>48, <1>49, <1>50 DEF StopArrives
<1>52. CASE UNCHANGED vars
  BY <1>0, <1>52 DEF vars, OwnerOf, Suffixes
<1> QED
  BY <1>1, <1>2, <1>3, <1>4, <1>5, <1>6, <1>7, <1>8, <1>9, <1>10, <1>11, <1>12, <1>13,
     <1>14, <1>15, <1>16, <1>17, <1>18, <1>19, <1>20, <1>21, <1>22, <1>23, <1>24, <1>25, <1>26,
     <1>27, <1>28, <1>29, <1>30, <1>31, <1>32, <1>33, <1>34, <1>35, <1>36, <1>37, <1>38, <1>39,
     <1>40, <1>41, <1>42, <1>43, <1>44, <1>45, <1>46, <1>47, <1>51, <1>52
  DEF Next, MainProgram, Fault

\* classify(): a second signal is no hangup and comes after a first; a hangup
\* after a stop signal or another hangup is a repeat.
LEMMA Classified ==
    ASSUME NEW s, NEW b \in BOOLEAN
    PROVE  /\ Classify(s, b) \in {"repeat", "first", "second"}
           /\ Classify(s, b) = "second" => b = TRUE /\ s # HUP
           /\ s = HUP /\ (b = TRUE \/ hangup # "none") => Classify(s, b) = "repeat"
BY DEF Classify

\* Where cli.py's handler and the runner's may take a signal.
LEMMA TakenAt ==
    ASSUME Names, Owners, NEW s \in Sigs, pc \notin {"teardown", "exit"}
    PROVE  /\ owner[s] = "early" => pc \in {"start", "install", "restore", "done"}
           /\ owner[s] = "runner" => pc \in {"rEnter", "rRestore"} \cup RunnerAt \cup Late
           /\ owner[s] = "flow" => pc # "start" /\ pc \notin RunnerAt
<1>1. OwnerOf(s) /\ pc \in Points
  BY DEF Owners, Names
<1> QED
  BY <1>1 DEF OwnerOf, Points, FlowAt, RunnerAt, ConvAt, AfterRunner, Late

\* Every stop signal is one of the handled ones.
LEMMA StopsHandled == Stops \subseteq Sigs /\ INT \in Stops /\ HUP \in Stops /\ USR1 \in Sigs
BY DEF Stops, Sigs


\* Each of steps, engine_run, convert, guarded and main leaves the flow's handler in the
\* state the next one counts on.
LEMMA FlowStep ==
    Names /\ Numbers /\ Booleans /\ Owners /\ FlowInv /\ [Next]_vars => FlowInv'
<1> SUFFICES ASSUME Names, Numbers, Booleans, Owners, FlowInv, [Next]_vars PROVE FlowInv'
  OBVIOUS
<1> USE DEF sigVars, alarmVars, earlyVars, flowVars, runVars, engineVars, convVars, flagVars, endVars,
   histVars, failVars, gotVars, Goto
<1>1. CASE InstallBegins
  BY <1>1 DEF InstallBegins, FlowInv, FlowAt, RunnerAt, ConvAt, AfterRunner, Late, Fresh
<1>2. CASE InstallOne
  BY <1>2 DEF InstallOne, Hand, FlowInv, FlowAt, RunnerAt, ConvAt, AfterRunner, Late, Fresh
<1>3. CASE TakeOver
  <2>1. flowSignum' = (flowSignum \/ earlyStops > 0)
    BY <1>3 DEF TakeOver
  <2>2. flowSignum' = FALSE => flowSignum = FALSE /\ ~(earlyStops > 0)
    BY <2>1, Zenon DEF Booleans
  <2>3. flowSignum' = TRUE => flowSignum = TRUE \/ earlyStops > 0
    BY <2>1, Zenon DEF Booleans
  <2> QED
    BY <1>3, <2>2, <2>3 DEF TakeOver, Numbers, FlowInv, Fresh, RunnerAt, ConvAt, Late
<1>4. CASE OpenLog
  BY <1>4
  DEF OpenLog, Fails, Booleans, FlowInv, FlowAt, RunnerAt, ConvAt, AfterRunner, Late, Fresh
<1>5. CASE SetupPoll
  BY <1>5 DEF SetupPoll, PollTake, FlowInv, FlowAt, RunnerAt, ConvAt, AfterRunner, Late, Fresh
<1>6. CASE SetupPollPrint
  BY <1>6
  DEF SetupPollPrint, PollPrint, FlowInv, FlowAt, RunnerAt, ConvAt, AfterRunner, Late, Fresh
<1>7. CASE SetupEnds
  BY <1>7 DEF SetupEnds, Ends, FlowInv, FlowAt, RunnerAt, ConvAt, AfterRunner, Late, Fresh
<1>8. CASE StepsFail
  BY <1>8 DEF StepsFail, Fails, FlowInv, FlowAt, RunnerAt, ConvAt, AfterRunner, Late, Fresh
<1>9. CASE EngineRun
  BY <1>9 DEF EngineRun, FlowInv, FlowAt, RunnerAt, ConvAt, AfterRunner, Late, Fresh
<1>10. CASE RunnerEnter
  BY <1>10 DEF RunnerEnter, Hand, FlowInv, FlowAt, RunnerAt, ConvAt, AfterRunner, Late, Fresh
<1>11. CASE RunnerTake
  BY <1>11 DEF RunnerTake, FlowInv, FlowAt, RunnerAt, ConvAt, AfterRunner, Late, Fresh
<1>12. CASE RunnerCheck
  BY <1>12
  DEF RunnerCheck, RunnerFrame, Result, FlowInv, FlowAt, RunnerAt, ConvAt, AfterRunner,
     Late, Fresh
<1>13. CASE RunnerSpawn
  BY <1>13
  DEF RunnerSpawn, RunnerFrame, Result, FlowInv, FlowAt, RunnerAt, ConvAt, AfterRunner,
     Late, Fresh
<1>14. CASE RunnerFlags
  BY <1>14
  DEF RunnerFlags, RunnerFrame, FlowInv, FlowAt, RunnerAt, ConvAt, AfterRunner, Late, Fresh
<1>15. CASE RunnerWait
  BY <1>15
  DEF RunnerWait, RunnerFrame, FlowInv, FlowAt, RunnerAt, ConvAt, AfterRunner, Late, Fresh
<1>16. CASE RunnerAfter
  BY <1>16
  DEF RunnerAfter, RunnerFrame, FlowInv, FlowAt, RunnerAt, ConvAt, AfterRunner, Late, Fresh
<1>17. CASE ClassifyVacask
  BY <1>17
  DEF ClassifyVacask, RunnerFrame, Result, FlowInv, FlowAt, RunnerAt, ConvAt, AfterRunner,
     Late, Fresh
<1>18. CASE ClassifyXyce
  BY <1>18
  DEF ClassifyXyce, RunnerFrame, Maximum, FlowInv, FlowAt, RunnerAt, ConvAt, AfterRunner,
     Late, Fresh
<1>19. CASE RunnerLast
  BY <1>19
  DEF RunnerLast, RunnerFrame, FlowInv, FlowAt, RunnerAt, ConvAt, AfterRunner, Late, Fresh
<1>20. CASE RunnerRaises
  BY <1>20 DEF RunnerRaises, FlowInv, FlowAt, RunnerAt, ConvAt, AfterRunner, Late, Fresh
<1>21. CASE RunnerExit
  BY <1>21
  DEF RunnerExit, RunnerFrame, FlowInv, FlowAt, RunnerAt, ConvAt, AfterRunner, Late, Fresh
<1>22. CASE RunnerRestore
  BY <1>22
  DEF RunnerRestore, Hand, FlowInv, FlowAt, RunnerAt, ConvAt, AfterRunner, Late, Fresh
<1>23. CASE RunnerGive
  BY <1>23
  DEF RunnerGive, RunnerLeft, Fails, FlowInv, FlowAt, RunnerAt, ConvAt, AfterRunner, Late,
     Fresh
<1>24. CASE RunnerOut
  BY <1>24 DEF RunnerOut, FlowInv, FlowAt, RunnerAt, ConvAt, AfterRunner, Late, Fresh
<1>25. CASE Deferred
  BY <1>25 DEF Deferred, FlowInv, FlowAt, RunnerAt, ConvAt, AfterRunner, Late, Fresh
<1>26. CASE CountRunners
  BY <1>26
  DEF CountRunners, Maximum, FlowInv, FlowAt, RunnerAt, ConvAt, AfterRunner, Late, Fresh
<1>27. CASE ConvPoll
  BY <1>27
  DEF ConvPoll, PollPrint, FlowInv, FlowAt, RunnerAt, ConvAt, AfterRunner, Late, Fresh
<1>28. CASE ConvNext
  BY <1>28
  DEF ConvNext, ConvFrame, FlowInv, FlowAt, RunnerAt, ConvAt, AfterRunner, Late, Fresh
<1>29. CASE ConvWrite
  BY <1>29
  DEF ConvWrite, ConvFrame, FlowInv, FlowAt, RunnerAt, ConvAt, AfterRunner, Late, Fresh
<1>30. CASE ConvCut
  BY <1>30 DEF ConvCut, ConvFrame, FlowInv, FlowAt, RunnerAt, ConvAt, AfterRunner, Late, Fresh
<1>31. CASE ConvEnd
  BY <1>31
  DEF ConvEnd, ConvFrame, Maximum, FlowInv, FlowAt, RunnerAt, ConvAt, AfterRunner, Late,
     Fresh
<1>32. CASE Returned
  BY <1>32 DEF Returned, EndFrame, FlowInv, FlowAt, RunnerAt, ConvAt, AfterRunner, Late, Fresh
<1>33. CASE Failed
  BY <1>33 DEF Failed, EndFrame, FlowInv, FlowAt, RunnerAt, ConvAt, AfterRunner, Late, Fresh
<1>34. CASE Guarded
  BY <1>34 DEF Guarded, EndFrame, FlowInv, FlowAt, RunnerAt, ConvAt, AfterRunner, Late, Fresh
<1>35. CASE Main
  BY <1>35 DEF Main, EndFrame, FlowInv, FlowAt, RunnerAt, ConvAt, AfterRunner, Late, Fresh
<1>36. CASE End
  BY <1>36 DEF End, EndFrame, FlowInv, FlowAt, RunnerAt, ConvAt, AfterRunner, Late, Fresh
<1>37. CASE Finish
  BY <1>37 DEF Finish, EndFrame, FlowInv, FlowAt, RunnerAt, ConvAt, AfterRunner, Late, Fresh
<1>38. CASE LogRaises
  BY <1>38 DEF LogRaises, FlowInv, FlowAt, RunnerAt, ConvAt, AfterRunner, Late, Fresh
<1>39. CASE RestoreOne
  BY <1>39 DEF RestoreOne, Hand, FlowInv, FlowAt, RunnerAt, ConvAt, AfterRunner, Late, Fresh
<1>40. CASE Exit
  BY <1>40 DEF Exit, EndFrame, FlowInv, FlowAt, RunnerAt, ConvAt, AfterRunner, Late, Fresh
<1>41. CASE Gone
  BY <1>41 DEF Gone, EndFrame, FlowInv, FlowAt, RunnerAt, ConvAt, AfterRunner, Late, Fresh
<1>42. CASE FlagArrives
  BY <1>42 DEF FlagArrives, FlowInv, FlowAt, RunnerAt, ConvAt, AfterRunner, Late, Fresh
<1>43. CASE ChildEnds
  BY <1>43
  DEF ChildEnds, RunnerFrame, FlowInv, FlowAt, RunnerAt, ConvAt, AfterRunner, Late, Fresh
<1>44. CASE GraceExpires
  BY <1>44
  DEF GraceExpires, RunnerFrame, FlowInv, FlowAt, RunnerAt, ConvAt, AfterRunner, Late, Fresh
<1>45. CASE LateAlarm
  BY <1>45 DEF LateAlarm, FlowInv, FlowAt, RunnerAt, ConvAt, AfterRunner, Late, Fresh
<1>46. CASE TeardownStop
  BY <1>46 DEF TeardownStop, FlowInv, FlowAt, RunnerAt, ConvAt, AfterRunner, Late, Fresh
<1>47. CASE WindowPasses
  BY <1>47 DEF WindowPasses, FlowInv, FlowAt, RunnerAt, ConvAt, AfterRunner, Late, Fresh
<1>48. ASSUME NEW s \in Stops, sentStops < MaxStops, pc \notin {"teardown", "exit"},
             owner[s] = "early", EarlyStop(s)
      PROVE  FlowInv'
  BY <1>48
  DEF EarlyStop, Noted, Owners, OwnerOf, Sigs, FlowInv, FlowAt, RunnerAt, ConvAt,
     AfterRunner, Late, Fresh
<1>49. ASSUME NEW s \in Stops, sentStops < MaxStops, pc \notin {"teardown", "exit"},
             owner[s] = "flow", FlowStop(s)
      PROVE  FlowInv'
  BY <1>49
  DEF FlowStop, Noted, Interrupted, Owners, OwnerOf, Sigs, Classify, Numbers, FlowInv,
     FlowAt, RunnerAt, ConvAt, AfterRunner, Late, Fresh
<1>50. ASSUME NEW s \in Stops, sentStops < MaxStops, pc \notin {"teardown", "exit"},
             owner[s] = "runner", RunnerStop(s)
      PROVE  FlowInv'
  BY <1>50 DEF RunnerStop, Noted, FlowInv, FlowAt, RunnerAt, ConvAt, AfterRunner, Late, Fresh
<1>51. CASE StopArrives
  BY <1>51, <1>48, <1>49, <1>50 DEF StopArrives
<1>52. CASE UNCHANGED vars
  BY <1>52 DEF vars, FlowInv, FlowAt, RunnerAt, ConvAt, AfterRunner, Late, Fresh
<1> QED
  BY <1>1, <1>2, <1>3, <1>4, <1>5, <1>6, <1>7, <1>8, <1>9, <1>10, <1>11, <1>12, <1>13,
     <1>14, <1>15, <1>16, <1>17, <1>18, <1>19, <1>20, <1>21, <1>22, <1>23, <1>24, <1>25, <1>26,
     <1>27, <1>28, <1>29, <1>30, <1>31, <1>32, <1>33, <1>34, <1>35, <1>36, <1>37, <1>38, <1>39,
     <1>40, <1>41, <1>42, <1>43, <1>44, <1>45, <1>46, <1>47, <1>51, <1>52
  DEF Next, MainProgram, Fault

\* __exit__ stops the timer before it gives the handlers back, and only a first signal
\* after that starts it again: no other SIGALRM meets its default action.
LEMMA AlarmStep ==
    Names /\ Booleans /\ Owners /\ FlowInv /\ AlarmInv /\ [Next]_vars => AlarmInv'
<1> SUFFICES ASSUME Names, Booleans, Owners, FlowInv, AlarmInv, [Next]_vars PROVE AlarmInv'
  OBVIOUS
<1> USE DEF sigVars, alarmVars, earlyVars, flowVars, runVars, engineVars, convVars, flagVars, endVars,
   histVars, failVars, gotVars, Goto
<1>1. CASE InstallBegins
  BY <1>1 DEF InstallBegins, AlarmInv, FlowAt, RunnerAt, ConvAt, AfterRunner, Late, Fresh
<1>2. CASE InstallOne
  BY <1>2 DEF InstallOne, Hand, AlarmInv, FlowAt, RunnerAt, ConvAt, AfterRunner, Late, Fresh
<1>3. CASE TakeOver
  BY <1>3 DEF TakeOver, AlarmInv, FlowAt, RunnerAt, ConvAt, AfterRunner, Late, Fresh
<1>4. CASE OpenLog
  BY <1>4 DEF OpenLog, Fails, AlarmInv, FlowAt, RunnerAt, ConvAt, AfterRunner, Late, Fresh
<1>5. CASE SetupPoll
  BY <1>5
  DEF SetupPoll, PollTake, AlarmInv, FlowAt, RunnerAt, ConvAt, AfterRunner, Late, Fresh
<1>6. CASE SetupPollPrint
  BY <1>6
  DEF SetupPollPrint, PollPrint, AlarmInv, FlowAt, RunnerAt, ConvAt, AfterRunner, Late,
     Fresh
<1>7. CASE SetupEnds
  BY <1>7 DEF SetupEnds, Ends, AlarmInv, FlowAt, RunnerAt, ConvAt, AfterRunner, Late, Fresh
<1>8. CASE StepsFail
  BY <1>8 DEF StepsFail, Fails, AlarmInv, FlowAt, RunnerAt, ConvAt, AfterRunner, Late, Fresh
<1>9. CASE EngineRun
  BY <1>9 DEF EngineRun, AlarmInv, FlowAt, RunnerAt, ConvAt, AfterRunner, Late, Fresh
<1>10. CASE RunnerEnter
  BY <1>10 DEF RunnerEnter, Hand, AlarmInv, FlowAt, RunnerAt, ConvAt, AfterRunner, Late, Fresh
<1>11. CASE RunnerTake
  BY <1>11 DEF RunnerTake, AlarmInv, FlowAt, RunnerAt, ConvAt, AfterRunner, Late, Fresh
<1>12. CASE RunnerCheck
  BY <1>12
  DEF RunnerCheck, RunnerFrame, Result, AlarmInv, FlowAt, RunnerAt, ConvAt, AfterRunner,
     Late, Fresh
<1>13. CASE RunnerSpawn
  BY <1>13
  DEF RunnerSpawn, RunnerFrame, Result, AlarmInv, FlowAt, RunnerAt, ConvAt, AfterRunner,
     Late, Fresh
<1>14. CASE RunnerFlags
  BY <1>14
  DEF RunnerFlags, RunnerFrame, AlarmInv, FlowAt, RunnerAt, ConvAt, AfterRunner, Late, Fresh
<1>15. CASE RunnerWait
  BY <1>15
  DEF RunnerWait, RunnerFrame, AlarmInv, FlowAt, RunnerAt, ConvAt, AfterRunner, Late, Fresh
<1>16. CASE RunnerAfter
  BY <1>16
  DEF RunnerAfter, RunnerFrame, AlarmInv, FlowAt, RunnerAt, ConvAt, AfterRunner, Late, Fresh
<1>17. CASE ClassifyVacask
  BY <1>17
  DEF ClassifyVacask, RunnerFrame, Result, AlarmInv, FlowAt, RunnerAt, ConvAt, AfterRunner,
     Late, Fresh
<1>18. CASE ClassifyXyce
  BY <1>18
  DEF ClassifyXyce, RunnerFrame, Maximum, AlarmInv, FlowAt, RunnerAt, ConvAt, AfterRunner,
     Late, Fresh
<1>19. CASE RunnerLast
  BY <1>19
  DEF RunnerLast, RunnerFrame, AlarmInv, FlowAt, RunnerAt, ConvAt, AfterRunner, Late, Fresh
<1>20. CASE RunnerRaises
  BY <1>20 DEF RunnerRaises, AlarmInv, FlowAt, RunnerAt, ConvAt, AfterRunner, Late, Fresh
<1>21. CASE RunnerExit
  BY <1>21
  DEF RunnerExit, RunnerFrame, AlarmInv, FlowAt, RunnerAt, ConvAt, AfterRunner, Late, Fresh
<1>22. CASE RunnerRestore
  BY <1>22
  DEF RunnerRestore, Hand, AlarmInv, FlowAt, RunnerAt, ConvAt, AfterRunner, Late, Fresh
<1>23. CASE RunnerGive
  BY <1>23
  DEF RunnerGive, RunnerLeft, Fails, AlarmInv, FlowAt, RunnerAt, ConvAt, AfterRunner, Late,
     Fresh
<1>24. CASE RunnerOut
  BY <1>24 DEF RunnerOut, AlarmInv, FlowAt, RunnerAt, ConvAt, AfterRunner, Late, Fresh
<1>25. CASE Deferred
  BY <1>25 DEF Deferred, AlarmInv, FlowAt, RunnerAt, ConvAt, AfterRunner, Late, Fresh
<1>26. CASE CountRunners
  BY <1>26
  DEF CountRunners, Maximum, AlarmInv, FlowAt, RunnerAt, ConvAt, AfterRunner, Late, Fresh
<1>27. CASE ConvPoll
  BY <1>27
  DEF ConvPoll, PollPrint, AlarmInv, FlowAt, RunnerAt, ConvAt, AfterRunner, Late, Fresh
<1>28. CASE ConvNext
  BY <1>28
  DEF ConvNext, ConvFrame, AlarmInv, FlowAt, RunnerAt, ConvAt, AfterRunner, Late, Fresh
<1>29. CASE ConvWrite
  BY <1>29
  DEF ConvWrite, ConvFrame, AlarmInv, FlowAt, RunnerAt, ConvAt, AfterRunner, Late, Fresh
<1>30. CASE ConvCut
  BY <1>30
  DEF ConvCut, ConvFrame, AlarmInv, FlowAt, RunnerAt, ConvAt, AfterRunner, Late, Fresh
<1>31. CASE ConvEnd
  BY <1>31
  DEF ConvEnd, ConvFrame, Maximum, AlarmInv, FlowAt, RunnerAt, ConvAt, AfterRunner, Late,
     Fresh
<1>32. CASE Returned
  BY <1>32
  DEF Returned, EndFrame, AlarmInv, FlowAt, RunnerAt, ConvAt, AfterRunner, Late, Fresh
<1>33. CASE Failed
  BY <1>33 DEF Failed, EndFrame, AlarmInv, FlowAt, RunnerAt, ConvAt, AfterRunner, Late, Fresh
<1>34. CASE Guarded
  BY <1>34 DEF Guarded, EndFrame, AlarmInv, FlowAt, RunnerAt, ConvAt, AfterRunner, Late, Fresh
<1>35. CASE Main
  BY <1>35 DEF Main, EndFrame, AlarmInv, FlowAt, RunnerAt, ConvAt, AfterRunner, Late, Fresh
<1>36. CASE End
  BY <1>36 DEF End, EndFrame, AlarmInv, FlowAt, RunnerAt, ConvAt, AfterRunner, Late, Fresh
<1>37. CASE Finish
  BY <1>37 DEF Finish, EndFrame, AlarmInv, FlowAt, RunnerAt, ConvAt, AfterRunner, Late, Fresh
<1>38. CASE LogRaises
  BY <1>38 DEF LogRaises, AlarmInv, FlowAt, RunnerAt, ConvAt, AfterRunner, Late, Fresh
<1>39. CASE RestoreOne
  BY <1>39 DEF RestoreOne, Hand, AlarmInv, FlowAt, RunnerAt, ConvAt, AfterRunner, Late, Fresh
<1>40. CASE Exit
  BY <1>40 DEF Exit, EndFrame, AlarmInv, FlowAt, RunnerAt, ConvAt, AfterRunner, Late, Fresh
<1>41. CASE Gone
  BY <1>41 DEF Gone, EndFrame, AlarmInv, FlowAt, RunnerAt, ConvAt, AfterRunner, Late, Fresh
<1>42. CASE FlagArrives
  BY <1>42 DEF FlagArrives, AlarmInv, FlowAt, RunnerAt, ConvAt, AfterRunner, Late, Fresh
<1>43. CASE ChildEnds
  BY <1>43
  DEF ChildEnds, RunnerFrame, AlarmInv, FlowAt, RunnerAt, ConvAt, AfterRunner, Late, Fresh
<1>44. CASE GraceExpires
  BY <1>44
  DEF GraceExpires, RunnerFrame, AlarmInv, FlowAt, RunnerAt, ConvAt, AfterRunner, Late,
     Fresh
<1>45. CASE LateAlarm
  <2>1. timer = TRUE /\ (onAlarm = FALSE \/ pc = "teardown")
    BY <1>45, Zenon DEF LateAlarm, Booleans
  <2>2. exitStop = TRUE
    BY <2>1 DEF AlarmInv, RunnerAt
  <2> QED
    BY <1>45, <2>2 DEF LateAlarm, AlarmInv, RunnerAt, FlowAt
<1>46. CASE TeardownStop
  BY <1>46 DEF TeardownStop, AlarmInv, FlowAt, RunnerAt, ConvAt, AfterRunner, Late, Fresh
<1>47. CASE WindowPasses
  BY <1>47 DEF WindowPasses, AlarmInv, FlowAt, RunnerAt, ConvAt, AfterRunner, Late, Fresh
<1>48. ASSUME NEW s \in Stops, sentStops < MaxStops, pc \notin {"teardown", "exit"},
             owner[s] = "early", EarlyStop(s)
      PROVE  AlarmInv'
  BY <1>48
  DEF EarlyStop, Noted, Owners, OwnerOf, Sigs, AlarmInv, FlowAt, RunnerAt, ConvAt,
     AfterRunner, Late, Fresh
<1>49. ASSUME NEW s \in Stops, sentStops < MaxStops, pc \notin {"teardown", "exit"},
             owner[s] = "flow", FlowStop(s)
      PROVE  AlarmInv'
  BY <1>49
  DEF FlowStop, Noted, Interrupted, Owners, OwnerOf, Sigs, AlarmInv, FlowAt, RunnerAt,
     ConvAt, AfterRunner, Late, Fresh
<1>50. ASSUME NEW s \in Stops, sentStops < MaxStops, pc \notin {"teardown", "exit"},
             owner[s] = "runner", RunnerStop(s)
      PROVE  AlarmInv'
  <2>1. /\ UNCHANGED <<pc, onAlarm, died>>
        /\ timer' = (timer \/ (Classify(s, runSignum) = "first" /\ onAlarm))
        /\ exitStop' = (exitStop \/ (Classify(s, runSignum) = "first" /\ pc \notin InBlock))
    BY <1>50 DEF RunnerStop
  <2>2. pc \in {"rEnter", "rRestore"} \cup RunnerAt \cup Late
    BY <1>50, TakenAt, StopsHandled
  <2>3. pc \in InBlock <=> pc \in {"rEnter"} \cup RunnerAt
    BY DEF InBlock, RunnerAt
  <2>4. exitStop' = TRUE <=> exitStop = TRUE \/ (Classify(s, runSignum) = "first" /\ pc \notin InBlock)
    BY <2>1, Zenon DEF Booleans
  <2>5. timer' = TRUE => timer = TRUE \/ (Classify(s, runSignum) = "first" /\ onAlarm = TRUE)
    BY <2>1, Zenon DEF Booleans
  <2>6. pc = "rEnter" => onAlarm = FALSE
    BY DEF AlarmInv
  <2> QED
    BY <2>1, <2>2, <2>3, <2>4, <2>5, <2>6 DEF AlarmInv, RunnerAt, AfterRunner, Late
<1>51. CASE StopArrives
  BY <1>51, <1>48, <1>49, <1>50 DEF StopArrives
<1>52. CASE UNCHANGED vars
  BY <1>52 DEF vars, AlarmInv, FlowAt, RunnerAt, ConvAt, AfterRunner, Late, Fresh
<1> QED
  BY <1>1, <1>2, <1>3, <1>4, <1>5, <1>6, <1>7, <1>8, <1>9, <1>10, <1>11, <1>12, <1>13,
     <1>14, <1>15, <1>16, <1>17, <1>18, <1>19, <1>20, <1>21, <1>22, <1>23, <1>24, <1>25, <1>26,
     <1>27, <1>28, <1>29, <1>30, <1>31, <1>32, <1>33, <1>34, <1>35, <1>36, <1>37, <1>38, <1>39,
     <1>40, <1>41, <1>42, <1>43, <1>44, <1>45, <1>46, <1>47, <1>51, <1>52
  DEF Next, MainProgram, Fault

\* A child runs only while the runner waits for it: kill_group, the grace timer and the
\* child's own end are the ways out of the loop.
LEMMA ChildStep ==
    Names /\ Booleans /\ Owners /\ AlarmInv /\ ChildInv /\ [Next]_vars => ChildInv'
<1> SUFFICES ASSUME Names, Booleans, Owners, AlarmInv, ChildInv, [Next]_vars PROVE ChildInv'
  OBVIOUS
<1> USE DEF sigVars, alarmVars, earlyVars, flowVars, runVars, engineVars, convVars, flagVars, endVars,
   histVars, failVars, gotVars, Goto
<1>1. CASE InstallBegins
  BY <1>1 DEF InstallBegins, ChildInv
<1>2. CASE InstallOne
  BY <1>2 DEF InstallOne, Hand, ChildInv
<1>3. CASE TakeOver
  BY <1>3 DEF TakeOver, ChildInv
<1>4. CASE OpenLog
  BY <1>4 DEF OpenLog, Fails, ChildInv
<1>5. CASE SetupPoll
  BY <1>5 DEF SetupPoll, PollTake, ChildInv
<1>6. CASE SetupPollPrint
  BY <1>6 DEF SetupPollPrint, PollPrint, ChildInv
<1>7. CASE SetupEnds
  BY <1>7 DEF SetupEnds, Ends, ChildInv
<1>8. CASE StepsFail
  BY <1>8 DEF StepsFail, Fails, ChildInv
<1>9. CASE EngineRun
  BY <1>9 DEF EngineRun, ChildInv
<1>10. CASE RunnerEnter
  BY <1>10 DEF RunnerEnter, Hand, ChildInv
<1>11. CASE RunnerTake
  BY <1>11 DEF RunnerTake, ChildInv
<1>12. CASE RunnerCheck
  BY <1>12 DEF RunnerCheck, RunnerFrame, Result, ChildInv
<1>13. CASE RunnerSpawn
  BY <1>13 DEF RunnerSpawn, RunnerFrame, Result, ChildInv
<1>14. CASE RunnerFlags
  BY <1>14 DEF RunnerFlags, RunnerFrame, ChildInv
<1>15. CASE RunnerWait
  BY <1>15 DEF RunnerWait, RunnerFrame, ChildInv
<1>16. CASE RunnerAfter
  BY <1>16 DEF RunnerAfter, RunnerFrame, ChildInv
<1>17. CASE ClassifyVacask
  BY <1>17 DEF ClassifyVacask, RunnerFrame, Result, ChildInv
<1>18. CASE ClassifyXyce
  BY <1>18 DEF ClassifyXyce, RunnerFrame, Maximum, ChildInv
<1>19. CASE RunnerLast
  BY <1>19 DEF RunnerLast, RunnerFrame, ChildInv
<1>20. CASE RunnerRaises
  BY <1>20 DEF RunnerRaises, ChildInv
<1>21. CASE RunnerExit
  BY <1>21 DEF RunnerExit, RunnerFrame, ChildInv
<1>22. CASE RunnerRestore
  BY <1>22 DEF RunnerRestore, Hand, ChildInv
<1>23. CASE RunnerGive
  BY <1>23 DEF RunnerGive, RunnerLeft, Fails, ChildInv
<1>24. CASE RunnerOut
  BY <1>24 DEF RunnerOut, ChildInv
<1>25. CASE Deferred
  BY <1>25 DEF Deferred, ChildInv
<1>26. CASE CountRunners
  BY <1>26 DEF CountRunners, Maximum, ChildInv
<1>27. CASE ConvPoll
  BY <1>27 DEF ConvPoll, PollPrint, ChildInv
<1>28. CASE ConvNext
  BY <1>28 DEF ConvNext, ConvFrame, ChildInv
<1>29. CASE ConvWrite
  BY <1>29 DEF ConvWrite, ConvFrame, ChildInv
<1>30. CASE ConvCut
  BY <1>30 DEF ConvCut, ConvFrame, ChildInv
<1>31. CASE ConvEnd
  BY <1>31 DEF ConvEnd, ConvFrame, Maximum, ChildInv
<1>32. CASE Returned
  BY <1>32 DEF Returned, EndFrame, ChildInv
<1>33. CASE Failed
  BY <1>33 DEF Failed, EndFrame, ChildInv
<1>34. CASE Guarded
  BY <1>34 DEF Guarded, EndFrame, ChildInv
<1>35. CASE Main
  BY <1>35 DEF Main, EndFrame, ChildInv
<1>36. CASE End
  BY <1>36 DEF End, EndFrame, ChildInv
<1>37. CASE Finish
  BY <1>37 DEF Finish, EndFrame, ChildInv
<1>38. CASE LogRaises
  BY <1>38 DEF LogRaises, ChildInv
<1>39. CASE RestoreOne
  BY <1>39 DEF RestoreOne, Hand, ChildInv
<1>40. CASE Exit
  BY <1>40 DEF Exit, EndFrame, ChildInv
<1>41. CASE Gone
  BY <1>41 DEF Gone, EndFrame, ChildInv
<1>42. CASE FlagArrives
  BY <1>42 DEF FlagArrives, ChildInv
<1>43. CASE ChildEnds
  BY <1>43 DEF ChildEnds, RunnerFrame, ChildInv
<1>44. CASE GraceExpires
  BY <1>44 DEF GraceExpires, RunnerFrame, ChildInv
<1>45. CASE LateAlarm
  <2>1. timer = TRUE /\ (onAlarm = FALSE \/ pc = "teardown")
    BY <1>45, Zenon DEF LateAlarm, Booleans
  <2> QED
    BY <1>45, <2>1 DEF LateAlarm, AlarmInv, ChildInv, RunnerAt
<1>46. CASE TeardownStop
  BY <1>46 DEF TeardownStop, ChildInv
<1>47. CASE WindowPasses
  BY <1>47 DEF WindowPasses, ChildInv
<1>48. ASSUME NEW s \in Stops, sentStops < MaxStops, pc \notin {"teardown", "exit"},
             owner[s] = "early", EarlyStop(s)
      PROVE  ChildInv'
  BY <1>48
  DEF EarlyStop, Noted, Owners, OwnerOf, Sigs, FlowAt, RunnerAt, ConvAt, AfterRunner, Late,
     Fresh, ChildInv
<1>49. ASSUME NEW s \in Stops, sentStops < MaxStops, pc \notin {"teardown", "exit"},
             owner[s] = "flow", FlowStop(s)
      PROVE  ChildInv'
  BY <1>49
  DEF FlowStop, Noted, Interrupted, Owners, OwnerOf, Sigs, FlowAt, RunnerAt, ConvAt,
     AfterRunner, Late, Fresh, ChildInv
<1>50. ASSUME NEW s \in Stops, sentStops < MaxStops, pc \notin {"teardown", "exit"},
             owner[s] = "runner", RunnerStop(s)
      PROVE  ChildInv'
  BY <1>50 DEF RunnerStop, Noted, ChildInv
<1>51. CASE StopArrives
  BY <1>51, <1>48, <1>49, <1>50 DEF StopArrives
<1>52. CASE UNCHANGED vars
  BY <1>52 DEF vars, ChildInv
<1> QED
  BY <1>1, <1>2, <1>3, <1>4, <1>5, <1>6, <1>7, <1>8, <1>9, <1>10, <1>11, <1>12, <1>13,
     <1>14, <1>15, <1>16, <1>17, <1>18, <1>19, <1>20, <1>21, <1>22, <1>23, <1>24, <1>25, <1>26,
     <1>27, <1>28, <1>29, <1>30, <1>31, <1>32, <1>33, <1>34, <1>35, <1>36, <1>37, <1>38, <1>39,
     <1>40, <1>41, <1>42, <1>43, <1>44, <1>45, <1>46, <1>47, <1>51, <1>52
  DEF Next, MainProgram, Fault

\* Each level of _Interrupted that is raised inside the handling of another costs one
\* more stop signal.
LEMMA CountStep ==
    Names /\ Numbers /\ Booleans /\ FlowInv /\ CountInv /\ [Next]_vars => CountInv'
<1> SUFFICES ASSUME Names, Numbers, Booleans, FlowInv, CountInv, [Next]_vars PROVE CountInv'
  OBVIOUS
<1> USE DEF sigVars, alarmVars, earlyVars, flowVars, runVars, engineVars, convVars, flagVars, endVars,
   histVars, failVars, gotVars, Goto
<1>1. CASE InstallBegins
  BY <1>1 DEF InstallBegins, CountInv, Numbers
<1>2. CASE InstallOne
  BY <1>2 DEF InstallOne, Hand, CountInv, Numbers
<1>3. CASE TakeOver
  BY <1>3 DEF TakeOver, Booleans, CountInv, Numbers
<1>4. CASE OpenLog
  BY <1>4
  DEF OpenLog, Fails, FlowInv, FlowAt, RunnerAt, ConvAt, AfterRunner, Late, Fresh, CountInv,
     Numbers
<1>5. CASE SetupPoll
  BY <1>5 DEF SetupPoll, PollTake, CountInv, Numbers
<1>6. CASE SetupPollPrint
  BY <1>6 DEF SetupPollPrint, PollPrint, CountInv, Numbers
<1>7. CASE SetupEnds
  BY <1>7 DEF SetupEnds, Ends, CountInv, Numbers
<1>8. CASE StepsFail
  BY <1>8
  DEF StepsFail, Fails, FlowInv, FlowAt, RunnerAt, ConvAt, AfterRunner, Late, Fresh,
     CountInv, Numbers
<1>9. CASE EngineRun
  BY <1>9 DEF EngineRun, CountInv, Numbers
<1>10. CASE RunnerEnter
  BY <1>10 DEF RunnerEnter, Hand, CountInv, Numbers
<1>11. CASE RunnerTake
  BY <1>11 DEF RunnerTake, CountInv, Numbers
<1>12. CASE RunnerCheck
  BY <1>12 DEF RunnerCheck, RunnerFrame, Result, CountInv, Numbers
<1>13. CASE RunnerSpawn
  BY <1>13 DEF RunnerSpawn, RunnerFrame, Result, CountInv, Numbers
<1>14. CASE RunnerFlags
  BY <1>14 DEF RunnerFlags, RunnerFrame, CountInv, Numbers
<1>15. CASE RunnerWait
  BY <1>15 DEF RunnerWait, RunnerFrame, CountInv, Numbers
<1>16. CASE RunnerAfter
  BY <1>16 DEF RunnerAfter, RunnerFrame, CountInv, Numbers
<1>17. CASE ClassifyVacask
  BY <1>17 DEF ClassifyVacask, RunnerFrame, Result, CountInv, Numbers
<1>18. CASE ClassifyXyce
  BY <1>18 DEF ClassifyXyce, RunnerFrame, Maximum, CountInv, Numbers
<1>19. CASE RunnerLast
  BY <1>19 DEF RunnerLast, RunnerFrame, Booleans, CountInv, Numbers
<1>20. CASE RunnerRaises
  BY <1>20 DEF RunnerRaises, CountInv, Numbers
<1>21. CASE RunnerExit
  BY <1>21 DEF RunnerExit, RunnerFrame, CountInv, Numbers
<1>22. CASE RunnerRestore
  BY <1>22 DEF RunnerRestore, Hand, CountInv, Numbers
<1>23. CASE RunnerGive
  BY <1>23
  DEF RunnerGive, RunnerLeft, Fails, FlowInv, FlowAt, RunnerAt, ConvAt, AfterRunner, Late,
     Fresh, CountInv, Numbers
<1>24. CASE RunnerOut
  BY <1>24 DEF RunnerOut, CountInv, Numbers
<1>25. CASE Deferred
  BY <1>25 DEF Deferred, CountInv, Numbers
<1>26. CASE CountRunners
  BY <1>26 DEF CountRunners, Maximum, CountInv, Numbers
<1>27. CASE ConvPoll
  BY <1>27 DEF ConvPoll, PollPrint, CountInv, Numbers
<1>28. CASE ConvNext
  BY <1>28 DEF ConvNext, ConvFrame, CountInv, Numbers
<1>29. CASE ConvWrite
  BY <1>29 DEF ConvWrite, ConvFrame, CountInv, Numbers
<1>30. CASE ConvCut
  BY <1>30 DEF ConvCut, ConvFrame, CountInv, Numbers
<1>31. CASE ConvEnd
  BY <1>31 DEF ConvEnd, ConvFrame, Maximum, CountInv, Numbers
<1>32. CASE Returned
  BY <1>32
  DEF Returned, EndFrame, FlowInv, FlowAt, RunnerAt, ConvAt, AfterRunner, Late, Fresh,
     CountInv, Numbers
<1>33. CASE Failed
  BY <1>33
  DEF Failed, EndFrame, FlowInv, FlowAt, RunnerAt, ConvAt, AfterRunner, Late, Fresh,
     CountInv, Numbers
<1>34. CASE Guarded
  BY <1>34
  DEF Guarded, EndFrame, FlowInv, FlowAt, RunnerAt, ConvAt, AfterRunner, Late, Fresh,
     CountInv, Numbers
<1>35. CASE Main
  BY <1>35
  DEF Main, EndFrame, FlowInv, FlowAt, RunnerAt, ConvAt, AfterRunner, Late, Fresh, CountInv,
     Numbers
<1>36. CASE End
  BY <1>36 DEF End, EndFrame, CountInv, Numbers
<1>37. CASE Finish
  BY <1>37 DEF Finish, EndFrame, CountInv, Numbers
<1>38. CASE LogRaises
  BY <1>38
  DEF LogRaises, FlowInv, FlowAt, RunnerAt, ConvAt, AfterRunner, Late, Fresh, CountInv,
     Numbers
<1>39. CASE RestoreOne
  BY <1>39 DEF RestoreOne, Hand, CountInv, Numbers
<1>40. CASE Exit
  BY <1>40
  DEF Exit, EndFrame, FlowInv, FlowAt, RunnerAt, ConvAt, AfterRunner, Late, Fresh, CountInv,
     Numbers
<1>41. CASE Gone
  BY <1>41
  DEF Gone, EndFrame, FlowInv, FlowAt, RunnerAt, ConvAt, AfterRunner, Late, Fresh, CountInv,
     Numbers
<1>42. CASE FlagArrives
  BY <1>42 DEF FlagArrives, CountInv, Numbers
<1>43. CASE ChildEnds
  BY <1>43 DEF ChildEnds, RunnerFrame, CountInv, Numbers
<1>44. CASE GraceExpires
  BY <1>44 DEF GraceExpires, RunnerFrame, CountInv, Numbers
<1>45. CASE LateAlarm
  BY <1>45 DEF LateAlarm, CountInv, Numbers
<1>46. CASE TeardownStop
  BY <1>46 DEF TeardownStop, CountInv, Numbers
<1>47. CASE WindowPasses
  BY <1>47 DEF WindowPasses, CountInv, Numbers
<1>48. ASSUME NEW s \in Stops, sentStops < MaxStops, pc \notin {"teardown", "exit"},
             owner[s] = "early", EarlyStop(s)
      PROVE  CountInv'
  BY <1>48 DEF EarlyStop, Noted, CountInv, Numbers
<1>49. ASSUME NEW s \in Stops, sentStops < MaxStops, pc \notin {"teardown", "exit"},
             owner[s] = "flow", FlowStop(s)
      PROVE  CountInv'
  BY <1>49
  DEF FlowStop, Noted, Interrupted, FlowInv, Classify, FlowAt, RunnerAt, ConvAt,
     AfterRunner, Late, Fresh, CountInv, Numbers
<1>50. ASSUME NEW s \in Stops, sentStops < MaxStops, pc \notin {"teardown", "exit"},
             owner[s] = "runner", RunnerStop(s)
      PROVE  CountInv'
  <2>1. /\ runSignum' = (runSignum \/ Classify(s, runSignum) # "repeat")
        /\ runSecond' = (runSecond \/ Classify(s, runSignum) = "second")
    BY <1>50 DEF RunnerStop
  <2>2. runSignum \in BOOLEAN /\ (Classify(s, runSignum) = "second" => runSignum = TRUE)
    BY Classified DEF Booleans
  <2>3. (runSecond = TRUE => runSignum = TRUE) /\ runSecond \in BOOLEAN
    BY DEF CountInv, Booleans
  <2>4. (runSignum = TRUE => runSignum' = TRUE) /\ (runSecond = TRUE => runSecond' = TRUE)
    BY <2>1, <2>2, <2>3, Zenon
  <2>5. runSecond' = TRUE => runSignum' = TRUE
    BY <2>1, <2>2, <2>3, Zenon
  <2>6. sentStops' = sentStops + 1 /\ UNCHANGED <<pc, exc, how, flowSignum, earlyStops, failed, logError>>
    BY <1>50 DEF RunnerStop, Noted
  <2> QED
    BY <2>4, <2>5, <2>6 DEF CountInv, Numbers
<1>51. CASE StopArrives
  BY <1>51, <1>48, <1>49, <1>50 DEF StopArrives
<1>52. CASE UNCHANGED vars
  BY <1>52 DEF vars, CountInv, Numbers
<1> QED
  BY <1>1, <1>2, <1>3, <1>4, <1>5, <1>6, <1>7, <1>8, <1>9, <1>10, <1>11, <1>12, <1>13,
     <1>14, <1>15, <1>16, <1>17, <1>18, <1>19, <1>20, <1>21, <1>22, <1>23, <1>24, <1>25, <1>26,
     <1>27, <1>28, <1>29, <1>30, <1>31, <1>32, <1>33, <1>34, <1>35, <1>36, <1>37, <1>38, <1>39,
     <1>40, <1>41, <1>42, <1>43, <1>44, <1>45, <1>46, <1>47, <1>51, <1>52
  DEF Next, MainProgram, Fault

\* end() prints the trailer with the status that guarded or main has set, once; after
\* it only a second signal in cli.py's restored handler changes the status.
LEMMA TrailerStep ==
    Names /\ Numbers /\ Booleans /\ Owners /\ FlowInv /\ AlarmInv /\ CountInv
       /\ TrailerInv /\ [Next]_vars
    => TrailerInv'
<1> SUFFICES ASSUME Names, Numbers, Booleans, Owners, FlowInv, AlarmInv, CountInv, TrailerInv,
                    [Next]_vars
             PROVE  TrailerInv'
  OBVIOUS
<1> USE DEF sigVars, alarmVars, earlyVars, flowVars, runVars, engineVars, convVars, flagVars, endVars,
   histVars, failVars, gotVars, Goto
<1>1. CASE InstallBegins
  BY <1>1
  DEF InstallBegins, TrailerInv, FlowInv, FlowAt, RunnerAt, ConvAt, AfterRunner, Late, Fresh
<1>2. CASE InstallOne
  BY <1>2
  DEF InstallOne, Hand, TrailerInv, FlowInv, FlowAt, RunnerAt, ConvAt, AfterRunner, Late,
     Fresh
<1>3. CASE TakeOver
  BY <1>3
  DEF TakeOver, TrailerInv, FlowInv, FlowAt, RunnerAt, ConvAt, AfterRunner, Late, Fresh
<1>4. CASE OpenLog
  BY <1>4
  DEF OpenLog, Fails, TrailerInv, FlowInv, FlowAt, RunnerAt, ConvAt, AfterRunner, Late,
     Fresh
<1>5. CASE SetupPoll
  BY <1>5
  DEF SetupPoll, PollTake, TrailerInv, FlowInv, FlowAt, RunnerAt, ConvAt, AfterRunner, Late,
     Fresh
<1>6. CASE SetupPollPrint
  BY <1>6
  DEF SetupPollPrint, PollPrint, TrailerInv, FlowInv, FlowAt, RunnerAt, ConvAt, AfterRunner,
     Late, Fresh
<1>7. CASE SetupEnds
  BY <1>7
  DEF SetupEnds, Ends, TrailerInv, FlowInv, FlowAt, RunnerAt, ConvAt, AfterRunner, Late,
     Fresh
<1>8. CASE StepsFail
  BY <1>8
  DEF StepsFail, Fails, TrailerInv, FlowInv, FlowAt, RunnerAt, ConvAt, AfterRunner, Late,
     Fresh
<1>9. CASE EngineRun
  BY <1>9
  DEF EngineRun, TrailerInv, FlowInv, FlowAt, RunnerAt, ConvAt, AfterRunner, Late, Fresh
<1>10. CASE RunnerEnter
  BY <1>10
  DEF RunnerEnter, Hand, TrailerInv, FlowInv, FlowAt, RunnerAt, ConvAt, AfterRunner, Late,
     Fresh
<1>11. CASE RunnerTake
  BY <1>11
  DEF RunnerTake, TrailerInv, FlowInv, FlowAt, RunnerAt, ConvAt, AfterRunner, Late, Fresh
<1>12. CASE RunnerCheck
  BY <1>12
  DEF RunnerCheck, RunnerFrame, Result, TrailerInv, FlowInv, FlowAt, RunnerAt, ConvAt,
     AfterRunner, Late, Fresh
<1>13. CASE RunnerSpawn
  BY <1>13
  DEF RunnerSpawn, RunnerFrame, Result, TrailerInv, FlowInv, FlowAt, RunnerAt, ConvAt,
     AfterRunner, Late, Fresh
<1>14. CASE RunnerFlags
  BY <1>14
  DEF RunnerFlags, RunnerFrame, TrailerInv, FlowInv, FlowAt, RunnerAt, ConvAt, AfterRunner,
     Late, Fresh
<1>15. CASE RunnerWait
  BY <1>15
  DEF RunnerWait, RunnerFrame, TrailerInv, FlowInv, FlowAt, RunnerAt, ConvAt, AfterRunner,
     Late, Fresh
<1>16. CASE RunnerAfter
  BY <1>16
  DEF RunnerAfter, RunnerFrame, TrailerInv, FlowInv, FlowAt, RunnerAt, ConvAt, AfterRunner,
     Late, Fresh
<1>17. CASE ClassifyVacask
  BY <1>17
  DEF ClassifyVacask, RunnerFrame, Result, TrailerInv, FlowInv, FlowAt, RunnerAt, ConvAt,
     AfterRunner, Late, Fresh
<1>18. CASE ClassifyXyce
  BY <1>18
  DEF ClassifyXyce, RunnerFrame, Maximum, TrailerInv, FlowInv, FlowAt, RunnerAt, ConvAt,
     AfterRunner, Late, Fresh
<1>19. CASE RunnerLast
  BY <1>19
  DEF RunnerLast, RunnerFrame, TrailerInv, FlowInv, FlowAt, RunnerAt, ConvAt, AfterRunner,
     Late, Fresh
<1>20. CASE RunnerRaises
  BY <1>20
  DEF RunnerRaises, TrailerInv, FlowInv, FlowAt, RunnerAt, ConvAt, AfterRunner, Late, Fresh
<1>21. CASE RunnerExit
  BY <1>21
  DEF RunnerExit, RunnerFrame, TrailerInv, FlowInv, FlowAt, RunnerAt, ConvAt, AfterRunner,
     Late, Fresh
<1>22. CASE RunnerRestore
  BY <1>22
  DEF RunnerRestore, Hand, TrailerInv, FlowInv, FlowAt, RunnerAt, ConvAt, AfterRunner, Late,
     Fresh
<1>23. CASE RunnerGive
  BY <1>23
  DEF RunnerGive, RunnerLeft, Fails, TrailerInv, FlowInv, FlowAt, RunnerAt, ConvAt,
     AfterRunner, Late, Fresh
<1>24. CASE RunnerOut
  BY <1>24
  DEF RunnerOut, TrailerInv, FlowInv, FlowAt, RunnerAt, ConvAt, AfterRunner, Late, Fresh
<1>25. CASE Deferred
  BY <1>25
  DEF Deferred, TrailerInv, FlowInv, FlowAt, RunnerAt, ConvAt, AfterRunner, Late, Fresh
<1>26. CASE CountRunners
  BY <1>26
  DEF CountRunners, Maximum, TrailerInv, FlowInv, FlowAt, RunnerAt, ConvAt, AfterRunner,
     Late, Fresh
<1>27. CASE ConvPoll
  BY <1>27
  DEF ConvPoll, PollPrint, TrailerInv, FlowInv, FlowAt, RunnerAt, ConvAt, AfterRunner, Late,
     Fresh
<1>28. CASE ConvNext
  BY <1>28
  DEF ConvNext, ConvFrame, TrailerInv, FlowInv, FlowAt, RunnerAt, ConvAt, AfterRunner, Late,
     Fresh
<1>29. CASE ConvWrite
  BY <1>29
  DEF ConvWrite, ConvFrame, TrailerInv, FlowInv, FlowAt, RunnerAt, ConvAt, AfterRunner,
     Late, Fresh
<1>30. CASE ConvCut
  BY <1>30
  DEF ConvCut, ConvFrame, TrailerInv, FlowInv, FlowAt, RunnerAt, ConvAt, AfterRunner, Late,
     Fresh
<1>31. CASE ConvEnd
  BY <1>31
  DEF ConvEnd, ConvFrame, Maximum, TrailerInv, FlowInv, FlowAt, RunnerAt, ConvAt,
     AfterRunner, Late, Fresh
<1>32. CASE Returned
  BY <1>32
  DEF Returned, EndFrame, TrailerInv, FlowInv, FlowAt, RunnerAt, ConvAt, AfterRunner, Late,
     Fresh
<1>33. CASE Failed
  BY <1>33
  DEF Failed, EndFrame, TrailerInv, FlowInv, FlowAt, RunnerAt, ConvAt, AfterRunner, Late,
     Fresh
<1>34. CASE Guarded
  BY <1>34
  DEF Guarded, EndFrame, TrailerInv, FlowInv, FlowAt, RunnerAt, ConvAt, AfterRunner, Late,
     Fresh
<1>35. CASE Main
  BY <1>35
  DEF Main, EndFrame, TrailerInv, FlowInv, FlowAt, RunnerAt, ConvAt, AfterRunner, Late,
     Fresh
<1>36. CASE End
  BY <1>36
  DEF End, EndFrame, TrailerInv, FlowInv, FlowAt, RunnerAt, ConvAt, AfterRunner, Late, Fresh
<1>37. CASE Finish
  <2>1. trailer = <<>> /\ trailer' = Append(trailer, status) /\ pc' = "restore" /\ pc = "finish"
    BY <1>37 DEF Finish, TrailerInv
  <2>2. Len(trailer') = 1 /\ trailer'[1] = status /\ trailer' # <<>>
    BY <2>1
  <2>3. UNCHANGED <<how, flowState, status, quietRun>> /\ flowState = "quiet" /\ how # "escaped"
    BY <1>37 DEF Finish, FlowInv, CountInv
  <2> QED
    BY <2>1, <2>2, <2>3 DEF TrailerInv
<1>38. CASE LogRaises
  BY <1>38
  DEF LogRaises, CountInv, TrailerInv, FlowInv, FlowAt, RunnerAt, ConvAt, AfterRunner, Late,
     Fresh
<1>39. CASE RestoreOne
  BY <1>39
  DEF RestoreOne, Hand, TrailerInv, FlowInv, FlowAt, RunnerAt, ConvAt, AfterRunner, Late,
     Fresh
<1>40. CASE Exit
  BY <1>40
  DEF Exit, EndFrame, CountInv, TrailerInv, FlowInv, FlowAt, RunnerAt, ConvAt, AfterRunner,
     Late, Fresh
<1>41. CASE Gone
  BY <1>41
  DEF Gone, EndFrame, CountInv, TrailerInv, FlowInv, FlowAt, RunnerAt, ConvAt, AfterRunner,
     Late, Fresh
<1>42. CASE FlagArrives
  BY <1>42
  DEF FlagArrives, TrailerInv, FlowInv, FlowAt, RunnerAt, ConvAt, AfterRunner, Late, Fresh
<1>43. CASE ChildEnds
  BY <1>43
  DEF ChildEnds, RunnerFrame, TrailerInv, FlowInv, FlowAt, RunnerAt, ConvAt, AfterRunner,
     Late, Fresh
<1>44. CASE GraceExpires
  BY <1>44
  DEF GraceExpires, RunnerFrame, TrailerInv, FlowInv, FlowAt, RunnerAt, ConvAt, AfterRunner,
     Late, Fresh
<1>45. CASE LateAlarm
  BY <1>45
  DEF LateAlarm, TrailerInv, FlowInv, FlowAt, RunnerAt, ConvAt, AfterRunner, Late, Fresh
<1>46. CASE TeardownStop
  BY <1>46
  DEF TeardownStop, AlarmInv, TrailerInv, FlowInv, FlowAt, RunnerAt, ConvAt, AfterRunner,
     Late, Fresh
<1>47. CASE WindowPasses
  BY <1>47
  DEF WindowPasses, TrailerInv, FlowInv, FlowAt, RunnerAt, ConvAt, AfterRunner, Late, Fresh
<1>48. ASSUME NEW s \in Stops, sentStops < MaxStops, pc \notin {"teardown", "exit"},
             owner[s] = "early", EarlyStop(s)
      PROVE  TrailerInv'
  <2> DEFINE kind == Classify(s, earlyStops > 0)
  <2>1. pc \in {"start", "install", "restore", "done"}
    BY <1>48, TakenAt, StopsHandled
  <2>2. kind \in {"repeat", "first", "second"} /\ (kind = "second" => earlyStops > 0)
    <3>1. (earlyStops > 0) \in BOOLEAN
      OBVIOUS
    <3> QED
      BY <3>1, Classified
  <2>3. /\ earlyStops' = IF kind = "repeat" THEN earlyStops ELSE earlyStops + 1
        /\ UNCHANGED <<trailer, how, quietRun, flowState, died>>
        /\ IF kind = "second" THEN pc' = "exit" ELSE UNCHANGED <<pc, status>>
    BY <1>48 DEF EarlyStop
  <2>4. earlyStops \in Nat
    BY DEF Numbers
  <2> HIDE DEF kind
  <2>5. CASE kind = "second"
    BY <2>1, <2>2, <2>3, <2>4, <2>5 DEF TrailerInv, FlowInv
  <2>6. CASE kind # "second"
    BY <2>1, <2>3, <2>6 DEF TrailerInv
  <2> QED
    BY <2>5, <2>6
<1>49. ASSUME NEW s \in Stops, sentStops < MaxStops, pc \notin {"teardown", "exit"},
             owner[s] = "flow", FlowStop(s)
      PROVE  TrailerInv'
  BY <1>49
  DEF FlowStop, Noted, Interrupted, Names, TrailerInv, FlowInv, FlowAt, RunnerAt, ConvAt,
     AfterRunner, Late, Fresh
<1>50. ASSUME NEW s \in Stops, sentStops < MaxStops, pc \notin {"teardown", "exit"},
             owner[s] = "runner", RunnerStop(s)
      PROVE  TrailerInv'
  BY <1>50
  DEF RunnerStop, Noted, TrailerInv, FlowInv, FlowAt, RunnerAt, ConvAt, AfterRunner, Late,
     Fresh
<1>51. CASE StopArrives
  BY <1>51, <1>48, <1>49, <1>50 DEF StopArrives
<1>52. CASE UNCHANGED vars
  BY <1>52 DEF vars, TrailerInv, FlowInv, FlowAt, RunnerAt, ConvAt, AfterRunner, Late, Fresh
<1> QED
  BY <1>1, <1>2, <1>3, <1>4, <1>5, <1>6, <1>7, <1>8, <1>9, <1>10, <1>11, <1>12, <1>13,
     <1>14, <1>15, <1>16, <1>17, <1>18, <1>19, <1>20, <1>21, <1>22, <1>23, <1>24, <1>25, <1>26,
     <1>27, <1>28, <1>29, <1>30, <1>31, <1>32, <1>33, <1>34, <1>35, <1>36, <1>37, <1>38, <1>39,
     <1>40, <1>41, <1>42, <1>43, <1>44, <1>45, <1>46, <1>47, <1>51, <1>52
  DEF Next, MainProgram, Fault

\* end() has a status of 0 to 3 to print.
LEMMA StatusStep ==
    Names /\ Numbers /\ Owners /\ FlowInv /\ TrailerInv /\ StatusInv /\ [Next]_vars => StatusInv'
<1> SUFFICES ASSUME Names, Numbers, Owners, FlowInv, TrailerInv, StatusInv, [Next]_vars
             PROVE  StatusInv'
  OBVIOUS
<1> USE DEF sigVars, alarmVars, earlyVars, flowVars, runVars, engineVars, convVars, flagVars, endVars,
   histVars, failVars, gotVars, Goto
<1>1. CASE InstallBegins
  BY <1>1 DEF InstallBegins, StatusInv, Numbers
<1>2. CASE InstallOne
  BY <1>2 DEF InstallOne, Hand, StatusInv, Numbers
<1>3. CASE TakeOver
  BY <1>3 DEF TakeOver, StatusInv, Numbers
<1>4. CASE OpenLog
  BY <1>4 DEF OpenLog, Fails, StatusInv, Numbers
<1>5. CASE SetupPoll
  BY <1>5 DEF SetupPoll, PollTake, StatusInv, Numbers
<1>6. CASE SetupPollPrint
  BY <1>6 DEF SetupPollPrint, PollPrint, StatusInv, Numbers
<1>7. CASE SetupEnds
  BY <1>7 DEF SetupEnds, Ends, StatusInv, Numbers
<1>8. CASE StepsFail
  BY <1>8 DEF StepsFail, Fails, StatusInv, Numbers
<1>9. CASE EngineRun
  BY <1>9 DEF EngineRun, StatusInv, Numbers
<1>10. CASE RunnerEnter
  BY <1>10 DEF RunnerEnter, Hand, StatusInv, Numbers
<1>11. CASE RunnerTake
  BY <1>11 DEF RunnerTake, StatusInv, Numbers
<1>12. CASE RunnerCheck
  BY <1>12 DEF RunnerCheck, RunnerFrame, Result, StatusInv, Numbers
<1>13. CASE RunnerSpawn
  BY <1>13 DEF RunnerSpawn, RunnerFrame, Result, StatusInv, Numbers
<1>14. CASE RunnerFlags
  BY <1>14 DEF RunnerFlags, RunnerFrame, StatusInv, Numbers
<1>15. CASE RunnerWait
  BY <1>15 DEF RunnerWait, RunnerFrame, StatusInv, Numbers
<1>16. CASE RunnerAfter
  BY <1>16 DEF RunnerAfter, RunnerFrame, StatusInv, Numbers
<1>17. CASE ClassifyVacask
  BY <1>17 DEF ClassifyVacask, RunnerFrame, Result, StatusInv, Numbers
<1>18. CASE ClassifyXyce
  BY <1>18 DEF ClassifyXyce, RunnerFrame, Maximum, StatusInv, Numbers
<1>19. CASE RunnerLast
  BY <1>19 DEF RunnerLast, RunnerFrame, StatusInv, Numbers
<1>20. CASE RunnerRaises
  BY <1>20 DEF RunnerRaises, StatusInv, Numbers
<1>21. CASE RunnerExit
  BY <1>21 DEF RunnerExit, RunnerFrame, StatusInv, Numbers
<1>22. CASE RunnerRestore
  BY <1>22 DEF RunnerRestore, Hand, StatusInv, Numbers
<1>23. CASE RunnerGive
  BY <1>23 DEF RunnerGive, RunnerLeft, Fails, StatusInv, Numbers
<1>24. CASE RunnerOut
  BY <1>24 DEF RunnerOut, StatusInv, Numbers
<1>25. CASE Deferred
  BY <1>25 DEF Deferred, StatusInv, Numbers
<1>26. CASE CountRunners
  BY <1>26 DEF CountRunners, Maximum, StatusInv, Numbers
<1>27. CASE ConvPoll
  BY <1>27 DEF ConvPoll, PollPrint, StatusInv, Numbers
<1>28. CASE ConvNext
  BY <1>28 DEF ConvNext, ConvFrame, StatusInv, Numbers
<1>29. CASE ConvWrite
  BY <1>29 DEF ConvWrite, ConvFrame, StatusInv, Numbers
<1>30. CASE ConvCut
  BY <1>30 DEF ConvCut, ConvFrame, StatusInv, Numbers
<1>31. CASE ConvEnd
  BY <1>31 DEF ConvEnd, ConvFrame, Maximum, StatusInv, Numbers
<1>32. CASE Returned
  BY <1>32 DEF Returned, EndFrame, StatusInv, Numbers
<1>33. CASE Failed
  BY <1>33 DEF Failed, EndFrame, StatusInv, Numbers
<1>34. CASE Guarded
  BY <1>34 DEF Guarded, EndFrame, StatusInv, Numbers
<1>35. CASE Main
  BY <1>35 DEF Main, EndFrame, StatusInv, Numbers
<1>36. CASE End
  BY <1>36 DEF End, EndFrame, StatusInv, Numbers
<1>37. CASE Finish
  <2>1. trailer = <<>> /\ trailer' = Append(trailer, status) /\ pc' = "restore" /\ status \in 0 .. 3
    BY <1>37 DEF Finish, TrailerInv, StatusInv
  <2> QED
    BY <2>1 DEF StatusInv
<1>38. CASE LogRaises
  BY <1>38 DEF LogRaises, StatusInv, Numbers
<1>39. CASE RestoreOne
  BY <1>39 DEF RestoreOne, Hand, StatusInv, Numbers
<1>40. CASE Exit
  BY <1>40 DEF Exit, EndFrame, StatusInv, Numbers
<1>41. CASE Gone
  BY <1>41 DEF Gone, EndFrame, StatusInv, Numbers
<1>42. CASE FlagArrives
  BY <1>42 DEF FlagArrives, StatusInv, Numbers
<1>43. CASE ChildEnds
  BY <1>43 DEF ChildEnds, RunnerFrame, StatusInv, Numbers
<1>44. CASE GraceExpires
  BY <1>44 DEF GraceExpires, RunnerFrame, StatusInv, Numbers
<1>45. CASE LateAlarm
  BY <1>45 DEF LateAlarm, StatusInv, Numbers
<1>46. CASE TeardownStop
  BY <1>46 DEF TeardownStop, StatusInv, Numbers
<1>47. CASE WindowPasses
  BY <1>47 DEF WindowPasses, StatusInv, Numbers
<1>48. ASSUME NEW s \in Stops, sentStops < MaxStops, pc \notin {"teardown", "exit"},
             owner[s] = "early", EarlyStop(s)
      PROVE  StatusInv'
  <2>1. pc \in {"start", "install", "restore", "done"}
    BY <1>48, TakenAt, StopsHandled
  <2>2. pc' \in {pc, "exit"} /\ UNCHANGED trailer
    BY <1>48 DEF EarlyStop
  <2> QED
    BY <2>1, <2>2 DEF StatusInv
<1>49. ASSUME NEW s \in Stops, sentStops < MaxStops, pc \notin {"teardown", "exit"},
             owner[s] = "flow", FlowStop(s)
      PROVE  StatusInv'
  BY <1>49 DEF FlowStop, Noted, Interrupted, FlowInv, StatusInv, Numbers
<1>50. ASSUME NEW s \in Stops, sentStops < MaxStops, pc \notin {"teardown", "exit"},
             owner[s] = "runner", RunnerStop(s)
      PROVE  StatusInv'
  BY <1>50 DEF RunnerStop, Noted, StatusInv, Numbers
<1>51. CASE StopArrives
  BY <1>51, <1>48, <1>49, <1>50 DEF StopArrives
<1>52. CASE UNCHANGED vars
  BY <1>52 DEF vars, StatusInv, Numbers
<1> QED
  BY <1>1, <1>2, <1>3, <1>4, <1>5, <1>6, <1>7, <1>8, <1>9, <1>10, <1>11, <1>12, <1>13,
     <1>14, <1>15, <1>16, <1>17, <1>18, <1>19, <1>20, <1>21, <1>22, <1>23, <1>24, <1>25, <1>26,
     <1>27, <1>28, <1>29, <1>30, <1>31, <1>32, <1>33, <1>34, <1>35, <1>36, <1>37, <1>38, <1>39,
     <1>40, <1>41, <1>42, <1>43, <1>44, <1>45, <1>46, <1>47, <1>51, <1>52
  DEF Next, MainProgram, Fault

\* A taken stop signal is in one of the records, and each record reaches the status: the
\* early one by the take-over, the flow's by OpenLog or convert, the runner's by rc.
LEMMA ThreeStep ==
    Engine = "xyce" /\ Names /\ Numbers /\ Booleans /\ Owners /\ FlowInv /\ ThreeInv /\
       [Next]_vars
    => ThreeInv'
<1> SUFFICES ASSUME Engine = "xyce", Names, Numbers, Booleans, Owners, FlowInv, ThreeInv,
                    [Next]_vars
             PROVE  ThreeInv'
  OBVIOUS
<1> USE DEF sigVars, alarmVars, earlyVars, flowVars, runVars, engineVars, convVars, flagVars, endVars,
   histVars, failVars, gotVars, Goto
<1>1. CASE InstallBegins
  BY <1>1
  DEF InstallBegins, ThreeInv, FlowInv, FlowAt, RunnerAt, ConvAt, AfterRunner, Late, Fresh
<1>2. CASE InstallOne
  BY <1>2
  DEF InstallOne, Hand, ThreeInv, FlowInv, FlowAt, RunnerAt, ConvAt, AfterRunner, Late,
     Fresh
<1>3. CASE TakeOver
  BY <1>3
  DEF TakeOver, Booleans, Numbers, ThreeInv, FlowInv, FlowAt, RunnerAt, ConvAt, AfterRunner,
     Late, Fresh
<1>4. CASE OpenLog
  BY <1>4
  DEF OpenLog, Fails, ThreeInv, FlowInv, FlowAt, RunnerAt, ConvAt, AfterRunner, Late, Fresh
<1>5. CASE SetupPoll
  BY <1>5
  DEF SetupPoll, PollTake, ThreeInv, FlowInv, FlowAt, RunnerAt, ConvAt, AfterRunner, Late,
     Fresh
<1>6. CASE SetupPollPrint
  BY <1>6
  DEF SetupPollPrint, PollPrint, ThreeInv, FlowInv, FlowAt, RunnerAt, ConvAt, AfterRunner,
     Late, Fresh
<1>7. CASE SetupEnds
  BY <1>7
  DEF SetupEnds, Ends, ThreeInv, FlowInv, FlowAt, RunnerAt, ConvAt, AfterRunner, Late, Fresh
<1>8. CASE StepsFail
  BY <1>8
  DEF StepsFail, Fails, ThreeInv, FlowInv, FlowAt, RunnerAt, ConvAt, AfterRunner, Late,
     Fresh
<1>9. CASE EngineRun
  BY <1>9 DEF EngineRun, ThreeInv, FlowInv, FlowAt, RunnerAt, ConvAt, AfterRunner, Late, Fresh
<1>10. CASE RunnerEnter
  BY <1>10
  DEF RunnerEnter, Hand, ThreeInv, FlowInv, FlowAt, RunnerAt, ConvAt, AfterRunner, Late,
     Fresh
<1>11. CASE RunnerTake
  BY <1>11
  DEF RunnerTake, ThreeInv, FlowInv, FlowAt, RunnerAt, ConvAt, AfterRunner, Late, Fresh
<1>12. CASE RunnerCheck
  BY <1>12
  DEF RunnerCheck, RunnerFrame, Result, ThreeInv, FlowInv, FlowAt, RunnerAt, ConvAt,
     AfterRunner, Late, Fresh
<1>13. CASE RunnerSpawn
  BY <1>13
  DEF RunnerSpawn, RunnerFrame, Result, ThreeInv, FlowInv, FlowAt, RunnerAt, ConvAt,
     AfterRunner, Late, Fresh
<1>14. CASE RunnerFlags
  BY <1>14
  DEF RunnerFlags, RunnerFrame, ThreeInv, FlowInv, FlowAt, RunnerAt, ConvAt, AfterRunner,
     Late, Fresh
<1>15. CASE RunnerWait
  BY <1>15
  DEF RunnerWait, RunnerFrame, ThreeInv, FlowInv, FlowAt, RunnerAt, ConvAt, AfterRunner,
     Late, Fresh
<1>16. CASE RunnerAfter
  BY <1>16
  DEF RunnerAfter, RunnerFrame, ThreeInv, FlowInv, FlowAt, RunnerAt, ConvAt, AfterRunner,
     Late, Fresh
<1>17. CASE ClassifyVacask
  BY <1>17
  DEF ClassifyVacask, RunnerFrame, Result, ThreeInv, FlowInv, FlowAt, RunnerAt, ConvAt,
     AfterRunner, Late, Fresh
<1>18. CASE ClassifyXyce
  BY <1>18
  DEF ClassifyXyce, RunnerFrame, Maximum, ThreeInv, FlowInv, FlowAt, RunnerAt, ConvAt,
     AfterRunner, Late, Fresh
<1>19. CASE RunnerLast
  BY <1>19
  DEF RunnerLast, RunnerFrame, ThreeInv, FlowInv, FlowAt, RunnerAt, ConvAt, AfterRunner,
     Late, Fresh
<1>20. CASE RunnerRaises
  BY <1>20
  DEF RunnerRaises, ThreeInv, FlowInv, FlowAt, RunnerAt, ConvAt, AfterRunner, Late, Fresh
<1>21. CASE RunnerExit
  BY <1>21
  DEF RunnerExit, RunnerFrame, ThreeInv, FlowInv, FlowAt, RunnerAt, ConvAt, AfterRunner,
     Late, Fresh
<1>22. CASE RunnerRestore
  BY <1>22
  DEF RunnerRestore, Hand, ThreeInv, FlowInv, FlowAt, RunnerAt, ConvAt, AfterRunner, Late,
     Fresh
<1>23. CASE RunnerGive
  BY <1>23
  DEF RunnerGive, RunnerLeft, Fails, ThreeInv, FlowInv, FlowAt, RunnerAt, ConvAt,
     AfterRunner, Late, Fresh
<1>24. CASE RunnerOut
  BY <1>24
  DEF RunnerOut, ThreeInv, FlowInv, FlowAt, RunnerAt, ConvAt, AfterRunner, Late, Fresh
<1>25. CASE Deferred
  BY <1>25 DEF Deferred, ThreeInv, FlowInv, FlowAt, RunnerAt, ConvAt, AfterRunner, Late, Fresh
<1>26. CASE CountRunners
  BY <1>26
  DEF CountRunners, Maximum, ThreeInv, FlowInv, FlowAt, RunnerAt, ConvAt, AfterRunner, Late,
     Fresh
<1>27. CASE ConvPoll
  BY <1>27
  DEF ConvPoll, PollPrint, ThreeInv, FlowInv, FlowAt, RunnerAt, ConvAt, AfterRunner, Late,
     Fresh
<1>28. CASE ConvNext
  BY <1>28
  DEF ConvNext, ConvFrame, ThreeInv, FlowInv, FlowAt, RunnerAt, ConvAt, AfterRunner, Late,
     Fresh
<1>29. CASE ConvWrite
  BY <1>29
  DEF ConvWrite, ConvFrame, ThreeInv, FlowInv, FlowAt, RunnerAt, ConvAt, AfterRunner, Late,
     Fresh
<1>30. CASE ConvCut
  BY <1>30
  DEF ConvCut, ConvFrame, ThreeInv, FlowInv, FlowAt, RunnerAt, ConvAt, AfterRunner, Late,
     Fresh
<1>31. CASE ConvEnd
  BY <1>31
  DEF ConvEnd, ConvFrame, Maximum, Numbers, ThreeInv, FlowInv, FlowAt, RunnerAt, ConvAt,
     AfterRunner, Late, Fresh
<1>32. CASE Returned
  BY <1>32
  DEF Returned, EndFrame, ThreeInv, FlowInv, FlowAt, RunnerAt, ConvAt, AfterRunner, Late,
     Fresh
<1>33. CASE Failed
  BY <1>33
  DEF Failed, EndFrame, ThreeInv, FlowInv, FlowAt, RunnerAt, ConvAt, AfterRunner, Late,
     Fresh
<1>34. CASE Guarded
  BY <1>34
  DEF Guarded, EndFrame, ThreeInv, FlowInv, FlowAt, RunnerAt, ConvAt, AfterRunner, Late,
     Fresh
<1>35. CASE Main
  BY <1>35
  DEF Main, EndFrame, ThreeInv, FlowInv, FlowAt, RunnerAt, ConvAt, AfterRunner, Late, Fresh
<1>36. CASE End
  BY <1>36
  DEF End, EndFrame, ThreeInv, FlowInv, FlowAt, RunnerAt, ConvAt, AfterRunner, Late, Fresh
<1>37. CASE Finish
  BY <1>37
  DEF Finish, EndFrame, ThreeInv, FlowInv, FlowAt, RunnerAt, ConvAt, AfterRunner, Late,
     Fresh
<1>38. CASE LogRaises
  BY <1>38
  DEF LogRaises, ThreeInv, FlowInv, FlowAt, RunnerAt, ConvAt, AfterRunner, Late, Fresh
<1>39. CASE RestoreOne
  BY <1>39
  DEF RestoreOne, Hand, ThreeInv, FlowInv, FlowAt, RunnerAt, ConvAt, AfterRunner, Late,
     Fresh
<1>40. CASE Exit
  BY <1>40
  DEF Exit, EndFrame, ThreeInv, FlowInv, FlowAt, RunnerAt, ConvAt, AfterRunner, Late, Fresh
<1>41. CASE Gone
  BY <1>41
  DEF Gone, EndFrame, ThreeInv, FlowInv, FlowAt, RunnerAt, ConvAt, AfterRunner, Late, Fresh
<1>42. CASE FlagArrives
  BY <1>42
  DEF FlagArrives, ThreeInv, FlowInv, FlowAt, RunnerAt, ConvAt, AfterRunner, Late, Fresh
<1>43. CASE ChildEnds
  BY <1>43
  DEF ChildEnds, RunnerFrame, ThreeInv, FlowInv, FlowAt, RunnerAt, ConvAt, AfterRunner,
     Late, Fresh
<1>44. CASE GraceExpires
  BY <1>44
  DEF GraceExpires, RunnerFrame, ThreeInv, FlowInv, FlowAt, RunnerAt, ConvAt, AfterRunner,
     Late, Fresh
<1>45. CASE LateAlarm
  BY <1>45
  DEF LateAlarm, ThreeInv, FlowInv, FlowAt, RunnerAt, ConvAt, AfterRunner, Late, Fresh
<1>46. CASE TeardownStop
  BY <1>46
  DEF TeardownStop, ThreeInv, FlowInv, FlowAt, RunnerAt, ConvAt, AfterRunner, Late, Fresh
<1>47. CASE WindowPasses
  BY <1>47
  DEF WindowPasses, ThreeInv, FlowInv, FlowAt, RunnerAt, ConvAt, AfterRunner, Late, Fresh
<1>48. ASSUME NEW s \in Stops, sentStops < MaxStops, pc \notin {"teardown", "exit"},
             owner[s] = "early", EarlyStop(s)
      PROVE  ThreeInv'
  <2> DEFINE kind == Classify(s, earlyStops > 0)
  <2>1. pc \in {"start", "install", "restore", "done"}
    BY <1>48, TakenAt, StopsHandled
  <2>2. stopTaken' = TRUE => stopTaken = TRUE \/ (kind # "repeat" /\ flowState # "quiet")
    BY <1>48, Zenon DEF EarlyStop, Noted, Booleans
  <2>3. /\ earlyStops' = IF kind = "repeat" THEN earlyStops ELSE earlyStops + 1
        /\ UNCHANGED <<how, flowState, flowSignum, died>>
        /\ IF kind = "second" THEN pc' = "exit" /\ status' = 3 ELSE UNCHANGED <<pc, status>>
    BY <1>48 DEF EarlyStop
  <2>4. earlyStops \in Nat
    BY DEF Numbers
  <2> HIDE DEF kind
  <2>5. CASE kind = "second"
    BY <2>3, <2>5 DEF ThreeInv, RunnerAt, ConvAt
  <2>6. CASE kind # "second"
    BY <2>1, <2>2, <2>3, <2>4, <2>6 DEF ThreeInv, FlowInv, RunnerAt, ConvAt
  <2> QED
    BY <2>5, <2>6
<1>49. ASSUME NEW s \in Stops, sentStops < MaxStops, pc \notin {"teardown", "exit"},
             owner[s] = "flow", FlowStop(s)
      PROVE  ThreeInv'
  BY <1>49
  DEF FlowStop, Noted, Interrupted, Owners, OwnerOf, Sigs, Classify, ThreeInv, FlowInv,
     FlowAt, RunnerAt, ConvAt, AfterRunner, Late, Fresh
<1>50. ASSUME NEW s \in Stops, sentStops < MaxStops, pc \notin {"teardown", "exit"},
             owner[s] = "runner", RunnerStop(s)
      PROVE  ThreeInv'
  BY <1>50
  DEF RunnerStop, Noted, Owners, OwnerOf, Sigs, Classify, Booleans, ThreeInv, FlowInv,
     FlowAt, RunnerAt, ConvAt, AfterRunner, Late, Fresh
<1>51. CASE StopArrives
  BY <1>51, <1>48, <1>49, <1>50 DEF StopArrives
<1>52. CASE UNCHANGED vars
  BY <1>52 DEF vars, ThreeInv, FlowInv, FlowAt, RunnerAt, ConvAt, AfterRunner, Late, Fresh
<1> QED
  BY <1>1, <1>2, <1>3, <1>4, <1>5, <1>6, <1>7, <1>8, <1>9, <1>10, <1>11, <1>12, <1>13,
     <1>14, <1>15, <1>16, <1>17, <1>18, <1>19, <1>20, <1>21, <1>22, <1>23, <1>24, <1>25, <1>26,
     <1>27, <1>28, <1>29, <1>30, <1>31, <1>32, <1>33, <1>34, <1>35, <1>36, <1>37, <1>38, <1>39,
     <1>40, <1>41, <1>42, <1>43, <1>44, <1>45, <1>46, <1>47, <1>51, <1>52
  DEF Next, MainProgram, Fault

\* After a second signal that killed a child, the runner leaves by stop.Stop and no file
\* is converted.
LEMMA KillStep ==
    Names /\ Numbers /\ Booleans /\ Owners /\ FlowInv /\ AlarmInv /\ ChildInv /\ CountInv /\ KillInv /\
       [Next]_vars
    => KillInv'
<1> SUFFICES ASSUME Names, Numbers, Booleans, Owners, FlowInv, AlarmInv, ChildInv, CountInv, KillInv,
                    [Next]_vars
             PROVE  KillInv'
  OBVIOUS
<1> USE DEF sigVars, alarmVars, earlyVars, flowVars, runVars, engineVars, convVars, flagVars, endVars,
   histVars, failVars, gotVars, Goto
<1>1. CASE InstallBegins
  BY <1>1
  DEF InstallBegins, KillInv, ChildInv, FlowAt, RunnerAt, ConvAt, AfterRunner, Late, Fresh
<1>2. CASE InstallOne
  BY <1>2
  DEF InstallOne, Hand, KillInv, ChildInv, FlowAt, RunnerAt, ConvAt, AfterRunner, Late,
     Fresh
<1>3. CASE TakeOver
  BY <1>3 DEF TakeOver, KillInv, ChildInv, FlowAt, RunnerAt, ConvAt, AfterRunner, Late, Fresh
<1>4. CASE OpenLog
  BY <1>4
  DEF OpenLog, Fails, KillInv, ChildInv, FlowAt, RunnerAt, ConvAt, AfterRunner, Late, Fresh
<1>5. CASE SetupPoll
  BY <1>5
  DEF SetupPoll, PollTake, KillInv, ChildInv, FlowAt, RunnerAt, ConvAt, AfterRunner, Late,
     Fresh
<1>6. CASE SetupPollPrint
  BY <1>6
  DEF SetupPollPrint, PollPrint, KillInv, ChildInv, FlowAt, RunnerAt, ConvAt, AfterRunner,
     Late, Fresh
<1>7. CASE SetupEnds
  BY <1>7
  DEF SetupEnds, Ends, KillInv, ChildInv, FlowAt, RunnerAt, ConvAt, AfterRunner, Late, Fresh
<1>8. CASE StepsFail
  BY <1>8
  DEF StepsFail, Fails, KillInv, ChildInv, FlowAt, RunnerAt, ConvAt, AfterRunner, Late,
     Fresh
<1>9. CASE EngineRun
  BY <1>9 DEF EngineRun, KillInv, ChildInv, FlowAt, RunnerAt, ConvAt, AfterRunner, Late, Fresh
<1>10. CASE RunnerEnter
  BY <1>10
  DEF RunnerEnter, Hand, KillInv, ChildInv, FlowAt, RunnerAt, ConvAt, AfterRunner, Late,
     Fresh
<1>11. CASE RunnerTake
  BY <1>11
  DEF RunnerTake, KillInv, ChildInv, FlowAt, RunnerAt, ConvAt, AfterRunner, Late, Fresh
<1>12. CASE RunnerCheck
  BY <1>12
  DEF RunnerCheck, RunnerFrame, Result, KillInv, ChildInv, FlowAt, RunnerAt, ConvAt,
     AfterRunner, Late, Fresh
<1>13. CASE RunnerSpawn
  BY <1>13
  DEF RunnerSpawn, RunnerFrame, Result, KillInv, ChildInv, FlowAt, RunnerAt, ConvAt,
     AfterRunner, Late, Fresh
<1>14. CASE RunnerFlags
  BY <1>14
  DEF RunnerFlags, RunnerFrame, KillInv, ChildInv, FlowAt, RunnerAt, ConvAt, AfterRunner,
     Late, Fresh
<1>15. CASE RunnerWait
  BY <1>15
  DEF RunnerWait, RunnerFrame, KillInv, ChildInv, FlowAt, RunnerAt, ConvAt, AfterRunner,
     Late, Fresh
<1>16. CASE RunnerAfter
  BY <1>16
  DEF RunnerAfter, RunnerFrame, KillInv, ChildInv, FlowAt, RunnerAt, ConvAt, AfterRunner,
     Late, Fresh
<1>17. CASE ClassifyVacask
  BY <1>17
  DEF ClassifyVacask, RunnerFrame, Result, KillInv, ChildInv, FlowAt, RunnerAt, ConvAt,
     AfterRunner, Late, Fresh
<1>18. CASE ClassifyXyce
  BY <1>18
  DEF ClassifyXyce, RunnerFrame, Maximum, KillInv, ChildInv, FlowAt, RunnerAt, ConvAt,
     AfterRunner, Late, Fresh
<1>19. CASE RunnerLast
  BY <1>19
  DEF RunnerLast, RunnerFrame, KillInv, ChildInv, FlowAt, RunnerAt, ConvAt, AfterRunner,
     Late, Fresh
<1>20. CASE RunnerRaises
  BY <1>20
  DEF RunnerRaises, KillInv, ChildInv, FlowAt, RunnerAt, ConvAt, AfterRunner, Late, Fresh
<1>21. CASE RunnerExit
  BY <1>21
  DEF RunnerExit, RunnerFrame, KillInv, ChildInv, FlowAt, RunnerAt, ConvAt, AfterRunner,
     Late, Fresh
<1>22. CASE RunnerRestore
  BY <1>22
  DEF RunnerRestore, Hand, KillInv, ChildInv, FlowAt, RunnerAt, ConvAt, AfterRunner, Late,
     Fresh
<1>23. CASE RunnerGive
  BY <1>23
  DEF RunnerGive, RunnerLeft, Fails, KillInv, ChildInv, FlowAt, RunnerAt, ConvAt,
     AfterRunner, Late, Fresh
<1>24. CASE RunnerOut
  BY <1>24
  DEF RunnerOut, KillInv, ChildInv, FlowAt, RunnerAt, ConvAt, AfterRunner, Late, Fresh
<1>25. CASE Deferred
  BY <1>25 DEF Deferred, KillInv, ChildInv, FlowAt, RunnerAt, ConvAt, AfterRunner, Late, Fresh
<1>26. CASE CountRunners
  BY <1>26
  DEF CountRunners, Maximum, KillInv, ChildInv, FlowAt, RunnerAt, ConvAt, AfterRunner, Late,
     Fresh
<1>27. CASE ConvPoll
  BY <1>27
  DEF ConvPoll, PollPrint, KillInv, ChildInv, FlowAt, RunnerAt, ConvAt, AfterRunner, Late,
     Fresh
<1>28. CASE ConvNext
  BY <1>28
  DEF ConvNext, ConvFrame, KillInv, ChildInv, FlowAt, RunnerAt, ConvAt, AfterRunner, Late,
     Fresh
<1>29. CASE ConvWrite
  BY <1>29
  DEF ConvWrite, ConvFrame, KillInv, ChildInv, FlowAt, RunnerAt, ConvAt, AfterRunner, Late,
     Fresh
<1>30. CASE ConvCut
  BY <1>30
  DEF ConvCut, ConvFrame, KillInv, ChildInv, FlowAt, RunnerAt, ConvAt, AfterRunner, Late,
     Fresh
<1>31. CASE ConvEnd
  BY <1>31
  DEF ConvEnd, ConvFrame, Maximum, KillInv, ChildInv, FlowAt, RunnerAt, ConvAt, AfterRunner,
     Late, Fresh
<1>32. CASE Returned
  BY <1>32
  DEF Returned, EndFrame, KillInv, ChildInv, FlowAt, RunnerAt, ConvAt, AfterRunner, Late,
     Fresh
<1>33. CASE Failed
  BY <1>33
  DEF Failed, EndFrame, FlowInv, KillInv, ChildInv, FlowAt, RunnerAt, ConvAt, AfterRunner,
     Late, Fresh
<1>34. CASE Guarded
  BY <1>34
  DEF Guarded, EndFrame, KillInv, ChildInv, FlowAt, RunnerAt, ConvAt, AfterRunner, Late,
     Fresh
<1>35. CASE Main
  BY <1>35
  DEF Main, EndFrame, KillInv, ChildInv, FlowAt, RunnerAt, ConvAt, AfterRunner, Late, Fresh
<1>36. CASE End
  BY <1>36
  DEF End, EndFrame, KillInv, ChildInv, FlowAt, RunnerAt, ConvAt, AfterRunner, Late, Fresh
<1>37. CASE Finish
  BY <1>37
  DEF Finish, EndFrame, KillInv, ChildInv, FlowAt, RunnerAt, ConvAt, AfterRunner, Late,
     Fresh
<1>38. CASE LogRaises
  BY <1>38
  DEF LogRaises, KillInv, ChildInv, FlowAt, RunnerAt, ConvAt, AfterRunner, Late, Fresh
<1>39. CASE RestoreOne
  BY <1>39
  DEF RestoreOne, Hand, KillInv, ChildInv, FlowAt, RunnerAt, ConvAt, AfterRunner, Late,
     Fresh
<1>40. CASE Exit
  BY <1>40
  DEF Exit, EndFrame, KillInv, ChildInv, FlowAt, RunnerAt, ConvAt, AfterRunner, Late, Fresh
<1>41. CASE Gone
  BY <1>41
  DEF Gone, EndFrame, KillInv, ChildInv, FlowAt, RunnerAt, ConvAt, AfterRunner, Late, Fresh
<1>42. CASE FlagArrives
  BY <1>42
  DEF FlagArrives, KillInv, ChildInv, FlowAt, RunnerAt, ConvAt, AfterRunner, Late, Fresh
<1>43. CASE ChildEnds
  BY <1>43
  DEF ChildEnds, RunnerFrame, KillInv, ChildInv, FlowAt, RunnerAt, ConvAt, AfterRunner,
     Late, Fresh
<1>44. CASE GraceExpires
  BY <1>44
  DEF GraceExpires, RunnerFrame, KillInv, ChildInv, FlowAt, RunnerAt, ConvAt, AfterRunner,
     Late, Fresh
<1>45. CASE LateAlarm
  <2>1. timer = TRUE /\ (onAlarm = FALSE \/ pc = "teardown")
    BY <1>45, Zenon DEF LateAlarm, Booleans
  <2>2. exitStop = TRUE
    BY <2>1 DEF AlarmInv, RunnerAt
  <2> QED
    BY <1>45, <2>2 DEF LateAlarm, KillInv, FlowAt, RunnerAt
<1>46. CASE TeardownStop
  BY <1>46
  DEF TeardownStop, KillInv, ChildInv, FlowAt, RunnerAt, ConvAt, AfterRunner, Late, Fresh
<1>47. CASE WindowPasses
  BY <1>47
  DEF WindowPasses, KillInv, ChildInv, FlowAt, RunnerAt, ConvAt, AfterRunner, Late, Fresh
<1>48. ASSUME NEW s \in Stops, sentStops < MaxStops, pc \notin {"teardown", "exit"},
             owner[s] = "early", EarlyStop(s)
      PROVE  KillInv'
  BY <1>48
  DEF EarlyStop, Noted, Owners, OwnerOf, Sigs, Classify, Numbers, FlowInv, KillInv,
     ChildInv, FlowAt, RunnerAt, ConvAt, AfterRunner, Late, Fresh
<1>49. ASSUME NEW s \in Stops, sentStops < MaxStops, pc \notin {"teardown", "exit"},
             owner[s] = "flow", FlowStop(s)
      PROVE  KillInv'
  BY <1>49
  DEF FlowStop, Noted, Interrupted, Owners, OwnerOf, Sigs, FlowInv, KillInv, ChildInv,
     FlowAt, RunnerAt, ConvAt, AfterRunner, Late, Fresh
<1>50. ASSUME NEW s \in Stops, sentStops < MaxStops, pc \notin {"teardown", "exit"},
             owner[s] = "runner", RunnerStop(s)
      PROVE  KillInv'
  <2> DEFINE kind == Classify(s, runSignum)
  <2>1. kind = "second" => runSignum = TRUE
    BY Classified DEF Booleans
  <2>2. kind = "first" => runSignum = FALSE
    BY Zenon DEF Classify, Booleans
  <2>3. exitStop' = TRUE => exitStop = TRUE \/ (kind = "first" /\ pc \notin InBlock)
    BY <1>50, Zenon DEF RunnerStop, Booleans
  <2>4. /\ runSecond = TRUE => runSecond' = TRUE
        /\ kind = "second" => runSecond' = TRUE
    BY <1>50, Zenon DEF RunnerStop, Booleans
  <2>5. /\ UNCHANGED <<pc, exc, converted, status, how, died>>
        /\ IF kind = "second" /\ child = "running"
           THEN child' = "ended" /\ killSecond' = TRUE
           ELSE UNCHANGED <<child, killSecond>>
    BY <1>50 DEF RunnerStop
  <2>6. runSignum = FALSE => killSecond # TRUE
    BY DEF KillInv, CountInv
  <2>7. killSecond \in BOOLEAN /\ exitStop \in BOOLEAN
    BY DEF Booleans
  <2> HIDE DEF kind
  <2>8. CASE kind = "second" /\ child = "running"
    <3>1. pc = "rWait" /\ exitStop = FALSE
      BY <2>7, <2>8 DEF ChildInv, AlarmInv, AfterRunner, ConvAt, Late
    <3> QED
      BY <2>3, <2>4, <2>5, <2>8, <3>1 DEF KillInv, RunnerAt, Late
  <2>9. CASE ~(kind = "second" /\ child = "running")
    BY <2>2, <2>3, <2>4, <2>5, <2>6, <2>7, <2>9 DEF KillInv
  <2> QED
    BY <2>8, <2>9
<1>51. CASE StopArrives
  BY <1>51, <1>48, <1>49, <1>50 DEF StopArrives
<1>52. CASE UNCHANGED vars
  BY <1>52 DEF vars, KillInv, ChildInv, FlowAt, RunnerAt, ConvAt, AfterRunner, Late, Fresh
<1> QED
  BY <1>1, <1>2, <1>3, <1>4, <1>5, <1>6, <1>7, <1>8, <1>9, <1>10, <1>11, <1>12, <1>13,
     <1>14, <1>15, <1>16, <1>17, <1>18, <1>19, <1>20, <1>21, <1>22, <1>23, <1>24, <1>25, <1>26,
     <1>27, <1>28, <1>29, <1>30, <1>31, <1>32, <1>33, <1>34, <1>35, <1>36, <1>37, <1>38, <1>39,
     <1>40, <1>41, <1>42, <1>43, <1>44, <1>45, <1>46, <1>47, <1>51, <1>52
  DEF Next, MainProgram, Fault

\* As long as every stop signal is a hangup, or there is one only, nobody counts a second
\* one, and the conversion of an engine that was stopped is not cut.
LEMMA CalmStep ==
    SpectreAssumption /\ Names /\ Numbers /\ Booleans /\ Owners /\ FlowInv /\ AlarmInv
       /\ CountInv /\ CalmInv /\ [Next]_vars
    => CalmInv'
<1> SUFFICES ASSUME SpectreAssumption, Names, Numbers, Booleans, Owners, FlowInv, AlarmInv, CountInv,
                    CalmInv, [Next]_vars
             PROVE  CalmInv'
  OBVIOUS
<1> USE DEF sigVars, alarmVars, earlyVars, flowVars, runVars, engineVars, convVars, flagVars, endVars,
   histVars, failVars, gotVars, Goto
<1>1. CASE InstallBegins
  BY <1>1
  DEF InstallBegins, CalmInv, Calm, CountInv, FlowInv, Numbers, Booleans, FlowAt, RunnerAt,
     ConvAt, AfterRunner, Late, Fresh
<1>2. CASE InstallOne
  BY <1>2
  DEF InstallOne, Hand, CalmInv, Calm, CountInv, FlowInv, Numbers, Booleans, FlowAt,
     RunnerAt, ConvAt, AfterRunner, Late, Fresh
<1>3. CASE TakeOver
  BY <1>3
  DEF TakeOver, CalmInv, Calm, CountInv, FlowInv, Numbers, Booleans, FlowAt, RunnerAt,
     ConvAt, AfterRunner, Late, Fresh
<1>4. CASE OpenLog
  BY <1>4
  DEF OpenLog, Fails, Owners, OwnerOf, Sigs, Stops, CalmInv, Calm, CountInv, FlowInv,
     Numbers, Booleans, FlowAt, RunnerAt, ConvAt, AfterRunner, Late, Fresh
<1>5. CASE SetupPoll
  BY <1>5
  DEF SetupPoll, PollTake, CalmInv, Calm, CountInv, FlowInv, Numbers, Booleans, FlowAt,
     RunnerAt, ConvAt, AfterRunner, Late, Fresh
<1>6. CASE SetupPollPrint
  BY <1>6
  DEF SetupPollPrint, PollPrint, CalmInv, Calm, CountInv, FlowInv, Numbers, Booleans,
     FlowAt, RunnerAt, ConvAt, AfterRunner, Late, Fresh
<1>7. CASE SetupEnds
  BY <1>7
  DEF SetupEnds, Ends, Owners, OwnerOf, Sigs, Stops, CalmInv, Calm, CountInv, FlowInv,
     Numbers, Booleans, FlowAt, RunnerAt, ConvAt, AfterRunner, Late, Fresh
<1>8. CASE StepsFail
  BY <1>8
  DEF StepsFail, Fails, CalmInv, Calm, CountInv, FlowInv, Numbers, Booleans, FlowAt,
     RunnerAt, ConvAt, AfterRunner, Late, Fresh
<1>9. CASE EngineRun
  BY <1>9
  DEF EngineRun, CalmInv, Calm, CountInv, FlowInv, Numbers, Booleans, FlowAt, RunnerAt,
     ConvAt, AfterRunner, Late, Fresh
<1>10. CASE RunnerEnter
  BY <1>10
  DEF RunnerEnter, Hand, CalmInv, Calm, CountInv, FlowInv, Numbers, Booleans, FlowAt,
     RunnerAt, ConvAt, AfterRunner, Late, Fresh
<1>11. CASE RunnerTake
  BY <1>11
  DEF RunnerTake, CalmInv, Calm, CountInv, FlowInv, Numbers, Booleans, FlowAt, RunnerAt,
     ConvAt, AfterRunner, Late, Fresh
<1>12. CASE RunnerCheck
  BY <1>12
  DEF RunnerCheck, RunnerFrame, Result, CalmInv, Calm, CountInv, FlowInv, Numbers, Booleans,
     FlowAt, RunnerAt, ConvAt, AfterRunner, Late, Fresh
<1>13. CASE RunnerSpawn
  BY <1>13
  DEF RunnerSpawn, RunnerFrame, Result, CalmInv, Calm, CountInv, FlowInv, Numbers, Booleans,
     FlowAt, RunnerAt, ConvAt, AfterRunner, Late, Fresh
<1>14. CASE RunnerFlags
  BY <1>14
  DEF RunnerFlags, RunnerFrame, CalmInv, Calm, CountInv, FlowInv, Numbers, Booleans, FlowAt,
     RunnerAt, ConvAt, AfterRunner, Late, Fresh
<1>15. CASE RunnerWait
  BY <1>15
  DEF RunnerWait, RunnerFrame, CalmInv, Calm, CountInv, FlowInv, Numbers, Booleans, FlowAt,
     RunnerAt, ConvAt, AfterRunner, Late, Fresh
<1>16. CASE RunnerAfter
  BY <1>16
  DEF RunnerAfter, RunnerFrame, CalmInv, Calm, CountInv, FlowInv, Numbers, Booleans, FlowAt,
     RunnerAt, ConvAt, AfterRunner, Late, Fresh
<1>17. CASE ClassifyVacask
  BY <1>17
  DEF ClassifyVacask, RunnerFrame, Result, CalmInv, Calm, CountInv, FlowInv, Numbers,
     Booleans, FlowAt, RunnerAt, ConvAt, AfterRunner, Late, Fresh
<1>18. CASE ClassifyXyce
  BY <1>18
  DEF ClassifyXyce, RunnerFrame, Maximum, CalmInv, Calm, CountInv, FlowInv, Numbers,
     Booleans, FlowAt, RunnerAt, ConvAt, AfterRunner, Late, Fresh
<1>19. CASE RunnerLast
  BY <1>19
  DEF RunnerLast, RunnerFrame, CalmInv, Calm, CountInv, FlowInv, Numbers, Booleans, FlowAt,
     RunnerAt, ConvAt, AfterRunner, Late, Fresh
<1>20. CASE RunnerRaises
  BY <1>20
  DEF RunnerRaises, CalmInv, Calm, CountInv, FlowInv, Numbers, Booleans, FlowAt, RunnerAt,
     ConvAt, AfterRunner, Late, Fresh
<1>21. CASE RunnerExit
  BY <1>21
  DEF RunnerExit, RunnerFrame, CalmInv, Calm, CountInv, FlowInv, Numbers, Booleans, FlowAt,
     RunnerAt, ConvAt, AfterRunner, Late, Fresh
<1>22. CASE RunnerRestore
  BY <1>22
  DEF RunnerRestore, Hand, CalmInv, Calm, CountInv, FlowInv, Numbers, Booleans, FlowAt,
     RunnerAt, ConvAt, AfterRunner, Late, Fresh
<1>23. CASE RunnerGive
  BY <1>23
  DEF RunnerGive, RunnerLeft, Fails, Owners, OwnerOf, Sigs, Stops, CalmInv, Calm, CountInv,
     FlowInv, Numbers, Booleans, FlowAt, RunnerAt, ConvAt, AfterRunner, Late, Fresh
<1>24. CASE RunnerOut
  BY <1>24
  DEF RunnerOut, CalmInv, Calm, CountInv, FlowInv, Numbers, Booleans, FlowAt, RunnerAt,
     ConvAt, AfterRunner, Late, Fresh
<1>25. CASE Deferred
  BY <1>25
  DEF Deferred, CalmInv, Calm, CountInv, FlowInv, Numbers, Booleans, FlowAt, RunnerAt,
     ConvAt, AfterRunner, Late, Fresh
<1>26. CASE CountRunners
  BY <1>26
  DEF CountRunners, Maximum, CalmInv, Calm, CountInv, FlowInv, Numbers, Booleans, FlowAt,
     RunnerAt, ConvAt, AfterRunner, Late, Fresh
<1>27. CASE ConvPoll
  BY <1>27
  DEF ConvPoll, PollPrint, CalmInv, Calm, CountInv, FlowInv, Numbers, Booleans, FlowAt,
     RunnerAt, ConvAt, AfterRunner, Late, Fresh
<1>28. CASE ConvNext
  BY <1>28
  DEF ConvNext, ConvFrame, CalmInv, Calm, CountInv, FlowInv, Numbers, Booleans, FlowAt,
     RunnerAt, ConvAt, AfterRunner, Late, Fresh
<1>29. CASE ConvWrite
  BY <1>29
  DEF ConvWrite, ConvFrame, CalmInv, Calm, CountInv, FlowInv, Numbers, Booleans, FlowAt,
     RunnerAt, ConvAt, AfterRunner, Late, Fresh
<1>30. CASE ConvCut
  BY <1>30
  DEF ConvCut, ConvFrame, CalmInv, Calm, CountInv, FlowInv, Numbers, Booleans, FlowAt,
     RunnerAt, ConvAt, AfterRunner, Late, Fresh
<1>31. CASE ConvEnd
  BY <1>31
  DEF ConvEnd, ConvFrame, Maximum, CalmInv, Calm, CountInv, FlowInv, Numbers, Booleans,
     FlowAt, RunnerAt, ConvAt, AfterRunner, Late, Fresh
<1>32. CASE Returned
  BY <1>32
  DEF Returned, EndFrame, Owners, OwnerOf, Sigs, Stops, CalmInv, Calm, CountInv, FlowInv,
     Numbers, Booleans, FlowAt, RunnerAt, ConvAt, AfterRunner, Late, Fresh
<1>33. CASE Failed
  BY <1>33
  DEF Failed, EndFrame, Owners, OwnerOf, Sigs, Stops, CalmInv, Calm, CountInv, FlowInv,
     Numbers, Booleans, FlowAt, RunnerAt, ConvAt, AfterRunner, Late, Fresh
<1>34. CASE Guarded
  BY <1>34
  DEF Guarded, EndFrame, Owners, OwnerOf, Sigs, Stops, CalmInv, Calm, CountInv, FlowInv,
     Numbers, Booleans, FlowAt, RunnerAt, ConvAt, AfterRunner, Late, Fresh
<1>35. CASE Main
  BY <1>35
  DEF Main, EndFrame, CalmInv, Calm, CountInv, FlowInv, Numbers, Booleans, FlowAt, RunnerAt,
     ConvAt, AfterRunner, Late, Fresh
<1>36. CASE End
  BY <1>36
  DEF End, EndFrame, CalmInv, Calm, CountInv, FlowInv, Numbers, Booleans, FlowAt, RunnerAt,
     ConvAt, AfterRunner, Late, Fresh
<1>37. CASE Finish
  BY <1>37
  DEF Finish, EndFrame, CalmInv, Calm, CountInv, FlowInv, Numbers, Booleans, FlowAt,
     RunnerAt, ConvAt, AfterRunner, Late, Fresh
<1>38. CASE LogRaises
  BY <1>38
  DEF LogRaises, Owners, OwnerOf, Sigs, Stops, CalmInv, Calm, CountInv, FlowInv, Numbers,
     Booleans, FlowAt, RunnerAt, ConvAt, AfterRunner, Late, Fresh
<1>39. CASE RestoreOne
  <2>1. \A u \in Sigs : owner'[u] \in {owner[u], "early"}
    BY <1>39 DEF RestoreOne, Hand, Names
  <2> QED
    BY <1>39, <2>1, StopsHandled
    DEF RestoreOne, Hand, CalmInv, Calm, CountInv, FlowInv, Numbers, Booleans, FlowAt,
       RunnerAt, ConvAt, AfterRunner, Late, Fresh
<1>40. CASE Exit
  BY <1>40
  DEF Exit, EndFrame, CalmInv, Calm, CountInv, FlowInv, Numbers, Booleans, FlowAt, RunnerAt,
     ConvAt, AfterRunner, Late, Fresh
<1>41. CASE Gone
  BY <1>41
  DEF Gone, EndFrame, CalmInv, Calm, CountInv, FlowInv, Numbers, Booleans, FlowAt, RunnerAt,
     ConvAt, AfterRunner, Late, Fresh
<1>42. CASE FlagArrives
  BY <1>42
  DEF FlagArrives, CalmInv, Calm, CountInv, FlowInv, Numbers, Booleans, FlowAt, RunnerAt,
     ConvAt, AfterRunner, Late, Fresh
<1>43. CASE ChildEnds
  BY <1>43
  DEF ChildEnds, RunnerFrame, CalmInv, Calm, CountInv, FlowInv, Numbers, Booleans, FlowAt,
     RunnerAt, ConvAt, AfterRunner, Late, Fresh
<1>44. CASE GraceExpires
  BY <1>44
  DEF GraceExpires, RunnerFrame, CalmInv, Calm, CountInv, FlowInv, Numbers, Booleans,
     FlowAt, RunnerAt, ConvAt, AfterRunner, Late, Fresh
<1>45. CASE LateAlarm
  BY <1>45
  DEF LateAlarm, CalmInv, Calm, CountInv, FlowInv, Numbers, Booleans, FlowAt, RunnerAt,
     ConvAt, AfterRunner, Late, Fresh
<1>46. CASE TeardownStop
  BY <1>46
  DEF TeardownStop, AlarmInv, CalmInv, Calm, CountInv, FlowInv, Numbers, Booleans, FlowAt,
     RunnerAt, ConvAt, AfterRunner, Late, Fresh
<1>47. CASE WindowPasses
  BY <1>47
  DEF WindowPasses, CalmInv, Calm, CountInv, FlowInv, Numbers, Booleans, FlowAt, RunnerAt,
     ConvAt, AfterRunner, Late, Fresh
<1>48. ASSUME NEW s \in Stops, sentStops < MaxStops, pc \notin {"teardown", "exit"},
             owner[s] = "early", EarlyStop(s)
      PROVE  CalmInv'
  <2> DEFINE kind == Classify(s, earlyStops > 0)
  <2>1. pc \in {"start", "install", "restore", "done"}
    BY <1>48, TakenAt, StopsHandled
  <2>2. kind = "second" => earlyStops > 0 /\ s # HUP
    <3>1. (earlyStops > 0) \in BOOLEAN
      OBVIOUS
    <3> QED
      BY <3>1, Classified
  <2>3. intSent' = FALSE => intSent = FALSE /\ s = HUP
    BY <1>48, Zenon DEF EarlyStop, Noted, Booleans
  <2>4. /\ sentStops' = sentStops + 1 /\ hangup' = Recorded(s)
        /\ UNCHANGED <<owner, how, flowCount, flowSignum, runSignum, runSecond, exc, writeError,
                       converted, failed, died>>
        /\ IF kind = "second" THEN pc' = "exit" ELSE UNCHANGED pc
    BY <1>48 DEF EarlyStop, Noted
  <2>5. hangup' \in {hangup, "recent"}
    BY <2>4 DEF Recorded
  <2>6. Calm' => Calm
    BY <2>3, <2>4 DEF Calm, Numbers
  <2> HIDE DEF kind
  <2>7. pc' \in {pc, "exit"} /\ (pc' # pc => kind = "second")
    BY <2>4
  <2>8. pc' # pc => ~Calm'
    BY <2>2, <2>3, <2>4, <2>7 DEF Calm, CountInv, Numbers
  <2>9. sentStops \in Nat /\ sentStops' # 0
    BY <2>4 DEF Numbers
  <2>10. CASE pc' = pc
    BY <2>3, <2>4, <2>5, <2>6, <2>9, <2>10 DEF CalmInv
  <2>11. CASE pc' # pc
    <3>1. pc' = "exit" /\ kind = "second" /\ ~Calm' /\ intSent' # FALSE
      BY <2>2, <2>3, <2>7, <2>8, <2>11
    <3> QED
      BY <2>9, <3>1 DEF CalmInv, FlowAt
  <2> QED
    BY <2>10, <2>11
<1>49. ASSUME NEW s \in Stops, sentStops < MaxStops, pc \notin {"teardown", "exit"},
             owner[s] = "flow", FlowStop(s)
      PROVE  CalmInv'
  <2> DEFINE kind == Classify(s, flowCount > 0)
             raises == kind # "repeat" /\ (flowState = "now" \/ (flowState = "deferred" /\ kind = "second"))
  <2>1. /\ s = HUP /\ (flowCount > 0 \/ hangup # "none") => kind = "repeat"
        /\ kind \in {"repeat", "first", "second"} /\ (kind = "second" => s # HUP)
    <3>1. (flowCount > 0) \in BOOLEAN
      OBVIOUS
    <3> QED
      BY <3>1, Classified
  <2>2. intSent' = FALSE => intSent = FALSE /\ s = HUP
    BY <1>49, Zenon DEF FlowStop, Noted, Booleans
  <2>3. /\ sentStops' = sentStops + 1 /\ hangup' = Recorded(s)
        /\ UNCHANGED <<owner, runSignum, runSecond, writeError, converted, failed, died>>
        /\ IF kind = "repeat" THEN UNCHANGED <<flowCount, flowSignum>> ELSE flowCount' = flowCount + 1
        /\ IF raises THEN Interrupted ELSE UNCHANGED <<pc, how, exc>>
    BY <1>49 DEF FlowStop, Noted
  <2>4. hangup' \in {hangup, "recent"}
    BY <2>3 DEF Recorded
  <2>5. s \in Sigs /\ OwnerOf(s) /\ OwnerOf(HUP) /\ flowCount \in Nat /\ sentStops \in Nat
    BY StopsHandled DEF Owners, Numbers
  <2>6. Calm' => Calm
    BY <2>2, <2>3, <2>5 DEF Calm
  <2> HIDE DEF kind
  <2>7. CASE ~raises
    <3>1. UNCHANGED <<pc, how, exc>>
      BY <2>3, <2>7
    <3>2. Calm' /\ runSignum = TRUE => kind = "repeat"
      BY <2>1, <2>2, <2>3, <2>5 DEF Calm, CalmInv, CountInv
    <3>3. flowCount' >= flowCount
      BY <2>3, <2>5
    <3> QED
      BY <2>2, <2>3, <2>4, <2>5, <2>6, <3>1, <3>2, <3>3 DEF CalmInv
  <2>8. CASE raises
    <3>1. Interrupted /\ kind # "repeat" /\ flowCount' = flowCount + 1 /\ exc' = "none"
      BY <2>3, <2>8 DEF Interrupted
    <3>2. ~(Calm' /\ runSignum = TRUE)
      BY <2>1, <2>2, <2>3, <2>5, <3>1 DEF Calm, CalmInv, CountInv
    <3>3. intSent' = FALSE => /\ s = HUP /\ flowCount = 0 /\ kind = "first" /\ flowState = "now"
      BY <2>1, <2>2, <2>5, <2>8, <3>1
    <3>4. pc \notin {"start", "install"} \cup {"takeover", "held", "end", "finish"}
      BY <2>8 DEF FlowInv
    <3>5. pc' \in {"convCut", "main", "restore", "done", "guard"}
      BY <3>1 DEF Interrupted
    <3>6. intSent' = FALSE => owner[HUP] = "flow"
      BY <3>3, <1>49
    <3> QED
      BY <2>2, <2>3, <2>5, <2>6, <3>1, <3>2, <3>5, <3>6 DEF CalmInv, FlowAt, Late
  <2> QED
    BY <2>7, <2>8
<1>50. ASSUME NEW s \in Stops, sentStops < MaxStops, pc \notin {"teardown", "exit"},
             owner[s] = "runner", RunnerStop(s)
      PROVE  CalmInv'
  <2> DEFINE kind == Classify(s, runSignum)
  <2>1. /\ kind = "second" => runSignum = TRUE /\ s # HUP
        /\ s = HUP /\ hangup # "none" => kind = "repeat"
    BY Classified DEF Booleans
  <2>2. intSent' = FALSE => intSent = FALSE /\ s = HUP
    BY <1>50, Zenon DEF RunnerStop, Noted, Booleans
  <2>3. /\ sentStops' = sentStops + 1 /\ hangup' = Recorded(s)
        /\ UNCHANGED <<pc, owner, how, flowCount, flowSignum, exc, writeError, converted, failed, died>>
    BY <1>50 DEF RunnerStop, Noted
  <2>4. runSignum' = TRUE => runSignum = TRUE \/ kind # "repeat"
    BY <1>50, Zenon DEF RunnerStop, Booleans
  <2>5. runSignum = FALSE /\ kind = "repeat" => runSignum' = FALSE
    BY <1>50, Zenon DEF RunnerStop
  <2>6. runSecond = FALSE /\ kind # "second" => runSecond' = FALSE
    BY <1>50, Zenon DEF RunnerStop
  <2>7. hangup' \in {hangup, "recent"} /\ (s = HUP => hangup' = "recent")
    BY <2>3 DEF Recorded
  <2>8. sentStops \in Nat /\ runSignum \in BOOLEAN
    BY DEF Numbers, Booleans
  <2>9. Calm' => Calm
    BY <2>2, <2>3, <2>8 DEF Calm
  <2>10. pc \in {"rEnter", "rRestore"} \cup RunnerAt \cup Late
    BY <1>50, TakenAt, StopsHandled
  <2>11. Calm' => kind # "second" /\ pc \notin Late
    BY <1>50, <2>1, <2>2, <2>3, <2>8 DEF Calm, CalmInv, CountInv
  <2> HIDE DEF kind
  <2>12. Calm' => flowSignum = FALSE /\ pc \in {"rEnter", "rRestore"} \cup RunnerAt
    BY <2>10, <2>11 DEF FlowInv, Fresh
  <2> QED
    BY <2>2, <2>3, <2>6, <2>7, <2>8, <2>9, <2>10, <2>11, <2>12 DEF CalmInv, FlowAt, RunnerAt, Late
<1>51. CASE StopArrives
  BY <1>51, <1>48, <1>49, <1>50 DEF StopArrives
<1>52. CASE UNCHANGED vars
  BY <1>52
  DEF vars, CalmInv, Calm, CountInv, FlowInv, Numbers, Booleans, FlowAt, RunnerAt, ConvAt,
     AfterRunner, Late, Fresh
<1> QED
  BY <1>1, <1>2, <1>3, <1>4, <1>5, <1>6, <1>7, <1>8, <1>9, <1>10, <1>11, <1>12, <1>13,
     <1>14, <1>15, <1>16, <1>17, <1>18, <1>19, <1>20, <1>21, <1>22, <1>23, <1>24, <1>25, <1>26,
     <1>27, <1>28, <1>29, <1>30, <1>31, <1>32, <1>33, <1>34, <1>35, <1>36, <1>37, <1>38, <1>39,
     <1>40, <1>41, <1>42, <1>43, <1>44, <1>45, <1>46, <1>47, <1>51, <1>52
  DEF Next, MainProgram, Fault

\* Without a raise the flags reach the flow's list by the time of the last poll in end().
LEMMA AnswerStep ==
    Names /\ Numbers /\ Booleans /\ Owners /\ FlowInv /\ CountInv /\ TrailerInv /\ FlagsInv /\ AnswerInv
       /\ [Next]_vars
    => AnswerInv'
<1> SUFFICES ASSUME Names, Numbers, Booleans, Owners, FlowInv, CountInv, TrailerInv, FlagsInv, AnswerInv,
                    [Next]_vars
             PROVE  AnswerInv'
  OBVIOUS
<1> USE DEF sigVars, alarmVars, earlyVars, flowVars, runVars, engineVars, convVars, flagVars, endVars,
   histVars, failVars, gotVars, Goto
<1>1. CASE InstallBegins
  BY <1>1
  DEF InstallBegins, AnswerInv, FlagsInv, FlagCounts, TrailerInv, Numbers, FlowAt, RunnerAt,
     ConvAt, AfterRunner, Late, Fresh
<1>2. CASE InstallOne
  BY <1>2
  DEF InstallOne, Hand, AnswerInv, FlagsInv, FlagCounts, TrailerInv, Numbers, FlowAt,
     RunnerAt, ConvAt, AfterRunner, Late, Fresh
<1>3. CASE TakeOver
  BY <1>3
  DEF TakeOver, AnswerInv, FlagsInv, FlagCounts, TrailerInv, Numbers, FlowAt, RunnerAt,
     ConvAt, AfterRunner, Late, Fresh
<1>4. CASE OpenLog
  <2>1. OwnerOf(USR1)
    BY StopsHandled DEF Owners
  <2> QED
    BY <1>4, <2>1
    DEF OpenLog, Fails, OwnerOf, AnswerInv, FlagsInv, FlagCounts, TrailerInv, Numbers, FlowAt,
       RunnerAt, ConvAt, AfterRunner, Late, Fresh
<1>5. CASE SetupPoll
  BY <1>5
  DEF SetupPoll, PollTake, AnswerInv, FlagsInv, FlagCounts, TrailerInv, Numbers, FlowAt,
     RunnerAt, ConvAt, AfterRunner, Late, Fresh
<1>6. CASE SetupPollPrint
  BY <1>6
  DEF SetupPollPrint, PollPrint, AnswerInv, FlagsInv, FlagCounts, TrailerInv, Numbers,
     FlowAt, RunnerAt, ConvAt, AfterRunner, Late, Fresh
<1>7. CASE SetupEnds
  BY <1>7
  DEF SetupEnds, Ends, AnswerInv, FlagsInv, FlagCounts, TrailerInv, Numbers, FlowAt,
     RunnerAt, ConvAt, AfterRunner, Late, Fresh
<1>8. CASE StepsFail
  <2>1. OwnerOf(USR1)
    BY StopsHandled DEF Owners
  <2> QED
    BY <1>8, <2>1
    DEF StepsFail, Fails, OwnerOf, AnswerInv, FlagsInv, FlagCounts, TrailerInv, Numbers,
       FlowAt, RunnerAt, ConvAt, AfterRunner, Late, Fresh
<1>9. CASE EngineRun
  BY <1>9
  DEF EngineRun, AnswerInv, FlagsInv, FlagCounts, TrailerInv, Numbers, FlowAt, RunnerAt,
     ConvAt, AfterRunner, Late, Fresh
<1>10. CASE RunnerEnter
  BY <1>10
  DEF RunnerEnter, Hand, AnswerInv, FlagsInv, FlagCounts, TrailerInv, Numbers, FlowAt,
     RunnerAt, ConvAt, AfterRunner, Late, Fresh
<1>11. CASE RunnerTake
  BY <1>11
  DEF RunnerTake, AnswerInv, FlagsInv, FlagCounts, TrailerInv, Numbers, FlowAt, RunnerAt,
     ConvAt, AfterRunner, Late, Fresh
<1>12. CASE RunnerCheck
  BY <1>12
  DEF RunnerCheck, RunnerFrame, Result, AnswerInv, FlagsInv, FlagCounts, TrailerInv,
     Numbers, FlowAt, RunnerAt, ConvAt, AfterRunner, Late, Fresh
<1>13. CASE RunnerSpawn
  BY <1>13
  DEF RunnerSpawn, RunnerFrame, Result, AnswerInv, FlagsInv, FlagCounts, TrailerInv,
     Numbers, FlowAt, RunnerAt, ConvAt, AfterRunner, Late, Fresh
<1>14. CASE RunnerFlags
  BY <1>14
  DEF RunnerFlags, RunnerFrame, AnswerInv, FlagsInv, FlagCounts, TrailerInv, Numbers,
     FlowAt, RunnerAt, ConvAt, AfterRunner, Late, Fresh
<1>15. CASE RunnerWait
  BY <1>15
  DEF RunnerWait, RunnerFrame, AnswerInv, FlagsInv, FlagCounts, TrailerInv, Numbers, FlowAt,
     RunnerAt, ConvAt, AfterRunner, Late, Fresh
<1>16. CASE RunnerAfter
  BY <1>16
  DEF RunnerAfter, RunnerFrame, CountInv, AnswerInv, FlagsInv, FlagCounts, TrailerInv,
     Numbers, FlowAt, RunnerAt, ConvAt, AfterRunner, Late, Fresh
<1>17. CASE ClassifyVacask
  BY <1>17
  DEF ClassifyVacask, RunnerFrame, Result, AnswerInv, FlagsInv, FlagCounts, TrailerInv,
     Numbers, FlowAt, RunnerAt, ConvAt, AfterRunner, Late, Fresh
<1>18. CASE ClassifyXyce
  BY <1>18
  DEF ClassifyXyce, RunnerFrame, Maximum, AnswerInv, FlagsInv, FlagCounts, TrailerInv,
     Numbers, FlowAt, RunnerAt, ConvAt, AfterRunner, Late, Fresh
<1>19. CASE RunnerLast
  BY <1>19
  DEF RunnerLast, RunnerFrame, CountInv, AnswerInv, FlagsInv, FlagCounts, TrailerInv,
     Numbers, FlowAt, RunnerAt, ConvAt, AfterRunner, Late, Fresh
<1>20. CASE RunnerRaises
  <2>1. OwnerOf(USR1)
    BY StopsHandled DEF Owners
  <2> QED
    BY <1>20, <2>1
    DEF RunnerRaises, OwnerOf, AnswerInv, FlagsInv, FlagCounts, TrailerInv, Numbers, FlowAt,
       RunnerAt, ConvAt, AfterRunner, Late, Fresh
<1>21. CASE RunnerExit
  BY <1>21
  DEF RunnerExit, RunnerFrame, AnswerInv, FlagsInv, FlagCounts, TrailerInv, Numbers, FlowAt,
     RunnerAt, ConvAt, AfterRunner, Late, Fresh
<1>22. CASE RunnerRestore
  BY <1>22
  DEF RunnerRestore, Hand, AnswerInv, FlagsInv, FlagCounts, TrailerInv, Numbers, FlowAt,
     RunnerAt, ConvAt, AfterRunner, Late, Fresh
<1>23. CASE RunnerGive
  <2>1. OwnerOf(USR1)
    BY StopsHandled DEF Owners
  <2> QED
    BY <1>23, <2>1
    DEF RunnerGive, RunnerLeft, Fails, OwnerOf, AnswerInv, FlagsInv, FlagCounts, TrailerInv,
       Numbers, FlowAt, RunnerAt, ConvAt, AfterRunner, Late, Fresh
<1>24. CASE RunnerOut
  BY <1>24
  DEF RunnerOut, AnswerInv, FlagsInv, FlagCounts, TrailerInv, Numbers, FlowAt, RunnerAt,
     ConvAt, AfterRunner, Late, Fresh
<1>25. CASE Deferred
  BY <1>25
  DEF Deferred, AnswerInv, FlagsInv, FlagCounts, TrailerInv, Numbers, FlowAt, RunnerAt,
     ConvAt, AfterRunner, Late, Fresh
<1>26. CASE CountRunners
  BY <1>26
  DEF CountRunners, Maximum, AnswerInv, FlagsInv, FlagCounts, TrailerInv, Numbers, FlowAt,
     RunnerAt, ConvAt, AfterRunner, Late, Fresh
<1>27. CASE ConvPoll
  BY <1>27
  DEF ConvPoll, PollPrint, AnswerInv, FlagsInv, FlagCounts, TrailerInv, Numbers, FlowAt,
     RunnerAt, ConvAt, AfterRunner, Late, Fresh
<1>28. CASE ConvNext
  BY <1>28
  DEF ConvNext, ConvFrame, AnswerInv, FlagsInv, FlagCounts, TrailerInv, Numbers, FlowAt,
     RunnerAt, ConvAt, AfterRunner, Late, Fresh
<1>29. CASE ConvWrite
  BY <1>29
  DEF ConvWrite, ConvFrame, AnswerInv, FlagsInv, FlagCounts, TrailerInv, Numbers, FlowAt,
     RunnerAt, ConvAt, AfterRunner, Late, Fresh
<1>30. CASE ConvCut
  BY <1>30
  DEF ConvCut, ConvFrame, AnswerInv, FlagsInv, FlagCounts, TrailerInv, Numbers, FlowAt,
     RunnerAt, ConvAt, AfterRunner, Late, Fresh
<1>31. CASE ConvEnd
  BY <1>31
  DEF ConvEnd, ConvFrame, Maximum, AnswerInv, FlagsInv, FlagCounts, TrailerInv, Numbers,
     FlowAt, RunnerAt, ConvAt, AfterRunner, Late, Fresh
<1>32. CASE Returned
  <2>1. OwnerOf(USR1)
    BY StopsHandled DEF Owners
  <2> QED
    BY <1>32, <2>1
    DEF Returned, EndFrame, OwnerOf, AnswerInv, FlagsInv, FlagCounts, TrailerInv, Numbers,
       FlowAt, RunnerAt, ConvAt, AfterRunner, Late, Fresh
<1>33. CASE Failed
  <2>1. OwnerOf(USR1)
    BY StopsHandled DEF Owners
  <2> QED
    BY <1>33, <2>1
    DEF Failed, EndFrame, OwnerOf, AnswerInv, FlagsInv, FlagCounts, TrailerInv, Numbers,
       FlowAt, RunnerAt, ConvAt, AfterRunner, Late, Fresh
<1>34. CASE Guarded
  BY <1>34
  DEF Guarded, EndFrame, AnswerInv, FlagsInv, FlagCounts, TrailerInv, Numbers, FlowAt,
     RunnerAt, ConvAt, AfterRunner, Late, Fresh
<1>35. CASE Main
  BY <1>35
  DEF Main, EndFrame, AnswerInv, FlagsInv, FlagCounts, TrailerInv, Numbers, FlowAt,
     RunnerAt, ConvAt, AfterRunner, Late, Fresh
<1>36. CASE End
  BY <1>36
  DEF End, EndFrame, FlagBalance, PollHolds, InPoll, CountInv, AnswerInv, FlagsInv,
     FlagCounts, TrailerInv, Numbers, FlowAt, RunnerAt, ConvAt, AfterRunner, Late, Fresh
<1>37. CASE Finish
  BY <1>37
  DEF Finish, EndFrame, AnswerInv, FlagsInv, FlagCounts, TrailerInv, Numbers, FlowAt,
     RunnerAt, ConvAt, AfterRunner, Late, Fresh
<1>38. CASE LogRaises
  <2>1. OwnerOf(USR1)
    BY StopsHandled DEF Owners
  <2> QED
    BY <1>38, <2>1
    DEF LogRaises, OwnerOf, AnswerInv, FlagsInv, FlagCounts, TrailerInv, Numbers, FlowAt,
       RunnerAt, ConvAt, AfterRunner, Late, Fresh
<1>39. CASE RestoreOne
  <2>1. \A u \in Sigs : owner'[u] \in {owner[u], "early"}
    BY <1>39 DEF RestoreOne, Hand, Names
  <2> QED
    BY <1>39, <2>1, StopsHandled
    DEF RestoreOne, Hand, AnswerInv, FlagsInv, FlagCounts, TrailerInv, Numbers, FlowAt,
       RunnerAt, ConvAt, AfterRunner, Late, Fresh
<1>40. CASE Exit
  BY <1>40
  DEF Exit, EndFrame, AnswerInv, FlagsInv, FlagCounts, TrailerInv, Numbers, FlowAt,
     RunnerAt, ConvAt, AfterRunner, Late, Fresh
<1>41. CASE Gone
  BY <1>41
  DEF Gone, EndFrame, AnswerInv, FlagsInv, FlagCounts, TrailerInv, Numbers, FlowAt,
     RunnerAt, ConvAt, AfterRunner, Late, Fresh
<1>42. CASE FlagArrives
  <2>1. /\ UNCHANGED <<pc, owner, raised, failed, exc, dropped, trailer, answered, due>>
        /\ pc \notin {"done", "teardown", "exit"}
    BY <1>42 DEF FlagArrives
  <2>2. earlyFlags' = earlyFlags \/ owner[USR1] = "early"
    BY <1>42 DEF FlagArrives
  <2>3. runFlags' = runFlags \/ owner[USR1] = "runner"
    BY <1>42 DEF FlagArrives
  <2>4. /\ owner[USR1] = "early" => pc \in {"start", "install", "restore", "done"}
        /\ owner[USR1] = "runner" => pc \in {"rEnter", "rRestore"} \cup RunnerAt \cup Late
    BY <2>1, TakenAt, StopsHandled
  <2> QED
    BY <2>1, <2>2, <2>3, <2>4 DEF AnswerInv
<1>43. CASE ChildEnds
  BY <1>43
  DEF ChildEnds, RunnerFrame, AnswerInv, FlagsInv, FlagCounts, TrailerInv, Numbers, FlowAt,
     RunnerAt, ConvAt, AfterRunner, Late, Fresh
<1>44. CASE GraceExpires
  BY <1>44
  DEF GraceExpires, RunnerFrame, AnswerInv, FlagsInv, FlagCounts, TrailerInv, Numbers,
     FlowAt, RunnerAt, ConvAt, AfterRunner, Late, Fresh
<1>45. CASE LateAlarm
  BY <1>45
  DEF LateAlarm, AnswerInv, FlagsInv, FlagCounts, TrailerInv, Numbers, FlowAt, RunnerAt,
     ConvAt, AfterRunner, Late, Fresh
<1>46. CASE TeardownStop
  BY <1>46
  DEF TeardownStop, AnswerInv, FlagsInv, FlagCounts, TrailerInv, Numbers, FlowAt, RunnerAt,
     ConvAt, AfterRunner, Late, Fresh
<1>47. CASE WindowPasses
  BY <1>47
  DEF WindowPasses, AnswerInv, FlagsInv, FlagCounts, TrailerInv, Numbers, FlowAt, RunnerAt,
     ConvAt, AfterRunner, Late, Fresh
<1>48. ASSUME NEW s \in Stops, sentStops < MaxStops, pc \notin {"teardown", "exit"},
             owner[s] = "early", EarlyStop(s)
      PROVE  AnswerInv'
  <2>1. OwnerOf(USR1) /\ pc \in {"start", "install", "restore", "done"}
    BY <1>48, TakenAt, StopsHandled DEF Owners
  <2>2. /\ pc' \in {pc, "exit"}
        /\ UNCHANGED <<owner, earlyFlags, runFlags, raised, failed, exc, dropped, trailer,
                       answered, due>>
    BY <1>48 DEF EarlyStop
  <2> QED
    BY <2>1, <2>2
    DEF OwnerOf, AnswerInv, FlagsInv, FlagCounts, TrailerInv, Numbers, FlowAt, RunnerAt,
       ConvAt, AfterRunner, Late, Fresh
<1>49. ASSUME NEW s \in Stops, sentStops < MaxStops, pc \notin {"teardown", "exit"},
             owner[s] = "flow", FlowStop(s)
      PROVE  AnswerInv'
  <2>1. UNCHANGED <<owner, earlyFlags, runFlags, trailer, answered, due>>
    BY <1>49 DEF FlowStop
  <2>2. \/ Interrupted /\ flowState \in {"now", "deferred"}
        \/ UNCHANGED <<pc, raised, dropped, failed, exc>>
    BY <1>49 DEF FlowStop
  <2>3. CASE Interrupted /\ flowState \in {"now", "deferred"}
    <3>1. pc \notin {"start", "install", "takeover"}
      BY <2>3 DEF FlowInv
    <3>2. raised' = TRUE /\ pc' \in {"convCut", "main", "restore", "done", "guard"}
      BY <2>3 DEF Interrupted
    <3>3. pc' \notin {"restore", "done"} => pc \notin {"restore", "done", "teardown", "exit"}
      BY <2>3, <1>49 DEF Interrupted
    <3> QED
      BY <2>1, <3>1, <3>2, <3>3 DEF AnswerInv
  <2>4. CASE UNCHANGED <<pc, raised, dropped, failed, exc>>
    BY <2>1, <2>4
    DEF AnswerInv, FlagsInv, FlagCounts, TrailerInv, Numbers, FlowAt, RunnerAt, ConvAt,
       AfterRunner, Late, Fresh
  <2> QED
    BY <2>2, <2>3, <2>4
<1>50. ASSUME NEW s \in Stops, sentStops < MaxStops, pc \notin {"teardown", "exit"},
             owner[s] = "runner", RunnerStop(s)
      PROVE  AnswerInv'
  BY <1>50
  DEF RunnerStop, Noted, AnswerInv, FlagsInv, FlagCounts, TrailerInv, Numbers, FlowAt,
     RunnerAt, ConvAt, AfterRunner, Late, Fresh
<1>51. CASE StopArrives
  BY <1>51, <1>48, <1>49, <1>50 DEF StopArrives
<1>52. CASE UNCHANGED vars
  BY <1>52
  DEF vars, AnswerInv, FlagsInv, FlagCounts, TrailerInv, Numbers, FlowAt, RunnerAt, ConvAt,
     AfterRunner, Late, Fresh
<1> QED
  BY <1>1, <1>2, <1>3, <1>4, <1>5, <1>6, <1>7, <1>8, <1>9, <1>10, <1>11, <1>12, <1>13,
     <1>14, <1>15, <1>16, <1>17, <1>18, <1>19, <1>20, <1>21, <1>22, <1>23, <1>24, <1>25, <1>26,
     <1>27, <1>28, <1>29, <1>30, <1>31, <1>32, <1>33, <1>34, <1>35, <1>36, <1>37, <1>38, <1>39,
     <1>40, <1>41, <1>42, <1>43, <1>44, <1>45, <1>46, <1>47, <1>51, <1>52
  DEF Next, MainProgram, Fault

---------------------------------------------------------------------------
(* StopInv is inductive, and what it says of a run.                        *)

\* The run starts in the invariant: cli.py's handler has every signal, and no
\* record holds one.
LEMMA StopInvInit == SpectreAssumption /\ Init => StopInv
<1> SUFFICES ASSUME SpectreAssumption, Init PROVE StopInv
  OBVIOUS
<1> USE DEF Init
<1>1. Names /\ Numbers /\ Booleans
  <2>1. Names
    BY DEF Names, Points
  <2>2. Numbers
    BY DEF Numbers, NoStatus
  <2>3. Booleans
    BY Zenon DEF Booleans
  <2> QED
    BY <2>1, <2>2, <2>3
<1>2. FlagsInv
  BY DEF FlagsInv, FlagCounts, FlagBalance, PollHolds, InPoll
<1>3. Owners
  BY DEF Owners, OwnerOf, Suffixes, FlowAt, RunnerAt, ConvAt, AfterRunner, Late, Waiting
<1>4. FlowInv /\ AlarmInv /\ ChildInv /\ CountInv
  BY DEF FlowInv, AlarmInv, ChildInv, CountInv, Fresh, FlowAt, RunnerAt, ConvAt, Late
<1>5. TrailerInv /\ StatusInv
  BY DEF TrailerInv, StatusInv
<1>6. KillInv /\ AnswerInv
  BY DEF KillInv, AnswerInv, Late, RunnerAt
<1>7. CalmInv
  BY DEF CalmInv, Calm, Late
<1> QED
  BY <1>1, <1>2, <1>3, <1>4, <1>5, <1>6, <1>7 DEF StopInv

\* Every step of the main program, every signal, every end of a child and
\* every timer keeps the invariant.
LEMMA StopInvStep == SpectreAssumption /\ StopInv /\ [Next]_vars => StopInv'
<1> SUFFICES ASSUME SpectreAssumption, StopInv, [Next]_vars PROVE StopInv'
  OBVIOUS
<1>1. Names' /\ Numbers' /\ Booleans' /\ FlagsInv'
  BY NamesStep, NumbersStep, BooleansStep, FlagsInductive DEF StopInv, FlagsInv
<1>2. Owners' /\ FlowInv' /\ AlarmInv' /\ ChildInv' /\ CountInv'
  BY OwnersStep, FlowStep, AlarmStep, ChildStep, CountStep DEF StopInv
<1>3. TrailerInv' /\ StatusInv'
  BY TrailerStep, StatusStep DEF StopInv
<1>4. KillInv' /\ CalmInv' /\ AnswerInv'
  BY KillStep, CalmStep, AnswerStep DEF StopInv
<1> QED
  BY <1>1, <1>2, <1>3, <1>4 DEF StopInv

\* The inductive invariant holds in every run.
THEOREM StopInvAlways == Spec => []StopInv
BY SpectreAssumption, StopInvInit, StopInvStep, PTL DEF Spec

\* The fields of flow.py and of the runners keep their types, for any number
\* of signals, decks and results.
THEOREM SpectreTyped == Spec => []TypeOK
<1>1. StopInv => TypeOK
  <2> SUFFICES ASSUME StopInv PROVE TypeOK
    OBVIOUS
  <2>1. left \in Seq(Sigs)
    <3>1. /\ <<>> \in Seq(Sigs) /\ <<USR1>> \in Seq(Sigs) /\ <<HUP, USR1>> \in Seq(Sigs)
          /\ <<INT, HUP, USR1>> \in Seq(Sigs)
      BY DEF Sigs, Stops
    <3> QED
      BY <3>1 DEF StopInv, Owners, Suffixes, Order
  <2>2. {earlyStops, flowCount, sentStops, due} \subseteq Nat
    BY DEF StopInv, Numbers
  <2>3. {flowSignum, runSignum, runSecond, watching, got, done, writeError, quietRun,
         raised, stopTaken, intSent, killSecond, timer, onAlarm, failed, logError,
         exitStop} \subseteq BOOLEAN
    BY Zenon DEF StopInv, Booleans
  <2> QED
    BY <2>1, <2>2, <2>3 DEF StopInv, TypeOK, Names, Numbers, FlagsInv, StatusInv
<1> QED
  BY <1>1, StopInvAlways, PTL

\* With Xyce, a stop signal that any handler took before the quiet state makes
\* the exit status 3, however many signals come and wherever the run is: the
\* exceptions are a failure of steps() or the runner, an escape, and the default
\* action of a signal after the block or in the interpreter's teardown.
THEOREM XyceStopGivesThree == Engine = "xyce" /\ Spec => []StopGivesThree
<1> SUFFICES ASSUME Engine = "xyce" PROVE Spec => []StopGivesThree
  OBVIOUS
<1>1. Init => ThreeInv
  BY DEF Init, ThreeInv
<1>2. StopInv /\ ThreeInv /\ [Next]_vars => ThreeInv'
  BY ThreeStep DEF StopInv
<1>3. StopInv /\ ThreeInv => StopGivesThree
  BY Zenon DEF StopInv, Booleans, ThreeInv, StopGivesThree, Over
<1> QED
  BY <1>1, <1>2, <1>3, StopInvAlways, PTL DEF Spec

\* A second INT, TERM or QUIT while a child runs ends the run with no file
\* converted and status 3, unless an exception other than stop.Stop ends the
\* runner or escapes, or one more comes in the interpreter's teardown.
THEOREM SecondConvertsNothingAlways == Spec => []SecondConvertsNothing
<1>1. StopInv => SecondConvertsNothing
  BY Zenon DEF StopInv, Booleans, KillInv, SecondConvertsNothing, Over
<1> QED
  BY <1>1, StopInvAlways, PTL

\* When every stop signal was a SIGHUP, no engine is killed as by a second
\* signal and the results of the engine it stopped are all converted, but for a
\* write error, another exception and the alarm of AlarmOnlyFromExit.
THEOREM HangupKeepsResultsAlways == Spec => []HangupKeepsResults
<1>1. StopInv => HangupKeepsResults
  <2> SUFFICES ASSUME StopInv PROVE HangupKeepsResults
    OBVIOUS
  <2>1. ~intSent => intSent = FALSE
    BY Zenon DEF StopInv, Booleans
  <2>2. runSignum => runSignum = TRUE
    BY Zenon DEF StopInv, Booleans
  <2>3. /\ ~writeError => writeError # TRUE
        /\ ~failed => failed # TRUE
    OBVIOUS
  <2> QED
    BY <2>1, <2>2, <2>3, Zenon DEF StopInv, CalmInv, Calm, HangupKeepsResults, Over
<1> QED
  BY <1>1, StopInvAlways, PTL

\* One stop signal, of any kind, that the engine was given loses no result, with
\* the same exceptions.
THEOREM OneStopConvertsAlways == Spec => []OneStopConverts
<1>1. StopInv => OneStopConverts
  <2> SUFFICES ASSUME StopInv PROVE OneStopConverts
    OBVIOUS
  <2>1. sentStops = 1 => Calm
    BY DEF Calm
  <2>2. runSignum => runSignum = TRUE
    BY Zenon DEF StopInv, Booleans
  <2>3. /\ ~writeError => writeError # TRUE
        /\ ~failed => failed # TRUE
    OBVIOUS
  <2> QED
    BY <2>1, <2>2, <2>3, Zenon DEF StopInv, CalmInv, OneStopConverts, Over
<1> QED
  BY <1>1, StopInvAlways, PTL

\* No child runs while the flow has a stop signal on record: one that came
\* before the engine, cli.py's too, ends the run before it starts.
THEOREM NoEngineAfterStopAlways == Spec => []NoEngineAfterStop
<1>1. StopInv => NoEngineAfterStop
  BY DEF StopInv, ChildInv, FlowInv, Fresh, RunnerAt, NoEngineAfterStop
<1> QED
  BY <1>1, StopInvAlways, PTL

\* No child is left running behind the runner's signal block.
THEOREM NoEngineLeftAlways == Spec => []NoEngineLeft
<1>1. StopInv => NoEngineLeft
  BY DEF StopInv, ChildInv, NoEngineLeft
<1> QED
  BY <1>1, StopInvAlways, PTL

\* The trailer is printed once, on every path that has one.
THEOREM TrailerOnceAlways == Spec => []TrailerOnce
<1>1. StopInv => TrailerOnce
  <2> SUFFICES ASSUME StopInv PROVE TrailerOnce
    OBVIOUS
  <2>1. trailer = <<>> \/ Len(trailer) = 1
    BY DEF StopInv, TrailerInv
  <2>2. Len(trailer) <= 1
    <3>1. Len(<<>>) = 0
      OBVIOUS
    <3>2. Len(trailer) \in {0, 1}
      BY <2>1, <3>1, Zenon
    <3>3. \A n \in {0, 1} : n <= 1
      OBVIOUS
    <3> QED
      BY <3>2, <3>3, Zenon
  <2>3. ~quietRun => quietRun # TRUE
    OBVIOUS
  <2>4. pc = "exit" /\ ~quietRun /\ how \notin {"none", "escaped"} /\ died # "alarm"
          => trailer # <<>>
    BY <2>3 DEF StopInv, TrailerInv
  <2> QED
    BY <2>1, <2>2, <2>4 DEF TrailerOnce, Over
<1> QED
  BY <1>1, StopInvAlways, PTL

\* An exception gets out of flow.run only with the third stop signal, or with the
\* second while guarded handles an exception of steps(), or with a log that cannot
\* be written.
THEOREM EscapeBoundedAlways == Spec => []EscapeBounded
<1>1. StopInv => EscapeBounded
  <2> SUFFICES ASSUME StopInv PROVE EscapeBounded
    OBVIOUS
  <2>1. (~logError => logError = FALSE) /\ (~failed => failed = FALSE)
    BY Zenon DEF StopInv, Booleans
  <2> QED
    BY <2>1 DEF StopInv, CountInv, Numbers, EscapeBounded
<1> QED
  BY <1>1, StopInvAlways, PTL

\* The grace timer ends vamos only after a first stop signal that came between
\* __exit__'s _alarm(0) and its last signal.signal(), or to a handler an
\* _Interrupted left in place there: never by a timer started before.
THEOREM AlarmOnlyFromExitAlways == Spec => []AlarmOnlyFromExit
<1>1. StopInv => AlarmOnlyFromExit
  BY Zenon DEF StopInv, AlarmInv, AlarmOnlyFromExit
<1> QED
  BY <1>1, StopInvAlways, PTL

\* The exit status is the one in the trailer, unless two stop signals (other
\* than one hangup's) came after restore gave them to cli.py's handler, or a
\* signal's default action ended the interpreter's teardown.
THEOREM ExitAsInTrailerAlways == Spec => []ExitAsInTrailer
<1>1. StopInv => ExitAsInTrailer
  BY DEF StopInv, TrailerInv, ExitAsInTrailer
<1> QED
  BY <1>1, StopInvAlways, PTL

\* Every flag signal that came before the last poll is answered before the
\* trailer, unless a stop signal raised _Interrupted or steps() failed.
THEOREM FlagsAnsweredAlways == Spec => []FlagsAnswered
<1>1. StopInv => FlagsAnswered
  <2> SUFFICES ASSUME StopInv PROVE FlagsAnswered
    OBVIOUS
  <2>1. (~raised => raised = FALSE) /\ (~failed => failed = FALSE)
    BY Zenon DEF StopInv, Booleans
  <2> QED
    BY <2>1 DEF StopInv, AnswerInv, FlagsAnswered
<1> QED
  BY <1>1, StopInvAlways, PTL
=============================================================================
