-------------------------- MODULE ConversionProofs --------------------------
(***************************************************************************)
(* Theorems about the results on the disk (Conversion), for any stream of  *)
(* results and any number of stop signals.  LogListsFiles needs what the   *)
(* lists of the conversion say of the disk at each statement (DiskInv),    *)
(* NoTempLeft which statements have a temporary file in hand (TempInv),    *)
(* StatusHonest where every result is (ConvInv).  CompleteListed and       *)
(* LeavesListed suppose what collect promises of its blocks (Blocked, *)
(* Whole), which TLC evaluates on the streams of MCConversion.             *)
(***************************************************************************)
EXTENDS Conversion, TLAPS

PsfAt == Loop \cup {"cut", "oserr", "log", "logging"}
NutAt == NutLoop \cup {"nutCut", "nutOserr", "posts"}

\* The statements of a format are run for it alone
AtFormat == /\ pc \in PsfAt => run.fmt = "psf"
            /\ pc \in NutAt => run.fmt # "psf"

\* What psf's lists hold is on the disk
OnDisk == run.fmt = "psf" =>
            /\ \A k \in done \cup listed : HasData(k) => k \in files
            /\ pc = "append" /\ HasData(i) => i \in files

\* An earlier run's index is there only before the first file
OldFirst == index = "old" => files = {} /\ pc \in {"stale", "over"}

NewListed == index = "new" => \A k \in logged : k \in files

DiskInv == AtFormat /\ OnDisk /\ OldFirst /\ NewListed

LEMMA DiskInit == Init => DiskInv
  <1> SUFFICES ASSUME Init PROVE DiskInv OBVIOUS
  <1>1. AtFormat
    BY DEF Init, AtFormat, PsfAt, NutAt, Loop, NutLoop
  <1>2. OnDisk /\ OldFirst /\ NewListed
    BY DEF Init, OnDisk, OldFirst, NewListed
  <1> QED BY <1>1, <1>2 DEF DiskInv

LEMMA AtFormatStep == AtFormat /\ [Next]_vars => AtFormat'
  <1> SUFFICES ASSUME AtFormat, [Next]_vars PROVE AtFormat' OBVIOUS
  <1> USE DEF AtFormat, PsfAt, NutAt, Loop, NutLoop, Handlers, AtEnd, Goto, Leave
  <1>1. CASE RemoveStale BY <1>1 DEF RemoveStale
  <1>2. CASE EngineDone BY <1>2 DEF EngineDone
  <1>3. CASE StopArrives
    <2>1. run' = run BY <1>3 DEF StopArrives
    <2>2. CASE UNCHANGED pc BY <2>1, <2>2
    <2>3. CASE Interrupted BY <2>1, <2>3 DEF Interrupted
    <2> QED BY <1>3, <2>2, <2>3 DEF StopArrives
  <1>4. CASE Psf BY <1>4 DEF Psf, Pull, Else, Test, Write, Writing, DoneAppend, Clear, After, Cut, OsErr, Log, Logging
  <1>5. CASE Nutmeg BY <1>5 DEF Nutmeg, NutOpen, NutPull, NutWrite, NutEnd, NutReturn, NutFails, NutPosts, NutFrame
  <1>6. CASE Quiet BY <1>6 DEF Quiet
  <1>7. CASE Status BY <1>7 DEF Status
  <1>8. CASE UNCHANGED vars BY <1>8 DEF vars
  <1>9. CASE Raises BY <1>9 DEF Raises, PsfRaises, NutRaises
  <1> QED BY <1>1, <1>2, <1>3, <1>4, <1>5, <1>6, <1>7, <1>8, <1>9 DEF Next

\* A step that leaves the lists and the disk alone and does not come to the
\* append
LEMMA OnDiskFrame ==
    OnDisk /\ UNCHANGED <<run, done, listed, files>> /\ pc' # "append" => OnDisk'
  BY DEF OnDisk, HasData, results

LEMMA OnDiskStep == AtFormat /\ OnDisk /\ [Next]_vars => OnDisk'
  <1> SUFFICES ASSUME AtFormat, OnDisk, [Next]_vars PROVE OnDisk' OBVIOUS
  <1>1. CASE RemoveStale BY <1>1, OnDiskFrame DEF RemoveStale, Goto, Leave, loopVars
  <1>2. CASE EngineDone BY <1>2, OnDiskFrame DEF EngineDone, Goto, Leave, loopVars, diskVars
  <1>3. CASE StopArrives
    <2>1. UNCHANGED <<run, i, done, listed, files>> BY <1>3 DEF StopArrives, loopVars, diskVars
    <2>2. CASE UNCHANGED pc BY <2>1, <2>2 DEF OnDisk, HasData, results
    <2>3. CASE Interrupted BY <2>1, <2>3, OnDiskFrame DEF Interrupted, Goto, Leave
    <2> QED BY <1>3, <2>2, <2>3 DEF StopArrives
  <1>4. CASE Pull BY <1>4 DEF Pull, OnDisk, HasData, results, Goto, diskVars
  <1>5. CASE Else BY <1>5 DEF Else, OnDisk, HasData, results, Goto, diskVars
  <1>6. CASE Test BY <1>6, OnDiskFrame DEF Test, Goto, diskVars
  <1>7. CASE Write BY <1>7 DEF Write, OnDisk, HasData, results, Goto, loopVars
  <1>8. CASE Writing BY <1>8 DEF Writing, OnDisk, HasData, results, Goto, Leave, loopVars
  <1>9. CASE DoneAppend BY <1>9 DEF DoneAppend, OnDisk, HasData, results, Goto, diskVars
  <1>10. CASE Clear BY <1>10, OnDiskFrame DEF Clear, Goto, diskVars
  <1>11. CASE After BY <1>11, OnDiskFrame DEF After, Goto, loopVars
  <1>12. CASE Cut BY <1>12, OnDiskFrame DEF Cut, Goto, loopVars
  <1>13. CASE OsErr BY <1>13, OnDiskFrame DEF OsErr, Goto, loopVars
  <1>14. CASE Log BY <1>14, OnDiskFrame DEF Log, Goto, loopVars, diskVars
  <1>15. CASE Logging BY <1>15, OnDiskFrame DEF Logging, Goto, loopVars
  <1>16. CASE Nutmeg
    <2>1. run.fmt # "psf" /\ run' = run
      BY <1>16 DEF Nutmeg, NutOpen, NutPull, NutWrite, NutEnd, NutReturn, NutFails, NutPosts, NutFrame,
                   AtFormat, NutAt, NutLoop
    <2> QED BY <2>1 DEF OnDisk
  <1>17. CASE Quiet BY <1>17, OnDiskFrame DEF Quiet, Goto, loopVars, diskVars
  <1>18. CASE Status BY <1>18, OnDiskFrame DEF Status, Goto, Leave, loopVars, diskVars
  <1>19. CASE UNCHANGED vars BY <1>19 DEF vars, loopVars, diskVars, OnDisk, HasData, results
  <1>20. CASE Raises BY <1>20, OnDiskFrame DEF Raises, Goto, Leave, loopVars, diskVars
  <1> QED BY <1>1, <1>2, <1>3, <1>4, <1>5, <1>6, <1>7, <1>8, <1>9, <1>10, <1>11, <1>12, <1>13, <1>14, <1>15,
             <1>16, <1>17, <1>18, <1>19, <1>20 DEF Next, Psf

LEMMA OldFirstStep == OldFirst /\ [Next]_vars => OldFirst'
  <1> SUFFICES ASSUME OldFirst, [Next]_vars PROVE OldFirst' OBVIOUS
  <1>1. CASE RemoveStale BY <1>1 DEF RemoveStale, OldFirst, Goto, Leave
  <1>2. CASE pc \notin {"stale", "over"} /\ (index' = index \/ index' = "new")
    BY <1>2 DEF OldFirst
  <1>3. CASE UNCHANGED vars BY <1>3 DEF OldFirst, vars, diskVars
  <1>4. EngineDone => <1>2!1 BY DEF EngineDone, diskVars
  <1>5. StopArrives => <1>2!1
    BY DEF StopArrives, diskVars, Loop, NutLoop, Handlers, AtEnd
  <1>6. Psf => <1>2!1
    BY DEF Psf, Pull, Else, Test, Write, Writing, DoneAppend, Clear, After, Cut, OsErr, Log, Logging, diskVars
  <1>7. Nutmeg => <1>2!1
    BY DEF Nutmeg, NutOpen, NutPull, NutWrite, NutEnd, NutReturn, NutFails, NutPosts
  <1>8. Quiet \/ Status \/ Raises => <1>2!1
    BY DEF Quiet, Status, Raises, PsfRaises, NutRaises, diskVars
  <1> QED BY <1>1, <1>2, <1>3, <1>4, <1>5, <1>6, <1>7, <1>8 DEF Next

\* A step that leaves the index alone and removes no file it may list
LEMMA NewListedFrame ==
    NewListed /\ UNCHANGED <<index, logged>> /\ (index = "new" => \A k \in files : k \in files') => NewListed'
  BY DEF NewListed

LEMMA NewListedStep == AtFormat /\ OnDisk /\ NewListed /\ [Next]_vars => NewListed'
  <1> SUFFICES ASSUME AtFormat, OnDisk, NewListed, [Next]_vars PROVE NewListed' OBVIOUS
  <1>1. CASE RemoveStale BY <1>1 DEF RemoveStale, NewListed
  <1>2. CASE EngineDone BY <1>2, NewListedFrame DEF EngineDone, diskVars
  <1>3. CASE StopArrives BY <1>3, NewListedFrame DEF StopArrives, diskVars
  <1>4. CASE Pull \/ Else \/ Test \/ DoneAppend \/ Clear \/ Log
    BY <1>4, NewListedFrame DEF Pull, Else, Test, DoneAppend, Clear, Log, diskVars
  <1>5. CASE Write \/ Writing \/ After \/ Cut \/ OsErr
    BY <1>5, NewListedFrame DEF Write, Writing, After, Cut, OsErr
  <1>6. CASE Logging
    <2>1. files' = files /\ run.fmt = "psf" BY <1>6 DEF Logging, AtFormat, PsfAt
    <2>2. CASE index' = "new" /\ logged' = {k \in listed : HasData(k)}
      BY <2>1, <2>2 DEF OnDisk, NewListed
    <2>3. CASE UNCHANGED <<index, logged>> BY <2>1, <2>3, NewListedFrame
    <2> QED BY <1>6, <2>2, <2>3 DEF Logging
  <1>7. CASE NutOpen \/ NutPull \/ NutWrite \/ NutReturn \/ NutFails \/ NutPosts
    BY <1>7, NewListedFrame DEF NutOpen, NutPull, NutWrite, NutReturn, NutFails, NutPosts
  <1>8. CASE NutEnd BY <1>8 DEF NutEnd, NewListed
  <1>9. CASE Quiet \/ Status \/ Raises BY <1>9, NewListedFrame DEF Quiet, Status, Raises, diskVars
  <1>10. CASE UNCHANGED vars BY <1>10, NewListedFrame DEF vars, diskVars
  <1> QED BY <1>1, <1>2, <1>3, <1>4, <1>5, <1>6, <1>7, <1>8, <1>9, <1>10 DEF Next, Psf, Nutmeg

\* At every instant, also the one at which vamos is killed, the index of this
\* run lists only results whose files are complete, and none of its files is
\* beside an earlier run's index (flow.py remove_stale and _Conversion, the
\* writers' temporary files).
THEOREM IndexHonest == Spec => []LogListsFiles
  <1>1. Init => DiskInv BY DiskInit
  <1>2. DiskInv /\ [Next]_vars => DiskInv'
    BY AtFormatStep, OnDiskStep, OldFirstStep, NewListedStep DEF DiskInv
  <1>3. DiskInv => LogListsFiles BY DEF DiskInv, OldFirst, NewListed, LogListsFiles
  <1> QED BY <1>1, <1>2, <1>3, PTL DEF Spec

---------------------------------------------------------------------------
\* The statements at which a temporary file may be there, and what an except
\* clause needs to remove it
TempInv ==
    /\ tmp \in BOOLEAN /\ current \in BOOLEAN
    /\ pc \in {"write", "writing", "append", "clear"} => current = TRUE
    /\ tmp = TRUE => \/ pc \in {"writing", "cut", "oserr"} /\ current = TRUE
                     \/ pc \in {"nutPull", "nutWrite", "nutEnd", "nutCut", "nutOserr"}
                     \/ pc = "over" /\ how \in {"escaped", "internal"}

LEMMA TempStep == TempInv /\ [Next]_vars => TempInv'
  <1> SUFFICES ASSUME TempInv, [Next]_vars PROVE TempInv' OBVIOUS
  <1> USE DEF TempInv, Goto, Leave
  <1>1. CASE RemoveStale BY <1>1 DEF RemoveStale, loopVars
  <1>2. CASE EngineDone BY <1>2 DEF EngineDone, loopVars, diskVars
  <1>3. CASE StopArrives
    <2>1. UNCHANGED <<tmp, current>> BY <1>3 DEF StopArrives, loopVars, diskVars
    <2>2. CASE UNCHANGED <<pc, how, status>> BY <2>1, <2>2
    <2>3. CASE Interrupted
      <3>1. pc # "over" BY <1>3 DEF StopArrives, Loop, NutLoop, Handlers, AtEnd
      <3> QED BY <2>1, <2>3, <3>1 DEF Interrupted, Loop, NutLoop
    <2> QED BY <1>3, <2>2, <2>3 DEF StopArrives
  <1>4. CASE Pull \/ Else BY <1>4 DEF Pull, Else, diskVars
  <1>5. CASE Test BY <1>5 DEF Test, diskVars
  <1>6. CASE Write BY <1>6 DEF Write, loopVars
  <1>7. CASE Writing BY <1>7 DEF Writing, loopVars
  <1>8. CASE DoneAppend \/ Clear BY <1>8 DEF DoneAppend, Clear, diskVars
  <1>9. CASE After BY <1>9 DEF After, loopVars
  <1>10. CASE Cut BY <1>10 DEF Cut, loopVars
  <1>11. CASE OsErr BY <1>11 DEF OsErr, loopVars
  <1>12. CASE Log \/ Logging BY <1>12 DEF Log, Logging, loopVars, diskVars
  <1>13. CASE NutOpen \/ NutPull BY <1>13 DEF NutOpen, NutPull, NutFrame
  <1>14. CASE NutWrite BY <1>14 DEF NutWrite, NutFrame
  <1>15. CASE NutEnd \/ NutReturn BY <1>15 DEF NutEnd, NutReturn, NutFrame
  <1>16. CASE NutFails BY <1>16 DEF NutFails
  <1>17. CASE NutPosts
    <2>1. UNCHANGED <<tmp, current, how>> BY <1>17 DEF NutPosts, NutFrame
    <2>2. pc = "posts" /\ pc' \in {"status", "posts"} BY <1>17 DEF NutPosts
    <2> QED BY <2>1, <2>2
  <1>18. CASE Quiet \/ Status BY <1>18 DEF Quiet, Status, loopVars, diskVars
  <1>19. CASE UNCHANGED vars BY <1>19 DEF vars, loopVars, diskVars, endVars
  <1>20. CASE Raises BY <1>20 DEF Raises, PsfRaises, NutRaises, loopVars, diskVars
  <1> QED BY <1>1, <1>2, <1>3, <1>4, <1>5, <1>6, <1>7, <1>8, <1>9, <1>10, <1>11, <1>12, <1>13, <1>14, <1>15,
             <1>16, <1>17, <1>18, <1>19, <1>20 DEF Next, Psf, Nutmeg

\* A run that ends otherwise than by an internal error or a signal inside an
\* except clause leaves no temporary results file (the except clauses of psf
\* and nutmeg).
THEOREM NoTempAlways == Spec => []NoTempLeft
  <1>1. Init => TempInv
    <2>1. Init => tmp = FALSE /\ current = FALSE /\ pc = "stale" BY DEF Init
    <2> QED BY <2>1 DEF TempInv
  <1>2. TempInv /\ [Next]_vars => TempInv' BY TempStep
  <1>3. TempInv => NoTempLeft BY DEF TempInv, NoTempLeft, Over
  <1> QED BY <1>1, <1>2, <1>3, PTL DEF Spec

---------------------------------------------------------------------------
(* The types, the status and the blocks.  ConvInv says where each result   *)
(* is (passed, on a list, in the index, with its state file) at each       *)
(* statement; OneBlock, OneStop and WholeBlocks add what _starts_block     *)
(* does to the blocks of a stream.                                         *)

\* The run is one of those the constants allow
RunInv == \E s \in Streams : run.results = s.results


Values ==
    /\ pc \in {"stale", "engine"} \cup Loop \cup NutLoop \cup Handlers \cup AtEnd
    /\ index \in {"none", "old", "new"} /\ sigState \in {"now", "deferred", "quiet"}
    /\ count \in Nat /\ sent \in 0 .. MaxStops /\ rc \in 0 .. 3 /\ status \in 0 .. 3 \cup {NoStatus}
    /\ how \in {"none", "fail", "returned", "escaped", "internal"}

Flags ==
    /\ prevTop \in BOOLEAN /\ current \in BOOLEAN /\ tmp \in BOOLEAN /\ signum \in BOOLEAN
    /\ cut \in BOOLEAN /\ failed \in BOOLEAN /\ writeError \in BOOLEAN

\* The statements with a result in hand
InHand ==
    /\ i \in 0 .. Len(results)
    /\ pc \in {"test", "write", "writing", "append", "clear", "after", "nutWrite"} => i # 0

Lists ==
    /\ done \subseteq Positions /\ listed \subseteq Positions /\ files \subseteq Positions
    /\ logged \subseteq Positions
    /\ states \subseteq Positions \X StateKeys /\ warned \subseteq Positions \X StateKeys

\* Before the conversion the lists are empty
NotBegun == pc \in {"stale", "engine"} => i = 0 /\ done = {} /\ listed = {} /\ prevTop = FALSE

\* The except clauses for _Interrupted run after a stop signal
Signalled == pc \in {"cut", "nutCut"} => signum = TRUE

\* psf's loop is through with result k
Passed(k) == k < i \/ (k = i /\ pc \in {"pull", "else", "clear", "after"})

\* psf: the results the loop is through with are those on the two lists
PassedListed ==
    run.fmt = "psf" /\ pc \in Loop => \A k \in Positions : Passed(k) <=> k \in done \cup listed

\* No stop signal and no failed write
Clean == signum = FALSE /\ writeError = FALSE

AfterLoop == {"quiet", "log", "logging", "status"}

\* psf: what is listed at the end of the stream, and in the logFile
AllListed ==
    run.fmt = "psf" =>
        /\ pc = "else" \/ (Clean /\ pc \in AfterLoop) =>
             i = Len(results) /\ \A k \in Positions : k \in listed
        /\ Clean /\ pc = "status" => index = "new" /\ logged = {k \in listed : HasData(k)}

\* nutmeg: the plots written, in `done' and in the file
Plots ==
    run.fmt # "psf" /\ Clean =>
        /\ pc \in NutLoop \cup {"quiet"} => \A k \in Positions : k <= i => k \in done
        /\ pc \in NutLoop \cup {"quiet", "posts", "status"} => \A k \in Positions :
             (k < i \/ (k = i /\ pc # "nutWrite")) /\ results[k].kind = "data" /\ HasData(k) => k \in files
        /\ pc \in {"nutEnd", "nutReturn", "quiet", "posts", "status"} => i = Len(results)
        /\ pc \in {"nutReturn", "quiet", "posts", "status"} => index = "new" /\ logged = files

\* A result without data that should have some has been counted
Tested ==
    signum = FALSE /\ failed = FALSE /\ writeError = FALSE /\ pc \notin {"oserr", "over"} =>
        \A k \in Positions : (k < i \/ (k = i /\ pc # "test")) /\ results[k].kind = "data" => HasData(k)

\* The state files of a result are written or warned about, or still to come
\* (nutmeg: after the loop)
StatesOf(k) == results[k].kind = "data" /\ HasData(k) =>
                  \A key \in results[k].state : <<k, key>> \in states \cup warned
StatesDone ==
    Clean => \A k \in Positions :
        /\ run.fmt = "psf" /\ (k < i \/ (k = i /\ pc \in {"pull", "else"} \cup AfterLoop)) => StatesOf(k)
        /\ run.fmt # "psf" /\ pc \in {"posts", "status"} => k \in done \/ StatesOf(k)
        /\ run.fmt # "psf" /\ pc = "status" => StatesOf(k)

\* The run is over, and its status is honest
Honest == pc = "over" /\ status = 0 => StatusHonest

\* prev_top is about the result in hand
PrevTop ==
    run.fmt = "psf" /\ pc \in Loop =>
        /\ i = 0 => prevTop = FALSE
        /\ i > 0 => (prevTop = TRUE <=> TopParent(i))

\* psf: `done' holds results of the block in hand
OneBlock ==
    run.fmt = "psf" /\ pc \in Loop \ {"else"} =>
        \A k \in done : results[k].block = results[i].block \/ results[k].nooutput

\* The logFile lists the listed results with data, from the last step on
LoggedIs ==
    run.fmt = "psf" /\ index = "new" =>
        logged = {k \in listed : HasData(k)} /\ pc \in {"status", "over"}

\* With one stop signal at most: it leaves out the block in hand only
Ended == pc \in AfterLoop \/ (pc = "over" /\ how = "returned")
OneStop ==
    run.fmt = "psf" /\ writeError = FALSE /\ count <= 1 =>
        /\ pc # "cut"
        /\ Ended => \/ \A k \in Positions : k \in listed
                    \/ /\ signum = TRUE
                       /\ \A k \in Positions : k < i =>
                            k \in listed \/ results[k].block = results[i].block \/ results[k].nooutput
        /\ pc = "status" \/ (pc = "over" /\ how = "returned") => index = "new"

\* A block is listed whole or not at all
WholeBlocks ==
    run.fmt = "psf" /\ ~run.legacy =>
        \A a \in listed : \A b \in Positions : results[b].block = results[a].block => b \in listed

\* The stream, the naming and the format of a run do not change.
LEMMA RunFixed == [Next]_vars => run' = run
BY DEF Next, Psf, Nutmeg, RemoveStale, EngineDone, StopArrives, Pull, Else, Test, Write, Writing,
       DoneAppend, Clear, After, Cut, OsErr, Log, Logging, NutOpen, NutPull, NutWrite, NutEnd,
       NutReturn, NutFails, NutPosts, NutFrame, Raises, Quiet, Status, vars

\* Every statement leaves a place, an index, a status and a how of the modelled ones.
LEMMA ValuesStep ==
    ConversionAssumption /\ Values /\ [Next]_vars => Values'
<1> SUFFICES ASSUME ConversionAssumption, Values, [Next]_vars PROVE Values'
  OBVIOUS
<1> USE DEF loopVars, diskVars, sigVars, endVars, Goto, Leave
<1>0. run' = run
  BY RunFixed
<1>1. CASE RemoveStale
  BY <1>0, <1>1
  DEF RemoveStale, Values, Loop, NutLoop, Handlers, AtEnd, NoStatus, ConversionAssumption
<1>2. CASE EngineDone
  BY <1>0, <1>2
  DEF EngineDone, Values, Loop, NutLoop, Handlers, AtEnd, NoStatus, ConversionAssumption
<1>3. CASE Pull
  BY <1>0, <1>3 DEF Pull, Values, Loop, NutLoop, Handlers, AtEnd, NoStatus, ConversionAssumption
<1>4. CASE Else
  BY <1>0, <1>4 DEF Else, Values, Loop, NutLoop, Handlers, AtEnd, NoStatus, ConversionAssumption
<1>5. CASE Test
  BY <1>0, <1>5 DEF Test, Values, Loop, NutLoop, Handlers, AtEnd, NoStatus, ConversionAssumption
<1>6. CASE Write
  BY <1>0, <1>6 DEF Write, Values, Loop, NutLoop, Handlers, AtEnd, NoStatus, ConversionAssumption
<1>7. CASE Writing
  BY <1>0, <1>7
  DEF Writing, Values, Loop, NutLoop, Handlers, AtEnd, NoStatus, ConversionAssumption
<1>8. CASE DoneAppend
  BY <1>0, <1>8
  DEF DoneAppend, Values, Loop, NutLoop, Handlers, AtEnd, NoStatus, ConversionAssumption
<1>9. CASE Clear
  BY <1>0, <1>9 DEF Clear, Values, Loop, NutLoop, Handlers, AtEnd, NoStatus, ConversionAssumption
<1>10. CASE After
  BY <1>0, <1>10
  DEF After, Post, Values, Loop, NutLoop, Handlers, AtEnd, NoStatus, ConversionAssumption
<1>11. CASE Cut
  BY <1>0, <1>11 DEF Cut, Values, Loop, NutLoop, Handlers, AtEnd, NoStatus, ConversionAssumption
<1>12. CASE OsErr
  BY <1>0, <1>12 DEF OsErr, Values, Loop, NutLoop, Handlers, AtEnd, NoStatus, ConversionAssumption
<1>13. CASE Log
  BY <1>0, <1>13 DEF Log, Values, Loop, NutLoop, Handlers, AtEnd, NoStatus, ConversionAssumption
<1>14. CASE Logging
  BY <1>0, <1>14
  DEF Logging, Values, Loop, NutLoop, Handlers, AtEnd, NoStatus, ConversionAssumption
<1>15. CASE NutOpen
  BY <1>0, <1>15
  DEF NutOpen, NutFrame, Values, Loop, NutLoop, Handlers, AtEnd, NoStatus,
     ConversionAssumption
<1>16. CASE NutPull
  BY <1>0, <1>16
  DEF NutPull, NutFrame, Values, Loop, NutLoop, Handlers, AtEnd, NoStatus,
     ConversionAssumption
<1>17. CASE NutWrite
  BY <1>0, <1>17
  DEF NutWrite, NutFrame, Values, Loop, NutLoop, Handlers, AtEnd, NoStatus,
     ConversionAssumption
<1>18. CASE NutEnd
  BY <1>0, <1>18
  DEF NutEnd, NutFrame, Values, Loop, NutLoop, Handlers, AtEnd, NoStatus, ConversionAssumption
<1>19. CASE NutReturn
  BY <1>0, <1>19
  DEF NutReturn, NutFrame, Values, Loop, NutLoop, Handlers, AtEnd, NoStatus,
     ConversionAssumption
<1>20. CASE NutFails
  BY <1>0, <1>20
  DEF NutFails, Values, Loop, NutLoop, Handlers, AtEnd, NoStatus, ConversionAssumption
<1>21. CASE NutPosts
  BY <1>0, <1>21
  DEF NutPosts, NutFrame, Post, Values, Loop, NutLoop, Handlers, AtEnd, NoStatus,
     ConversionAssumption
<1>22. CASE Quiet
  BY <1>0, <1>22 DEF Quiet, Values, Loop, NutLoop, Handlers, AtEnd, NoStatus, ConversionAssumption
<1>23. CASE Status
  BY <1>0, <1>23
  DEF Status, Values, Loop, NutLoop, Handlers, AtEnd, NoStatus, ConversionAssumption
<1>24. CASE StopArrives
  BY <1>0, <1>24
  DEF StopArrives, Interrupted, Values, Loop, NutLoop, Handlers, AtEnd, NoStatus,
     ConversionAssumption
<1>25. CASE UNCHANGED vars
  BY <1>0, <1>25 DEF vars, Values, Loop, NutLoop, Handlers, AtEnd, NoStatus, ConversionAssumption
<1>26. CASE Raises
  BY <1>0, <1>26
  DEF Raises, PsfRaises, NutRaises, Values, Loop, NutLoop, Handlers, AtEnd, NoStatus, ConversionAssumption
<1> QED
  BY <1>1, <1>2, <1>3, <1>4, <1>5, <1>6, <1>7, <1>8, <1>9, <1>10, <1>11, <1>12, <1>13, <1>14,
     <1>15,
     <1>16, <1>17, <1>18, <1>19, <1>20, <1>21, <1>22, <1>23, <1>24, <1>25, <1>26
  DEF Next, Psf, Nutmeg

\* prev_top, current, write_error and the other marks stay Booleans.
LEMMA FlagsStep ==
    Flags /\ [Next]_vars => Flags'
<1> SUFFICES ASSUME Flags, [Next]_vars PROVE Flags'
  OBVIOUS
<1> USE DEF loopVars, diskVars, sigVars, endVars, Goto, Leave
<1>0. run' = run
  BY RunFixed
<1>1. CASE RemoveStale
  BY <1>0, <1>1 DEF RemoveStale, Flags
<1>2. CASE EngineDone
  BY <1>0, <1>2 DEF EngineDone, Flags
<1>3. CASE Pull
  <2>1. prevTop' = prevTop \/ prevTop' = TopParent(i + 1)
    BY <1>3, Zenon DEF Pull
  <2>2. UNCHANGED <<current, tmp, signum, cut, failed, writeError>>
    BY <1>3 DEF Pull
  <2> QED
    BY <2>1, <2>2, Zenon DEF Flags, TopParent
<1>4. CASE Else
  BY <1>0, <1>4 DEF Else, Flags
<1>5. CASE Test
  <2>1. (failed' = failed \/ failed' = (failed \/ (results[i].kind = "data" /\ ~results[i].ok))) /\ (current' = current \/ current' = TRUE)
    BY <1>5, Zenon DEF Test
  <2>2. UNCHANGED <<prevTop, tmp, signum, cut, writeError>>
    BY <1>5 DEF Test
  <2> QED
    BY <2>1, <2>2, Zenon DEF Flags, TopParent
<1>6. CASE Write
  BY <1>0, <1>6 DEF Write, Flags
<1>7. CASE Writing
  BY <1>0, <1>7 DEF Writing, Flags
<1>8. CASE DoneAppend
  BY <1>0, <1>8 DEF DoneAppend, Flags
<1>9. CASE Clear
  BY <1>0, <1>9 DEF Clear, Flags
<1>10. CASE After
  BY <1>0, <1>10 DEF After, Post, Flags
<1>11. CASE Cut
  <2>1. tmp' = (tmp /\ ~current) /\ cut' = current
    BY <1>11, Zenon DEF Cut
  <2>2. UNCHANGED <<prevTop, current, signum, failed, writeError>>
    BY <1>11 DEF Cut
  <2> QED
    BY <2>1, <2>2, Zenon DEF Flags, TopParent
<1>12. CASE OsErr
  <2>1. tmp' = (tmp /\ ~current) /\ writeError' = TRUE
    BY <1>12, Zenon DEF OsErr
  <2>2. UNCHANGED <<prevTop, current, signum, failed, cut>>
    BY <1>12 DEF OsErr
  <2> QED
    BY <2>1, <2>2, Zenon DEF Flags, TopParent
<1>13. CASE Log
  BY <1>0, <1>13 DEF Log, Flags
<1>14. CASE Logging
  BY <1>0, <1>14 DEF Logging, Flags
<1>15. CASE NutOpen
  BY <1>0, <1>15 DEF NutOpen, NutFrame, Flags
<1>16. CASE NutPull
  <2>1. failed' = failed \/ failed' = (failed \/ (results[i + 1].kind = "data" /\ ~results[i + 1].ok))
    BY <1>16, Zenon DEF NutPull
  <2>2. UNCHANGED <<prevTop, current, tmp, signum, cut, writeError>>
    BY <1>16 DEF NutPull, NutFrame
  <2> QED
    BY <2>1, <2>2, Zenon DEF Flags, TopParent
<1>17. CASE NutWrite
  BY <1>0, <1>17 DEF NutWrite, NutFrame, Flags
<1>18. CASE NutEnd
  BY <1>0, <1>18 DEF NutEnd, NutFrame, Flags
<1>19. CASE NutReturn
  BY <1>0, <1>19 DEF NutReturn, NutFrame, Flags
<1>20. CASE NutFails
  BY <1>0, <1>20 DEF NutFails, Flags
<1>21. CASE NutPosts
  BY <1>0, <1>21 DEF NutPosts, NutFrame, Post, Flags
<1>22. CASE Quiet
  BY <1>0, <1>22 DEF Quiet, Flags
<1>23. CASE Status
  BY <1>0, <1>23 DEF Status, Flags
<1>24. CASE StopArrives
  BY <1>0, <1>24 DEF StopArrives, Interrupted, Flags
<1>25. CASE UNCHANGED vars
  BY <1>0, <1>25 DEF vars, Flags
<1>26. CASE Raises
  BY <1>0, <1>26
  DEF Raises, PsfRaises, NutRaises, Flags
<1> QED
  BY <1>1, <1>2, <1>3, <1>4, <1>5, <1>6, <1>7, <1>8, <1>9, <1>10, <1>11, <1>12, <1>13, <1>14,
     <1>15,
     <1>16, <1>17, <1>18, <1>19, <1>20, <1>21, <1>22, <1>23, <1>24, <1>25, <1>26
  DEF Next, Psf, Nutmeg

\* The loop has a result in hand wherever it uses one.
LEMMA InHandStep ==
    RunInv /\ InHand /\ [Next]_vars => InHand'
<1> SUFFICES ASSUME RunInv, InHand, [Next]_vars PROVE InHand'
  OBVIOUS
<1> USE DEF loopVars, diskVars, sigVars, endVars, Goto, Leave
<1>0. run' = run /\ Len(results) \in Nat
  BY RunFixed, ConversionAssumption DEF ConversionAssumption, RunInv, results
<1>1. CASE RemoveStale
  BY <1>0, <1>1 DEF RemoveStale, InHand, Loop, NutLoop, results
<1>2. CASE EngineDone
  BY <1>0, <1>2 DEF EngineDone, InHand, Loop, NutLoop, results
<1>3. CASE Pull
  BY <1>0, <1>3 DEF Pull, InHand, Loop, NutLoop, results
<1>4. CASE Else
  BY <1>0, <1>4 DEF Else, InHand, Loop, NutLoop, results
<1>5. CASE Test
  BY <1>0, <1>5 DEF Test, InHand, Loop, NutLoop, results
<1>6. CASE Write
  BY <1>0, <1>6 DEF Write, InHand, Loop, NutLoop, results
<1>7. CASE Writing
  BY <1>0, <1>7 DEF Writing, InHand, Loop, NutLoop, results
<1>8. CASE DoneAppend
  BY <1>0, <1>8 DEF DoneAppend, InHand, Loop, NutLoop, results
<1>9. CASE Clear
  BY <1>0, <1>9 DEF Clear, InHand, Loop, NutLoop, results
<1>10. CASE After
  BY <1>0, <1>10 DEF After, Post, InHand, Loop, NutLoop, results
<1>11. CASE Cut
  BY <1>0, <1>11 DEF Cut, InHand, Loop, NutLoop, results
<1>12. CASE OsErr
  BY <1>0, <1>12 DEF OsErr, InHand, Loop, NutLoop, results
<1>13. CASE Log
  BY <1>0, <1>13 DEF Log, InHand, Loop, NutLoop, results
<1>14. CASE Logging
  BY <1>0, <1>14 DEF Logging, InHand, Loop, NutLoop, results
<1>15. CASE NutOpen
  BY <1>0, <1>15 DEF NutOpen, NutFrame, InHand, Loop, NutLoop, results
<1>16. CASE NutPull
  BY <1>0, <1>16 DEF NutPull, NutFrame, InHand, Loop, NutLoop, results
<1>17. CASE NutWrite
  BY <1>0, <1>17 DEF NutWrite, NutFrame, InHand, Loop, NutLoop, results
<1>18. CASE NutEnd
  BY <1>0, <1>18 DEF NutEnd, NutFrame, InHand, Loop, NutLoop, results
<1>19. CASE NutReturn
  BY <1>0, <1>19 DEF NutReturn, NutFrame, InHand, Loop, NutLoop, results
<1>20. CASE NutFails
  BY <1>0, <1>20 DEF NutFails, InHand, Loop, NutLoop, results
<1>21. CASE NutPosts
  BY <1>0, <1>21 DEF NutPosts, NutFrame, Post, InHand, Loop, NutLoop, results
<1>22. CASE Quiet
  BY <1>0, <1>22 DEF Quiet, InHand, Loop, NutLoop, results
<1>23. CASE Status
  BY <1>0, <1>23 DEF Status, InHand, Loop, NutLoop, results
<1>24. CASE StopArrives
  BY <1>0, <1>24 DEF StopArrives, Interrupted, InHand, Loop, NutLoop, results
<1>25. CASE UNCHANGED vars
  BY <1>0, <1>25 DEF vars, InHand, Loop, NutLoop, results
<1>26. CASE Raises
  BY <1>0, <1>26
  DEF Raises, PsfRaises, NutRaises, InHand, Loop, NutLoop, results
<1> QED
  BY <1>1, <1>2, <1>3, <1>4, <1>5, <1>6, <1>7, <1>8, <1>9, <1>10, <1>11, <1>12, <1>13, <1>14,
     <1>15,
     <1>16, <1>17, <1>18, <1>19, <1>20, <1>21, <1>22, <1>23, <1>24, <1>25, <1>26
  DEF Next, Psf, Nutmeg

\* post writes or warns about state files of its result.
LEMMA PostTyped ==
    ASSUME RunInv, NEW k \in Positions, Post(k), Lists, UNCHANGED run
    PROVE  states' \subseteq Positions \X StateKeys /\ warned' \subseteq Positions \X StateKeys
<1>1. results[k].state \subseteq StateKeys
  BY ConversionAssumption DEF ConversionAssumption, RunInv, results, Positions
<1>2. CASE UNCHANGED <<states, warned>>
  BY <1>2 DEF Lists
<1>3. ASSUME NEW written \in SUBSET results[k].state, NEW told \in SUBSET results[k].state,
             states' = states \cup ({k} \X written), warned' = warned \cup ({k} \X told)
      PROVE  states' \subseteq Positions \X StateKeys /\ warned' \subseteq Positions \X StateKeys
  BY <1>1, <1>3 DEF Lists
<1> QED
  BY <1>2, <1>3 DEF Post

\* The lists, the files and the index hold results of the stream.
LEMMA ListsStep ==
    RunInv /\ InHand /\ Lists /\ [Next]_vars => Lists'
<1> SUFFICES ASSUME RunInv, InHand, Lists, [Next]_vars PROVE Lists'
  OBVIOUS
<1> USE DEF loopVars, diskVars, sigVars, endVars, Goto, Leave
<1>0. run' = run /\ Len(results) \in Nat
  BY RunFixed, ConversionAssumption DEF ConversionAssumption, RunInv, results
<1>1. CASE RemoveStale
  BY <1>0, <1>1 DEF RemoveStale, Lists, InHand, results, Positions
<1>2. CASE EngineDone
  BY <1>0, <1>2 DEF EngineDone, Lists, InHand, results, Positions
<1>3. CASE Pull
  BY <1>0, <1>3 DEF Pull, Lists, InHand, results, Positions
<1>4. CASE Else
  BY <1>0, <1>4 DEF Else, Lists, InHand, results, Positions
<1>5. CASE Test
  BY <1>0, <1>5 DEF Test, Lists, InHand, results, Positions
<1>6. CASE Write
  BY <1>0, <1>6 DEF Write, Lists, InHand, results, Positions
<1>7. CASE Writing
  <2>1. i \in Positions /\ Positions' = Positions
    BY <1>0, <1>7 DEF Writing, InHand, Positions, results
  <2>2. files' \subseteq files \cup {i} /\ UNCHANGED <<done, listed, logged, states, warned>>
    BY <1>7 DEF Writing
  <2> QED
    BY <2>1, <2>2 DEF Lists
<1>8. CASE DoneAppend
  BY <1>0, <1>8 DEF DoneAppend, Lists, InHand, results, Positions
<1>9. CASE Clear
  BY <1>0, <1>9 DEF Clear, Lists, InHand, results, Positions
<1>10. CASE After
  <2>1. i \in Positions /\ Positions' = Positions
    BY <1>0, <1>10 DEF After, InHand, Positions, results
  <2>2. Post(i) /\ UNCHANGED <<done, listed, logged, files>>
    BY <1>10 DEF After
  <2>3. states' \subseteq Positions \X StateKeys /\ warned' \subseteq Positions \X StateKeys
    BY <1>0, <2>1, <2>2, PostTyped
  <2> QED
    BY <2>1, <2>2, <2>3 DEF Lists
<1>11. CASE Cut
  BY <1>0, <1>11 DEF Cut, Lists, InHand, results, Positions
<1>12. CASE OsErr
  BY <1>0, <1>12 DEF OsErr, Lists, InHand, results, Positions
<1>13. CASE Log
  BY <1>0, <1>13 DEF Log, Lists, InHand, results, Positions
<1>14. CASE Logging
  BY <1>0, <1>14 DEF Logging, Lists, InHand, results, Positions
<1>15. CASE NutOpen
  BY <1>0, <1>15 DEF NutOpen, NutFrame, Lists, InHand, results, Positions
<1>16. CASE NutPull
  <2>1. CASE i = Len(results) \/ signum
    BY <1>0, <1>16, <2>1 DEF NutPull, NutFrame, Lists, Positions, results
  <2>2. CASE ~(i = Len(results) \/ signum)
    <3>1. i + 1 \in Positions /\ Positions' = Positions
      BY <1>0, <2>2 DEF InHand, Positions, results
    <3>2. done' = done \cup {i + 1} /\ UNCHANGED <<listed, files, logged, states, warned>>
      BY <1>16, <2>2 DEF NutPull, NutFrame
    <3> QED
      BY <3>1, <3>2 DEF Lists
  <2> QED
    BY <2>1, <2>2
<1>17. CASE NutWrite
  <2>1. i \in Positions /\ Positions' = Positions
    BY <1>0, <1>17 DEF NutWrite, InHand, Positions, results
  <2>2. files' \subseteq files \cup {i} /\ UNCHANGED <<done, listed, logged, states, warned>>
    BY <1>17 DEF NutWrite, NutFrame
  <2> QED
    BY <2>1, <2>2 DEF Lists
<1>18. CASE NutEnd
  BY <1>0, <1>18 DEF NutEnd, NutFrame, Lists, InHand, results, Positions
<1>19. CASE NutReturn
  BY <1>0, <1>19 DEF NutReturn, NutFrame, Lists, InHand, results, Positions
<1>20. CASE NutFails
  BY <1>0, <1>20 DEF NutFails, Lists, InHand, results, Positions
<1>21. CASE NutPosts
  <2>1. UNCHANGED <<listed, logged, files>> /\ done' \subseteq done /\ Positions' = Positions
    BY <1>0, <1>21 DEF NutPosts, NutFrame, Positions, results
  <2>2. CASE done = {}
    <3>1. UNCHANGED <<states, warned>>
      BY <1>21, <2>2 DEF NutPosts
    <3> QED
      BY <2>1, <3>1 DEF Lists
  <2>3. CASE done # {}
    <3>1. PICK k \in done : Post(k)
      BY <1>21, <2>3 DEF NutPosts
    <3>2. states' \subseteq Positions \X StateKeys /\ warned' \subseteq Positions \X StateKeys
      BY <1>0, <3>1, PostTyped DEF Lists
    <3> QED
      BY <2>1, <3>2 DEF Lists
  <2> QED
    BY <2>2, <2>3
<1>22. CASE Quiet
  BY <1>0, <1>22 DEF Quiet, Lists, InHand, results, Positions
<1>23. CASE Status
  BY <1>0, <1>23 DEF Status, Lists, InHand, results, Positions
<1>24. CASE StopArrives
  BY <1>0, <1>24 DEF StopArrives, Interrupted, Lists, InHand, results, Positions
<1>25. CASE UNCHANGED vars
  BY <1>0, <1>25 DEF vars, Lists, InHand, results, Positions
<1>26. CASE Raises
  BY <1>0, <1>26
  DEF Raises, PsfRaises, NutRaises, Lists, InHand, results, Positions
<1> QED
  BY <1>1, <1>2, <1>3, <1>4, <1>5, <1>6, <1>7, <1>8, <1>9, <1>10, <1>11, <1>12, <1>13, <1>14,
     <1>15,
     <1>16, <1>17, <1>18, <1>19, <1>20, <1>21, <1>22, <1>23, <1>24, <1>25, <1>26
  DEF Next, Psf, Nutmeg

\* remove_stale and the engine run leave the lists empty.
LEMMA NotBegunStep ==
    NotBegun /\ [Next]_vars => NotBegun'
<1> SUFFICES ASSUME NotBegun, [Next]_vars PROVE NotBegun'
  OBVIOUS
<1> USE DEF loopVars, diskVars, sigVars, endVars, Goto, Leave
<1>0. run' = run
  BY RunFixed
<1>1. CASE RemoveStale
  BY <1>0, <1>1 DEF RemoveStale, NotBegun, Loop, NutLoop, Handlers, AtEnd
<1>2. CASE EngineDone
  BY <1>0, <1>2 DEF EngineDone, NotBegun, Loop, NutLoop, Handlers, AtEnd
<1>3. CASE Pull
  BY <1>0, <1>3 DEF Pull, NotBegun, Loop, NutLoop, Handlers, AtEnd
<1>4. CASE Else
  BY <1>0, <1>4 DEF Else, NotBegun, Loop, NutLoop, Handlers, AtEnd
<1>5. CASE Test
  BY <1>0, <1>5 DEF Test, NotBegun, Loop, NutLoop, Handlers, AtEnd
<1>6. CASE Write
  BY <1>0, <1>6 DEF Write, NotBegun, Loop, NutLoop, Handlers, AtEnd
<1>7. CASE Writing
  BY <1>0, <1>7 DEF Writing, NotBegun, Loop, NutLoop, Handlers, AtEnd
<1>8. CASE DoneAppend
  BY <1>0, <1>8 DEF DoneAppend, NotBegun, Loop, NutLoop, Handlers, AtEnd
<1>9. CASE Clear
  BY <1>0, <1>9 DEF Clear, NotBegun, Loop, NutLoop, Handlers, AtEnd
<1>10. CASE After
  BY <1>0, <1>10 DEF After, Post, NotBegun, Loop, NutLoop, Handlers, AtEnd
<1>11. CASE Cut
  BY <1>0, <1>11 DEF Cut, NotBegun, Loop, NutLoop, Handlers, AtEnd
<1>12. CASE OsErr
  BY <1>0, <1>12 DEF OsErr, NotBegun, Loop, NutLoop, Handlers, AtEnd
<1>13. CASE Log
  BY <1>0, <1>13 DEF Log, NotBegun, Loop, NutLoop, Handlers, AtEnd
<1>14. CASE Logging
  BY <1>0, <1>14 DEF Logging, NotBegun, Loop, NutLoop, Handlers, AtEnd
<1>15. CASE NutOpen
  BY <1>0, <1>15 DEF NutOpen, NutFrame, NotBegun, Loop, NutLoop, Handlers, AtEnd
<1>16. CASE NutPull
  BY <1>0, <1>16 DEF NutPull, NutFrame, NotBegun, Loop, NutLoop, Handlers, AtEnd
<1>17. CASE NutWrite
  BY <1>0, <1>17 DEF NutWrite, NutFrame, NotBegun, Loop, NutLoop, Handlers, AtEnd
<1>18. CASE NutEnd
  BY <1>0, <1>18 DEF NutEnd, NutFrame, NotBegun, Loop, NutLoop, Handlers, AtEnd
<1>19. CASE NutReturn
  BY <1>0, <1>19 DEF NutReturn, NutFrame, NotBegun, Loop, NutLoop, Handlers, AtEnd
<1>20. CASE NutFails
  BY <1>0, <1>20 DEF NutFails, NotBegun, Loop, NutLoop, Handlers, AtEnd
<1>21. CASE NutPosts
  BY <1>0, <1>21 DEF NutPosts, NutFrame, Post, NotBegun, Loop, NutLoop, Handlers, AtEnd
<1>22. CASE Quiet
  BY <1>0, <1>22 DEF Quiet, NotBegun, Loop, NutLoop, Handlers, AtEnd
<1>23. CASE Status
  BY <1>0, <1>23 DEF Status, NotBegun, Loop, NutLoop, Handlers, AtEnd
<1>24. CASE StopArrives
  BY <1>0, <1>24 DEF StopArrives, Interrupted, NotBegun, Loop, NutLoop, Handlers, AtEnd
<1>25. CASE UNCHANGED vars
  BY <1>0, <1>25 DEF vars, NotBegun, Loop, NutLoop, Handlers, AtEnd
<1>26. CASE Raises
  BY <1>0, <1>26
  DEF Raises, PsfRaises, NutRaises, NotBegun, Loop, NutLoop, Handlers, AtEnd
<1> QED
  BY <1>1, <1>2, <1>3, <1>4, <1>5, <1>6, <1>7, <1>8, <1>9, <1>10, <1>11, <1>12, <1>13, <1>14,
     <1>15,
     <1>16, <1>17, <1>18, <1>19, <1>20, <1>21, <1>22, <1>23, <1>24, <1>25, <1>26
  DEF Next, Psf, Nutmeg

\* _Interrupted is raised by a stop signal, which stays recorded.
LEMMA SignalledStep ==
    Signalled /\ [Next]_vars => Signalled'
<1> SUFFICES ASSUME Signalled, [Next]_vars PROVE Signalled'
  OBVIOUS
<1> USE DEF loopVars, diskVars, sigVars, endVars, Goto, Leave
<1>0. run' = run
  BY RunFixed
<1>1. CASE RemoveStale
  BY <1>0, <1>1 DEF RemoveStale, Signalled
<1>2. CASE EngineDone
  BY <1>0, <1>2 DEF EngineDone, Signalled
<1>3. CASE Pull
  BY <1>0, <1>3 DEF Pull, Signalled
<1>4. CASE Else
  BY <1>0, <1>4 DEF Else, Signalled
<1>5. CASE Test
  BY <1>0, <1>5 DEF Test, Signalled
<1>6. CASE Write
  BY <1>0, <1>6 DEF Write, Signalled
<1>7. CASE Writing
  BY <1>0, <1>7 DEF Writing, Signalled
<1>8. CASE DoneAppend
  BY <1>0, <1>8 DEF DoneAppend, Signalled
<1>9. CASE Clear
  BY <1>0, <1>9 DEF Clear, Signalled
<1>10. CASE After
  BY <1>0, <1>10 DEF After, Post, Signalled
<1>11. CASE Cut
  BY <1>0, <1>11 DEF Cut, Signalled
<1>12. CASE OsErr
  BY <1>0, <1>12 DEF OsErr, Signalled
<1>13. CASE Log
  BY <1>0, <1>13 DEF Log, Signalled
<1>14. CASE Logging
  BY <1>0, <1>14 DEF Logging, Signalled
<1>15. CASE NutOpen
  BY <1>0, <1>15 DEF NutOpen, NutFrame, Signalled
<1>16. CASE NutPull
  BY <1>0, <1>16 DEF NutPull, NutFrame, Signalled
<1>17. CASE NutWrite
  BY <1>0, <1>17 DEF NutWrite, NutFrame, Signalled
<1>18. CASE NutEnd
  BY <1>0, <1>18 DEF NutEnd, NutFrame, Signalled
<1>19. CASE NutReturn
  BY <1>0, <1>19 DEF NutReturn, NutFrame, Signalled
<1>20. CASE NutFails
  BY <1>0, <1>20 DEF NutFails, Signalled
<1>21. CASE NutPosts
  BY <1>0, <1>21 DEF NutPosts, NutFrame, Post, Signalled
<1>22. CASE Quiet
  BY <1>0, <1>22 DEF Quiet, Signalled
<1>23. CASE Status
  BY <1>0, <1>23 DEF Status, Signalled
<1>24. CASE StopArrives
  BY <1>0, <1>24 DEF StopArrives, Interrupted, Signalled
<1>25. CASE UNCHANGED vars
  BY <1>0, <1>25 DEF vars, Signalled
<1>26. CASE Raises
  BY <1>0, <1>26
  DEF Raises, PsfRaises, NutRaises, Signalled
<1> QED
  BY <1>1, <1>2, <1>3, <1>4, <1>5, <1>6, <1>7, <1>8, <1>9, <1>10, <1>11, <1>12, <1>13, <1>14,
     <1>15,
     <1>16, <1>17, <1>18, <1>19, <1>20, <1>21, <1>22, <1>23, <1>24, <1>25, <1>26
  DEF Next, Psf, Nutmeg

\* Each result goes to `done' at the append, and from there to `listed' only.
LEMMA PassedStep ==
    RunInv /\ InHand /\ AtFormat /\ NotBegun /\ PassedListed /\ [Next]_vars => PassedListed'
<1> SUFFICES ASSUME RunInv, InHand, AtFormat, NotBegun, PassedListed, [Next]_vars
             PROVE  PassedListed'
  OBVIOUS
<1> USE DEF loopVars, diskVars, sigVars, endVars, Goto, Leave
<1>0. run' = run /\ Len(results) \in Nat
  BY RunFixed, ConversionAssumption DEF ConversionAssumption, RunInv, results
<1>1. CASE RemoveStale
  BY <1>0, <1>1
  DEF RemoveStale, PassedListed, Passed, Loop, NutLoop, Handlers, AtEnd, results, Positions,
     InHand, NotBegun
<1>2. CASE EngineDone
  BY <1>0, <1>2
  DEF EngineDone, PassedListed, Passed, Loop, NutLoop, Handlers, AtEnd, results, Positions,
     InHand, NotBegun
<1>3. CASE Pull
  BY <1>0, <1>3
  DEF Pull, PassedListed, Passed, Loop, NutLoop, Handlers, AtEnd, results, Positions, InHand,
     NotBegun
<1>4. CASE Else
  BY <1>0, <1>4
  DEF Else, PassedListed, Passed, Loop, NutLoop, Handlers, AtEnd, results, Positions, InHand,
     NotBegun
<1>5. CASE Test
  BY <1>0, <1>5
  DEF Test, PassedListed, Passed, Loop, NutLoop, Handlers, AtEnd, results, Positions, InHand,
     NotBegun
<1>6. CASE Write
  BY <1>0, <1>6
  DEF Write, PassedListed, Passed, Loop, NutLoop, Handlers, AtEnd, results, Positions, InHand,
     NotBegun
<1>7. CASE Writing
  BY <1>0, <1>7
  DEF Writing, PassedListed, Passed, Loop, NutLoop, Handlers, AtEnd, results, Positions,
     InHand, NotBegun
<1>8. CASE DoneAppend
  BY <1>0, <1>8
  DEF DoneAppend, PassedListed, Passed, Loop, NutLoop, Handlers, AtEnd, results, Positions,
     InHand, NotBegun
<1>9. CASE Clear
  BY <1>0, <1>9
  DEF Clear, PassedListed, Passed, Loop, NutLoop, Handlers, AtEnd, results, Positions, InHand,
     NotBegun
<1>10. CASE After
  BY <1>0, <1>10
  DEF After, Post, PassedListed, Passed, Loop, NutLoop, Handlers, AtEnd, results, Positions,
     InHand, NotBegun
<1>11. CASE Cut
  BY <1>0, <1>11
  DEF Cut, PassedListed, Passed, Loop, NutLoop, Handlers, AtEnd, results, Positions, InHand,
     NotBegun
<1>12. CASE OsErr
  BY <1>0, <1>12
  DEF OsErr, PassedListed, Passed, Loop, NutLoop, Handlers, AtEnd, results, Positions, InHand,
     NotBegun
<1>13. CASE Log
  BY <1>0, <1>13
  DEF Log, PassedListed, Passed, Loop, NutLoop, Handlers, AtEnd, results, Positions, InHand,
     NotBegun
<1>14. CASE Logging
  BY <1>0, <1>14
  DEF Logging, PassedListed, Passed, Loop, NutLoop, Handlers, AtEnd, results, Positions,
     InHand, NotBegun
<1>15. CASE NutOpen
  <2>1. run.fmt # "psf"
    BY <1>15 DEF NutOpen, AtFormat, NutAt, NutLoop
  <2> QED
    BY <1>0, <2>1 DEF PassedListed
<1>16. CASE NutPull
  <2>1. run.fmt # "psf"
    BY <1>16 DEF NutPull, AtFormat, NutAt, NutLoop
  <2> QED
    BY <1>0, <2>1 DEF PassedListed
<1>17. CASE NutWrite
  <2>1. run.fmt # "psf"
    BY <1>17 DEF NutWrite, AtFormat, NutAt, NutLoop
  <2> QED
    BY <1>0, <2>1 DEF PassedListed
<1>18. CASE NutEnd
  <2>1. run.fmt # "psf"
    BY <1>18 DEF NutEnd, AtFormat, NutAt, NutLoop
  <2> QED
    BY <1>0, <2>1 DEF PassedListed
<1>19. CASE NutReturn
  <2>1. run.fmt # "psf"
    BY <1>19 DEF NutReturn, AtFormat, NutAt, NutLoop
  <2> QED
    BY <1>0, <2>1 DEF PassedListed
<1>20. CASE NutFails
  <2>1. run.fmt # "psf"
    BY <1>20 DEF NutFails, AtFormat, NutAt, NutLoop
  <2> QED
    BY <1>0, <2>1 DEF PassedListed
<1>21. CASE NutPosts
  <2>1. run.fmt # "psf"
    BY <1>21 DEF NutPosts, AtFormat, NutAt, NutLoop
  <2> QED
    BY <1>0, <2>1 DEF PassedListed
<1>22. CASE Quiet
  BY <1>0, <1>22
  DEF Quiet, PassedListed, Passed, Loop, NutLoop, Handlers, AtEnd, results, Positions, InHand,
     NotBegun
<1>23. CASE Status
  BY <1>0, <1>23
  DEF Status, PassedListed, Passed, Loop, NutLoop, Handlers, AtEnd, results, Positions,
     InHand, NotBegun
<1>24. CASE StopArrives
  BY <1>0, <1>24
  DEF StopArrives, Interrupted, PassedListed, Passed, Loop, NutLoop, Handlers, AtEnd, results,
     Positions, InHand, NotBegun
<1>25. CASE UNCHANGED vars
  BY <1>0, <1>25
  DEF vars, PassedListed, Passed, Loop, NutLoop, Handlers, AtEnd, results, Positions, InHand,
     NotBegun
<1>26. CASE Raises
  BY <1>0, <1>26
  DEF Raises, PsfRaises, NutRaises, PassedListed, Passed, Loop, NutLoop, Handlers, AtEnd, results, Positions, InHand, NotBegun
<1> QED
  BY <1>1, <1>2, <1>3, <1>4, <1>5, <1>6, <1>7, <1>8, <1>9, <1>10, <1>11, <1>12, <1>13, <1>14,
     <1>15,
     <1>16, <1>17, <1>18, <1>19, <1>20, <1>21, <1>22, <1>23, <1>24, <1>25, <1>26
  DEF Next, Psf, Nutmeg

\* The loop ends with everything listed, unless a stop signal or an error ended it, and
\* the logFile is written from the list.
LEMMA AllListedStep ==
    RunInv /\ Flags /\ InHand /\ AtFormat /\ Signalled /\ PassedListed /\ AllListed /\
       [Next]_vars
    => AllListed'
<1> SUFFICES ASSUME RunInv, Flags, InHand, AtFormat, Signalled, PassedListed, AllListed,
                    [Next]_vars
             PROVE  AllListed'
  OBVIOUS
<1> USE DEF loopVars, diskVars, sigVars, endVars, Goto, Leave
<1>0. run' = run /\ Len(results) \in Nat
  BY RunFixed, ConversionAssumption DEF ConversionAssumption, RunInv, results
<1>1. CASE RemoveStale
  BY <1>0, <1>1
  DEF RemoveStale, AllListed, Clean, AfterLoop, Signalled, HasData, results, Positions
<1>2. CASE EngineDone
  BY <1>0, <1>2
  DEF EngineDone, AllListed, Clean, AfterLoop, Signalled, HasData, results, Positions
<1>3. CASE Pull
  BY <1>0, <1>3
  DEF Pull, PassedListed, Passed, Loop, InHand, AllListed, Clean, AfterLoop, Signalled,
     HasData, results, Positions
<1>4. CASE Else
  BY <1>0, <1>4 DEF Else, AllListed, Clean, AfterLoop, Signalled, HasData, results, Positions
<1>5. CASE Test
  BY <1>0, <1>5
  DEF Test, Flags, AllListed, Clean, AfterLoop, Signalled, HasData, results, Positions
<1>6. CASE Write
  BY <1>0, <1>6 DEF Write, AllListed, Clean, AfterLoop, Signalled, HasData, results, Positions
<1>7. CASE Writing
  BY <1>0, <1>7 DEF Writing, AllListed, Clean, AfterLoop, Signalled, HasData, results, Positions
<1>8. CASE DoneAppend
  BY <1>0, <1>8
  DEF DoneAppend, AllListed, Clean, AfterLoop, Signalled, HasData, results, Positions
<1>9. CASE Clear
  BY <1>0, <1>9 DEF Clear, AllListed, Clean, AfterLoop, Signalled, HasData, results, Positions
<1>10. CASE After
  BY <1>0, <1>10
  DEF After, Post, AllListed, Clean, AfterLoop, Signalled, HasData, results, Positions
<1>11. CASE Cut
  BY <1>0, <1>11 DEF Cut, AllListed, Clean, AfterLoop, Signalled, HasData, results, Positions
<1>12. CASE OsErr
  BY <1>0, <1>12 DEF OsErr, AllListed, Clean, AfterLoop, Signalled, HasData, results, Positions
<1>13. CASE Log
  BY <1>0, <1>13 DEF Log, AllListed, Clean, AfterLoop, Signalled, HasData, results, Positions
<1>14. CASE Logging
  BY <1>0, <1>14 DEF Logging, AllListed, Clean, AfterLoop, Signalled, HasData, results, Positions
<1>15. CASE NutOpen
  <2>1. run.fmt # "psf"
    BY <1>15 DEF NutOpen, AtFormat, NutAt, NutLoop
  <2> QED
    BY <1>0, <2>1 DEF AllListed
<1>16. CASE NutPull
  <2>1. run.fmt # "psf"
    BY <1>16 DEF NutPull, AtFormat, NutAt, NutLoop
  <2> QED
    BY <1>0, <2>1 DEF AllListed
<1>17. CASE NutWrite
  <2>1. run.fmt # "psf"
    BY <1>17 DEF NutWrite, AtFormat, NutAt, NutLoop
  <2> QED
    BY <1>0, <2>1 DEF AllListed
<1>18. CASE NutEnd
  <2>1. run.fmt # "psf"
    BY <1>18 DEF NutEnd, AtFormat, NutAt, NutLoop
  <2> QED
    BY <1>0, <2>1 DEF AllListed
<1>19. CASE NutReturn
  <2>1. run.fmt # "psf"
    BY <1>19 DEF NutReturn, AtFormat, NutAt, NutLoop
  <2> QED
    BY <1>0, <2>1 DEF AllListed
<1>20. CASE NutFails
  <2>1. run.fmt # "psf"
    BY <1>20 DEF NutFails, AtFormat, NutAt, NutLoop
  <2> QED
    BY <1>0, <2>1 DEF AllListed
<1>21. CASE NutPosts
  <2>1. run.fmt # "psf"
    BY <1>21 DEF NutPosts, AtFormat, NutAt, NutLoop
  <2> QED
    BY <1>0, <2>1 DEF AllListed
<1>22. CASE Quiet
  BY <1>0, <1>22 DEF Quiet, AllListed, Clean, AfterLoop, Signalled, HasData, results, Positions
<1>23. CASE Status
  BY <1>0, <1>23 DEF Status, AllListed, Clean, AfterLoop, Signalled, HasData, results, Positions
<1>24. CASE StopArrives
  BY <1>0, <1>24
  DEF StopArrives, Interrupted, Flags, Loop, NutLoop, Handlers, AtEnd, AllListed, Clean,
     AfterLoop, Signalled, HasData, results, Positions
<1>25. CASE UNCHANGED vars
  BY <1>0, <1>25 DEF vars, AllListed, Clean, AfterLoop, Signalled, HasData, results, Positions
<1>26. CASE Raises
  BY <1>0, <1>26
  DEF Raises, PsfRaises, NutRaises, AllListed, Clean, AfterLoop, Signalled, HasData, results, Positions
<1> QED
  BY <1>1, <1>2, <1>3, <1>4, <1>5, <1>6, <1>7, <1>8, <1>9, <1>10, <1>11, <1>12, <1>13, <1>14,
     <1>15,
     <1>16, <1>17, <1>18, <1>19, <1>20, <1>21, <1>22, <1>23, <1>24, <1>25, <1>26
  DEF Next, Psf, Nutmeg

\* write_error stays set.
LEMMA PostError ==
    ASSUME NEW k, Post(k), Flags, writeError' = FALSE
    PROVE  writeError = FALSE
  BY Zenon DEF Post, Flags

\* nutmeg's generator hands each result to the writer once, and the file is replaced
\* after the last.
LEMMA PlotsStep ==
    RunInv /\ Flags /\ InHand /\ AtFormat /\ NotBegun /\ Signalled /\ Plots /\ [Next]_vars
    => Plots'
<1> SUFFICES ASSUME RunInv, Flags, InHand, AtFormat, NotBegun, Signalled, Plots, [Next]_vars
             PROVE  Plots'
  OBVIOUS
<1> USE DEF loopVars, diskVars, sigVars, endVars, Goto, Leave
<1>0. run' = run /\ Len(results) \in Nat
  BY RunFixed, ConversionAssumption DEF ConversionAssumption, RunInv, results
<1>1. CASE RemoveStale
  BY <1>0, <1>1 DEF RemoveStale, Plots, Clean, Signalled, HasData, NutLoop, results, Positions
<1>2. CASE EngineDone
  BY <1>0, <1>2
  DEF EngineDone, NotBegun, Plots, Clean, Signalled, HasData, NutLoop, results, Positions
<1>3. CASE Pull
  <2>1. run.fmt = "psf"
    BY <1>3 DEF Pull, AtFormat, PsfAt, Loop
  <2> QED
    BY <1>0, <2>1 DEF Plots
<1>4. CASE Else
  <2>1. run.fmt = "psf"
    BY <1>4 DEF Else, AtFormat, PsfAt, Loop
  <2> QED
    BY <1>0, <2>1 DEF Plots
<1>5. CASE Test
  <2>1. run.fmt = "psf"
    BY <1>5 DEF Test, AtFormat, PsfAt, Loop
  <2> QED
    BY <1>0, <2>1 DEF Plots
<1>6. CASE Write
  <2>1. run.fmt = "psf"
    BY <1>6 DEF Write, AtFormat, PsfAt, Loop
  <2> QED
    BY <1>0, <2>1 DEF Plots
<1>7. CASE Writing
  <2>1. run.fmt = "psf"
    BY <1>7 DEF Writing, AtFormat, PsfAt, Loop
  <2> QED
    BY <1>0, <2>1 DEF Plots
<1>8. CASE DoneAppend
  <2>1. run.fmt = "psf"
    BY <1>8 DEF DoneAppend, AtFormat, PsfAt, Loop
  <2> QED
    BY <1>0, <2>1 DEF Plots
<1>9. CASE Clear
  <2>1. run.fmt = "psf"
    BY <1>9 DEF Clear, AtFormat, PsfAt, Loop
  <2> QED
    BY <1>0, <2>1 DEF Plots
<1>10. CASE After
  <2>1. run.fmt = "psf"
    BY <1>10 DEF After, AtFormat, PsfAt, Loop
  <2> QED
    BY <1>0, <2>1 DEF Plots
<1>11. CASE Cut
  <2>1. run.fmt = "psf"
    BY <1>11 DEF Cut, AtFormat, PsfAt, Loop
  <2> QED
    BY <1>0, <2>1 DEF Plots
<1>12. CASE OsErr
  <2>1. run.fmt = "psf"
    BY <1>12 DEF OsErr, AtFormat, PsfAt, Loop
  <2> QED
    BY <1>0, <2>1 DEF Plots
<1>13. CASE Log
  <2>1. run.fmt = "psf"
    BY <1>13 DEF Log, AtFormat, PsfAt, Loop
  <2> QED
    BY <1>0, <2>1 DEF Plots
<1>14. CASE Logging
  <2>1. run.fmt = "psf"
    BY <1>14 DEF Logging, AtFormat, PsfAt, Loop
  <2> QED
    BY <1>0, <2>1 DEF Plots
<1>15. CASE NutOpen
  BY <1>0, <1>15
  DEF NutOpen, NutFrame, Plots, Clean, Signalled, HasData, NutLoop, results, Positions
<1>16. CASE NutPull
  <2>1. run.fmt # "psf"
    BY <1>16 DEF NutPull, AtFormat, NutAt, NutLoop
  <2>2. CASE i = Len(results) \/ signum
    <3>1. pc' = "nutEnd" /\ pc = "nutPull" /\ UNCHANGED <<i, done, files, index, logged, signum, writeError>>
      BY <1>16, <2>2 DEF NutPull, NutFrame
    <3> QED
      BY <1>0, <2>1, <2>2, <3>1
      DEF Flags, Plots, Clean, Signalled, HasData, results, Positions, NutLoop
  <2>3. CASE ~(i = Len(results) \/ signum)
    <3>1. /\ pc' = "nutWrite" /\ pc = "nutPull" /\ i' = i + 1 /\ done' = done \cup {i + 1}
          /\ UNCHANGED <<files, index, logged, signum, writeError>>
      BY <1>16, <2>3 DEF NutPull, NutFrame
    <3> QED
      BY <1>0, <2>1, <3>1
      DEF InHand, Plots, Clean, Signalled, HasData, results, Positions, NutLoop
  <2> QED
    BY <2>2, <2>3
<1>17. CASE NutWrite
  BY <1>0, <1>17
  DEF NutWrite, NutFrame, Plots, Clean, Signalled, HasData, NutLoop, results, Positions
<1>18. CASE NutEnd
  BY <1>0, <1>18
  DEF NutEnd, NutFrame, Plots, Clean, Signalled, HasData, NutLoop, results, Positions
<1>19. CASE NutReturn
  BY <1>0, <1>19
  DEF NutReturn, NutFrame, Plots, Clean, Signalled, HasData, NutLoop, results, Positions
<1>20. CASE NutFails
  BY <1>0, <1>20 DEF NutFails, Plots, Clean, Signalled, HasData, NutLoop, results, Positions
<1>21. CASE NutPosts
  <2>1. UNCHANGED <<i, files, index, logged, signum>> /\ pc = "posts" /\ pc' \in {"posts", "status"}
    BY <1>21 DEF NutPosts, NutFrame
  <2>2. writeError' = FALSE => writeError = FALSE
    <3>1. CASE done = {}
      BY <1>21, <3>1 DEF NutPosts
    <3>2. CASE done # {}
      BY <1>21, <3>2, PostError DEF NutPosts
    <3> QED
      BY <3>1, <3>2
  <2> QED
    BY <1>0, <2>1, <2>2 DEF Plots, Clean, HasData, NutLoop, results, Positions
<1>22. CASE Quiet
  BY <1>0, <1>22 DEF Quiet, Plots, Clean, Signalled, HasData, NutLoop, results, Positions
<1>23. CASE Status
  BY <1>0, <1>23 DEF Status, Plots, Clean, Signalled, HasData, NutLoop, results, Positions
<1>24. CASE StopArrives
  BY <1>0, <1>24
  DEF StopArrives, Interrupted, Plots, Clean, Signalled, HasData, NutLoop, results, Positions
<1>25. CASE UNCHANGED vars
  BY <1>0, <1>25 DEF vars, Plots, Clean, Signalled, HasData, NutLoop, results, Positions
<1>26. CASE Raises
  BY <1>0, <1>26
  DEF Raises, PsfRaises, NutRaises, Plots, Clean, Signalled, HasData, NutLoop, results, Positions
<1> QED
  BY <1>1, <1>2, <1>3, <1>4, <1>5, <1>6, <1>7, <1>8, <1>9, <1>10, <1>11, <1>12, <1>13, <1>14,
     <1>15,
     <1>16, <1>17, <1>18, <1>19, <1>20, <1>21, <1>22, <1>23, <1>24, <1>25, <1>26
  DEF Next, Psf, Nutmeg

\* track looks at every result before the next one.
LEMMA TestedStep ==
    RunInv /\ Flags /\ InHand /\ AtFormat /\ NotBegun /\ Tested /\ [Next]_vars => Tested'
<1> SUFFICES ASSUME RunInv, Flags, InHand, AtFormat, NotBegun, Tested, [Next]_vars PROVE Tested'
  OBVIOUS
<1> USE DEF loopVars, diskVars, sigVars, endVars, Goto, Leave
<1>0. run' = run /\ Len(results) \in Nat
  BY RunFixed, ConversionAssumption DEF ConversionAssumption, RunInv, results
<1>1. CASE RemoveStale
  BY <1>0, <1>1 DEF RemoveStale, Tested, HasData, InHand, results, Positions
<1>2. CASE EngineDone
  BY <1>0, <1>2 DEF EngineDone, Tested, HasData, InHand, results, Positions
<1>3. CASE Pull
  BY <1>0, <1>3 DEF Pull, Tested, HasData, InHand, results, Positions
<1>4. CASE Else
  BY <1>0, <1>4 DEF Else, Tested, HasData, InHand, results, Positions
<1>5. CASE Test
  <2>1. CASE signum
    BY <1>5, <2>1, Zenon DEF Test, Tested, Flags
  <2>2. CASE ~signum
    <3>3. failed' = FALSE => failed = FALSE /\ ~(results[i].kind = "data" /\ ~results[i].ok)
      <4>1. failed' = (failed \/ (results[i].kind = "data" /\ ~results[i].ok))
        BY <1>5, <2>2 DEF Test
      <4> QED
        BY <4>1, Zenon DEF Flags
    <3> QED
      BY <1>0, <1>5, <2>2, <3>3 DEF Test, Tested, HasData, InHand, results, Positions
  <2> QED
    BY <2>1, <2>2
<1>6. CASE Write
  BY <1>0, <1>6 DEF Write, Tested, HasData, InHand, results, Positions
<1>7. CASE Writing
  BY <1>0, <1>7 DEF Writing, Tested, HasData, InHand, results, Positions
<1>8. CASE DoneAppend
  BY <1>0, <1>8 DEF DoneAppend, Tested, HasData, InHand, results, Positions
<1>9. CASE Clear
  BY <1>0, <1>9 DEF Clear, Tested, HasData, InHand, results, Positions
<1>10. CASE After
  <2>1. UNCHANGED <<i, signum, failed>> /\ pc = "after" /\ pc' = "pull" /\ Post(i)
    BY <1>10 DEF After
  <2>2. writeError' = FALSE => writeError = FALSE
    BY <2>1, PostError
  <2> QED
    BY <1>0, <2>1, <2>2 DEF Tested, HasData, results, Positions
<1>11. CASE Cut
  BY <1>0, <1>11 DEF Cut, Tested, HasData, InHand, results, Positions
<1>12. CASE OsErr
  BY <1>0, <1>12 DEF OsErr, Tested, HasData, InHand, results, Positions
<1>13. CASE Log
  BY <1>0, <1>13 DEF Log, Tested, HasData, InHand, results, Positions
<1>14. CASE Logging
  BY <1>0, <1>14 DEF Logging, Tested, HasData, InHand, results, Positions
<1>15. CASE NutOpen
  BY <1>0, <1>15 DEF NutOpen, NutFrame, Tested, HasData, InHand, results, Positions
<1>16. CASE NutPull
  <2>1. CASE i = Len(results) \/ signum
    BY <1>0, <1>16, <2>1 DEF NutPull, NutFrame, Tested, HasData, InHand, results, Positions
  <2>2. CASE ~(i = Len(results) \/ signum)
    <3>3. failed' = FALSE => failed = FALSE /\ ~(results[i + 1].kind = "data" /\ ~results[i + 1].ok)
      <4>1. failed' = (failed \/ (results[i + 1].kind = "data" /\ ~results[i + 1].ok))
        BY <1>16, <2>2 DEF NutPull
      <4> QED
        BY <4>1, Zenon DEF Flags
    <3>4. i' = i + 1 /\ pc = "nutPull" /\ UNCHANGED <<signum, writeError>>
      BY <1>16, <2>2 DEF NutPull, NutFrame
    <3> QED
      BY <1>0, <3>3, <3>4 DEF Tested, HasData, InHand, results, Positions
  <2> QED
    BY <2>1, <2>2
<1>17. CASE NutWrite
  BY <1>0, <1>17 DEF NutWrite, NutFrame, Tested, HasData, InHand, results, Positions
<1>18. CASE NutEnd
  BY <1>0, <1>18 DEF NutEnd, NutFrame, Tested, HasData, InHand, results, Positions
<1>19. CASE NutReturn
  BY <1>0, <1>19 DEF NutReturn, NutFrame, Tested, HasData, InHand, results, Positions
<1>20. CASE NutFails
  BY <1>0, <1>20 DEF NutFails, Tested, HasData, InHand, results, Positions
<1>21. CASE NutPosts
  <2>1. UNCHANGED <<i, signum, failed>> /\ pc = "posts" /\ pc' \in {"posts", "status"}
    BY <1>21 DEF NutPosts, NutFrame
  <2>2. writeError' = FALSE => writeError = FALSE
    <3>1. CASE done = {}
      BY <1>21, <3>1 DEF NutPosts
    <3>2. CASE done # {}
      BY <1>21, <3>2, PostError DEF NutPosts
    <3> QED
      BY <3>1, <3>2
  <2> QED
    BY <1>0, <2>1, <2>2 DEF Tested, HasData, results, Positions
<1>22. CASE Quiet
  BY <1>0, <1>22 DEF Quiet, Tested, HasData, InHand, results, Positions
<1>23. CASE Status
  BY <1>0, <1>23 DEF Status, Tested, HasData, InHand, results, Positions
<1>24. CASE StopArrives
  BY <1>0, <1>24 DEF StopArrives, Interrupted, Tested, HasData, InHand, results, Positions
<1>25. CASE UNCHANGED vars
  BY <1>0, <1>25 DEF vars, Tested, HasData, InHand, results, Positions
<1>26. CASE Raises
  BY <1>0, <1>26
  DEF Raises, PsfRaises, NutRaises, Tested, HasData, InHand, results, Positions
<1> QED
  BY <1>1, <1>2, <1>3, <1>4, <1>5, <1>6, <1>7, <1>8, <1>9, <1>10, <1>11, <1>12, <1>13, <1>14,
     <1>15,
     <1>16, <1>17, <1>18, <1>19, <1>20, <1>21, <1>22, <1>23, <1>24, <1>25, <1>26
  DEF Next, Psf, Nutmeg

\* post leaves no state file that is neither written nor warned about, or it
\* is an error.
LEMMA PostDone ==
    ASSUME NEW k, Post(k), Flags, run' = run, writeError' # TRUE
    PROVE  writeError' = writeError /\ states \subseteq states' /\ warned \subseteq warned' /\ StatesOf(k)'
<1>1. CASE ~(results[k].kind = "data" /\ HasData(k))
  BY <1>1 DEF Post, StatesOf, HasData, results
<1>2. CASE results[k].kind = "data" /\ HasData(k)
  <2>1. PICK written, told \in SUBSET results[k].state :
           /\ states' = states \cup ({k} \X written) /\ warned' = warned \cup ({k} \X told)
           /\ writeError' = (writeError \/ results[k].state \ (written \cup told) # {})
    BY <1>2 DEF Post
  <2>2. ~writeError /\ results[k].state \ (written \cup told) = {}
    BY <2>1, Zenon
  <2>3. writeError' = writeError
    BY <2>1, <2>2, Zenon DEF Flags
  <2>4. \A key \in results[k].state : <<k, key>> \in states' \cup warned'
    BY <2>1, <2>2
  <2> QED
    BY <2>1, <2>3, <2>4 DEF StatesOf, results
<1> QED
  BY <1>1, <1>2

\* post is called for every result written: in psf's loop, or after nutmeg's.
LEMMA StatesStep ==
    RunInv /\ Flags /\ InHand /\ AtFormat /\ NotBegun /\ AllListed /\ Plots /\ Signalled /\
       StatesDone /\ [Next]_vars
    => StatesDone'
<1> SUFFICES ASSUME RunInv, Flags, InHand, AtFormat, NotBegun, AllListed, Plots, Signalled,
                    StatesDone, [Next]_vars
             PROVE  StatesDone'
  OBVIOUS
<1> USE DEF loopVars, diskVars, sigVars, endVars, Goto, Leave
<1>0. run' = run /\ Len(results) \in Nat
  BY RunFixed, ConversionAssumption DEF ConversionAssumption, RunInv, results
<1>1. CASE RemoveStale
  BY <1>0, <1>1
  DEF RemoveStale, StatesDone, StatesOf, Clean, HasData, AfterLoop, results, Positions
<1>2. CASE EngineDone
  BY <1>0, <1>2
  DEF EngineDone, NotBegun, StatesDone, StatesOf, Clean, HasData, AfterLoop, results,
     Positions
<1>3. CASE Pull
  BY <1>0, <1>3
  DEF Pull, InHand, StatesDone, StatesOf, Clean, HasData, AfterLoop, results, Positions
<1>4. CASE Else
  BY <1>0, <1>4 DEF Else, StatesDone, StatesOf, Clean, HasData, AfterLoop, results, Positions
<1>5. CASE Test
  BY <1>0, <1>5 DEF Test, StatesDone, StatesOf, Clean, HasData, AfterLoop, results, Positions
<1>6. CASE Write
  BY <1>0, <1>6 DEF Write, StatesDone, StatesOf, Clean, HasData, AfterLoop, results, Positions
<1>7. CASE Writing
  BY <1>0, <1>7 DEF Writing, StatesDone, StatesOf, Clean, HasData, AfterLoop, results, Positions
<1>8. CASE DoneAppend
  BY <1>0, <1>8
  DEF DoneAppend, StatesDone, StatesOf, Clean, HasData, AfterLoop, results, Positions
<1>9. CASE Clear
  BY <1>0, <1>9 DEF Clear, StatesDone, StatesOf, Clean, HasData, AfterLoop, results, Positions
<1>10. CASE After
  <2>1. UNCHANGED <<i, signum>> /\ pc = "after" /\ pc' = "pull" /\ Post(i)
    BY <1>10 DEF After
  <2>2. run.fmt = "psf"
    BY <2>1 DEF AtFormat, PsfAt, Loop
  <2>3. CASE writeError' = TRUE
    BY <2>3 DEF StatesDone, Clean
  <2>4. CASE writeError' # TRUE
    <3>1. writeError' = writeError /\ states \subseteq states' /\ warned \subseteq warned' /\ StatesOf(i)'
      BY <1>0, <2>1, <2>4, PostDone
    <3>2. \A k \in Positions : StatesOf(k) => StatesOf(k)'
      BY <1>0, <3>1 DEF StatesOf, HasData, results
    <3>3. \A k \in Positions' : k \in Positions
      BY <1>0 DEF Positions, results
    <3> QED
      BY <1>0, <2>1, <2>2, <3>1, <3>2, <3>3 DEF StatesDone, Clean
  <2> QED
    BY <2>3, <2>4
<1>11. CASE Cut
  BY <1>0, <1>11
  DEF Cut, Signalled, StatesDone, StatesOf, Clean, HasData, AfterLoop, results, Positions
<1>12. CASE OsErr
  BY <1>0, <1>12 DEF OsErr, StatesDone, StatesOf, Clean, HasData, AfterLoop, results, Positions
<1>13. CASE Log
  BY <1>0, <1>13
  DEF Log, AtFormat, PsfAt, StatesDone, StatesOf, Clean, HasData, AfterLoop, results,
     Positions
<1>14. CASE Logging
  BY <1>0, <1>14
  DEF Logging, AtFormat, PsfAt, StatesDone, StatesOf, Clean, HasData, AfterLoop, results,
     Positions
<1>15. CASE NutOpen
  <2>1. run.fmt # "psf"
    BY <1>15 DEF NutOpen, AtFormat, NutAt, NutLoop
  <2>2. pc' \notin {"posts", "status"}
    BY <1>15 DEF NutOpen
  <2> QED
    BY <1>0, <2>1, <2>2 DEF StatesDone
<1>16. CASE NutPull
  <2>1. run.fmt # "psf"
    BY <1>16 DEF NutPull, AtFormat, NutAt, NutLoop
  <2>2. pc' \notin {"posts", "status"}
    BY <1>16 DEF NutPull
  <2> QED
    BY <1>0, <2>1, <2>2 DEF StatesDone
<1>17. CASE NutWrite
  <2>1. run.fmt # "psf"
    BY <1>17 DEF NutWrite, AtFormat, NutAt, NutLoop
  <2>2. pc' \notin {"posts", "status"}
    BY <1>17 DEF NutWrite
  <2> QED
    BY <1>0, <2>1, <2>2 DEF StatesDone
<1>18. CASE NutEnd
  <2>1. run.fmt # "psf"
    BY <1>18 DEF NutEnd, AtFormat, NutAt, NutLoop
  <2>2. pc' \notin {"posts", "status"}
    BY <1>18 DEF NutEnd
  <2> QED
    BY <1>0, <2>1, <2>2 DEF StatesDone
<1>19. CASE NutReturn
  <2>1. run.fmt # "psf"
    BY <1>19 DEF NutReturn, AtFormat, NutAt, NutLoop
  <2>2. pc' \notin {"posts", "status"}
    BY <1>19 DEF NutReturn
  <2> QED
    BY <1>0, <2>1, <2>2 DEF StatesDone
<1>20. CASE NutFails
  <2>1. run.fmt # "psf"
    BY <1>20 DEF NutFails, AtFormat, NutAt, NutLoop
  <2>2. pc' \notin {"posts", "status"}
    BY <1>20 DEF NutFails
  <2> QED
    BY <1>0, <2>1, <2>2 DEF StatesDone
<1>21. CASE NutPosts
  <2>1. run.fmt # "psf"
    BY <1>21 DEF NutPosts, AtFormat, NutAt, NutLoop
  <2>2. CASE done = {}
    <3>1. UNCHANGED <<i, done, states, warned, signum, writeError>> /\ pc = "posts"
      BY <1>21, <2>2 DEF NutPosts, NutFrame
    <3> QED
      BY <1>0, <2>1, <2>2, <3>1
      DEF StatesDone, StatesOf, Clean, HasData, AfterLoop, results, Positions
  <2>3. CASE done # {}
    <3>1. PICK k \in done : done' = done \ {k} /\ Post(k) /\ UNCHANGED pc
      BY <1>21, <2>3 DEF NutPosts
    <3>2. UNCHANGED <<i, signum>> /\ pc = "posts" /\ pc' = "posts"
      BY <1>21, <3>1 DEF NutPosts, NutFrame
    <3>3. CASE writeError' = TRUE
      BY <3>3 DEF StatesDone, Clean
    <3>4. CASE writeError' # TRUE
      <4>1. writeError' = writeError /\ states \subseteq states' /\ warned \subseteq warned' /\ StatesOf(k)'
        BY <1>0, <3>1, <3>4, PostDone
      <4> QED
        BY <1>0, <2>1, <3>1, <3>2, <4>1
        DEF StatesDone, StatesOf, Clean, HasData, AfterLoop, results, Positions
    <3> QED
      BY <3>3, <3>4
  <2> QED
    BY <2>2, <2>3
<1>22. CASE Quiet
  <2>1. /\ UNCHANGED <<i, done, states, warned, signum, writeError>> /\ pc = "quiet"
        /\ pc' = IF run.fmt = "psf" THEN "log" ELSE "posts"
    BY <1>22 DEF Quiet
  <2>2. CASE run.fmt = "psf"
    BY <1>0, <2>1, <2>2 DEF StatesDone, StatesOf, Clean, HasData, AfterLoop, results, Positions
  <2>3. CASE run.fmt # "psf"
    <3>1. Clean => \A k \in Positions : k \in done
      BY <1>0, <2>1, <2>3 DEF Plots, Positions
    <3>2. Clean' <=> Clean
      BY <2>1 DEF Clean
    <3> QED
      BY <1>0, <2>1, <2>3, <3>1, <3>2 DEF StatesDone, StatesOf, HasData, results, Positions
  <2> QED
    BY <2>2, <2>3
<1>23. CASE Status
  BY <1>0, <1>23 DEF Status, StatesDone, StatesOf, Clean, HasData, AfterLoop, results, Positions
<1>24. CASE StopArrives
  BY <1>0, <1>24
  DEF StopArrives, Interrupted, StatesDone, StatesOf, Clean, HasData, AfterLoop, results,
     Positions
<1>25. CASE UNCHANGED vars
  BY <1>0, <1>25 DEF vars, StatesDone, StatesOf, Clean, HasData, AfterLoop, results, Positions
<1>26. CASE Raises
  BY <1>0, <1>26
  DEF Raises, PsfRaises, NutRaises, StatesDone, StatesOf, Clean, HasData, AfterLoop, results, Positions
<1> QED
  BY <1>1, <1>2, <1>3, <1>4, <1>5, <1>6, <1>7, <1>8, <1>9, <1>10, <1>11, <1>12, <1>13, <1>14,
     <1>15,
     <1>16, <1>17, <1>18, <1>19, <1>20, <1>21, <1>22, <1>23, <1>24, <1>25, <1>26
  DEF Next, Psf, Nutmeg

\* Status 0 needs no stop signal, no error, no failed result and rc 0; then everything is
\* on the disk and in the index.
LEMMA HonestStep ==
    RunInv /\ Values /\ Flags /\ InHand /\ NewListed /\ AllListed /\ Plots /\ Tested /\
       StatesDone /\ Honest /\ [Next]_vars
    => Honest'
<1> SUFFICES ASSUME RunInv, Values, Flags, InHand, NewListed, AllListed, Plots, Tested,
                    StatesDone, Honest, [Next]_vars
             PROVE  Honest'
  OBVIOUS
<1> USE DEF loopVars, diskVars, sigVars, endVars, Goto, Leave
<1>0. run' = run /\ Len(results) \in Nat
  BY RunFixed, ConversionAssumption DEF ConversionAssumption, RunInv, results
<1>1. CASE RemoveStale
  BY <1>0, <1>1 DEF RemoveStale, Honest, StatusHonest, Over, results, Positions
<1>2. CASE EngineDone
  BY <1>0, <1>2 DEF EngineDone, Honest, StatusHonest, Over, results, Positions
<1>3. CASE Pull
  BY <1>0, <1>3 DEF Pull, Honest, StatusHonest, Over, results, Positions
<1>4. CASE Else
  BY <1>0, <1>4 DEF Else, Honest, StatusHonest, Over, results, Positions
<1>5. CASE Test
  BY <1>0, <1>5 DEF Test, Honest, StatusHonest, Over, results, Positions
<1>6. CASE Write
  BY <1>0, <1>6 DEF Write, Honest, StatusHonest, Over, results, Positions
<1>7. CASE Writing
  BY <1>0, <1>7 DEF Writing, Honest, StatusHonest, Over, results, Positions
<1>8. CASE DoneAppend
  BY <1>0, <1>8 DEF DoneAppend, Honest, StatusHonest, Over, results, Positions
<1>9. CASE Clear
  BY <1>0, <1>9 DEF Clear, Honest, StatusHonest, Over, results, Positions
<1>10. CASE After
  BY <1>0, <1>10 DEF After, Post, Honest, StatusHonest, Over, results, Positions
<1>11. CASE Cut
  BY <1>0, <1>11 DEF Cut, Honest, StatusHonest, Over, results, Positions
<1>12. CASE OsErr
  BY <1>0, <1>12 DEF OsErr, Honest, StatusHonest, Over, results, Positions
<1>13. CASE Log
  BY <1>0, <1>13 DEF Log, Honest, StatusHonest, Over, results, Positions
<1>14. CASE Logging
  BY <1>0, <1>14 DEF Logging, Honest, StatusHonest, Over, results, Positions
<1>15. CASE NutOpen
  BY <1>0, <1>15 DEF NutOpen, NutFrame, Honest, StatusHonest, Over, results, Positions
<1>16. CASE NutPull
  BY <1>0, <1>16 DEF NutPull, NutFrame, Honest, StatusHonest, Over, results, Positions
<1>17. CASE NutWrite
  BY <1>0, <1>17 DEF NutWrite, NutFrame, Honest, StatusHonest, Over, results, Positions
<1>18. CASE NutEnd
  BY <1>0, <1>18 DEF NutEnd, NutFrame, Honest, StatusHonest, Over, results, Positions
<1>19. CASE NutReturn
  BY <1>0, <1>19 DEF NutReturn, NutFrame, Honest, StatusHonest, Over, results, Positions
<1>20. CASE NutFails
  BY <1>0, <1>20 DEF NutFails, Honest, StatusHonest, Over, results, Positions
<1>21. CASE NutPosts
  BY <1>0, <1>21 DEF NutPosts, NutFrame, Post, Honest, StatusHonest, Over, results, Positions
<1>22. CASE Quiet
  BY <1>0, <1>22 DEF Quiet, Honest, StatusHonest, Over, results, Positions
<1>23. CASE Status
  <2> DEFINE engine == IF rc = 0 /\ (failed \/ run.stepFailed) THEN 1 ELSE rc
             wrote == IF writeError /\ engine < 2 THEN 2 ELSE engine
  <2>1. /\ pc = "status" /\ status' = IF signum THEN 3 ELSE wrote
        /\ UNCHANGED <<i, listed, files, index, logged, states, warned, signum, writeError, failed>>
    BY <1>23 DEF Status
  <2>2. SUFFICES ASSUME status' = 0, NEW k \in Positions, results[k].kind = "data"
                 PROVE  /\ k \in logged /\ k \in files
                        /\ \A key \in results[k].state : <<k, key>> \in states \cup warned
    BY <1>0, <2>1 DEF Honest, StatusHonest, Over, Positions, results
  <2>3. signum = FALSE /\ wrote = 0
    BY <2>1, <2>2 DEF Flags
  <2>4. writeError = FALSE /\ engine = 0
    BY <2>3 DEF Flags, Values
  <2>5. failed = FALSE
    <3> SUFFICES ASSUME failed = TRUE PROVE FALSE
      BY Zenon DEF Flags
    <3>1. engine = IF rc = 0 THEN 1 ELSE rc
      BY Zenon
    <3> HIDE DEF engine
    <3> QED
      BY <2>4, <3>1
  <2>6. Clean
    BY <2>3, <2>4 DEF Clean
  <2>7. i = Len(results)
    BY <2>1, <2>6 DEF AllListed, Plots, AfterLoop
  <2>8. HasData(k)
    BY <1>0, <2>1, <2>2, <2>3, <2>4, <2>5, <2>7 DEF Tested, Positions
  <2>9. k \in logged /\ index = "new"
    BY <1>0, <2>1, <2>2, <2>6, <2>7, <2>8 DEF AllListed, Plots, AfterLoop, Positions
  <2>10. \A key \in results[k].state : <<k, key>> \in states \cup warned
    BY <1>0, <2>1, <2>2, <2>6, <2>7, <2>8 DEF StatesDone, StatesOf, AfterLoop, Positions
  <2> QED
    BY <2>9, <2>10 DEF NewListed
<1>24. CASE StopArrives
  BY <1>0, <1>24 DEF StopArrives, Interrupted, Honest, StatusHonest, Over, results, Positions
<1>25. CASE UNCHANGED vars
  BY <1>0, <1>25 DEF vars, Honest, StatusHonest, Over, results, Positions
<1>26. CASE Raises
  BY <1>0, <1>26
  DEF Raises, PsfRaises, NutRaises, Honest, StatusHonest, Over, results, Positions
<1> QED
  BY <1>1, <1>2, <1>3, <1>4, <1>5, <1>6, <1>7, <1>8, <1>9, <1>10, <1>11, <1>12, <1>13, <1>14,
     <1>15,
     <1>16, <1>17, <1>18, <1>19, <1>20, <1>21, <1>22, <1>23, <1>24, <1>25, <1>26
  DEF Next, Psf, Nutmeg

\* prev_top is set with the result in hand.
LEMMA PrevTopStep ==
    RunInv /\ Flags /\ InHand /\ AtFormat /\ NotBegun /\ PrevTop /\ [Next]_vars => PrevTop'
<1> SUFFICES ASSUME RunInv, Flags, InHand, AtFormat, NotBegun, PrevTop, [Next]_vars PROVE PrevTop'
  OBVIOUS
<1> USE DEF loopVars, diskVars, sigVars, endVars, Goto, Leave
<1>0. run' = run /\ Len(results) \in Nat
  BY RunFixed, ConversionAssumption DEF ConversionAssumption, RunInv, results
<1>1. CASE RemoveStale
  BY <1>0, <1>1 DEF RemoveStale, PrevTop, TopParent, results, Loop
<1>2. CASE EngineDone
  BY <1>0, <1>2 DEF EngineDone, NotBegun, NutLoop, PrevTop, TopParent, results, Loop
<1>3. CASE Pull
  <2>1. CASE i = Len(results)
    BY <1>0, <1>3, <2>1 DEF Pull, PrevTop, TopParent, results, Loop
  <2>2. CASE i # Len(results)
    <3>1. i' = i + 1 /\ prevTop' = TopParent(i + 1)
      BY <1>3, <2>2 DEF Pull
    <3>2. prevTop' = TRUE <=> TopParent(i + 1)
      BY <3>1, Zenon DEF TopParent
    <3>3. TopParent(i + 1) <=> TopParent(i)'
      BY <1>0, <3>1 DEF TopParent, results
    <3> QED
      BY <1>0, <3>1, <3>2, <3>3 DEF PrevTop, InHand
  <2> QED
    BY <2>1, <2>2
<1>4. CASE Else
  BY <1>0, <1>4 DEF Else, PrevTop, TopParent, results, Loop
<1>5. CASE Test
  BY <1>0, <1>5 DEF Test, PrevTop, TopParent, results, Loop
<1>6. CASE Write
  BY <1>0, <1>6 DEF Write, PrevTop, TopParent, results, Loop
<1>7. CASE Writing
  BY <1>0, <1>7 DEF Writing, PrevTop, TopParent, results, Loop
<1>8. CASE DoneAppend
  BY <1>0, <1>8 DEF DoneAppend, PrevTop, TopParent, results, Loop
<1>9. CASE Clear
  BY <1>0, <1>9 DEF Clear, PrevTop, TopParent, results, Loop
<1>10. CASE After
  BY <1>0, <1>10 DEF After, Post, PrevTop, TopParent, results, Loop
<1>11. CASE Cut
  BY <1>0, <1>11 DEF Cut, PrevTop, TopParent, results, Loop
<1>12. CASE OsErr
  BY <1>0, <1>12 DEF OsErr, PrevTop, TopParent, results, Loop
<1>13. CASE Log
  BY <1>0, <1>13 DEF Log, PrevTop, TopParent, results, Loop
<1>14. CASE Logging
  BY <1>0, <1>14 DEF Logging, PrevTop, TopParent, results, Loop
<1>15. CASE NutOpen
  <2>1. run.fmt # "psf"
    BY <1>15 DEF NutOpen, AtFormat, NutAt, NutLoop
  <2> QED
    BY <1>0, <2>1 DEF PrevTop
<1>16. CASE NutPull
  <2>1. run.fmt # "psf"
    BY <1>16 DEF NutPull, AtFormat, NutAt, NutLoop
  <2> QED
    BY <1>0, <2>1 DEF PrevTop
<1>17. CASE NutWrite
  <2>1. run.fmt # "psf"
    BY <1>17 DEF NutWrite, AtFormat, NutAt, NutLoop
  <2> QED
    BY <1>0, <2>1 DEF PrevTop
<1>18. CASE NutEnd
  <2>1. run.fmt # "psf"
    BY <1>18 DEF NutEnd, AtFormat, NutAt, NutLoop
  <2> QED
    BY <1>0, <2>1 DEF PrevTop
<1>19. CASE NutReturn
  <2>1. run.fmt # "psf"
    BY <1>19 DEF NutReturn, AtFormat, NutAt, NutLoop
  <2> QED
    BY <1>0, <2>1 DEF PrevTop
<1>20. CASE NutFails
  <2>1. run.fmt # "psf"
    BY <1>20 DEF NutFails, AtFormat, NutAt, NutLoop
  <2> QED
    BY <1>0, <2>1 DEF PrevTop
<1>21. CASE NutPosts
  <2>1. run.fmt # "psf"
    BY <1>21 DEF NutPosts, AtFormat, NutAt, NutLoop
  <2> QED
    BY <1>0, <2>1 DEF PrevTop
<1>22. CASE Quiet
  BY <1>0, <1>22 DEF Quiet, PrevTop, TopParent, results, Loop
<1>23. CASE Status
  BY <1>0, <1>23 DEF Status, PrevTop, TopParent, results, Loop
<1>24. CASE StopArrives
  BY <1>0, <1>24 DEF StopArrives, Interrupted, PrevTop, TopParent, results, Loop
<1>25. CASE UNCHANGED vars
  BY <1>0, <1>25 DEF vars, PrevTop, TopParent, results, Loop
<1>26. CASE Raises
  BY <1>0, <1>26
  DEF Raises, PsfRaises, NutRaises, PrevTop, TopParent, results, Loop
<1> QED
  BY <1>1, <1>2, <1>3, <1>4, <1>5, <1>6, <1>7, <1>8, <1>9, <1>10, <1>11, <1>12, <1>13, <1>14,
     <1>15,
     <1>16, <1>17, <1>18, <1>19, <1>20, <1>21, <1>22, <1>23, <1>24, <1>25, <1>26
  DEF Next, Psf, Nutmeg

\* Nothing is listed after the logFile is written.
LEMMA LoggedIsStep ==
    RunInv /\ Values /\ AtFormat /\ LoggedIs /\ [Next]_vars => LoggedIs'
<1> SUFFICES ASSUME RunInv, Values, AtFormat, LoggedIs, [Next]_vars PROVE LoggedIs'
  OBVIOUS
<1> USE DEF loopVars, diskVars, sigVars, endVars, Goto, Leave
<1>0. run' = run
  BY RunFixed
<1>1. CASE RemoveStale
  BY <1>0, <1>1 DEF RemoveStale, LoggedIs, HasData, results, Loop, NutLoop, Handlers, AtEnd
<1>2. CASE EngineDone
  BY <1>0, <1>2 DEF EngineDone, LoggedIs, HasData, results, Loop, NutLoop, Handlers, AtEnd
<1>3. CASE Pull
  BY <1>0, <1>3 DEF Pull, LoggedIs, HasData, results, Loop, NutLoop, Handlers, AtEnd
<1>4. CASE Else
  BY <1>0, <1>4 DEF Else, LoggedIs, HasData, results, Loop, NutLoop, Handlers, AtEnd
<1>5. CASE Test
  BY <1>0, <1>5 DEF Test, LoggedIs, HasData, results, Loop, NutLoop, Handlers, AtEnd
<1>6. CASE Write
  BY <1>0, <1>6 DEF Write, LoggedIs, HasData, results, Loop, NutLoop, Handlers, AtEnd
<1>7. CASE Writing
  BY <1>0, <1>7 DEF Writing, LoggedIs, HasData, results, Loop, NutLoop, Handlers, AtEnd
<1>8. CASE DoneAppend
  BY <1>0, <1>8 DEF DoneAppend, LoggedIs, HasData, results, Loop, NutLoop, Handlers, AtEnd
<1>9. CASE Clear
  BY <1>0, <1>9 DEF Clear, LoggedIs, HasData, results, Loop, NutLoop, Handlers, AtEnd
<1>10. CASE After
  BY <1>0, <1>10 DEF After, Post, LoggedIs, HasData, results, Loop, NutLoop, Handlers, AtEnd
<1>11. CASE Cut
  BY <1>0, <1>11 DEF Cut, LoggedIs, HasData, results, Loop, NutLoop, Handlers, AtEnd
<1>12. CASE OsErr
  BY <1>0, <1>12 DEF OsErr, LoggedIs, HasData, results, Loop, NutLoop, Handlers, AtEnd
<1>13. CASE Log
  BY <1>0, <1>13 DEF Log, LoggedIs, HasData, results, Loop, NutLoop, Handlers, AtEnd
<1>14. CASE Logging
  BY <1>0, <1>14 DEF Logging, LoggedIs, HasData, results, Loop, NutLoop, Handlers, AtEnd
<1>15. CASE NutOpen
  <2>1. run.fmt # "psf"
    BY <1>15 DEF NutOpen, AtFormat, NutAt, NutLoop
  <2> QED
    BY <1>0, <2>1 DEF LoggedIs
<1>16. CASE NutPull
  <2>1. run.fmt # "psf"
    BY <1>16 DEF NutPull, AtFormat, NutAt, NutLoop
  <2> QED
    BY <1>0, <2>1 DEF LoggedIs
<1>17. CASE NutWrite
  <2>1. run.fmt # "psf"
    BY <1>17 DEF NutWrite, AtFormat, NutAt, NutLoop
  <2> QED
    BY <1>0, <2>1 DEF LoggedIs
<1>18. CASE NutEnd
  <2>1. run.fmt # "psf"
    BY <1>18 DEF NutEnd, AtFormat, NutAt, NutLoop
  <2> QED
    BY <1>0, <2>1 DEF LoggedIs
<1>19. CASE NutReturn
  <2>1. run.fmt # "psf"
    BY <1>19 DEF NutReturn, AtFormat, NutAt, NutLoop
  <2> QED
    BY <1>0, <2>1 DEF LoggedIs
<1>20. CASE NutFails
  <2>1. run.fmt # "psf"
    BY <1>20 DEF NutFails, AtFormat, NutAt, NutLoop
  <2> QED
    BY <1>0, <2>1 DEF LoggedIs
<1>21. CASE NutPosts
  <2>1. run.fmt # "psf"
    BY <1>21 DEF NutPosts, AtFormat, NutAt, NutLoop
  <2> QED
    BY <1>0, <2>1 DEF LoggedIs
<1>22. CASE Quiet
  BY <1>0, <1>22 DEF Quiet, LoggedIs, HasData, results, Loop, NutLoop, Handlers, AtEnd
<1>23. CASE Status
  BY <1>0, <1>23 DEF Status, LoggedIs, HasData, results, Loop, NutLoop, Handlers, AtEnd
<1>24. CASE StopArrives
  BY <1>0, <1>24
  DEF StopArrives, Interrupted, LoggedIs, HasData, results, Loop, NutLoop, Handlers, AtEnd
<1>25. CASE UNCHANGED vars
  BY <1>0, <1>25 DEF vars, LoggedIs, HasData, results, Loop, NutLoop, Handlers, AtEnd
<1>26. CASE Raises
  BY <1>0, <1>26
  DEF Raises, PsfRaises, NutRaises, LoggedIs, HasData, results, Loop, NutLoop, Handlers, AtEnd
<1> QED
  BY <1>1, <1>2, <1>3, <1>4, <1>5, <1>6, <1>7, <1>8, <1>9, <1>10, <1>11, <1>12, <1>13, <1>14,
     <1>15,
     <1>16, <1>17, <1>18, <1>19, <1>20, <1>21, <1>22, <1>23, <1>24, <1>25, <1>26
  DEF Next, Psf, Nutmeg

\* _starts_block, called with prev_top, says what Starts says of the stream.
LEMMA StartsAsSaid ==
    ASSUME RunInv, Flags, InHand, PrevTop, run.fmt = "psf", pc = "pull", i # Len(results)
    PROVE  StartsBlock(i + 1) <=> Starts(run, i + 1)
<1>1. Len(results) \in Nat /\ i \in 0 .. Len(results)
  BY ConversionAssumption DEF ConversionAssumption, RunInv, results, InHand
<1>2. TopParent(i + 1) <=> Top(run.results[i + 1])
  BY DEF TopParent, Top, results
<1>3. prevTop = TRUE <=> i + 1 > 1 /\ Top(run.results[i])
  BY <1>1 DEF PrevTop, Loop, TopParent, Top, results
<1>4. (i + 1) - 1 = i
  BY <1>1
<1>5. prevTop <=> prevTop = TRUE
  BY Zenon DEF Flags
<1> QED
  BY <1>2, <1>3, <1>4, <1>5 DEF StartsBlock, Starts, results

\* A block of the stream that starts where _starts_block says so: the list is emptied there.
LEMMA OneBlockStep ==
    RunInv /\ Blocked(run) /\ Flags /\ InHand /\ AtFormat /\ Lists /\ NotBegun /\ PassedListed
       /\ PrevTop /\ OneBlock /\ [Next]_vars
    => OneBlock'
<1> SUFFICES ASSUME RunInv, Blocked(run), Flags, InHand, AtFormat, Lists, NotBegun,
                    PassedListed, PrevTop, OneBlock, [Next]_vars
             PROVE  OneBlock'
  OBVIOUS
<1> USE DEF loopVars, diskVars, sigVars, endVars, Goto, Leave
<1>0. run' = run /\ Len(results) \in Nat
  BY RunFixed, ConversionAssumption DEF ConversionAssumption, RunInv, results
<1>1. CASE RemoveStale
  BY <1>0, <1>1 DEF RemoveStale, OneBlock, results, Loop
<1>2. CASE EngineDone
  BY <1>0, <1>2 DEF EngineDone, NotBegun, NutLoop, OneBlock, results, Loop
<1>3. CASE Pull
  <2>1. run.fmt = "psf"
    BY <1>3 DEF Pull, AtFormat, PsfAt, Loop
  <2>2. CASE i = Len(results)
    BY <1>0, <1>3, <2>2 DEF Pull, OneBlock
  <2>3. CASE i # Len(results) /\ StartsBlock(i + 1)
    BY <1>0, <1>3, <2>3 DEF Pull, OneBlock
  <2>4. CASE i # Len(results) /\ ~StartsBlock(i + 1)
    <3>1. i' = i + 1 /\ done' = done /\ pc = "pull"
      BY <1>3, <2>4 DEF Pull
    <3>2. CASE i = 0
      <4>1. done \cap Positions = {}
        BY <1>0, <2>1, <3>1, <3>2 DEF PassedListed, Passed, Loop, Positions
      <4> QED
        BY <1>0, <3>1, <4>1 DEF OneBlock, Lists
    <3>3. CASE i # 0
      <4>1. i + 1 \in 2 .. Len(run.results) /\ (i + 1) - 1 = i
        BY <1>0, <2>4, <3>3 DEF InHand, results
      <4>2. ~Starts(run, i + 1)
        BY <2>1, <2>4, <3>1, StartsAsSaid
      <4>3. \/ run.results[i + 1].block = run.results[i].block
            \/ \A j \in 1 .. i : run.results[j].block = run.results[i].block => run.results[j].nooutput
        BY <4>1, <4>2 DEF Blocked
      <4>4. \A j \in done : j \in 1 .. i
        BY <1>0, <2>1, <3>1 DEF PassedListed, Passed, Loop, Lists, Positions, InHand
      <4> QED
        BY <1>0, <2>1, <3>1, <4>3, <4>4 DEF OneBlock, Loop, results
    <3> QED
      BY <3>2, <3>3
  <2> QED
    BY <2>2, <2>3, <2>4
<1>4. CASE Else
  BY <1>0, <1>4 DEF Else, OneBlock, results, Loop
<1>5. CASE Test
  BY <1>0, <1>5 DEF Test, OneBlock, results, Loop
<1>6. CASE Write
  BY <1>0, <1>6 DEF Write, OneBlock, results, Loop
<1>7. CASE Writing
  BY <1>0, <1>7 DEF Writing, OneBlock, results, Loop
<1>8. CASE DoneAppend
  BY <1>0, <1>8 DEF DoneAppend, OneBlock, results, Loop
<1>9. CASE Clear
  BY <1>0, <1>9 DEF Clear, OneBlock, results, Loop
<1>10. CASE After
  BY <1>0, <1>10 DEF After, Post, OneBlock, results, Loop
<1>11. CASE Cut
  BY <1>0, <1>11 DEF Cut, OneBlock, results, Loop
<1>12. CASE OsErr
  BY <1>0, <1>12 DEF OsErr, OneBlock, results, Loop
<1>13. CASE Log
  BY <1>0, <1>13 DEF Log, OneBlock, results, Loop
<1>14. CASE Logging
  BY <1>0, <1>14 DEF Logging, OneBlock, results, Loop
<1>15. CASE NutOpen
  <2>1. run.fmt # "psf"
    BY <1>15 DEF NutOpen, AtFormat, NutAt, NutLoop
  <2> QED
    BY <1>0, <2>1 DEF OneBlock
<1>16. CASE NutPull
  <2>1. run.fmt # "psf"
    BY <1>16 DEF NutPull, AtFormat, NutAt, NutLoop
  <2> QED
    BY <1>0, <2>1 DEF OneBlock
<1>17. CASE NutWrite
  <2>1. run.fmt # "psf"
    BY <1>17 DEF NutWrite, AtFormat, NutAt, NutLoop
  <2> QED
    BY <1>0, <2>1 DEF OneBlock
<1>18. CASE NutEnd
  <2>1. run.fmt # "psf"
    BY <1>18 DEF NutEnd, AtFormat, NutAt, NutLoop
  <2> QED
    BY <1>0, <2>1 DEF OneBlock
<1>19. CASE NutReturn
  <2>1. run.fmt # "psf"
    BY <1>19 DEF NutReturn, AtFormat, NutAt, NutLoop
  <2> QED
    BY <1>0, <2>1 DEF OneBlock
<1>20. CASE NutFails
  <2>1. run.fmt # "psf"
    BY <1>20 DEF NutFails, AtFormat, NutAt, NutLoop
  <2> QED
    BY <1>0, <2>1 DEF OneBlock
<1>21. CASE NutPosts
  <2>1. run.fmt # "psf"
    BY <1>21 DEF NutPosts, AtFormat, NutAt, NutLoop
  <2> QED
    BY <1>0, <2>1 DEF OneBlock
<1>22. CASE Quiet
  BY <1>0, <1>22 DEF Quiet, OneBlock, results, Loop
<1>23. CASE Status
  BY <1>0, <1>23 DEF Status, OneBlock, results, Loop
<1>24. CASE StopArrives
  BY <1>0, <1>24 DEF StopArrives, Interrupted, OneBlock, results, Loop
<1>25. CASE UNCHANGED vars
  BY <1>0, <1>25 DEF vars, OneBlock, results, Loop
<1>26. CASE Raises
  BY <1>0, <1>26
  DEF Raises, PsfRaises, NutRaises, OneBlock, results, Loop
<1> QED
  BY <1>1, <1>2, <1>3, <1>4, <1>5, <1>6, <1>7, <1>8, <1>9, <1>10, <1>11, <1>12, <1>13, <1>14,
     <1>15,
     <1>16, <1>17, <1>18, <1>19, <1>20, <1>21, <1>22, <1>23, <1>24, <1>25, <1>26
  DEF Next, Psf, Nutmeg

\* A first stop signal ends the loop at the result in hand; only a second one raises.
LEMMA OneStopStep ==
    RunInv /\ Values /\ Flags /\ InHand /\ AtFormat /\ PassedListed /\ AllListed /\ OneBlock
       /\ OneStop /\ [Next]_vars
    => OneStop'
<1> SUFFICES ASSUME RunInv, Values, Flags, InHand, AtFormat, PassedListed, AllListed, OneBlock,
                    OneStop, [Next]_vars
             PROVE  OneStop'
  OBVIOUS
<1> USE DEF loopVars, diskVars, sigVars, endVars, Goto, Leave
<1>0. run' = run /\ Len(results) \in Nat
  BY RunFixed, ConversionAssumption DEF ConversionAssumption, RunInv, results
<1>1. CASE RemoveStale
  BY <1>0, <1>1 DEF RemoveStale, OneStop, Ended, AfterLoop, results, Positions
<1>2. CASE EngineDone
  BY <1>0, <1>2 DEF EngineDone, OneStop, Ended, AfterLoop, results, Positions
<1>3. CASE Pull
  BY <1>0, <1>3 DEF Pull, OneStop, Ended, AfterLoop, results, Positions
<1>4. CASE Else
  <2>1. /\ pc = "else" /\ pc' = "quiet" /\ UNCHANGED <<i, listed, writeError, count, signum>>
    BY <1>4 DEF Else
  <2> QED
    BY <1>0, <2>1 DEF AllListed, OneStop, Positions, results
<1>5. CASE Test
  <2>1. /\ pc = "test" /\ pc' \in {"quiet", "write"} /\ (pc' = "quiet" => signum)
        /\ UNCHANGED <<i, listed, writeError, count, signum>>
    BY <1>5 DEF Test
  <2>2. pc' = "quiet" => signum = TRUE
    BY <2>1 DEF Flags
  <2>3. run.fmt = "psf" => \A k \in Positions : k < i =>
           k \in listed \/ results[k].block = results[i].block \/ results[k].nooutput
    BY <2>1 DEF PassedListed, Passed, OneBlock, Loop
  <2> QED
    BY <1>0, <2>1, <2>2, <2>3 DEF OneStop, Ended, AfterLoop, Positions, results
<1>6. CASE Write
  BY <1>0, <1>6 DEF Write, OneStop, Ended, AfterLoop, results, Positions
<1>7. CASE Writing
  BY <1>0, <1>7 DEF Writing, OneStop, Ended, AfterLoop, results, Positions
<1>8. CASE DoneAppend
  BY <1>0, <1>8 DEF DoneAppend, OneStop, Ended, AfterLoop, results, Positions
<1>9. CASE Clear
  BY <1>0, <1>9 DEF Clear, OneStop, Ended, AfterLoop, results, Positions
<1>10. CASE After
  BY <1>0, <1>10 DEF After, Post, OneStop, Ended, AfterLoop, results, Positions
<1>11. CASE Cut
  BY <1>0, <1>11 DEF Cut, OneStop, Ended, AfterLoop, results, Positions
<1>12. CASE OsErr
  BY <1>0, <1>12 DEF OsErr, OneStop, Ended, AfterLoop, results, Positions
<1>13. CASE Log
  BY <1>0, <1>13 DEF Log, OneStop, Ended, AfterLoop, results, Positions
<1>14. CASE Logging
  BY <1>0, <1>14 DEF Logging, OneStop, Ended, AfterLoop, results, Positions
<1>15. CASE NutOpen
  <2>1. run.fmt # "psf"
    BY <1>15 DEF NutOpen, AtFormat, NutAt, NutLoop
  <2> QED
    BY <1>0, <2>1 DEF OneStop
<1>16. CASE NutPull
  <2>1. run.fmt # "psf"
    BY <1>16 DEF NutPull, AtFormat, NutAt, NutLoop
  <2> QED
    BY <1>0, <2>1 DEF OneStop
<1>17. CASE NutWrite
  <2>1. run.fmt # "psf"
    BY <1>17 DEF NutWrite, AtFormat, NutAt, NutLoop
  <2> QED
    BY <1>0, <2>1 DEF OneStop
<1>18. CASE NutEnd
  <2>1. run.fmt # "psf"
    BY <1>18 DEF NutEnd, AtFormat, NutAt, NutLoop
  <2> QED
    BY <1>0, <2>1 DEF OneStop
<1>19. CASE NutReturn
  <2>1. run.fmt # "psf"
    BY <1>19 DEF NutReturn, AtFormat, NutAt, NutLoop
  <2> QED
    BY <1>0, <2>1 DEF OneStop
<1>20. CASE NutFails
  <2>1. run.fmt # "psf"
    BY <1>20 DEF NutFails, AtFormat, NutAt, NutLoop
  <2> QED
    BY <1>0, <2>1 DEF OneStop
<1>21. CASE NutPosts
  <2>1. run.fmt # "psf"
    BY <1>21 DEF NutPosts, AtFormat, NutAt, NutLoop
  <2> QED
    BY <1>0, <2>1 DEF OneStop
<1>22. CASE Quiet
  BY <1>0, <1>22 DEF Quiet, OneStop, Ended, AfterLoop, results, Positions
<1>23. CASE Status
  BY <1>0, <1>23 DEF Status, OneStop, Ended, AfterLoop, results, Positions
<1>24. CASE StopArrives
  <2>1. count \in Nat /\ count' = count + 1 /\ signum' = TRUE /\ pc # "over"
        /\ UNCHANGED <<i, listed, index, writeError>>
    BY <1>24 DEF StopArrives, Values, Loop, NutLoop, Handlers, AtEnd
  <2>2. CASE UNCHANGED <<pc, how, status>>
    BY <1>0, <2>1, <2>2 DEF OneStop, Ended, AfterLoop, results, Positions
  <2>3. CASE count > 0
    BY <2>1, <2>3 DEF OneStop
  <2> QED
    BY <1>24, <2>2, <2>3 DEF StopArrives
<1>25. CASE UNCHANGED vars
  BY <1>0, <1>25 DEF vars, OneStop, Ended, AfterLoop, results, Positions
<1>26. CASE Raises
  BY <1>0, <1>26
  DEF Raises, PsfRaises, NutRaises, OneStop, Ended, AfterLoop, results, Positions
<1> QED
  BY <1>1, <1>2, <1>3, <1>4, <1>5, <1>6, <1>7, <1>8, <1>9, <1>10, <1>11, <1>12, <1>13, <1>14,
     <1>15,
     <1>16, <1>17, <1>18, <1>19, <1>20, <1>21, <1>22, <1>23, <1>24, <1>25, <1>26
  DEF Next, Psf, Nutmeg

\* `listed' grows by whole blocks, since _starts_block says so at no other place.
LEMMA WholeBlocksStep ==
    RunInv /\ Whole(run) /\ Flags /\ InHand /\ Lists /\ AtFormat /\ PassedListed /\ PrevTop /\
       WholeBlocks /\ [Next]_vars
    => WholeBlocks'
<1> SUFFICES ASSUME RunInv, Whole(run), Flags, InHand, Lists, AtFormat, PassedListed, PrevTop,
                    WholeBlocks, [Next]_vars
             PROVE  WholeBlocks'
  OBVIOUS
<1> USE DEF loopVars, diskVars, sigVars, endVars, Goto, Leave
<1>0. run' = run /\ Len(results) \in Nat
  BY RunFixed, ConversionAssumption DEF ConversionAssumption, RunInv, results
<1>1. CASE RemoveStale
  BY <1>0, <1>1 DEF RemoveStale, WholeBlocks, results, Positions
<1>2. CASE EngineDone
  BY <1>0, <1>2 DEF EngineDone, WholeBlocks, results, Positions
<1>3. CASE Pull
  <2>1. run.fmt = "psf"
    BY <1>3 DEF Pull, AtFormat, PsfAt, Loop
  <2>2. CASE i = Len(results)
    <3>1. listed' = listed \cup done /\ pc = "pull"
      BY <1>3, <2>2 DEF Pull
    <3>2. \A k \in Positions : k \in listed'
      BY <1>0, <2>1, <2>2, <3>1 DEF PassedListed, Passed, Loop, Positions
    <3> QED
      BY <1>0, <3>2 DEF WholeBlocks, Positions, results
  <2>3. CASE i # Len(results) /\ ~StartsBlock(i + 1)
    BY <1>0, <1>3, <2>3 DEF Pull, WholeBlocks, Positions, results
  <2>4. CASE i # Len(results) /\ StartsBlock(i + 1)
    <3>1. listed' = listed \cup done /\ pc = "pull"
      BY <1>3, <2>4 DEF Pull
    <3>2. \A k \in Positions : k \in listed' <=> k \in 1 .. i
      BY <1>0, <2>1, <3>1 DEF PassedListed, Passed, Loop, Positions, InHand
    <3>3. listed' \subseteq Positions
      BY <3>1 DEF Lists
    <3>4. i + 1 \in 1 .. Len(run.results) /\ (i + 1) - 1 = i
      BY <1>0, <2>4 DEF InHand, results
    <3>5. Starts(run, i + 1)
      BY <2>1, <2>4, <3>1, StartsAsSaid
    <3>6. ~run.legacy => \A a \in 1 .. i, b \in i + 1 .. Len(run.results) :
                            run.results[a].block # run.results[b].block
      BY <3>4, <3>5 DEF Whole
    <3>7. ASSUME ~run.legacy, NEW a \in listed', NEW b \in Positions, results[b].block = results[a].block
          PROVE  b \in listed'
      <4>1. a \in 1 .. i /\ (b \in 1 .. i \/ b \in i + 1 .. Len(run.results))
        BY <1>0, <3>2, <3>3, <3>7 DEF Positions, InHand, results
      <4> QED
        BY <3>2, <3>6, <3>7, <4>1 DEF results
    <3> QED
      BY <1>0, <3>7 DEF WholeBlocks, Positions, results
  <2> QED
    BY <2>2, <2>3, <2>4
<1>4. CASE Else
  BY <1>0, <1>4 DEF Else, WholeBlocks, results, Positions
<1>5. CASE Test
  BY <1>0, <1>5 DEF Test, WholeBlocks, results, Positions
<1>6. CASE Write
  BY <1>0, <1>6 DEF Write, WholeBlocks, results, Positions
<1>7. CASE Writing
  BY <1>0, <1>7 DEF Writing, WholeBlocks, results, Positions
<1>8. CASE DoneAppend
  BY <1>0, <1>8 DEF DoneAppend, WholeBlocks, results, Positions
<1>9. CASE Clear
  BY <1>0, <1>9 DEF Clear, WholeBlocks, results, Positions
<1>10. CASE After
  BY <1>0, <1>10 DEF After, Post, WholeBlocks, results, Positions
<1>11. CASE Cut
  BY <1>0, <1>11 DEF Cut, WholeBlocks, results, Positions
<1>12. CASE OsErr
  BY <1>0, <1>12 DEF OsErr, WholeBlocks, results, Positions
<1>13. CASE Log
  BY <1>0, <1>13 DEF Log, WholeBlocks, results, Positions
<1>14. CASE Logging
  BY <1>0, <1>14 DEF Logging, WholeBlocks, results, Positions
<1>15. CASE NutOpen
  <2>1. run.fmt # "psf"
    BY <1>15 DEF NutOpen, AtFormat, NutAt, NutLoop
  <2> QED
    BY <1>0, <2>1 DEF WholeBlocks
<1>16. CASE NutPull
  <2>1. run.fmt # "psf"
    BY <1>16 DEF NutPull, AtFormat, NutAt, NutLoop
  <2> QED
    BY <1>0, <2>1 DEF WholeBlocks
<1>17. CASE NutWrite
  <2>1. run.fmt # "psf"
    BY <1>17 DEF NutWrite, AtFormat, NutAt, NutLoop
  <2> QED
    BY <1>0, <2>1 DEF WholeBlocks
<1>18. CASE NutEnd
  <2>1. run.fmt # "psf"
    BY <1>18 DEF NutEnd, AtFormat, NutAt, NutLoop
  <2> QED
    BY <1>0, <2>1 DEF WholeBlocks
<1>19. CASE NutReturn
  <2>1. run.fmt # "psf"
    BY <1>19 DEF NutReturn, AtFormat, NutAt, NutLoop
  <2> QED
    BY <1>0, <2>1 DEF WholeBlocks
<1>20. CASE NutFails
  <2>1. run.fmt # "psf"
    BY <1>20 DEF NutFails, AtFormat, NutAt, NutLoop
  <2> QED
    BY <1>0, <2>1 DEF WholeBlocks
<1>21. CASE NutPosts
  <2>1. run.fmt # "psf"
    BY <1>21 DEF NutPosts, AtFormat, NutAt, NutLoop
  <2> QED
    BY <1>0, <2>1 DEF WholeBlocks
<1>22. CASE Quiet
  BY <1>0, <1>22 DEF Quiet, WholeBlocks, results, Positions
<1>23. CASE Status
  BY <1>0, <1>23 DEF Status, WholeBlocks, results, Positions
<1>24. CASE StopArrives
  BY <1>0, <1>24 DEF StopArrives, Interrupted, WholeBlocks, results, Positions
<1>25. CASE UNCHANGED vars
  BY <1>0, <1>25 DEF vars, WholeBlocks, results, Positions
<1>26. CASE Raises
  BY <1>0, <1>26
  DEF Raises, PsfRaises, NutRaises, WholeBlocks, results, Positions
<1> QED
  BY <1>1, <1>2, <1>3, <1>4, <1>5, <1>6, <1>7, <1>8, <1>9, <1>10, <1>11, <1>12, <1>13, <1>14,
     <1>15,
     <1>16, <1>17, <1>18, <1>19, <1>20, <1>21, <1>22, <1>23, <1>24, <1>25, <1>26
  DEF Next, Psf, Nutmeg

---------------------------------------------------------------------------
\* The inductive invariant, for any stream
ConvInv ==
    /\ RunInv /\ Values /\ Flags /\ InHand /\ Lists /\ DiskInv /\ NotBegun /\ Signalled
    /\ PassedListed /\ AllListed /\ Plots /\ Tested /\ StatesDone /\ Honest /\ PrevTop /\ LoggedIs

\* A run starts in it: nothing is written, and at most an earlier index is there.
LEMMA ConvInit == Init => ConvInv
<1> SUFFICES ASSUME Init PROVE ConvInv
  OBVIOUS
<1>1. /\ pc = "stale" /\ i = 0 /\ prevTop = FALSE /\ done = {} /\ listed = {} /\ current = FALSE
      /\ tmp = FALSE /\ files = {} /\ index \in {"none", "old"} /\ logged = {}
      /\ states = {} /\ warned = {}
      /\ signum = FALSE /\ count = 0 /\ sigState = "now" /\ sent = 0
      /\ cut = FALSE /\ failed = FALSE /\ writeError = FALSE
      /\ rc = 0 /\ status = NoStatus /\ how = "none"
  BY DEF Init
<1>2. PICK s \in Streams, f \in {"psf", "nutmeg"} :
         run = [results |-> s.results, legacy |-> s.legacy, stepFailed |-> s.stepFailed, fmt |-> f]
  BY DEF Init
<1>3. RunInv /\ Len(results) \in Nat
  BY <1>2, ConversionAssumption DEF ConversionAssumption, RunInv, results
<1>4. Values
  BY <1>1, ConversionAssumption DEF Values, ConversionAssumption
<1>5. Flags
  BY <1>1, Zenon DEF Flags
<1>6. InHand /\ Lists
  BY <1>1, <1>3 DEF InHand, Lists, Positions
<1>7. NotBegun /\ Signalled /\ PassedListed /\ AllListed /\ Plots
  BY <1>1 DEF NotBegun, Signalled, PassedListed, AllListed, Plots, Loop, NutLoop, AfterLoop
<1>8. Tested /\ StatesDone /\ Honest
  <2>1. \A k \in Positions : ~(k < i) /\ k # i
    BY <1>1, <1>3 DEF Positions
  <2> QED
    BY <1>1, <2>1 DEF Tested, StatesDone, Honest
<1>9. PrevTop /\ LoggedIs
  BY <1>1 DEF PrevTop, LoggedIs, Loop
<1> QED
  BY <1>3, <1>4, <1>5, <1>6, <1>7, <1>8, <1>9, DiskInit DEF ConvInv

\* The stream of a run stays one of Streams.
LEMMA RunInvStep == RunInv /\ [Next]_vars => RunInv'
BY RunFixed DEF RunInv

\* Every statement, signal and failed write keeps the invariant.
LEMMA ConvStep == ConvInv /\ [Next]_vars => ConvInv'
<1> SUFFICES ASSUME ConvInv, [Next]_vars PROVE ConvInv'
  OBVIOUS
<1>1. RunInv' /\ Values' /\ Flags' /\ InHand' /\ Lists'
  BY RunInvStep, ValuesStep, FlagsStep, InHandStep, ListsStep, ConversionAssumption DEF ConvInv
<1>2. DiskInv'
  BY AtFormatStep, OnDiskStep, OldFirstStep, NewListedStep DEF ConvInv, DiskInv
<1>3. NotBegun' /\ Signalled' /\ PassedListed' /\ AllListed'
  BY NotBegunStep, SignalledStep, PassedStep, AllListedStep DEF ConvInv, DiskInv
<1>4. Plots' /\ Tested' /\ StatesDone' /\ Honest'
  BY PlotsStep, TestedStep, StatesStep, HonestStep DEF ConvInv, DiskInv
<1>5. PrevTop' /\ LoggedIs'
  BY PrevTopStep, LoggedIsStep DEF ConvInv, DiskInv
<1> QED
  BY <1>1, <1>2, <1>3, <1>4, <1>5 DEF ConvInv

\* The inductive invariant holds in every run.
THEOREM ConvInvAlways == Spec => []ConvInv
BY ConvInit, ConvStep, PTL DEF Spec

\* The lists, the files and the index hold results of the stream, and the
\* status is one of 0 to 3.
THEOREM ConversionTyped == Spec => []TypeOK
<1>1. ConvInv => TypeOK
  <2> SUFFICES ASSUME ConvInv PROVE TypeOK
    OBVIOUS
  <2>1. {prevTop, current, tmp, signum, cut, failed, writeError} \subseteq BOOLEAN
    BY Zenon DEF ConvInv, Flags
  <2> QED
    BY <2>1 DEF ConvInv, Values, InHand, Lists, TypeOK
<1> QED
  BY <1>1, ConvInvAlways, PTL

\* Exit status 0 is the truth, for any stream, signals and errors: every
\* result is on the disk and in the index, and every state file asked for is
\* written or warned about (convert).
THEOREM StatusHonestAlways == Spec => []StatusHonest
<1>1. ConvInv => StatusHonest
  BY DEF ConvInv, Honest, StatusHonest, Over
<1> QED
  BY <1>1, ConvInvAlways, PTL

\* Where collect's blocks start as _starts_block says, one stop signal costs
\* no finished block, however long the stream.
THEOREM BlocksListed == (\A s \in Streams : Blocked(s)) /\ Spec => []CompleteListed
<1> SUFFICES ASSUME \A s \in Streams : Blocked(s) PROVE Spec => []CompleteListed
  OBVIOUS
<1> DEFINE Inv == Blocked(run) /\ OneBlock /\ OneStop
<1>1. Init => Inv
  <2> SUFFICES ASSUME Init PROVE Inv
    OBVIOUS
  <2>1. PICK s \in Streams, f \in {"psf", "nutmeg"} :
           run = [results |-> s.results, legacy |-> s.legacy, stepFailed |-> s.stepFailed, fmt |-> f]
    BY DEF Init
  <2>2. run.results = s.results /\ run.legacy = s.legacy
    BY <2>1
  <2>3. Blocked(run)
    BY <2>2 DEF Blocked, Starts
  <2>4. OneBlock /\ OneStop
    BY DEF Init, OneBlock, OneStop, Ended, Loop, AfterLoop
  <2> QED
    BY <2>3, <2>4
<1>2. ConvInv /\ Inv /\ [Next]_vars => Inv'
  <2> SUFFICES ASSUME ConvInv, Inv, [Next]_vars PROVE Inv'
    OBVIOUS
  <2>1. Blocked(run)'
    BY RunFixed DEF Blocked, Starts
  <2> QED
    BY <2>1, OneBlockStep, OneStopStep DEF ConvInv, DiskInv
<1>3. ConvInv /\ Inv => CompleteListed
  <2> SUFFICES ASSUME ConvInv, Inv, Over, how = "returned", run.fmt = "psf", ~writeError, count <= 1,
                      NEW b \in 1 .. Len(results), Through(b),
                      NEW k \in Positions, results[k].block = b, HasData(k), ~results[k].nooutput
               PROVE  k \in logged
    BY DEF CompleteListed
  <2>1. writeError = FALSE
    BY Zenon DEF ConvInv, Flags
  <2>2. logged = {j \in listed : HasData(j)}
    BY <2>1 DEF ConvInv, OneStop, LoggedIs, Over
  <2>3. CASE \A j \in Positions : j \in listed
    BY <2>2, <2>3
  <2>4. CASE signum = TRUE /\ \A j \in Positions : j < i =>
                                 j \in listed \/ results[j].block = results[i].block \/ results[j].nooutput
    <3>1. k < i
      BY <2>4 DEF Through
    <3>2. i \in Positions /\ ~(i < i)
      BY <3>1, ConversionAssumption
      DEF ConvInv, InHand, Positions, ConversionAssumption, RunInv, results
    <3>3. results[i].block # b
      BY <2>4, <3>2 DEF Through
    <3> QED
      BY <2>2, <2>4, <3>1, <3>3
  <2> QED
    BY <2>1, <2>3, <2>4 DEF OneStop, Ended, Over
<1> HIDE DEF Inv
<1> QED
  BY <1>1, <1>2, <1>3, ConvInvAlways, PTL DEF Spec

\* Where collect's parents and leaves share a block, every leaf with data of a
\* parent in the logFile is in it, at every instant: a block is listed whole or
\* not at all (psf).
THEOREM ParentsWhole == (\A s \in Streams : Whole(s)) /\ Spec => []LeavesListed
<1> SUFFICES ASSUME \A s \in Streams : Whole(s) PROVE Spec => []LeavesListed
  OBVIOUS
<1> DEFINE Inv == Whole(run) /\ WholeBlocks
<1>1. Init => Inv
  <2> SUFFICES ASSUME Init PROVE Inv
    OBVIOUS
  <2>1. PICK s \in Streams, f \in {"psf", "nutmeg"} :
           run = [results |-> s.results, legacy |-> s.legacy, stepFailed |-> s.stepFailed, fmt |-> f]
    BY DEF Init
  <2>2. run.results = s.results /\ run.legacy = s.legacy
    BY <2>1
  <2>3. Whole(run)
    <3>1. \A k \in 1 .. Len(s.results) : Starts(run, k) <=> Starts(s, k)
      BY <2>2 DEF Starts
    <3> QED
      BY <2>2, <3>1 DEF Whole
  <2>4. WholeBlocks
    BY DEF Init, WholeBlocks
  <2> QED
    BY <2>3, <2>4
<1>2. ConvInv /\ Inv /\ [Next]_vars => Inv'
  <2> SUFFICES ASSUME ConvInv, Inv, [Next]_vars PROVE Inv'
    OBVIOUS
  <2>1. Whole(run)'
    BY RunFixed, Zenon
  <2> QED
    BY <2>1, WholeBlocksStep DEF ConvInv, DiskInv
<1>3. ConvInv /\ Inv => LeavesListed
  <2> SUFFICES ASSUME ConvInv, Inv, index = "new", run.fmt = "psf", NEW k \in logged,
                      results[k].kind = "parent", NEW j \in Below(k), HasData(j)
               PROVE  j \in logged
    BY DEF LeavesListed
  <2>1. logged = {l \in listed : HasData(l)} /\ listed \subseteq Positions
    BY DEF ConvInv, LoggedIs, Lists
  <2>2. k \in listed /\ k \in Positions /\ j \in Positions /\ results[j].parent = results[k].id
    BY <2>1 DEF Below
  <2>3. ~run.legacy /\ results[j].block = results[k].block
    BY <2>2 DEF Whole, Positions, results
  <2> QED
    BY <2>1, <2>2, <2>3 DEF WholeBlocks
<1> HIDE DEF Inv
<1> QED
  BY <1>1, <1>2, <1>3, ConvInvAlways, PTL DEF Spec
===========================================================================
