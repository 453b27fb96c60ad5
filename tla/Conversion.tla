---------------------------- MODULE Conversion ----------------------------
(***************************************************************************)
(* spectre/flow.py, the results of one run on the disk: the stale index    *)
(* removed at the start (remove_stale, prepare_results), then convert with *)
(* _Conversion.psf (one file per result, then the logFile that lists the   *)
(* complete blocks) or _Conversion.nutmeg (one file for all of them), the  *)
(* state files of post(), and the exit status.  The writers are            *)
(* output/psf.py, output/nutmeg.py and output/statefile.py.                *)
(*                                                                         *)
(* A stop signal may come between any two steps: the first is recorded and *)
(* ends the loop, the next one raises _Interrupted, until the state is     *)
(* "quiet".  What an invariant says of the disk at every step is also what *)
(* a killed vamos leaves behind.                                           *)
(***************************************************************************)
EXTENDS Naturals, Sequences, FiniteSets

CONSTANTS
    Streams,     \* what collect may yield: records of results (a sequence), legacy
                 \* and stepFailed (EngineResult.status says "failed" of a step)
    MaxStops     \* bound: stop signals during the conversion

\* The arguments that ask for a state file of an analysis
StateKeys == {"write", "writefinal"}

ASSUME ConversionAssumption ==
    /\ MaxStops \in Nat
    /\ \A s \in Streams : /\ s.legacy \in BOOLEAN /\ s.stepFailed \in BOOLEAN
                          /\ Len(s.results) \in Nat
                          /\ \A k \in 1 .. Len(s.results) :
                                s.results[k].ok \in BOOLEAN /\ s.results[k].state \subseteq StateKeys

VARIABLES
    run,         \* the results collect yields, the naming and the format
    pc,          \* the statement the conversion is at
    i,           \* the result in hand
    prevTop,     \* prev_top
    done, listed,\* psf's lists, as sets of positions in the stream
    current,     \* current is not None
    tmp,         \* <file>.vamos-tmp is there
    files,       \* the results that are on the disk
    index,       \* the logFile (nutmeg: the results file): none, an earlier run's, this one's
    logged,      \* the results in it
    states,      \* the state files written: the result and the argument that asks for it
    warned,      \* ... and those a warning says are not written
    signum,      \* sig.signum is not None
    count,       \* sig.count
    sigState,    \* sig.state
    cut,         \* conv.cut is set (nutmeg: conv.dropped)
    failed,      \* conv.failed_results
    writeError,  \* conv.write_error
    rc,          \* EngineResult.rc
    status,      \* the exit status
    how,         \* how the conversion ended
    sent         \* stop signals that came (history)

loopVars == <<i, prevTop, done, listed, current>>
diskVars == <<tmp, files, index, logged, states, warned>>
sigVars == <<signum, count, sigState, sent>>
endVars == <<cut, failed, writeError, rc, status, how>>
vars == <<run, pc, loopVars, diskVars, sigVars, endVars>>

results == run.results
Positions == 1 .. Len(results)
NoStatus == 9

\* A result with a file of its own
HasData(k) == results[k].ok

Loop == {"pull", "test", "write", "writing", "append", "clear", "after", "else"}
NutLoop == {"nutOpen", "nutPull", "nutWrite", "nutEnd", "nutReturn"}
Handlers == {"cut", "oserr", "quiet", "nutCut", "nutOserr"}
AtEnd == {"log", "logging", "posts", "status", "over"}

Init ==
    /\ run \in {[results |-> s.results, legacy |-> s.legacy, stepFailed |-> s.stepFailed, fmt |-> f] :
                    s \in Streams, f \in {"psf", "nutmeg"}}
    /\ pc = "stale" /\ i = 0 /\ prevTop = FALSE /\ done = {} /\ listed = {} /\ current = FALSE
    /\ tmp = FALSE /\ files = {} /\ index \in {"none", "old"} /\ logged = {}
    /\ states = {} /\ warned = {}
    /\ signum = FALSE /\ count = 0 /\ sigState = "now" /\ sent = 0
    /\ cut = FALSE /\ failed = FALSE /\ writeError = FALSE
    /\ rc = 0 /\ status = NoStatus /\ how = "none"

Goto(p) == pc' = p

\* The run ends without (the rest of) the conversion
Leave(h, st) == Goto("over") /\ how' = h /\ status' = st

---------------------------------------------------------------------------
(* Before the conversion.                                                  *)

\* mutant: the earlier run's index stays until it is replaced
RemoveStaleNot ==
    /\ pc = "stale" /\ Goto("engine") /\ UNCHANGED <<index, how, status>>
    /\ UNCHANGED <<run, loopVars, tmp, files, logged, states, warned, sigVars, cut, failed, writeError, rc>>

\* remove_stale: the earlier run's index goes before the input is read, or
\* the run ends
RemoveStale ==
    /\ pc = "stale"
    /\ \/ index' = "none" /\ Goto("engine") /\ UNCHANGED <<how, status>>
       \/ index = "old" /\ Leave("fail", 2) /\ UNCHANGED index
    /\ UNCHANGED <<run, loopVars, tmp, files, logged, states, warned, sigVars, cut, failed, writeError, rc>>

\* The engine ran, and a stop signal the runner took counts (engine_run); or
\* the run ended before the conversion
EngineDone ==
    /\ pc = "engine"
    /\ \/ /\ rc' \in 0 .. 3 /\ count' \in {0, 1}
          /\ sigState' = "deferred"
          /\ Goto(IF run.fmt = "psf" THEN "pull" ELSE "nutOpen")
          /\ UNCHANGED <<how, status>>
       \/ /\ \E st \in {2, 3} : Leave("fail", st)
          /\ UNCHANGED <<rc, count, sigState>>
    /\ UNCHANGED <<run, loopVars, diskVars, signum, sent, cut, failed, writeError>>

---------------------------------------------------------------------------
(* Signals.                                                                *)

\* raise _Interrupted: psf's or nutmeg's except clause; from an except clause
\* or after the loop nothing of the conversion catches it (guarded does)
Interrupted ==
    IF pc \in Loop THEN Goto("cut") /\ UNCHANGED <<how, status>>
    ELSE IF pc \in NutLoop THEN Goto("nutCut") /\ UNCHANGED <<how, status>>
    ELSE Leave("escaped", 3)

\* _Signals._on_stop during the conversion (a repeat of a hangup does nothing)
StopArrives ==
    /\ pc \in Loop \cup NutLoop \cup Handlers \cup (AtEnd \ {"over"}) /\ sent < MaxStops
    /\ sent' = sent + 1 /\ count' = count + 1 /\ signum' = TRUE
    /\ IF sigState = "deferred" /\ count > 0
       THEN Interrupted
       ELSE UNCHANGED <<pc, how, status>>
    /\ UNCHANGED <<run, loopVars, diskVars, sigState, cut, failed, writeError, rc>>

---------------------------------------------------------------------------
(* _Conversion.psf.                                                        *)

\* _starts_block
TopParent(k) == results[k].kind = "parent" /\ results[k].parent = <<>>
\* mutant: a parent after a parent starts a block
StartsBlockAlways(k) ==
    run.legacy \/ results[k].parent = <<>>

StartsBlock(k) ==
    \/ run.legacy
    \/ results[k].kind # "parent" /\ results[k].parent = <<>>
    \/ TopParent(k) /\ ~prevTop

\* mutant: the last block is not taken over at the end of the stream
PullNoElse ==
    /\ pc = "pull"
    /\ IF i = Len(results)
       THEN Goto("else") /\ UNCHANGED <<i, prevTop, listed, done>>
       ELSE /\ i' = i + 1 /\ prevTop' = TopParent(i + 1)
            /\ IF StartsBlock(i + 1) THEN listed' = listed \cup done /\ done' = {}
                                     ELSE UNCHANGED <<listed, done>>
            /\ Goto("test")
    /\ UNCHANGED <<run, current, diskVars, sigVars, endVars>>

\* for res in stream: the blocks before this result are complete; at the end
\* of the stream (else) the last one is too
Pull ==
    /\ pc = "pull"
    /\ IF i = Len(results)
       THEN listed' = listed \cup done /\ Goto("else") /\ UNCHANGED <<i, prevTop, done>>
       ELSE /\ i' = i + 1 /\ prevTop' = TopParent(i + 1)
            /\ IF StartsBlock(i + 1) THEN listed' = listed \cup done /\ done' = {}
                                     ELSE UNCHANGED <<listed, done>>
            /\ Goto("test")
    /\ UNCHANGED <<run, current, diskVars, sigVars, endVars>>

Else ==
    /\ pc = "else" /\ Goto("quiet")
    /\ done' = {}
    /\ UNCHANGED <<run, i, prevTop, listed, current, diskVars, sigVars, endVars>>

\* A first signal: no further file; else begin and track
Test ==
    /\ pc = "test"
    /\ IF signum THEN Goto("quiet") /\ UNCHANGED <<current, failed>>
       ELSE /\ current' = TRUE /\ Goto("write")
            /\ failed' = (failed \/ (results[i].kind = "data" /\ ~results[i].ok))
    /\ UNCHANGED <<run, i, prevTop, done, listed, diskVars, sigVars, cut, writeError, rc, status, how>>

\* write_analysis: nothing for a failed result; else the temporary file ...
Write ==
    /\ pc = "write"
    /\ \/ ~HasData(i) /\ Goto("append") /\ UNCHANGED tmp
       \/ HasData(i) /\ tmp' = TRUE /\ Goto("writing")
    /\ UNCHANGED <<run, loopVars, files, index, logged, states, warned, sigVars, endVars>>

\* ... and os.replace
Writing ==
    /\ pc = "writing" /\ Goto("append")
    /\ files' = files \cup {i} /\ tmp' = FALSE
    /\ UNCHANGED <<run, loopVars, index, logged, states, warned, sigVars, endVars>>

DoneAppend ==
    /\ pc = "append" /\ Goto("clear")
    /\ done' = done \cup {i}
    /\ UNCHANGED <<run, i, prevTop, listed, current, diskVars, sigVars, endVars>>

Clear ==
    /\ pc = "clear" /\ Goto("after")
    /\ current' = FALSE
    /\ UNCHANGED <<run, i, prevTop, done, listed, diskVars, sigVars, endVars>>

\* post() and state_file: of a result with data every state file asked for is
\* written, or warned about (an analysis that has none, no point, a value that
\* cannot be read, writefinal= of an interrupted analysis), or it is the error
\* that it cannot be written
Post(k) ==
    IF results[k].kind = "data" /\ HasData(k)
    THEN \E written, told \in SUBSET results[k].state :
            /\ written \cap told = {}
            /\ results[k].interrupted => "writefinal" \notin written
            /\ states' = states \cup ({k} \X written) /\ warned' = warned \cup ({k} \X told)
            /\ writeError' = (writeError \/ results[k].state \ (written \cup told) # {})
    ELSE UNCHANGED <<states, warned, writeError>>

\* after()
After ==
    /\ pc = "after" /\ Goto("pull")
    /\ Post(i)
    /\ UNCHANGED <<run, loopVars, tmp, files, index, logged, sigVars, cut, failed, rc, status, how>>

\* mutant: the file in hand is not removed
CutLeaves ==
    /\ pc = "cut" /\ Goto("quiet")
    /\ sigState' = "quiet"
    /\ cut' = current
    /\ UNCHANGED <<run, loopVars, diskVars, signum, count, sent, failed, writeError, rc, status, how>>

\* except _Interrupted
Cut ==
    /\ pc = "cut" /\ Goto("quiet")
    /\ sigState' = "quiet"
    /\ tmp' = (tmp /\ ~current) /\ cut' = current
    /\ UNCHANGED <<run, loopVars, files, index, logged, states, warned, signum, count, sent, failed,
                   writeError, rc, status, how>>

\* except OSError
OsErr ==
    /\ pc = "oserr" /\ Goto("quiet")
    /\ tmp' = (tmp /\ ~current) /\ writeError' = TRUE
    /\ UNCHANGED <<run, loopVars, files, index, logged, states, warned, sigVars, cut, failed, rc, status, how>>

\* The statement after the loop
Quiet ==
    /\ pc = "quiet"
    /\ sigState' = "quiet"
    /\ Goto(IF run.fmt = "psf" THEN "log" ELSE "posts")
    /\ UNCHANGED <<run, loopVars, diskVars, signum, count, sent, endVars>>

\* write_logfile: its temporary file ...
Log ==
    /\ pc = "log"
    /\ \/ Goto("logging") /\ UNCHANGED writeError
       \/ Goto("status") /\ writeError' = TRUE
    /\ UNCHANGED <<run, loopVars, diskVars, sigVars, cut, failed, rc, status, how>>

\* ... and os.replace; the results that failed are left out
Logging ==
    /\ pc = "logging" /\ Goto("status")
    /\ \/ index' = "new" /\ logged' = {k \in listed : HasData(k)} /\ UNCHANGED writeError
       \/ writeError' = TRUE /\ UNCHANGED <<index, logged>>
    /\ UNCHANGED <<run, loopVars, tmp, files, states, warned, sigVars, cut, failed, rc, status, how>>

---------------------------------------------------------------------------
(* _Conversion.nutmeg: `done' is its list written, `files' the plots in    *)
(* the temporary file.                                                     *)

NutFrame == UNCHANGED <<run, prevTop, listed, current, sigVars, cut, rc>>

NutOpen ==
    /\ pc = "nutOpen"
    /\ tmp' = TRUE /\ Goto("nutPull")
    /\ UNCHANGED <<i, done, files, index, logged, states, warned, failed, writeError, status, how>>
    /\ NutFrame

\* plots(): a first signal ends the file
NutPull ==
    /\ pc = "nutPull"
    /\ IF i = Len(results) \/ signum
       THEN Goto("nutEnd") /\ UNCHANGED <<i, done, failed>>
       ELSE /\ i' = i + 1 /\ done' = done \cup {i + 1} /\ Goto("nutWrite")
            /\ failed' = (failed \/ (results[i + 1].kind = "data" /\ ~results[i + 1].ok))
    /\ UNCHANGED <<tmp, files, index, logged, states, warned, writeError, status, how>>
    /\ NutFrame

\* One plot: a parent and a failed result have none
NutWrite ==
    /\ pc = "nutWrite"
    /\ files' = IF results[i].kind = "data" /\ HasData(i) THEN files \cup {i} ELSE files
    /\ Goto("nutPull")
    /\ UNCHANGED <<i, done, tmp, index, logged, states, warned, failed, writeError, status, how>>
    /\ NutFrame

\* os.replace
NutEnd ==
    /\ pc = "nutEnd"
    /\ index' = "new" /\ logged' = files /\ tmp' = FALSE /\ Goto("nutReturn")
    /\ UNCHANGED <<i, done, files, states, warned, failed, writeError, status, how>>
    /\ NutFrame

NutReturn ==
    /\ pc = "nutReturn" /\ Goto("quiet")
    /\ UNCHANGED <<i, done, tmp, files, index, logged, states, warned, failed, writeError, status, how>>
    /\ NutFrame

\* except _Interrupted, except OSError: the temporary file is removed (it has
\* its own name already when the signal comes before write() returns)
NutFails ==
    /\ \/ pc = "nutCut" /\ sigState' = "quiet" /\ cut' = TRUE /\ UNCHANGED writeError
       \/ pc = "nutOserr" /\ writeError' = TRUE /\ UNCHANGED <<cut, sigState>>
    /\ Goto("quiet") /\ tmp' = FALSE /\ done' = {}
    /\ files' = IF index = "new" THEN files ELSE {}
    /\ UNCHANGED <<run, i, prevTop, listed, current, index, logged, states, warned, signum, count, sent,
                   failed, rc, status, how>>

\* The state files of what is written, in the quiet state
NutPosts ==
    /\ pc = "posts"
    /\ IF done = {} THEN Goto("status") /\ UNCHANGED <<done, states, warned, writeError>>
       ELSE \E k \in done : /\ \A j \in done : k <= j
                            /\ done' = done \ {k} /\ Post(k) /\ UNCHANGED pc
    /\ UNCHANGED <<i, tmp, files, index, logged, failed, status, how>>
    /\ NutFrame

---------------------------------------------------------------------------
\* The statements that read the engine's output or write a file
PsfRaises == {"pull", "test", "write", "writing", "after"}
NutRaises == {"nutOpen", "nutPull", "nutWrite", "nutEnd"}

\* An OSError (a full disk, an unreadable output) goes to the except clause of
\* psf or nutmeg; any other exception (a malformed output) is guarded's
\* internal error
Raises ==
    /\ \/ pc \in PsfRaises /\ Goto("oserr") /\ UNCHANGED <<how, status>>
       \/ pc \in NutRaises /\ Goto("nutOserr") /\ UNCHANGED <<how, status>>
       \/ pc \in PsfRaises \cup NutRaises \cup {"log", "posts"} /\ Leave("internal", 2)
    /\ UNCHANGED <<run, loopVars, diskVars, sigVars, cut, failed, writeError, rc>>

\* mutant: a results file that cannot be written is only reported
StatusUnwritten ==
    /\ pc = "status"
    /\ LET engine == IF rc = 0 /\ (failed \/ run.stepFailed) THEN 1 ELSE rc
       IN  Leave("returned", IF signum THEN 3 ELSE engine)
    /\ UNCHANGED <<run, loopVars, diskVars, sigVars, cut, failed, writeError, rc>>

\* mutant: a results file that cannot be written adds its status
StatusAdds ==
    /\ pc = "status"
    /\ LET engine == IF rc = 0 /\ (failed \/ run.stepFailed) THEN 1 ELSE rc
           wrote == IF writeError THEN engine + 2 ELSE engine
       IN  Leave("returned", IF signum THEN 3 ELSE wrote)
    /\ UNCHANGED <<run, loopVars, diskVars, sigVars, cut, failed, writeError, rc>>

\* convert: the exit status
Status ==
    /\ pc = "status"
    /\ LET engine == IF rc = 0 /\ (failed \/ run.stepFailed) THEN 1 ELSE rc
           wrote == IF writeError /\ engine < 2 THEN 2 ELSE engine
       IN  Leave("returned", IF signum THEN 3 ELSE wrote)
    /\ UNCHANGED <<run, loopVars, diskVars, sigVars, cut, failed, writeError, rc>>

Psf == \/ Pull \/ Else \/ Test \/ Write \/ Writing \/ DoneAppend \/ Clear \/ After \/ Cut \/ OsErr
       \/ Log \/ Logging
Nutmeg == NutOpen \/ NutPull \/ NutWrite \/ NutEnd \/ NutReturn \/ NutFails \/ NutPosts

Next == RemoveStale \/ EngineDone \/ StopArrives \/ Psf \/ Nutmeg \/ Raises \/ Quiet \/ Status

Spec == Init /\ [][Next]_vars

---------------------------------------------------------------------------
(* What the conversion counts on of collect, of every stream of a plan.    *)

\* A parent at the top
Top(r) == r.kind = "parent" /\ r.parent = <<>>

\* _starts_block says so of result k of the stream s
Starts(s, k) ==
    \/ s.legacy
    \/ s.results[k].kind # "parent" /\ s.results[k].parent = <<>>
    \/ Top(s.results[k]) /\ ~(k > 1 /\ Top(s.results[k - 1]))

\* A block of collect starts where _starts_block says so, but after a block
\* of parents alone (save=nooutput left out their leaves)
Blocked(s) ==
    \A k \in 2 .. Len(s.results) : s.results[k].block # s.results[k - 1].block =>
        \/ Starts(s, k)
        \/ \A j \in 1 .. k - 1 : s.results[j].block = s.results[k - 1].block => s.results[j].nooutput

\* ... and only there, unless the names are legacy ones and there is no parent;
\* a parent's leaves are in its block
Whole(s) ==
    LET at == 1 .. Len(s.results)
        r == s.results
    IN  /\ s.legacy => \A k \in at : r[k].kind # "parent"
        /\ ~s.legacy => \A k \in at : Starts(s, k) =>
              \A a \in 1 .. k - 1, b \in k .. Len(r) : r[a].block # r[b].block
        /\ \A k, j \in at : r[k].kind = "parent" /\ r[j].parent = r[k].id => r[j].block = r[k].block

---------------------------------------------------------------------------
(* Properties.                                                             *)

Over == pc = "over"

\* The type invariant: the conversion's lists hold results of the stream.
TypeOK ==
    /\ pc \in {"stale", "engine"} \cup Loop \cup NutLoop \cup Handlers \cup AtEnd
    /\ i \in 0 .. Len(results)
    /\ done \subseteq Positions /\ listed \subseteq Positions /\ files \subseteq Positions
    /\ logged \subseteq Positions
    /\ states \subseteq Positions \X StateKeys /\ warned \subseteq Positions \X StateKeys
    /\ index \in {"none", "old", "new"} /\ sigState \in {"now", "deferred", "quiet"}
    /\ count \in Nat /\ sent \in 0 .. MaxStops /\ rc \in 0 .. 3 /\ status \in 0 .. 3 \cup {NoStatus}
    /\ how \in {"none", "fail", "returned", "escaped", "internal"}
    /\ {prevTop, current, tmp, signum, cut, failed, writeError} \subseteq BOOLEAN

\* At every instant, a kill of vamos included: the index of this run lists
\* only results whose files are complete, and no file of this run is ever
\* beside an earlier run's index (remove_stale, write_analysis' temporary
\* file, psf's order of writes).
LogListsFiles ==
    /\ index = "new" => \A k \in logged : k \in files
    /\ index = "old" => files = {}

\* The results below a parent
Below(k) == {j \in Positions : results[j].parent = results[k].id}

\* At every instant, a parent in the logFile has every leaf (or nested parent)
\* with data beside it (psf: a block that is not complete is not listed).
LeavesListed ==
    index = "new" /\ run.fmt = "psf" =>
        \A k \in logged : results[k].kind = "parent" => \A j \in Below(k) : HasData(j) => j \in logged

\* Every parent in the logFile lists exactly the leaves (or nested parents)
\* that are in it, and besides them only points whose row the engine's output
\* does not hold (psf: a block that is not complete is not listed; collect: a
\* parent lists the points before the first failed one).  With save=nooutput
\* its leaves have no files.
ParentsListLeaves ==
    index = "new" /\ run.fmt = "psf" =>
        \A k \in logged : results[k].kind = "parent" =>
            IF results[k].nooutput THEN Below(k) \cap logged = {}
            ELSE Cardinality(Below(k) \cap logged) + Cardinality({j \in Below(k) : results[j].lost})
                 = results[k].points

\* The conversion went through collect's block b to its end: no stop signal
\* came, or it came at a later result
Through(b) ==
    /\ \E k \in Positions : results[k].block = b
    /\ \A k \in Positions : results[k].block = b => k < i \/ ~signum

\* A first stop signal costs no finished block: when no second one and no
\* error cut the conversion, every block it went through is in the logFile
\* (psf: a block is taken over when the next one starts, and at the end),
\* parents whose leaves save=nooutput leaves out apart.
CompleteListed ==
    Over /\ how = "returned" /\ run.fmt = "psf" /\ ~writeError /\ count <= 1 =>
        \A b \in 1 .. Len(results) : Through(b) =>
            \A k \in Positions : results[k].block = b /\ HasData(k) /\ ~results[k].nooutput => k \in logged

\* No temporary file of a result is left behind, but by an internal error or a
\* signal inside an except clause.
NoTempLeft == Over /\ how \notin {"escaped", "internal"} => ~tmp

\* Exit status 0 is the truth: every result of the engine run is on the disk
\* and in the index, and every state file asked for is written or a warning
\* says that it is not.
StatusHonest ==
    Over /\ status = 0 =>
        \A k \in Positions : results[k].kind = "data" =>
            /\ k \in logged /\ k \in files
            /\ \A key \in results[k].state : <<k, key>> \in states \cup warned
===========================================================================
