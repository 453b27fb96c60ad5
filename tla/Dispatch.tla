------------------------------ MODULE Dispatch ------------------------------
(***************************************************************************)
(* The parallel dispatch of a regression run (regress/regress,             *)
(* dispatch_parallel): smak runs a makefile with one `regress run-one' per *)
(* block, in a session of its own; when smak has gone, what is left of its *)
(* session is ended, and the blocks it left without a finished block_run   *)
(* are dispatched again under GNU make.                                    *)
(*                                                                         *)
(* The processes: regress itself, the dispatcher with what serves its jobs *)
(* (smak has a job server that may outlive smak), and for each dispatch of *)
(* a block its run-one with the tests it started.  A run-one may be killed *)
(* with its tests left running, find the database locked, or be abandoned; *)
(* the runner it waits for may be killed and leave tests; the dispatcher   *)
(* may exit at any time; regress may get INT, TERM or HUP, and SIGPIPE     *)
(* when the reader of its console has gone (after SIGKILL it can promise   *)
(* nothing, and that is left out).  The dispatchers are external: they     *)
(* start each target at most once, after its prerequisite has succeeded,   *)
(* and SIGTERM ends them and every run-one (Perl's default), but not every *)
(* test.  The dispatcher's exit status only words a note and is left out.  *)
(***************************************************************************)
EXTENDS Naturals, FiniteSets

CONSTANTS
    N,          \* the blocks of the run are 1..N, in the order of the makefile
    Suite,      \* the suite of a block, if its blocks share a working directory (%SHARED_DIR)
    NoSuite     \* else

Blocks == 1..N
Tools == {"smak", "make"}

ASSUME DispatchAssumption == N \in Nat /\ DOMAIN Suite = Blocks

VARIABLES
    os,         \* linux: the system has /proc
    pc,         \* where regress is
    tool,       \* the dispatcher at hand
    stopping,   \* regress is in $stop, the handler of INT, TERM and HUP
    todo,       \* the blocks of each makefile
    disp,       \* each dispatcher process: none, forked (no session yet), running, exited
    serving,    \* something in its session starts jobs
    job,        \* the run-one of each dispatch of a block, and its tests
    astray,     \* the jobs with tests that neither a run-one nor its runner waits for
    row,        \* the block_run of a job: none, open, finished
    listed,     \* _end_session's @p: the jobs of its last look
    left,       \* _unfinished's @left
    warned,     \* blocks named in "no finished result for"
    gaps        \* history: the instants at which _end_session can miss something

procs == <<disp, serving, job, astray>>
regress == <<os, pc, tool, stopping, todo, listed, left, warned>>
vars == <<regress, procs, row, gaps>>

\* The states of a job with a process of its own.
Live == {"new", "testing", "record", "orphan"}

TypeOK ==
    /\ os \in {"linux", "other"}
    /\ pc \in {"choose", "fork", "handlers", "wait", "copy", "scan", "term", "loop", "kill",
               "left", "delete", "finish", "finished", "stopped", "dead"}
    /\ tool \in Tools
    /\ stopping \in BOOLEAN
    /\ todo \in [Tools -> SUBSET Blocks]
    /\ disp \in [Tools -> {"none", "forked", "running", "exited"}]
    /\ serving \in [Tools -> BOOLEAN]
    /\ job \in [Tools \X Blocks -> Live \cup {"none", "exited", "killed"}]
    /\ astray \in SUBSET (Tools \X Blocks)
    /\ row \in [Tools \X Blocks -> {"none", "open", "finished"}]
    /\ listed \in SUBSET Blocks
    /\ left \in SUBSET Blocks
    /\ warned \in SUBSET Blocks
    /\ gaps \in SUBSET {"handlers", "setsid", "pipe", "look"}

Init ==
    /\ os \in {"linux", "other"}
    /\ pc = "choose" /\ tool = "smak" /\ stopping = FALSE
    /\ todo = [t \in Tools |-> {}]
    /\ disp = [t \in Tools |-> "none"]
    /\ serving = [t \in Tools |-> FALSE]
    /\ job = [j \in Tools \X Blocks |-> "none"]
    /\ astray = {}
    /\ row = [j \in Tools \X Blocks |-> "none"]
    /\ listed = {} /\ left = {} /\ warned = {}
    /\ gaps = {}

\* The tests of a job run, in the working directory of its suite.
TestsRun(j) == job[j] \in {"testing", "orphan"} \/ j \in astray
Alive(j) == job[j] \in Live \/ j \in astray

\* What is in the session of dispatcher t.
Jobs(t) == {b \in Blocks : Alive(<<t, b>>)}
InSession(t) == disp[t] = "running" \/ serving[t] \/ Jobs(t) # {}

-----------------------------------------------------------------------------
(* The dispatcher and the jobs it starts. *)

\* The child of the fork: setsid, then the dispatcher.
SetSid(t) ==
    /\ disp[t] = "forked"
    /\ disp' = [disp EXCEPT ![t] = "running"]
    /\ serving' = [serving EXCEPT ![t] = TRUE]
    /\ UNCHANGED <<regress, job, astray, row, gaps>>

\* The block that b waits for in the makefile of these blocks.
WaitsFor(blocks, b) ==
    {p \in blocks : /\ p < b /\ Suite[p] = Suite[b] /\ Suite[b] # NoSuite
                    /\ \A q \in blocks : p < q /\ q < b => Suite[q] # Suite[b]}

JobStarts(t, b) ==
    /\ serving[t] /\ b \in todo[t] /\ job[<<t, b>>] = "none"
    /\ \A p \in WaitsFor(todo[t], b) : job[<<t, p>>] = "exited"
    /\ job' = [job EXCEPT ![<<t, b>>] = "new"]
    /\ UNCHANGED <<regress, disp, serving, astray, row, gaps>>

\* run-one: start_block_run, then the tests.
StartBlockRun(t, b) ==
    /\ job[<<t, b>>] = "new"
    /\ job' = [job EXCEPT ![<<t, b>>] = "testing"]
    /\ row' = [row EXCEPT ![<<t, b>>] = "open"]
    /\ UNCHANGED <<regress, disp, serving, astray, gaps>>

TestsEnd(t, b) ==
    /\ job[<<t, b>>] \in {"testing", "orphan"}
    /\ job' = [job EXCEPT ![<<t, b>>] = IF @ = "testing" THEN "record" ELSE "killed"]
    /\ UNCHANGED <<regress, disp, serving, astray, row, gaps>>

\* run_capture: the runner is killed by a signal ($? >> 8 is 0 then) or for its
\* time, its tests are not, and run-one goes on as for a runner that exited.
RunnerKilled(t, b) ==
    /\ job[<<t, b>>] = "testing"
    /\ job' = [job EXCEPT ![<<t, b>>] = "record"]
    /\ astray' = astray \cup {<<t, b>>}
    /\ UNCHANGED <<regress, disp, serving, row, gaps>>

AstrayEnd(t, b) ==
    /\ <<t, b>> \in astray
    /\ astray' = astray \ {<<t, b>>}
    /\ UNCHANGED <<regress, disp, serving, job, row, gaps>>

\* record_results: the results and finished_at in one transaction.
RecordResults(t, b) ==
    /\ job[<<t, b>>] = "record"
    /\ job' = [job EXCEPT ![<<t, b>>] = "exited"]
    /\ row' = [row EXCEPT ![<<t, b>>] = "finished"]
    /\ UNCHANGED <<regress, disp, serving, astray, gaps>>

\* The database is locked, in start_block_run or in record_results: run-one
\* warns and exits with 0 all the same.
RunOneFails(t, b) ==
    /\ job[<<t, b>>] \in {"new", "record"}
    /\ job' = [job EXCEPT ![<<t, b>>] = "exited"]
    /\ UNCHANGED <<regress, disp, serving, astray, row, gaps>>

\* run-one is killed, or cannot read its environment file: the target fails.
\* Its tests may run on.
RunOneKilled(t, b) ==
    /\ job[<<t, b>>] \in {"new", "testing", "record"}
    /\ job' \in {[job EXCEPT ![<<t, b>>] = s] :
                   s \in {"killed"} \cup (IF job[<<t, b>>] = "testing" THEN {"orphan"} ELSE {})}
    /\ UNCHANGED <<regress, disp, serving, astray, row, gaps>>

\* The dispatcher exits, whatever its jobs do; smak's job server may stay.
DispExits(t) ==
    /\ disp[t] \in {"forked", "running"}
    /\ disp' = [disp EXCEPT ![t] = "exited"]
    /\ \/ serving' = [serving EXCEPT ![t] = FALSE]
       \/ t = "smak" /\ UNCHANGED serving
    /\ UNCHANGED <<regress, job, astray, row, gaps>>

-----------------------------------------------------------------------------
(* regress: dispatch_parallel and _run_dispatcher. *)

\* smak where there is one and --make is not given.
Choose ==
    /\ pc = "choose"
    /\ \E t \in Tools : /\ tool' = t
                        /\ todo' = [todo EXCEPT ![t] = Blocks]
    /\ pc' = "fork"
    /\ UNCHANGED <<os, stopping, listed, left, warned, procs, row, gaps>>

Fork ==
    /\ pc = "fork"
    /\ disp' = [disp EXCEPT ![tool] = "forked"]
    /\ pc' = "handlers"
    /\ UNCHANGED <<os, tool, stopping, todo, listed, left, warned, serving, job, astray, row, gaps>>

\* The log is opened and $SIG{INT}, $SIG{TERM} and $SIG{HUP} are set.
SetHandlers ==
    /\ pc = "handlers"
    /\ pc' = "wait"
    /\ UNCHANGED <<os, tool, stopping, todo, listed, left, warned, procs, row, gaps>>

Waited ==
    /\ pc = "wait" /\ disp[tool] = "exited"
    /\ pc' = "copy"
    /\ UNCHANGED <<os, tool, stopping, todo, listed, left, warned, procs, row, gaps>>

\* $copy: the rest of the log to STDOUT, after the wait and first in $stop.
Copy ==
    /\ pc = "copy"
    /\ pc' = "scan"
    /\ UNCHANGED <<os, tool, stopping, todo, listed, left, warned, procs, row, gaps>>

\* $copy, there or in the wait loop, writes to a pipe without a reader: SIGPIPE
\* has no handler and ends regress.
CopyPipe ==
    /\ pc \in {"wait", "copy"}
    /\ pc' = "dead"
    /\ gaps' = gaps \cup {"pipe"}
    /\ UNCHANGED <<os, tool, stopping, todo, listed, left, warned, procs, row>>

\* _end_session returns: to _run_dispatcher's end, or in $stop to the kill of
\* regress by the signal it got.
Ended == pc' = (IF stopping THEN "stopped" ELSE "left") /\ listed' = {}

\* The first look; a child that has not called setsid yet is in regress's own
\* session.
Scan ==
    /\ pc = "scan" /\ os = "linux"
    /\ IF InSession(tool) THEN pc' = "term" /\ listed' = Jobs(tool) ELSE Ended
    /\ gaps' = gaps \cup (IF disp[tool] = "forked" THEN {"setsid"} ELSE {})
    /\ UNCHANGED <<os, tool, stopping, todo, left, warned, procs, row>>

\* SIGTERM to these jobs: the run-ones end, the tests of deaf do not.
TermJobs(blocks, deaf) ==
    /\ job' = [j \in Tools \X Blocks |->
                 IF j[1] # tool \/ j[2] \notin blocks \/ job[j] \notin Live THEN job[j]
                 ELSE IF j[2] \in deaf /\ job[j] \in {"testing", "orphan"} THEN "orphan" ELSE "killed"]
    /\ astray' = astray \ ({tool} \X (blocks \ deaf))

\* kill 'TERM', @p: the dispatcher, its server and the run-ones end; tests may not.
Term ==
    /\ pc = "term"
    /\ disp' = [disp EXCEPT ![tool] = "exited"]
    /\ serving' = [serving EXCEPT ![tool] = FALSE]
    /\ \E deaf \in SUBSET {b \in listed : TestsRun(<<tool, b>>)} : TermJobs(listed, deaf)
    /\ pc' = "loop" /\ listed' = {}
    /\ UNCHANGED <<os, tool, stopping, todo, left, warned, row, gaps>>

\* Without /proc: kill 'TERM', -$sid, to the process group of the leader, if it
\* leads one; jobs and a server in another group are not reached.
TermGroup ==
    /\ pc = "scan" /\ os # "linux"
    /\ IF disp[tool] = "forked"
       THEN UNCHANGED procs
       ELSE /\ disp' = [disp EXCEPT ![tool] = "exited"]
            /\ \/ serving' = [serving EXCEPT ![tool] = FALSE]
               \/ UNCHANGED serving
            /\ \E group \in SUBSET Jobs(tool) :
                 \E deaf \in SUBSET {b \in group : TestsRun(<<tool, b>>)} : TermJobs(group, deaf)
    /\ Ended
    /\ UNCHANGED <<os, tool, stopping, todo, left, warned, row, gaps>>

\* A look in the 5 s after TERM: the session is empty, or this is the last one.
\* mutant: SIGTERM was enough.
LookTermOnly ==
    /\ pc = "loop"
    /\ Ended
    /\ UNCHANGED <<os, tool, stopping, todo, left, warned, procs, row, gaps>>
Look ==
    /\ pc = "loop"
    /\ IF InSession(tool) THEN pc' = "kill" /\ listed' = Jobs(tool) ELSE Ended
    /\ UNCHANGED <<os, tool, stopping, todo, left, warned, procs, row, gaps>>

\* kill 'KILL', @p, 0.1 s after that look; a test started meanwhile is not in @p.
Kill ==
    /\ pc = "kill"
    /\ \E fresh \in SUBSET {b \in listed : TestsRun(<<tool, b>>)} :
         /\ astray' = (astray \ ({tool} \X listed)) \cup ({tool} \X fresh)
         /\ gaps' = gaps \cup (IF fresh = {} THEN {} ELSE {"look"})
    /\ job' = [j \in Tools \X Blocks |->
                 IF j[1] = tool /\ j[2] \in listed /\ job[j] \in Live THEN "killed" ELSE job[j]]
    /\ Ended
    /\ UNCHANGED <<os, tool, stopping, todo, left, warned, disp, serving, row>>

\* _unfinished: finished_blocks, ...
Unfinished ==
    /\ pc = "left"
    /\ left' = {b \in todo[tool] : \A t \in Tools : row[<<t, b>>] # "finished"}
    /\ pc' = "delete"
    /\ UNCHANGED <<os, tool, stopping, todo, listed, warned, procs, row, gaps>>

\* ... delete_unfinished_block_runs of what is left; then smak's leftovers
\* go to make, and make's are only named.
\* mutant: the open rows stay.
DeleteNothing ==
    /\ pc = "delete" /\ left' = {}
    /\ IF tool = "smak" /\ left # {}
       THEN /\ tool' = "make"
            /\ todo' = [todo EXCEPT !["make"] = left]
            /\ pc' = "fork"
            /\ UNCHANGED warned
       ELSE /\ warned' = left
            /\ pc' = "finish"
            /\ UNCHANGED <<tool, todo>>
    /\ UNCHANGED <<os, stopping, listed, procs, row, gaps>>
DeleteUnfinished ==
    /\ pc = "delete" /\ left' = {}
    /\ row' = [j \in Tools \X Blocks |-> IF j[2] \in left /\ row[j] = "open" THEN "none" ELSE row[j]]
    /\ IF tool = "smak" /\ left # {}
       THEN /\ tool' = "make"
            /\ todo' = [todo EXCEPT !["make"] = left]
            /\ pc' = "fork"
            /\ UNCHANGED warned
       ELSE /\ warned' = left
            /\ pc' = "finish"
            /\ UNCHANGED <<tool, todo>>
    /\ UNCHANGED <<os, stopping, listed, procs, gaps>>

FinishRun ==
    /\ pc = "finish"
    /\ pc' = "finished"
    /\ UNCHANGED <<os, tool, stopping, todo, listed, left, warned, procs, row, gaps>>

\* INT, TERM or HUP to regress: $stop where the handlers are set (they are
\* until _run_dispatcher returns), else its end, as for a die.
\* mutant: $stop only kills regress.
SignalledAtOnce ==
    /\ pc \notin {"finished", "stopped", "dead"} /\ listed' = {} /\ left' = {}
    /\ IF pc \in {"wait", "copy", "scan", "term", "loop", "kill"}
       THEN pc' = "stopped" /\ stopping' = TRUE /\ UNCHANGED gaps
       ELSE /\ pc' = "dead" /\ UNCHANGED stopping
            /\ gaps' = gaps \cup (IF pc = "handlers" THEN {"handlers"} ELSE {})
    /\ UNCHANGED <<os, tool, todo, warned, procs, row>>
Signalled ==
    /\ pc \notin {"finished", "stopped", "dead"} /\ listed' = {} /\ left' = {}
    /\ IF pc \in {"wait", "copy", "scan", "term", "loop", "kill"}
       THEN pc' = "copy" /\ stopping' = TRUE /\ UNCHANGED gaps
       ELSE /\ pc' = "dead" /\ UNCHANGED stopping
            /\ gaps' = gaps \cup (IF pc = "handlers" THEN {"handlers"} ELSE {})
    /\ UNCHANGED <<os, tool, todo, warned, procs, row>>

Step ==
    \/ Choose \/ Fork \/ SetHandlers \/ Waited \/ Copy \/ Scan \/ Term \/ TermGroup
    \/ Look \/ Kill \/ Unfinished \/ DeleteUnfinished \/ FinishRun

Job(t, b) ==
    \/ JobStarts(t, b) \/ StartBlockRun(t, b) \/ TestsEnd(t, b) \/ RunnerKilled(t, b)
    \/ AstrayEnd(t, b) \/ RecordResults(t, b) \/ RunOneFails(t, b) \/ RunOneKilled(t, b)

Next == \/ Step \/ Signalled \/ CopyPipe
        \/ \E t \in Tools : SetSid(t) \/ DispExits(t) \/ \E b \in Blocks : Job(t, b)

Spec == Init /\ [][Next]_vars

-----------------------------------------------------------------------------
(* The properties. *)

\* "The finished ones are kept", the rest "are dispatched again": a run that
\* regress finished has one block_run of every block, a finished one, or none
\* and a warning that names the block.  (Without /proc a run-one of smak's may
\* still record while make runs its block again.)
EveryBlockOnce ==
    pc = "finished" /\ os = "linux" =>
        \A b \in Blocks :
            LET rows == {t \in Tools : row[<<t, b>>] # "none"}
            IN  \/ Cardinality(rows) = 1 /\ \A t \in rows : row[<<t, b>>] = "finished"
                \/ rows = {} /\ b \in warned

\* Blocks that share a working directory "must not run concurrently" (they
\* clobber each other's state), and no block runs twice at a time, not even
\* when tests of the first dispatch outlive smak and their run-one.  The
\* exceptions: in one dispatch, tests that outlive a runner that was killed;
\* across the two, tests that _end_session cannot see.
SuiteExclusive ==
    \A j, k \in Tools \X Blocks :
        j # k /\ TestsRun(j) /\ TestsRun(k)
        => \/ j[2] # k[2] /\ (Suite[j[2]] = NoSuite \/ Suite[j[2]] # Suite[k[2]])
           \/ j[1] = k[1] /\ {j, k} \cap astray # {}
           \/ j[1] # k[1] /\ (os # "linux" \/ "look" \in gaps)

\* When regress has ended, by itself or by a signal, nothing of its dispatches
\* runs on and writes to the run: "whatever it left running in that session is
\* ended, as on a signal to regress meanwhile".  Where there is /proc the
\* exceptions are a signal between the fork of the dispatcher and the handlers,
\* one that is handled before the child's setsid, SIGPIPE in the copy of the
\* log, and a test started after the last look at the session.
NothingRunsOn ==
    pc \in {"finished", "stopped", "dead"} /\ os = "linux" /\ gaps = {} =>
        \A t \in Tools : disp[t] # "forked" /\ ~InSession(t)
=============================================================================
