------------------------------- MODULE Daidir -------------------------------
(***************************************************************************)
(* ./simv and its daidir: the compiles that build them, one after another  *)
(* (vamos/personalities/vcs.py, main and _verilator_compile), and the runs *)
(* that use them at any time (personalities/simv.py, run_daidir).  A       *)
(* compile makes ./simv refuse to run, removes the job record and the AMS  *)
(* report, lets the tools rebuild the daidir, and writes the record and    *)
(* the real ./simv last.  It may fail or be killed between any two steps.  *)
(*                                                                         *)
(* What the tools write is kept as Parts: the translation, the elaborated  *)
(* library, the AMS deck.  A part is a compile's whole output of one tool, *)
(* or half of one.  ./simv and the record are written to a file beside     *)
(* them and renamed, which is one step; vamos.tools.json, written in place *)
(* between the two, only fills the banner of a run and reads as empty when *)
(* it is torn (_read_tools), so it is left out.                            *)
(***************************************************************************)
EXTENDS Naturals

CONSTANTS
    Compiles,    \* how many compiles into this daidir there are
    Ams,         \* those of them that are AMS compiles, which write a report
    Simvs,       \* the runs
    Parts,       \* how many parts the tools write
    GroupKill    \* what ends vcs ends the tool it waits for too (a Ctrl-C at the terminal)

ASSUME DaidirAssumption ==
    /\ Compiles \in Nat /\ Parts \in Nat \ {0}
    /\ Ams \subseteq 1..Compiles
    /\ GroupKill \in BOOLEAN

\* Numbers of compiles, 0 for no file; Half is a part that is being written.
None == 0
Half == Compiles + 1
Ids == 1..Compiles

VARIABLES
    exe,         \* ./simv: none, refuse (the stub of a compile that has not succeeded), real
    record,      \* vamos.job.json: the compile that wrote it
    report,      \* the AMS interface-element report: the compile that wrote it
    part,        \* the parts of the daidir
    pc,          \* where each compile is
    at,          \* the part a compile's tools are at
    tool,        \* a tool of the compile is running, perhaps without its vcs
    hadExe,      \* main's had_exe
    simv,        \* where each run is
    job,         \* the record it read
    seen,        \* the parts nvc or the Verilator binary read for it
    next,        \* the part it reads next
    \* history
    rebuilt      \* runs that had read the record when a compile started on the daidir

files == <<exe, record, report, part>>
compile == <<pc, at, tool, hadExe>>
run == <<simv, job, seen, next, rebuilt>>
vars == <<files, compile, run>>

CompileEnded == {"refused", "unprepared", "failed", "done", "killed"}
Touching == {"build", "cleanup", "persist", "link"}

TypeOK ==
    /\ exe \in {"none", "refuse", "real"}
    /\ record \in {None} \cup Ids
    /\ report \in {None} \cup Ids
    /\ part \in [1..Parts -> {None, Half} \cup Ids]
    /\ pc \in [Ids -> {"idle", "refuse", "unrecord", "unreport"} \cup Touching \cup CompileEnded]
    /\ at \in [Ids -> 1..(Parts + 1)]
    /\ tool \in [Ids -> BOOLEAN]
    /\ hadExe \in [Ids -> BOOLEAN]
    /\ simv \in [Simvs -> {"idle", "job", "read", "error", "ran"}]
    /\ job \in [Simvs -> {None} \cup Ids]
    /\ seen \in [Simvs -> SUBSET ({None, Half} \cup Ids)]
    /\ next \in [Simvs -> 1..(Parts + 1)]
    /\ rebuilt \in SUBSET Simvs

Init ==
    /\ exe = "none" /\ record = None /\ report = None
    /\ part = [i \in 1..Parts |-> None]
    /\ pc = [c \in Ids |-> "idle"]
    /\ at = [c \in Ids |-> 1]
    /\ tool = [c \in Ids |-> FALSE]
    /\ hadExe = [c \in Ids |-> FALSE]
    /\ simv = [s \in Simvs |-> "idle"]
    /\ job = [s \in Simvs |-> None]
    /\ seen = [s \in Simvs |-> {}]
    /\ next = [s \in Simvs |-> 1]
    /\ rebuilt = {}

Goto(c, l) == pc' = [pc EXCEPT ![c] = l]

-----------------------------------------------------------------------------
(***************************************************************************)
(* A compile.                                                              *)
(***************************************************************************)

\* main up to makedirs: a bad command line, a missing source or tool, a
\* refused option return before anything is touched.
Start(c) ==
    /\ pc[c] = "idle" /\ \A b \in 1..(c - 1) : pc[b] \in CompileEnded
    /\ \/ Goto(c, "refused") /\ UNCHANGED hadExe
       \/ Goto(c, "refuse") /\ hadExe' = [hadExe EXCEPT ![c] = (exe # "none")]
    /\ UNCHANGED <<files, at, tool, run>>

\* invalidate: ./simv refuses to run ...
InvalidateExe(c) ==
    /\ pc[c] = "refuse"
    /\ exe' = "refuse"
    /\ Goto(c, "unrecord")
    /\ UNCHANGED <<record, report, part, at, tool, hadExe, run>>

\* ... the job record goes ...
\* mutant: the record stays until the compile writes its own.
InvalidateNoRecord(c) ==
    /\ pc[c] = "unrecord"
    /\ Goto(c, "unreport")
    /\ UNCHANGED <<files, at, tool, hadExe, run>>
InvalidateRecord(c) ==
    /\ pc[c] = "unrecord"
    /\ record' = None
    /\ Goto(c, "unreport")
    /\ UNCHANGED <<exe, report, part, at, tool, hadExe, run>>

\* ... and the report of the previous compile.
\* mutant: the report is left to the compile that writes the next one.
InvalidateNoReport(c) ==
    /\ pc[c] = "unreport"
    /\ rebuilt' = rebuilt \cup {s \in Simvs : simv[s] = "read"}
    /\ Goto(c, "build")
    /\ UNCHANGED <<files, at, tool, hadExe, simv, job, seen, next>>
InvalidateReport(c) ==
    /\ pc[c] = "unreport"
    /\ report' = None
    /\ rebuilt' = rebuilt \cup {s \in Simvs : simv[s] = "read"}
    /\ Goto(c, "build")
    /\ UNCHANGED <<exe, record, part, at, tool, hadExe, simv, job, seen, next>>

\* An OSError of makedirs or of any step of invalidate: "cannot prepare".
CannotPrepare(c) ==
    /\ pc[c] \in {"refuse", "unrecord", "unreport"}
    /\ Goto(c, "unprepared")
    /\ UNCHANGED <<files, at, tool, hadExe, run>>

\* NvcBackend.analyse, elaborate and _call, VerilatorBackend.build, the AMS
\* flow's tools: each clears and writes its part of the daidir.
ToolStarts(c) ==
    /\ pc[c] = "build" /\ ~tool[c] /\ at[c] =< Parts
    /\ tool' = [tool EXCEPT ![c] = TRUE]
    /\ part' = [part EXCEPT ![at[c]] = Half]
    /\ UNCHANGED <<exe, record, report, pc, at, hadExe, run>>

\* The tool ends well; vcs, if it is there, goes on to the next one.
ToolEnds(c) ==
    /\ tool[c]
    /\ tool' = [tool EXCEPT ![c] = FALSE]
    /\ part' = [part EXCEPT ![at[c]] = c]
    /\ at' = [at EXCEPT ![c] = @ + 1]
    /\ UNCHANGED <<exe, record, report, pc, hadExe, run>>

\* The tool fails: BackendError, if vcs is there to see it.
ToolFails(c) ==
    /\ tool[c]
    /\ tool' = [tool EXCEPT ![c] = FALSE]
    /\ pc' = [pc EXCEPT ![c] = IF @ = "build" THEN "cleanup" ELSE @]
    /\ UNCHANGED <<files, at, hadExe, run>>

\* A BackendError or ToolError of vamos's own: preprocessing, a deferred top,
\* a warning under --vamos-strict, the AMS checks.
CompileError(c) ==
    /\ pc[c] = "build" /\ ~tool[c]
    /\ Goto(c, "cleanup")
    /\ UNCHANGED <<files, at, tool, hadExe, run>>

\* The AMS flow writes its report after the last tool; --vamos-strict can
\* still refuse the compile then (_check_ams_options).
\* mutant: the tools' results are not waited for.
CompiledEarly(c) ==
    /\ pc[c] = "build" /\ ~tool[c]
    /\ report' = IF c \in Ams THEN c ELSE report
    /\ Goto(c, "persist") \/ (c \in Ams /\ Goto(c, "cleanup"))
    /\ UNCHANGED <<exe, record, part, at, tool, hadExe, run>>
Compiled(c) ==
    /\ pc[c] = "build" /\ ~tool[c] /\ at[c] = Parts + 1
    /\ report' = IF c \in Ams THEN c ELSE report
    /\ Goto(c, "persist") \/ (c \in Ams /\ Goto(c, "cleanup"))
    /\ UNCHANGED <<exe, record, part, at, tool, hadExe, run>>

\* A first compile that fails leaves no ./simv.
\* mutant: whatever ./simv is there goes.
CleanupAlways(c) ==
    /\ pc[c] = "cleanup"
    /\ exe' = "none"
    /\ Goto(c, "failed")
    /\ UNCHANGED <<record, report, part, at, tool, hadExe, run>>
Cleanup(c) ==
    /\ pc[c] = "cleanup"
    /\ exe' = IF hadExe[c] THEN exe ELSE "none"
    /\ Goto(c, "failed")
    /\ UNCHANGED <<record, report, part, at, tool, hadExe, run>>

\* _write_atomic of the job record, write_tools, ...
Persist(c) ==
    /\ pc[c] = "persist"
    /\ record' = c
    /\ Goto(c, "link")
    /\ UNCHANGED <<exe, report, part, at, tool, hadExe, run>>

\* ... and the real ./simv.
\* mutant: the stub of the start of the compile is left in place.
LinkForgotten(c) ==
    /\ pc[c] = "link"
    /\ Goto(c, "done")
    /\ UNCHANGED <<files, at, tool, hadExe, run>>
Link(c) ==
    /\ pc[c] = "link"
    /\ exe' = "real"
    /\ Goto(c, "done")
    /\ UNCHANGED <<record, report, part, at, tool, hadExe, run>>

\* vcs has no signal handlers: a signal, or an exception main does not catch,
\* ends it where it is.  The tools it starts share its process group and have
\* no death signal, so a signal to vcs alone leaves the tool running.
Kill(c) ==
    /\ pc[c] \notin CompileEnded \cup {"idle"}
    /\ Goto(c, "killed")
    /\ tool' = IF GroupKill THEN [tool EXCEPT ![c] = FALSE] ELSE tool
    /\ UNCHANGED <<files, at, hadExe, run>>

-----------------------------------------------------------------------------
(***************************************************************************)
(* A run.                                                                  *)
(***************************************************************************)

\* ./simv: no such file, the stub that refuses, or the real one.
SimvStarts(s) ==
    /\ simv[s] = "idle"
    /\ simv' = [simv EXCEPT ![s] = IF exe = "real" THEN "job" ELSE "error"]
    /\ UNCHANGED <<files, compile, job, seen, next, rebuilt>>

\* vamos -simv --vamos-daidir, an older copy of ./simv, vcs -R: the daidir
\* without its ./simv.
DaidirStarts(s) ==
    /\ simv[s] = "idle"
    /\ simv' = [simv EXCEPT ![s] = "job"]
    /\ UNCHANGED <<files, compile, job, seen, next, rebuilt>>

\* run_daidir reads the record; without one there is "no finished compile".
ReadJob(s) ==
    /\ simv[s] = "job"
    /\ simv' = [simv EXCEPT ![s] = IF record = None THEN "error" ELSE "read"]
    /\ job' = [job EXCEPT ![s] = record]
    /\ UNCHANGED <<files, compile, seen, next, rebuilt>>

\* The simulator reads the daidir, part by part; a compile that starts on it
\* is not kept out.
ReadPart(s) ==
    /\ simv[s] = "read" /\ next[s] =< Parts
    /\ seen' = [seen EXCEPT ![s] = @ \cup {part[next[s]]}]
    /\ next' = [next EXCEPT ![s] = @ + 1]
    /\ UNCHANGED <<files, compile, simv, job, rebuilt>>

SimvEnds(s) ==
    /\ simv[s] = "read" /\ next[s] = Parts + 1
    /\ simv' = [simv EXCEPT ![s] = "ran"]
    /\ UNCHANGED <<files, compile, job, seen, next, rebuilt>>

CompileStep(c) ==
    \/ Start(c) \/ InvalidateExe(c) \/ InvalidateRecord(c) \/ InvalidateReport(c) \/ CannotPrepare(c)
    \/ ToolStarts(c) \/ ToolEnds(c) \/ ToolFails(c) \/ CompileError(c) \/ Compiled(c)
    \/ Cleanup(c) \/ Persist(c) \/ Link(c) \/ Kill(c)

SimvStep(s) ==
    \/ SimvStarts(s) \/ DaidirStarts(s) \/ ReadJob(s) \/ ReadPart(s) \/ SimvEnds(s)

Next == (\E c \in Ids : CompileStep(c)) \/ (\E s \in Simvs : SimvStep(s))

Spec == Init /\ [][Next]_vars

-----------------------------------------------------------------------------
(***************************************************************************)
(* The properties.                                                         *)
(***************************************************************************)

\* "A compile that fails or is interrupted never leaves a half-rebuilt daidir
\* runnable" (vcs.py, invalidate): while there is a job record every part is
\* whole and of the compile that wrote it, and ./simv is real only then.
NeverHalfRunnable ==
    /\ record # None => \A i \in 1..Parts : part[i] = record
    /\ exe = "real" => record # None

\* The last compile to have touched the daidir.
Last(c) == /\ pc[c] \notin {"idle", "refused"}
           /\ \A b \in (c + 1)..Compiles : pc[b] \in {"idle", "refused"}

\* A compile that succeeded can be run until the next one starts, whatever
\* failed or was killed before it.
SuccessRuns ==
    \A c \in Ids : Last(c) /\ pc[c] = "done" =>
        exe = "real" /\ record = c /\ \A i \in 1..Parts : part[i] = c

\* A failed compile leaves no ./simv if there was none, and one that refuses
\* to run if there was one.
FailureRefuses ==
    \A c \in Ids : Last(c) /\ pc[c] = "failed" => exe = (IF hadExe[c] THEN "refuse" ELSE "none")

\* A run simulates the design its job record describes, unless a compile
\* started on the daidir after the run had read the record.
MixedNeedsRebuild ==
    \A s \in Simvs : simv[s] = "ran" /\ seen[s] # {job[s]} => s \in rebuilt

\* A design that can be run never lies beside another compile's AMS report.
ReportOfRecord == record # None => report = IF record \in Ams THEN record ELSE None
=============================================================================
