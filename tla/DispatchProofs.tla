--------------------------- MODULE DispatchProofs ---------------------------
(***************************************************************************)
(* Theorems about the parallel dispatch of a regression run, for every     *)
(* number of blocks and every assignment of suites to them.                *)
(***************************************************************************)
EXTENDS Dispatch, WellFoundedInduction, FiniteSetTheorems, TLAPS

\* Nothing of dispatcher t writes rows or starts jobs, and only a test started
\* after a last look runs.
Quiet(t) == /\ disp[t] \notin {"forked", "running"} /\ serving[t] = FALSE
            /\ \A b \in Blocks : job[<<t, b>>] \notin Live
            /\ \A b \in Blocks : <<t, b>> \in astray => "look" \in gaps

\* regress is where no dispatcher has been started or the last one's session
\* has been ended.
Settled == \/ pc \in {"choose", "fork", "left", "delete", "finish", "finished"}
           \/ pc \in {"stopped", "dead"} /\ gaps \cap {"handlers", "setsid", "pipe"} = {}

\* Where there is /proc, only the dispatcher at hand has a session, and it has
\* none where regress is settled; once TERM is sent nothing starts jobs, and
\* the last look saw every job.
SessionOf(t) ==
    /\ os = "linux" /\ (t # tool \/ Settled) => Quiet(t)
    /\ os = "linux" /\ pc \in {"loop", "kill"} => disp[t] \notin {"forked", "running"} /\ serving[t] = FALSE
    /\ os = "linux" /\ pc = "kill" /\ t = tool => \A b \in Blocks : Alive(<<t, b>>) => b \in listed
    /\ pc \in {"copy", "scan", "term", "loop", "kill"} /\ stopping = FALSE /\ t = tool => disp[t] = "exited"
Session == \A t \in Tools : SessionOf(t)


\* The type invariant is inductive.
LEMMA TypeStep ==
    TypeOK /\ [Next]_vars => TypeOK'
<1> SUFFICES ASSUME TypeOK, [Next]_vars
             PROVE  TypeOK'
  OBVIOUS
<1> USE DEF TypeOK, regress, procs, Ended, Live
<1>1. CASE Choose
  BY <1>1 DEF Choose
<1>2. CASE Fork
  BY <1>2 DEF Fork
<1>3. CASE SetHandlers
  BY <1>3 DEF SetHandlers
<1>4. CASE Waited
  BY <1>4 DEF Waited
<1>5. CASE Copy
  BY <1>5 DEF Copy
<1>6. CASE Scan
  BY <1>6 DEF Scan, Jobs
<1>7. CASE Term
  BY <1>7 DEF Term, TermJobs
<1>8. CASE TermGroup
  <2>1. /\ pc' \in {"stopped", "left"} /\ listed' = {}
        /\ UNCHANGED <<os, tool, stopping, todo, left, warned, row, gaps>>
    BY <1>8 DEF TermGroup
  <2>2. CASE disp[tool] = "forked"
    BY <1>8, <2>1, <2>2 DEF TermGroup
  <2>3. CASE disp[tool] # "forked"
    <3>1. disp' \in [Tools -> {"none", "forked", "running", "exited"}] /\ serving' \in [Tools -> BOOLEAN]
      BY <1>8, <2>3 DEF TermGroup
    <3>2. PICK group \in SUBSET Jobs(tool) :
             \E deaf \in SUBSET {b \in group : TestsRun(<<tool, b>>)} : TermJobs(group, deaf)
      BY <1>8, <2>3 DEF TermGroup
    <3>3. job' \in [Tools \X Blocks -> Live \cup {"none", "exited", "killed"}]
          /\ astray' \in SUBSET (Tools \X Blocks)
      BY <3>2 DEF TermJobs
    <3> QED
      BY <2>1, <3>1, <3>3
  <2> QED
    BY <2>2, <2>3
<1>9. CASE Look
  BY <1>9 DEF Look, Jobs
<1>10. CASE Kill
  BY <1>10 DEF Kill
<1>11. CASE Unfinished
  BY <1>11 DEF Unfinished
<1>12. CASE DeleteUnfinished
  BY <1>12 DEF DeleteUnfinished, Tools
<1>13. CASE FinishRun
  BY <1>13 DEF FinishRun
<1>14. CASE Signalled
  BY <1>14 DEF Signalled
<1>15. CASE CopyPipe
  BY <1>15 DEF CopyPipe
<1>16. ASSUME NEW t \in Tools, SetSid(t) PROVE TypeOK'
  BY <1>16 DEF SetSid
<1>17. ASSUME NEW t \in Tools, DispExits(t) PROVE TypeOK'
  BY <1>17 DEF DispExits
<1>18. ASSUME NEW t \in Tools, NEW b \in Blocks, JobStarts(t, b) PROVE TypeOK'
  BY <1>18 DEF JobStarts
<1>19. ASSUME NEW t \in Tools, NEW b \in Blocks, StartBlockRun(t, b) PROVE TypeOK'
  BY <1>19 DEF StartBlockRun
<1>20. ASSUME NEW t \in Tools, NEW b \in Blocks, TestsEnd(t, b) PROVE TypeOK'
  BY <1>20 DEF TestsEnd
<1>21. ASSUME NEW t \in Tools, NEW b \in Blocks, RunnerKilled(t, b) PROVE TypeOK'
  BY <1>21 DEF RunnerKilled
<1>22. ASSUME NEW t \in Tools, NEW b \in Blocks, AstrayEnd(t, b) PROVE TypeOK'
  BY <1>22 DEF AstrayEnd
<1>23. ASSUME NEW t \in Tools, NEW b \in Blocks, RecordResults(t, b) PROVE TypeOK'
  BY <1>23 DEF RecordResults
<1>24. ASSUME NEW t \in Tools, NEW b \in Blocks, RunOneFails(t, b) PROVE TypeOK'
  BY <1>24 DEF RunOneFails
<1>25. ASSUME NEW t \in Tools, NEW b \in Blocks, RunOneKilled(t, b) PROVE TypeOK'
  BY <1>25 DEF RunOneKilled
<1>26. CASE UNCHANGED vars
  BY <1>26 DEF vars
<1> QED
  BY <1>1, <1>2, <1>3, <1>4, <1>5, <1>6, <1>7, <1>8, <1>9, <1>10, <1>11, <1>12, <1>13,
     <1>14, <1>15, <1>16, <1>17, <1>18, <1>19, <1>20, <1>21, <1>22, <1>23, <1>24, <1>25,
     <1>26
  DEF Next, Step, Job

\* TypeOK says that every variable keeps its type, whatever the dispatchers,
\* the jobs and the signals to regress do.
THEOREM TypeCorrect == Spec => []TypeOK
<1>1. Init => TypeOK
  BY DEF Init, TypeOK, Tools
<1> QED
  BY <1>1, TypeStep, PTL DEF Spec

-----------------------------------------------------------------------------
(* The sessions. *)


\* A session that is empty stays so until regress forks its dispatcher.
LEMMA SessionStep ==
    TypeOK /\ Session /\ [Next]_vars => Session'
<1> SUFFICES ASSUME TypeOK, Session, [Next]_vars, NEW u \in Tools
             PROVE  SessionOf(u)'
  BY DEF Session
<1>0. SessionOf(u) /\ SessionOf(tool) /\ tool \in Tools
  BY DEF Session, TypeOK
<1> USE DEF SessionOf, Settled, Quiet, Alive, Live, regress, procs, Ended
<1>1. CASE Choose
  BY <1>0, <1>1 DEF Choose, TypeOK
<1>2. CASE Fork
  BY <1>0, <1>2 DEF Fork, TypeOK
<1>3. CASE SetHandlers
  BY <1>0, <1>3 DEF SetHandlers, TypeOK
<1>4. CASE Waited
  BY <1>0, <1>4 DEF Waited, TypeOK
<1>5. CASE Copy
  BY <1>0, <1>5 DEF Copy, TypeOK
<1>6. CASE Scan
  BY <1>0, <1>6 DEF Scan, Jobs, InSession, TypeOK
<1>7. CASE Term
  BY <1>0, <1>7 DEF Term, TermJobs, TypeOK
<1>8. CASE TermGroup
  BY <1>0, <1>8 DEF TermGroup, TermJobs, TypeOK
<1>9. CASE Look
  BY <1>0, <1>9 DEF Look, Jobs, InSession, TypeOK
<1>10. CASE Kill
  BY <1>0, <1>10 DEF Kill, TypeOK
<1>11. CASE Unfinished
  BY <1>0, <1>11 DEF Unfinished, TypeOK
<1>12. CASE DeleteUnfinished
  BY <1>0, <1>12 DEF DeleteUnfinished, TypeOK
<1>13. CASE FinishRun
  BY <1>0, <1>13 DEF FinishRun, TypeOK
<1>14. CASE Signalled
  BY <1>0, <1>14 DEF Signalled, TypeOK
<1>15. CASE CopyPipe
  BY <1>0, <1>15 DEF CopyPipe, TypeOK
<1>16. ASSUME NEW t \in Tools, SetSid(t) PROVE SessionOf(u)'
  BY <1>0, <1>16 DEF SetSid, TypeOK
<1>17. ASSUME NEW t \in Tools, DispExits(t) PROVE SessionOf(u)'
  BY <1>0, <1>17 DEF DispExits, TypeOK
<1>18. ASSUME NEW t \in Tools, NEW b \in Blocks, JobStarts(t, b) PROVE SessionOf(u)'
  BY <1>0, <1>18 DEF JobStarts, TypeOK
<1>19. ASSUME NEW t \in Tools, NEW b \in Blocks, StartBlockRun(t, b) PROVE SessionOf(u)'
  BY <1>0, <1>19 DEF StartBlockRun, TypeOK
<1>20. ASSUME NEW t \in Tools, NEW b \in Blocks, TestsEnd(t, b) PROVE SessionOf(u)'
  BY <1>0, <1>20 DEF TestsEnd, TypeOK
<1>21. ASSUME NEW t \in Tools, NEW b \in Blocks, RunnerKilled(t, b) PROVE SessionOf(u)'
  BY <1>0, <1>21 DEF RunnerKilled, TypeOK
<1>22. ASSUME NEW t \in Tools, NEW b \in Blocks, AstrayEnd(t, b) PROVE SessionOf(u)'
  BY <1>0, <1>22 DEF AstrayEnd, TypeOK
<1>23. ASSUME NEW t \in Tools, NEW b \in Blocks, RecordResults(t, b) PROVE SessionOf(u)'
  BY <1>0, <1>23 DEF RecordResults, TypeOK
<1>24. ASSUME NEW t \in Tools, NEW b \in Blocks, RunOneFails(t, b) PROVE SessionOf(u)'
  BY <1>0, <1>24 DEF RunOneFails, TypeOK
<1>25. ASSUME NEW t \in Tools, NEW b \in Blocks, RunOneKilled(t, b) PROVE SessionOf(u)'
  BY <1>0, <1>25 DEF RunOneKilled, TypeOK
<1>26. CASE UNCHANGED vars
  BY <1>0, <1>26 DEF vars
<1> QED
  BY <1>1, <1>2, <1>3, <1>4, <1>5, <1>6, <1>7, <1>8, <1>9, <1>10, <1>11, <1>12, <1>13,
     <1>14, <1>15, <1>16, <1>17, <1>18, <1>19, <1>20, <1>21, <1>22, <1>23, <1>24, <1>25,
     <1>26
  DEF Next, Step, Job

\* At the start of a run there is no session.
LEMMA SessionInit == Init => TypeOK /\ Session
<1> SUFFICES ASSUME Init PROVE TypeOK /\ Session
  OBVIOUS
<1>1. TypeOK
  BY DEF Init, TypeOK, Tools
<1>2. Session
  BY DEF Init, Session, SessionOf, Quiet, Alive, Live
<1> QED
  BY <1>1, <1>2


\* NothingRunsOn: when regress has finished the run or ended on a signal, no
\* dispatcher, job server, run-one or test of its dispatches is left, but for
\* the four gaps of the session's end and systems without /proc.
THEOREM NothingLeft == Spec => []NothingRunsOn
<1>1. TypeOK /\ Session => NothingRunsOn
  <2> SUFFICES ASSUME TypeOK, Session, pc \in {"finished", "stopped", "dead"}, os = "linux", gaps = {},
                      NEW t \in Tools
               PROVE  disp[t] # "forked" /\ ~InSession(t)
    BY DEF NothingRunsOn
  <2>1. Quiet(t)
    BY DEF Session, SessionOf, Settled
  <2> QED
    BY <2>1 DEF Quiet, InSession, Jobs, Alive
<1> QED
  BY <1>1, SessionInit, TypeStep, SessionStep, PTL DEF Spec

-----------------------------------------------------------------------------
(* The order of the jobs of a suite. *)

\* Nothing is started before a dispatcher is chosen, nor by make before smak's
\* leftovers are handed to it.
UnstartedOf(t, b) ==
    pc = "choose" \/ (t = "make" /\ tool = "smak") =>
        /\ disp[t] = "none" /\ serving[t] = FALSE
        /\ job[<<t, b>>] = "none" /\ <<t, b>> \notin astray

Unstarted == \A t \in Tools, b \in Blocks : UnstartedOf(t, b)

\* A dispatcher starts only the blocks of its makefile.
OfMakefileOf(t, b) == job[<<t, b>>] # "none" => b \in todo[t]
OfMakefile == \A t \in Tools, b \in Blocks : OfMakefileOf(t, b)

\* When a block has been started, all earlier blocks of its suite have exited:
\* the makefile only asks it of the one before, which asked it of the one
\* before that.
ChainOf(t, p, c) ==
    /\ {p, c} \subseteq todo[t] /\ p < c /\ Suite[p] = Suite[c] /\ Suite[c] # NoSuite
    /\ job[<<t, c>>] # "none"
    => job[<<t, p>>] = "exited"
Chain == \A t \in Tools, p, c \in Blocks : ChainOf(t, p, c)

\* A nonempty set of block numbers has a greatest one.
LEMMA Greatest ==
    ASSUME NEW n \in Nat, NEW S, S \subseteq 1..n, S # {}
    PROVE  \E x \in S : \A y \in S : y <= x
<1> DEFINE T == {n - y : y \in S}
<1> DEFINE R == {p \in Nat \X Nat : p[1] < p[2]}
<1>1. IsWellFoundedOn(R, Nat)
  BY NatLessThanWellFounded DEF OpToRel
<1>2. \A y \in S : y \in Nat /\ n - y \in Nat
  OBVIOUS
<1>3. T \subseteq Nat /\ T # {}
  <2>1. T \subseteq Nat
    BY <1>2
  <2>2. PICK y \in S : TRUE
    OBVIOUS
  <2>3. n - y \in T
    OBVIOUS
  <2> QED
    BY <2>1, <2>3
<1>4. PICK m \in T : \A k \in T : ~ (<<k, m>> \in R)
  <2> HIDE DEF T, R
  <2> QED
    BY <1>1, <1>3, WFMin
<1>5. \A k \in T : m <= k
  <2> SUFFICES ASSUME NEW k \in T PROVE m <= k
    OBVIOUS
  <2>1. k \in Nat /\ m \in Nat /\ ~ (<<k, m>> \in R)
    BY <1>3, <1>4
  <2> QED
    BY <2>1
<1>6. PICK x \in S : m = n - x
  BY <1>4
<1>7. \A y \in S : n - x <= n - y
  BY <1>5, <1>6
<1>8. \A y \in S : y <= x
  BY <1>2, <1>7
<1> QED
  BY <1>8

\* Jobs need a server, and before its fork a dispatcher has none.
LEMMA UnstartedStep ==
    TypeOK /\ Unstarted /\ [Next]_vars => Unstarted'
<1> SUFFICES ASSUME TypeOK, Unstarted, [Next]_vars, NEW u \in Tools, NEW x \in Blocks
             PROVE  UnstartedOf(u, x)'
  BY DEF Unstarted
<1>0. UnstartedOf(u, x) /\ tool \in Tools
  BY DEF Unstarted, TypeOK
<1> USE DEF UnstartedOf, Tools, Live, regress, procs, Ended
<1>1. CASE Choose
  BY <1>0, <1>1 DEF Choose, TypeOK
<1>2. CASE Fork
  BY <1>0, <1>2 DEF Fork, TypeOK
<1>3. CASE SetHandlers
  BY <1>0, <1>3 DEF SetHandlers, TypeOK
<1>4. CASE Waited
  BY <1>0, <1>4 DEF Waited, TypeOK
<1>5. CASE Copy
  BY <1>0, <1>5 DEF Copy, TypeOK
<1>6. CASE Scan
  BY <1>0, <1>6 DEF Scan, TypeOK
<1>7. CASE Term
  BY <1>0, <1>7 DEF Term, TermJobs, TypeOK
<1>8. CASE TermGroup
  BY <1>0, <1>8 DEF TermGroup, TermJobs, TypeOK
<1>9. CASE Look
  BY <1>0, <1>9 DEF Look, TypeOK
<1>10. CASE Kill
  BY <1>0, <1>10 DEF Kill, TypeOK
<1>11. CASE Unfinished
  BY <1>0, <1>11 DEF Unfinished, TypeOK
<1>12. CASE DeleteUnfinished
  BY <1>0, <1>12 DEF DeleteUnfinished, TypeOK
<1>13. CASE FinishRun
  BY <1>0, <1>13 DEF FinishRun, TypeOK
<1>14. CASE Signalled
  BY <1>0, <1>14 DEF Signalled, TypeOK
<1>15. CASE CopyPipe
  BY <1>0, <1>15 DEF CopyPipe, TypeOK
<1>16. ASSUME NEW t \in Tools, SetSid(t) PROVE UnstartedOf(u, x)'
  BY <1>0, <1>16 DEF SetSid, TypeOK
<1>17. ASSUME NEW t \in Tools, DispExits(t) PROVE UnstartedOf(u, x)'
  BY <1>0, <1>17 DEF DispExits, TypeOK
<1>18. ASSUME NEW t \in Tools, NEW b \in Blocks, JobStarts(t, b) PROVE UnstartedOf(u, x)'
  BY <1>0, <1>18 DEF JobStarts, TypeOK
<1>19. ASSUME NEW t \in Tools, NEW b \in Blocks, StartBlockRun(t, b) PROVE UnstartedOf(u, x)'
  BY <1>0, <1>19 DEF StartBlockRun, TypeOK
<1>20. ASSUME NEW t \in Tools, NEW b \in Blocks, TestsEnd(t, b) PROVE UnstartedOf(u, x)'
  BY <1>0, <1>20 DEF TestsEnd, TypeOK
<1>21. ASSUME NEW t \in Tools, NEW b \in Blocks, RunnerKilled(t, b) PROVE UnstartedOf(u, x)'
  BY <1>0, <1>21 DEF RunnerKilled, TypeOK
<1>22. ASSUME NEW t \in Tools, NEW b \in Blocks, AstrayEnd(t, b) PROVE UnstartedOf(u, x)'
  BY <1>0, <1>22 DEF AstrayEnd, TypeOK
<1>23. ASSUME NEW t \in Tools, NEW b \in Blocks, RecordResults(t, b) PROVE UnstartedOf(u, x)'
  BY <1>0, <1>23 DEF RecordResults, TypeOK
<1>24. ASSUME NEW t \in Tools, NEW b \in Blocks, RunOneFails(t, b) PROVE UnstartedOf(u, x)'
  BY <1>0, <1>24 DEF RunOneFails, TypeOK
<1>25. ASSUME NEW t \in Tools, NEW b \in Blocks, RunOneKilled(t, b) PROVE UnstartedOf(u, x)'
  BY <1>0, <1>25 DEF RunOneKilled, TypeOK
<1>26. CASE UNCHANGED vars
  BY <1>0, <1>26 DEF vars
<1> QED
  BY <1>1, <1>2, <1>3, <1>4, <1>5, <1>6, <1>7, <1>8, <1>9, <1>10, <1>11, <1>12, <1>13,
     <1>14, <1>15, <1>16, <1>17, <1>18, <1>19, <1>20, <1>21, <1>22, <1>23, <1>24, <1>25,
     <1>26
  DEF Next, Step, Job

\* Only JobStarts starts a job, and a makefile is written before any.
LEMMA OfMakefileStep ==
    TypeOK /\ Unstarted /\ OfMakefile /\ [Next]_vars => OfMakefile'
<1> SUFFICES ASSUME TypeOK, Unstarted, OfMakefile, [Next]_vars, NEW u \in Tools, NEW x \in Blocks
             PROVE  OfMakefileOf(u, x)'
  BY DEF OfMakefile
<1>0. OfMakefileOf(u, x) /\ UnstartedOf(u, x)
  BY DEF OfMakefile, Unstarted
<1> USE DEF OfMakefileOf, Tools, Live, regress, procs, Ended
<1>1. CASE Choose
  BY <1>0, <1>1 DEF Choose, TypeOK, UnstartedOf
<1>2. CASE Fork
  BY <1>0, <1>2 DEF Fork, TypeOK
<1>3. CASE SetHandlers
  BY <1>0, <1>3 DEF SetHandlers, TypeOK
<1>4. CASE Waited
  BY <1>0, <1>4 DEF Waited, TypeOK
<1>5. CASE Copy
  BY <1>0, <1>5 DEF Copy, TypeOK
<1>6. CASE Scan
  BY <1>0, <1>6 DEF Scan, TypeOK
<1>7. CASE Term
  BY <1>0, <1>7 DEF Term, TermJobs, TypeOK
<1>8. CASE TermGroup
  BY <1>0, <1>8 DEF TermGroup, TermJobs, TypeOK
<1>9. CASE Look
  BY <1>0, <1>9 DEF Look, TypeOK
<1>10. CASE Kill
  BY <1>0, <1>10 DEF Kill, TypeOK
<1>11. CASE Unfinished
  BY <1>0, <1>11 DEF Unfinished, TypeOK
<1>12. CASE DeleteUnfinished
  BY <1>0, <1>12 DEF DeleteUnfinished, TypeOK, UnstartedOf
<1>13. CASE FinishRun
  BY <1>0, <1>13 DEF FinishRun, TypeOK
<1>14. CASE Signalled
  BY <1>0, <1>14 DEF Signalled, TypeOK
<1>15. CASE CopyPipe
  BY <1>0, <1>15 DEF CopyPipe, TypeOK
<1>16. ASSUME NEW t \in Tools, SetSid(t) PROVE OfMakefileOf(u, x)'
  BY <1>0, <1>16 DEF SetSid, TypeOK
<1>17. ASSUME NEW t \in Tools, DispExits(t) PROVE OfMakefileOf(u, x)'
  BY <1>0, <1>17 DEF DispExits, TypeOK
<1>18. ASSUME NEW t \in Tools, NEW b \in Blocks, JobStarts(t, b) PROVE OfMakefileOf(u, x)'
  BY <1>0, <1>18 DEF JobStarts, TypeOK
<1>19. ASSUME NEW t \in Tools, NEW b \in Blocks, StartBlockRun(t, b) PROVE OfMakefileOf(u, x)'
  BY <1>0, <1>19 DEF StartBlockRun, TypeOK
<1>20. ASSUME NEW t \in Tools, NEW b \in Blocks, TestsEnd(t, b) PROVE OfMakefileOf(u, x)'
  BY <1>0, <1>20 DEF TestsEnd, TypeOK
<1>21. ASSUME NEW t \in Tools, NEW b \in Blocks, RunnerKilled(t, b) PROVE OfMakefileOf(u, x)'
  BY <1>0, <1>21 DEF RunnerKilled, TypeOK
<1>22. ASSUME NEW t \in Tools, NEW b \in Blocks, AstrayEnd(t, b) PROVE OfMakefileOf(u, x)'
  BY <1>0, <1>22 DEF AstrayEnd, TypeOK
<1>23. ASSUME NEW t \in Tools, NEW b \in Blocks, RecordResults(t, b) PROVE OfMakefileOf(u, x)'
  BY <1>0, <1>23 DEF RecordResults, TypeOK
<1>24. ASSUME NEW t \in Tools, NEW b \in Blocks, RunOneFails(t, b) PROVE OfMakefileOf(u, x)'
  BY <1>0, <1>24 DEF RunOneFails, TypeOK
<1>25. ASSUME NEW t \in Tools, NEW b \in Blocks, RunOneKilled(t, b) PROVE OfMakefileOf(u, x)'
  BY <1>0, <1>25 DEF RunOneKilled, TypeOK
<1>26. CASE UNCHANGED vars
  BY <1>0, <1>26 DEF vars
<1> QED
  BY <1>1, <1>2, <1>3, <1>4, <1>5, <1>6, <1>7, <1>8, <1>9, <1>10, <1>11, <1>12, <1>13,
     <1>14, <1>15, <1>16, <1>17, <1>18, <1>19, <1>20, <1>21, <1>22, <1>23, <1>24, <1>25,
     <1>26
  DEF Next, Step, Job

\* The start of a block follows the exit of the block of its suite before it,
\* and the chain carries that to all the earlier ones.
LEMMA ChainStep ==
    DispatchAssumption /\ TypeOK /\ Unstarted /\ Chain /\ [Next]_vars => Chain'
<1> SUFFICES ASSUME DispatchAssumption, TypeOK, Unstarted, Chain, [Next]_vars,
                    NEW u \in Tools, NEW p \in Blocks, NEW c \in Blocks
             PROVE  ChainOf(u, p, c)'
  BY DEF Chain
<1>0. ChainOf(u, p, c) /\ UnstartedOf(u, c) /\ UnstartedOf(u, p)
  BY DEF Chain, Unstarted
<1> USE DEF ChainOf, Tools, Live, regress, procs, Ended
<1>1. CASE Choose
  BY <1>0, <1>1 DEF Choose, TypeOK, UnstartedOf
<1>2. CASE Fork
  BY <1>0, <1>2 DEF Fork, TypeOK
<1>3. CASE SetHandlers
  BY <1>0, <1>3 DEF SetHandlers, TypeOK
<1>4. CASE Waited
  BY <1>0, <1>4 DEF Waited, TypeOK
<1>5. CASE Copy
  BY <1>0, <1>5 DEF Copy, TypeOK
<1>6. CASE Scan
  BY <1>0, <1>6 DEF Scan, TypeOK
<1>7. CASE Term
  BY <1>0, <1>7 DEF Term, TermJobs, TypeOK
<1>8. CASE TermGroup
  BY <1>0, <1>8 DEF TermGroup, TermJobs, TypeOK
<1>9. CASE Look
  BY <1>0, <1>9 DEF Look, TypeOK
<1>10. CASE Kill
  BY <1>0, <1>10 DEF Kill, TypeOK
<1>11. CASE Unfinished
  BY <1>0, <1>11 DEF Unfinished, TypeOK
<1>12. CASE DeleteUnfinished
  BY <1>0, <1>12 DEF DeleteUnfinished, TypeOK, UnstartedOf
<1>13. CASE FinishRun
  BY <1>0, <1>13 DEF FinishRun, TypeOK
<1>14. CASE Signalled
  BY <1>0, <1>14 DEF Signalled, TypeOK
<1>15. CASE CopyPipe
  BY <1>0, <1>15 DEF CopyPipe, TypeOK
<1>16. ASSUME NEW t \in Tools, SetSid(t) PROVE ChainOf(u, p, c)'
  BY <1>0, <1>16 DEF SetSid, TypeOK
<1>17. ASSUME NEW t \in Tools, DispExits(t) PROVE ChainOf(u, p, c)'
  BY <1>0, <1>17 DEF DispExits, TypeOK
<1>18. ASSUME NEW t \in Tools, NEW b \in Blocks, JobStarts(t, b) PROVE ChainOf(u, p, c)'
  <2> DEFINE S == {q \in todo[t] : q < b /\ Suite[q] = Suite[b]}
  <2>1. CASE p = b /\ u = t
    <3>1. ~(p < c) \/ c # b
      BY <2>1 DEF Blocks, DispatchAssumption
    <3> QED
      BY <1>0, <1>18, <2>1, <3>1 DEF JobStarts, TypeOK
  <2>2. CASE u # t \/ (c # b /\ p # b)
    BY <1>0, <1>18, <2>2 DEF JobStarts, TypeOK
  <2>3. CASE u = t /\ c = b /\ p # b /\ p \in S /\ Suite[b] # NoSuite
    <3>1. S \subseteq 1..N /\ S # {} /\ N \in Nat
      BY <2>3 DEF TypeOK, Blocks, DispatchAssumption
    <3>2. PICK g \in S : \A q \in S : q <= g
      <4> HIDE DEF S
      <4> QED
        BY <3>1, Greatest
    <3>3. g \in WaitsFor(todo[t], b)
      <4>1. \A q \in todo[t] : q \in Nat /\ g \in Nat
        BY <3>1 DEF TypeOK, Blocks
      <4> QED
        BY <3>2, <4>1, <2>3 DEF WaitsFor
    <3>4. job[<<t, g>>] = "exited"
      BY <3>3, <1>18 DEF JobStarts
    <3>5. p = g \/ p < g
      BY <3>1, <3>2, <2>3
    <3>6. job[<<t, p>>] = "exited"
      <4>1. g \in Blocks /\ g \in todo[t] /\ p \in todo[t] /\ Suite[p] = Suite[g] /\ Suite[g] # NoSuite
        BY <3>1, <3>2, <2>3 DEF Blocks
      <4>2. ChainOf(t, p, g)
        BY <4>1 DEF Chain
      <4> QED
        BY <3>4, <3>5, <4>1, <4>2
    <3> QED
      BY <3>6, <2>3, <1>18 DEF JobStarts, TypeOK
  <2>4. CASE u = t /\ c = b /\ p # b /\ ~(p \in S /\ Suite[b] # NoSuite)
    BY <2>4, <1>18 DEF JobStarts, TypeOK
  <2> QED
    BY <2>1, <2>2, <2>3, <2>4
<1>19. ASSUME NEW t \in Tools, NEW b \in Blocks, StartBlockRun(t, b) PROVE ChainOf(u, p, c)'
  BY <1>0, <1>19 DEF StartBlockRun, TypeOK
<1>20. ASSUME NEW t \in Tools, NEW b \in Blocks, TestsEnd(t, b) PROVE ChainOf(u, p, c)'
  BY <1>0, <1>20 DEF TestsEnd, TypeOK
<1>21. ASSUME NEW t \in Tools, NEW b \in Blocks, RunnerKilled(t, b) PROVE ChainOf(u, p, c)'
  BY <1>0, <1>21 DEF RunnerKilled, TypeOK
<1>22. ASSUME NEW t \in Tools, NEW b \in Blocks, AstrayEnd(t, b) PROVE ChainOf(u, p, c)'
  BY <1>0, <1>22 DEF AstrayEnd, TypeOK
<1>23. ASSUME NEW t \in Tools, NEW b \in Blocks, RecordResults(t, b) PROVE ChainOf(u, p, c)'
  BY <1>0, <1>23 DEF RecordResults, TypeOK
<1>24. ASSUME NEW t \in Tools, NEW b \in Blocks, RunOneFails(t, b) PROVE ChainOf(u, p, c)'
  BY <1>0, <1>24 DEF RunOneFails, TypeOK
<1>25. ASSUME NEW t \in Tools, NEW b \in Blocks, RunOneKilled(t, b) PROVE ChainOf(u, p, c)'
  BY <1>0, <1>25 DEF RunOneKilled, TypeOK
<1>26. CASE UNCHANGED vars
  BY <1>0, <1>26 DEF vars
<1> QED
  BY <1>1, <1>2, <1>3, <1>4, <1>5, <1>6, <1>7, <1>8, <1>9, <1>10, <1>11, <1>12, <1>13,
     <1>14, <1>15, <1>16, <1>17, <1>18, <1>19, <1>20, <1>21, <1>22, <1>23, <1>24, <1>25,
     <1>26
  DEF Next, Step, Job

\* SuiteExclusive: blocks that share a working directory never run their tests
\* together, and no block runs twice at a time, in one dispatch but for tests
\* that outlive a killed runner, nor across the two but for what _end_session
\* cannot see.
THEOREM OneAtATime == Spec => []SuiteExclusive
<1> DEFINE IInv == TypeOK /\ Session /\ Unstarted /\ OfMakefile /\ Chain
<1>1. Init => IInv
  <2> SUFFICES ASSUME Init PROVE Unstarted /\ OfMakefile /\ Chain
    BY SessionInit
  <2> QED
    BY DEF Init, Unstarted, UnstartedOf, OfMakefile, OfMakefileOf, Chain, ChainOf, Tools
<1>2. IInv /\ [Next]_vars => IInv'
  BY DispatchAssumption, TypeStep, SessionStep, UnstartedStep, OfMakefileStep, ChainStep
<1>3. IInv => SuiteExclusive
  <2> SUFFICES ASSUME IInv, NEW j \in Tools \X Blocks, NEW k \in Tools \X Blocks,
                      j # k, TestsRun(j), TestsRun(k)
               PROVE  \/ j[2] # k[2] /\ (Suite[j[2]] = NoSuite \/ Suite[j[2]] # Suite[k[2]])
                      \/ j[1] = k[1] /\ {j, k} \cap astray # {}
                      \/ j[1] # k[1] /\ (os # "linux" \/ "look" \in gaps)
    BY DEF SuiteExclusive
  <2>1. PICK t \in Tools, b \in Blocks : j = <<t, b>>
    OBVIOUS
  <2>2. PICK u \in Tools, c \in Blocks : k = <<u, c>>
    OBVIOUS
  <2>3. CASE t # u
    <3>1. ASSUME os = "linux", "look" \notin gaps PROVE t = tool /\ u = tool
      BY <2>1, <2>2, <3>1 DEF Session, SessionOf, Quiet, Live, TestsRun
    <3> QED
      BY <2>1, <2>2, <2>3, <3>1
  <2>4. CASE t = u /\ j \notin astray /\ k \notin astray
    <3>1. b # c
      BY <2>1, <2>2, <2>4
    <3>2. b \in todo[t] /\ c \in todo[t]
      BY <2>1, <2>2, <2>4 DEF OfMakefile, OfMakefileOf, TestsRun
    <3>3. b < c \/ c < b
      BY <3>1, DispatchAssumption DEF Blocks
    <3>4. ChainOf(t, b, c) /\ ChainOf(t, c, b)
      BY DEF Chain
    <3>5. job[<<t, b>>] \notin {"none", "exited"} /\ job[<<t, c>>] \notin {"none", "exited"}
      BY <2>1, <2>2, <2>4 DEF TestsRun
    <3>6. ~(Suite[b] = Suite[c] /\ Suite[b] # NoSuite)
      BY <3>2, <3>3, <3>4, <3>5 DEF ChainOf
    <3> QED
      BY <2>1, <2>2, <3>1, <3>6
  <2> QED
    BY <2>1, <2>2, <2>3, <2>4
<1> QED
  BY <1>1, <1>2, <1>3, PTL DEF Spec

-----------------------------------------------------------------------------
(* The rows of the blocks. *)

\* A run-one inserts its block_run after it has started.
RowOf(t, b) == job[<<t, b>>] \in {"none", "new"} => row[<<t, b>>] = "none"
Rows == \A t \in Tools, b \in Blocks : RowOf(t, b)

\* smak gets every block; make gets the blocks that smak left without a row,
\* and the others have smak's finished one.
DividedOf(b) ==
    os = "linux" /\ pc \notin {"choose", "dead"} =>
        /\ tool = "smak" => b \in todo["smak"]
        /\ tool = "make" => row[<<"smak", b>>] = IF b \in todo["make"] THEN "none" ELSE "finished"
Divided == \A b \in Blocks : DividedOf(b)

\* What _unfinished read is still so when the rows are deleted.
LeftOf(b) ==
    os = "linux" /\ pc = "delete" => (b \in left <=> b \in todo[tool] /\ \A t \in Tools : row[<<t, b>>] # "finished")
Left == \A b \in Blocks : LeftOf(b)

\* Once the leftovers of the last dispatcher are deleted: one finished row and
\* no other, or none and a warning.
DoneOf(b) ==
    os = "linux" /\ pc \in {"finish", "finished"} =>
        \/ \E t \in Tools : /\ row[<<t, b>>] = "finished"
                            /\ \A u \in Tools : u # t => row[<<u, b>>] = "none"
        \/ (\A t \in Tools : row[<<t, b>>] = "none") /\ b \in warned
Done == \A b \in Blocks : DoneOf(b)

\* Only a run-one that has started writes a row.
LEMMA RowsStep ==
    TypeOK /\ Rows /\ [Next]_vars => Rows'
<1> SUFFICES ASSUME TypeOK, Rows, [Next]_vars, NEW u \in Tools, NEW x \in Blocks
             PROVE  RowOf(u, x)'
  BY DEF Rows
<1>0. RowOf(u, x)
  BY DEF Rows
<1> USE DEF RowOf, Live, regress, procs, Ended
<1>1. CASE Choose
  BY <1>0, <1>1 DEF Choose, TypeOK
<1>2. CASE Fork
  BY <1>0, <1>2 DEF Fork, TypeOK
<1>3. CASE SetHandlers
  BY <1>0, <1>3 DEF SetHandlers, TypeOK
<1>4. CASE Waited
  BY <1>0, <1>4 DEF Waited, TypeOK
<1>5. CASE Copy
  BY <1>0, <1>5 DEF Copy, TypeOK
<1>6. CASE Scan
  BY <1>0, <1>6 DEF Scan, TypeOK
<1>7. CASE Term
  BY <1>0, <1>7 DEF Term, TermJobs, TypeOK
<1>8. CASE TermGroup
  BY <1>0, <1>8 DEF TermGroup, TermJobs, TypeOK
<1>9. CASE Look
  BY <1>0, <1>9 DEF Look, TypeOK
<1>10. CASE Kill
  BY <1>0, <1>10 DEF Kill, TypeOK
<1>11. CASE Unfinished
  BY <1>0, <1>11 DEF Unfinished, TypeOK
<1>12. CASE DeleteUnfinished
  BY <1>0, <1>12 DEF DeleteUnfinished, TypeOK
<1>13. CASE FinishRun
  BY <1>0, <1>13 DEF FinishRun, TypeOK
<1>14. CASE Signalled
  BY <1>0, <1>14 DEF Signalled, TypeOK
<1>15. CASE CopyPipe
  BY <1>0, <1>15 DEF CopyPipe, TypeOK
<1>16. ASSUME NEW t \in Tools, SetSid(t) PROVE RowOf(u, x)'
  BY <1>0, <1>16 DEF SetSid, TypeOK
<1>17. ASSUME NEW t \in Tools, DispExits(t) PROVE RowOf(u, x)'
  BY <1>0, <1>17 DEF DispExits, TypeOK
<1>18. ASSUME NEW t \in Tools, NEW b \in Blocks, JobStarts(t, b) PROVE RowOf(u, x)'
  BY <1>0, <1>18 DEF JobStarts, TypeOK
<1>19. ASSUME NEW t \in Tools, NEW b \in Blocks, StartBlockRun(t, b) PROVE RowOf(u, x)'
  BY <1>0, <1>19 DEF StartBlockRun, TypeOK
<1>20. ASSUME NEW t \in Tools, NEW b \in Blocks, TestsEnd(t, b) PROVE RowOf(u, x)'
  BY <1>0, <1>20 DEF TestsEnd, TypeOK
<1>21. ASSUME NEW t \in Tools, NEW b \in Blocks, RunnerKilled(t, b) PROVE RowOf(u, x)'
  BY <1>0, <1>21 DEF RunnerKilled, TypeOK
<1>22. ASSUME NEW t \in Tools, NEW b \in Blocks, AstrayEnd(t, b) PROVE RowOf(u, x)'
  BY <1>0, <1>22 DEF AstrayEnd, TypeOK
<1>23. ASSUME NEW t \in Tools, NEW b \in Blocks, RecordResults(t, b) PROVE RowOf(u, x)'
  BY <1>0, <1>23 DEF RecordResults, TypeOK
<1>24. ASSUME NEW t \in Tools, NEW b \in Blocks, RunOneFails(t, b) PROVE RowOf(u, x)'
  BY <1>0, <1>24 DEF RunOneFails, TypeOK
<1>25. ASSUME NEW t \in Tools, NEW b \in Blocks, RunOneKilled(t, b) PROVE RowOf(u, x)'
  BY <1>0, <1>25 DEF RunOneKilled, TypeOK
<1>26. CASE UNCHANGED vars
  BY <1>0, <1>26 DEF vars
<1> QED
  BY <1>1, <1>2, <1>3, <1>4, <1>5, <1>6, <1>7, <1>8, <1>9, <1>10, <1>11, <1>12, <1>13,
     <1>14, <1>15, <1>16, <1>17, <1>18, <1>19, <1>20, <1>21, <1>22, <1>23, <1>24, <1>25,
     <1>26
  DEF Next, Step, Job

\* While make runs, smak's session is empty and its rows stand.
LEMMA DividedStep ==
    TypeOK /\ Session /\ Unstarted /\ Rows /\ Divided /\ Left /\ [Next]_vars => Divided'
<1> SUFFICES ASSUME TypeOK, Session, Unstarted, Rows, Divided, Left, [Next]_vars,
                    NEW x \in Blocks
             PROVE  DividedOf(x)'
  BY DEF Divided
<1>0. /\ DividedOf(x) /\ LeftOf(x) /\ SessionOf("smak") /\ tool \in Tools
      /\ \A t \in Tools : RowOf(t, x) /\ UnstartedOf(t, x)
  BY DEF Divided, Left, Session, Rows, Unstarted, TypeOK, Tools
<1> USE DEF DividedOf, Tools, regress, procs, Ended
<1>1. CASE Choose
  BY <1>0, <1>1 DEF Choose, TypeOK, UnstartedOf, RowOf
<1>2. CASE Fork
  BY <1>0, <1>2 DEF Fork, TypeOK
<1>3. CASE SetHandlers
  BY <1>0, <1>3 DEF SetHandlers, TypeOK
<1>4. CASE Waited
  BY <1>0, <1>4 DEF Waited, TypeOK
<1>5. CASE Copy
  BY <1>0, <1>5 DEF Copy, TypeOK
<1>6. CASE Scan
  BY <1>0, <1>6 DEF Scan, TypeOK
<1>7. CASE Term
  BY <1>0, <1>7 DEF Term, TermJobs, TypeOK
<1>8. CASE TermGroup
  BY <1>0, <1>8 DEF TermGroup, TermJobs, TypeOK
<1>9. CASE Look
  BY <1>0, <1>9 DEF Look, TypeOK
<1>10. CASE Kill
  BY <1>0, <1>10 DEF Kill, TypeOK
<1>11. CASE Unfinished
  BY <1>0, <1>11 DEF Unfinished, TypeOK
<1>12. CASE DeleteUnfinished
  BY <1>0, <1>12 DEF DeleteUnfinished, TypeOK, LeftOf, RowOf, UnstartedOf
<1>13. CASE FinishRun
  BY <1>0, <1>13 DEF FinishRun, TypeOK
<1>14. CASE Signalled
  BY <1>0, <1>14 DEF Signalled, TypeOK
<1>15. CASE CopyPipe
  BY <1>0, <1>15 DEF CopyPipe, TypeOK
<1>16. ASSUME NEW t \in Tools, SetSid(t) PROVE DividedOf(x)'
  BY <1>0, <1>16 DEF SetSid, TypeOK
<1>17. ASSUME NEW t \in Tools, DispExits(t) PROVE DividedOf(x)'
  BY <1>0, <1>17 DEF DispExits, TypeOK
<1>18. ASSUME NEW t \in Tools, NEW b \in Blocks, JobStarts(t, b) PROVE DividedOf(x)'
  BY <1>0, <1>18 DEF JobStarts, TypeOK
<1>19. ASSUME NEW t \in Tools, NEW b \in Blocks, StartBlockRun(t, b) PROVE DividedOf(x)'
  BY <1>0, <1>19 DEF StartBlockRun, TypeOK, SessionOf, Quiet, Live
<1>20. ASSUME NEW t \in Tools, NEW b \in Blocks, TestsEnd(t, b) PROVE DividedOf(x)'
  BY <1>0, <1>20 DEF TestsEnd, TypeOK
<1>21. ASSUME NEW t \in Tools, NEW b \in Blocks, RunnerKilled(t, b) PROVE DividedOf(x)'
  BY <1>0, <1>21 DEF RunnerKilled, TypeOK
<1>22. ASSUME NEW t \in Tools, NEW b \in Blocks, AstrayEnd(t, b) PROVE DividedOf(x)'
  BY <1>0, <1>22 DEF AstrayEnd, TypeOK
<1>23. ASSUME NEW t \in Tools, NEW b \in Blocks, RecordResults(t, b) PROVE DividedOf(x)'
  BY <1>0, <1>23 DEF RecordResults, TypeOK, SessionOf, Quiet, Live
<1>24. ASSUME NEW t \in Tools, NEW b \in Blocks, RunOneFails(t, b) PROVE DividedOf(x)'
  BY <1>0, <1>24 DEF RunOneFails, TypeOK
<1>25. ASSUME NEW t \in Tools, NEW b \in Blocks, RunOneKilled(t, b) PROVE DividedOf(x)'
  BY <1>0, <1>25 DEF RunOneKilled, TypeOK
<1>26. CASE UNCHANGED vars
  BY <1>0, <1>26 DEF vars
<1> QED
  BY <1>1, <1>2, <1>3, <1>4, <1>5, <1>6, <1>7, <1>8, <1>9, <1>10, <1>11, <1>12, <1>13,
     <1>14, <1>15, <1>16, <1>17, <1>18, <1>19, <1>20, <1>21, <1>22, <1>23, <1>24, <1>25,
     <1>26
  DEF Next, Step, Job

\* Between the read and the deletion no run-one is left to write a row.
LEMMA LeftStep ==
    TypeOK /\ Session /\ Left /\ [Next]_vars => Left'
<1> SUFFICES ASSUME TypeOK, Session, Left, [Next]_vars, NEW x \in Blocks
             PROVE  LeftOf(x)'
  BY DEF Left
<1>0. LeftOf(x) /\ \A t \in Tools : SessionOf(t)
  BY DEF Left, Session
<1> USE DEF LeftOf, regress, procs, Ended
<1>1. CASE Choose
  BY <1>0, <1>1 DEF Choose, TypeOK
<1>2. CASE Fork
  BY <1>0, <1>2 DEF Fork, TypeOK
<1>3. CASE SetHandlers
  BY <1>0, <1>3 DEF SetHandlers, TypeOK
<1>4. CASE Waited
  BY <1>0, <1>4 DEF Waited, TypeOK
<1>5. CASE Copy
  BY <1>0, <1>5 DEF Copy, TypeOK
<1>6. CASE Scan
  BY <1>0, <1>6 DEF Scan, TypeOK
<1>7. CASE Term
  BY <1>0, <1>7 DEF Term, TypeOK
<1>8. CASE TermGroup
  BY <1>0, <1>8 DEF TermGroup, TypeOK
<1>9. CASE Look
  BY <1>0, <1>9 DEF Look, TypeOK
<1>10. CASE Kill
  BY <1>0, <1>10 DEF Kill, TypeOK
<1>11. CASE Unfinished
  BY <1>0, <1>11 DEF Unfinished, TypeOK
<1>12. CASE DeleteUnfinished
  BY <1>0, <1>12 DEF DeleteUnfinished, TypeOK
<1>13. CASE FinishRun
  BY <1>0, <1>13 DEF FinishRun, TypeOK
<1>14. CASE Signalled
  BY <1>0, <1>14 DEF Signalled, TypeOK
<1>15. CASE CopyPipe
  BY <1>0, <1>15 DEF CopyPipe, TypeOK
<1>16. ASSUME NEW t \in Tools, SetSid(t) PROVE LeftOf(x)'
  BY <1>0, <1>16 DEF SetSid, TypeOK
<1>17. ASSUME NEW t \in Tools, DispExits(t) PROVE LeftOf(x)'
  BY <1>0, <1>17 DEF DispExits, TypeOK
<1>18. ASSUME NEW t \in Tools, NEW b \in Blocks, JobStarts(t, b) PROVE LeftOf(x)'
  BY <1>0, <1>18 DEF JobStarts, TypeOK
<1>19. ASSUME NEW t \in Tools, NEW b \in Blocks, StartBlockRun(t, b) PROVE LeftOf(x)'
  BY <1>0, <1>19 DEF StartBlockRun, TypeOK, SessionOf, Settled, Quiet, Live
<1>20. ASSUME NEW t \in Tools, NEW b \in Blocks, TestsEnd(t, b) PROVE LeftOf(x)'
  BY <1>0, <1>20 DEF TestsEnd, TypeOK
<1>21. ASSUME NEW t \in Tools, NEW b \in Blocks, RunnerKilled(t, b) PROVE LeftOf(x)'
  BY <1>0, <1>21 DEF RunnerKilled, TypeOK
<1>22. ASSUME NEW t \in Tools, NEW b \in Blocks, AstrayEnd(t, b) PROVE LeftOf(x)'
  BY <1>0, <1>22 DEF AstrayEnd, TypeOK
<1>23. ASSUME NEW t \in Tools, NEW b \in Blocks, RecordResults(t, b) PROVE LeftOf(x)'
  BY <1>0, <1>23 DEF RecordResults, TypeOK, SessionOf, Settled, Quiet, Live
<1>24. ASSUME NEW t \in Tools, NEW b \in Blocks, RunOneFails(t, b) PROVE LeftOf(x)'
  BY <1>0, <1>24 DEF RunOneFails, TypeOK
<1>25. ASSUME NEW t \in Tools, NEW b \in Blocks, RunOneKilled(t, b) PROVE LeftOf(x)'
  BY <1>0, <1>25 DEF RunOneKilled, TypeOK
<1>26. CASE UNCHANGED vars
  BY <1>0, <1>26 DEF vars
<1> QED
  BY <1>1, <1>2, <1>3, <1>4, <1>5, <1>6, <1>7, <1>8, <1>9, <1>10, <1>11, <1>12, <1>13,
     <1>14, <1>15, <1>16, <1>17, <1>18, <1>19, <1>20, <1>21, <1>22, <1>23, <1>24, <1>25,
     <1>26
  DEF Next, Step, Job

\* The deletion leaves each block its finished row or none, and then nothing
\* writes rows.
LEMMA DoneStep ==
    TypeOK /\ Session /\ Unstarted /\ OfMakefile /\ Rows /\ Divided /\ Left /\ Done /\ [Next]_vars => Done'
<1> SUFFICES ASSUME TypeOK, Session, Unstarted, OfMakefile, Rows, Divided, Left, Done, [Next]_vars,
                    NEW x \in Blocks
             PROVE  DoneOf(x)'
  BY DEF Done
<1>0. /\ DoneOf(x) /\ LeftOf(x) /\ DividedOf(x) /\ tool \in Tools
      /\ \A t \in Tools : SessionOf(t) /\ RowOf(t, x) /\ UnstartedOf(t, x) /\ OfMakefileOf(t, x)
  BY DEF Done, Left, Divided, Session, Rows, Unstarted, OfMakefile, TypeOK
<1> USE DEF DoneOf, regress, procs, Ended
<1>1. CASE Choose
  BY <1>0, <1>1 DEF Choose, TypeOK
<1>2. CASE Fork
  BY <1>0, <1>2 DEF Fork, TypeOK
<1>3. CASE SetHandlers
  BY <1>0, <1>3 DEF SetHandlers, TypeOK
<1>4. CASE Waited
  BY <1>0, <1>4 DEF Waited, TypeOK
<1>5. CASE Copy
  BY <1>0, <1>5 DEF Copy, TypeOK
<1>6. CASE Scan
  BY <1>0, <1>6 DEF Scan, TypeOK
<1>7. CASE Term
  BY <1>0, <1>7 DEF Term, TypeOK
<1>8. CASE TermGroup
  BY <1>0, <1>8 DEF TermGroup, TypeOK
<1>9. CASE Look
  BY <1>0, <1>9 DEF Look, TypeOK
<1>10. CASE Kill
  BY <1>0, <1>10 DEF Kill, TypeOK
<1>11. CASE Unfinished
  BY <1>0, <1>11 DEF Unfinished, TypeOK
<1>12. CASE DeleteUnfinished
  <2> USE <1>12 DEF Tools
  <2> SUFFICES ASSUME os = "linux" PROVE DoneOf(x)'
    BY DEF DeleteUnfinished
  <2>1. pc = "delete" /\ \A t \in Tools : row'[<<t, x>>] =
            IF x \in left /\ row[<<t, x>>] = "open" THEN "none" ELSE row[<<t, x>>]
    BY DEF DeleteUnfinished, TypeOK
  <2>2. \A t \in Tools : row[<<t, x>>] \in {"none", "open", "finished"}
    BY DEF TypeOK
  <2>3. CASE tool = "smak"
    <3>1. row[<<"make", x>>] = "none"
      BY <1>0, <2>3 DEF RowOf, UnstartedOf
    <3>2. x \in todo["smak"]
      BY <1>0, <2>1, <2>3 DEF DividedOf
    <3>3. CASE left = {}
      <4>1. row[<<"smak", x>>] = "finished"
        BY <1>0, <2>1, <2>3, <3>1, <3>2, <3>3 DEF LeftOf
      <4> QED
        BY <2>1, <3>1, <4>1
    <3>4. CASE left # {}
      BY <2>3, <3>4 DEF DeleteUnfinished
    <3> QED
      BY <3>3, <3>4
  <2>4. CASE tool = "make"
    <3>1. warned' = left
      BY <2>4 DEF DeleteUnfinished
    <3>2. CASE x \in todo["make"]
      <4>1. row[<<"smak", x>>] = "none"
        BY <1>0, <2>1, <2>4, <3>2 DEF DividedOf
      <4> QED
        BY <1>0, <2>1, <2>2, <2>4, <3>1, <3>2, <4>1 DEF LeftOf
    <3>3. CASE x \notin todo["make"]
      <4>1. row[<<"smak", x>>] = "finished" /\ row[<<"make", x>>] = "none"
        BY <1>0, <2>1, <2>4, <3>3 DEF DividedOf, OfMakefileOf, RowOf
      <4> QED
        BY <2>1, <4>1
    <3> QED
      BY <3>2, <3>3
  <2> QED
    BY <1>0, <2>3, <2>4
<1>13. CASE FinishRun
  BY <1>0, <1>13 DEF FinishRun, TypeOK
<1>14. CASE Signalled
  BY <1>0, <1>14 DEF Signalled, TypeOK
<1>15. CASE CopyPipe
  BY <1>0, <1>15 DEF CopyPipe, TypeOK
<1>16. ASSUME NEW t \in Tools, SetSid(t) PROVE DoneOf(x)'
  BY <1>0, <1>16 DEF SetSid, TypeOK
<1>17. ASSUME NEW t \in Tools, DispExits(t) PROVE DoneOf(x)'
  BY <1>0, <1>17 DEF DispExits, TypeOK
<1>18. ASSUME NEW t \in Tools, NEW b \in Blocks, JobStarts(t, b) PROVE DoneOf(x)'
  BY <1>0, <1>18 DEF JobStarts, TypeOK
<1>19. ASSUME NEW t \in Tools, NEW b \in Blocks, StartBlockRun(t, b) PROVE DoneOf(x)'
  BY <1>0, <1>19 DEF StartBlockRun, TypeOK, SessionOf, Settled, Quiet, Live
<1>20. ASSUME NEW t \in Tools, NEW b \in Blocks, TestsEnd(t, b) PROVE DoneOf(x)'
  BY <1>0, <1>20 DEF TestsEnd, TypeOK
<1>21. ASSUME NEW t \in Tools, NEW b \in Blocks, RunnerKilled(t, b) PROVE DoneOf(x)'
  BY <1>0, <1>21 DEF RunnerKilled, TypeOK
<1>22. ASSUME NEW t \in Tools, NEW b \in Blocks, AstrayEnd(t, b) PROVE DoneOf(x)'
  BY <1>0, <1>22 DEF AstrayEnd, TypeOK
<1>23. ASSUME NEW t \in Tools, NEW b \in Blocks, RecordResults(t, b) PROVE DoneOf(x)'
  BY <1>0, <1>23 DEF RecordResults, TypeOK, SessionOf, Settled, Quiet, Live
<1>24. ASSUME NEW t \in Tools, NEW b \in Blocks, RunOneFails(t, b) PROVE DoneOf(x)'
  BY <1>0, <1>24 DEF RunOneFails, TypeOK
<1>25. ASSUME NEW t \in Tools, NEW b \in Blocks, RunOneKilled(t, b) PROVE DoneOf(x)'
  BY <1>0, <1>25 DEF RunOneKilled, TypeOK
<1>26. CASE UNCHANGED vars
  BY <1>0, <1>26 DEF vars
<1> QED
  BY <1>1, <1>2, <1>3, <1>4, <1>5, <1>6, <1>7, <1>8, <1>9, <1>10, <1>11, <1>12, <1>13,
     <1>14, <1>15, <1>16, <1>17, <1>18, <1>19, <1>20, <1>21, <1>22, <1>23, <1>24, <1>25,
     <1>26
  DEF Next, Step, Job

\* EveryBlockOnce: when regress has finished a run, every block has one
\* finished block_run and no other, or none and its name in the warning,
\* however smak, make and the run-ones ended, where there
\* is /proc.
THEOREM EachBlockOnce == Spec => []EveryBlockOnce
<1> DEFINE IInv == /\ TypeOK /\ Session /\ Unstarted /\ OfMakefile
                   /\ Rows /\ Divided /\ Left /\ Done
<1>1. Init => IInv
  <2> SUFFICES ASSUME Init PROVE Unstarted /\ OfMakefile /\ Rows /\ Divided /\ Left /\ Done
    BY SessionInit
  <2> QED
    BY DEF Init, Unstarted, UnstartedOf, OfMakefile, OfMakefileOf, Rows, RowOf, Divided, DividedOf,
       Left, LeftOf, Done, DoneOf, Tools
<1>2. IInv /\ [Next]_vars => IInv'
  BY TypeStep, SessionStep, UnstartedStep, OfMakefileStep, RowsStep, DividedStep, LeftStep, DoneStep
<1>3. IInv => EveryBlockOnce
  <2> SUFFICES ASSUME IInv, pc = "finished", os = "linux", NEW b \in Blocks
               PROVE  LET rows == {t \in Tools : row[<<t, b>>] # "none"}
                      IN  \/ Cardinality(rows) = 1 /\ \A t \in rows : row[<<t, b>>] = "finished"
                          \/ rows = {} /\ b \in warned
    BY DEF EveryBlockOnce
  <2> DEFINE rows == {t \in Tools : row[<<t, b>>] # "none"}
  <2>1. ASSUME NEW t \in Tools, row[<<t, b>>] = "finished",
               \A u \in Tools : u # t => row[<<u, b>>] = "none"
        PROVE  Cardinality(rows) = 1 /\ \A u \in rows : row[<<u, b>>] = "finished"
    <3>1. rows = {t}
      BY <2>1
    <3>2. Cardinality({t}) = 1
      BY FS_Singleton
    <3> QED
      BY <2>1, <3>1, <3>2
  <2>2. ASSUME \A t \in Tools : row[<<t, b>>] = "none", b \in warned
        PROVE  rows = {} /\ b \in warned
    BY <2>2
  <2> QED
    BY <2>1, <2>2 DEF Done, DoneOf
<1> QED
  BY <1>1, <1>2, <1>3, PTL DEF Spec
=============================================================================
