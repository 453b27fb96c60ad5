--------------------------- MODULE DaidirProofs ---------------------------
(***************************************************************************)
(* For any number of compiles, parts and runs: the daidir that can be run  *)
(* is whole, a success can be run, a failure cannot, and a run mixes two   *)
(* compiles only if one started under it.  All but the type invariant      *)
(* assume GroupKill: what ends vcs ends its tool.                          *)
(***************************************************************************)
EXTENDS Daidir, TLAPS

USE DaidirAssumption

\* Compiles come one after another: only the last one started is at work.
Sequential == \A b \in Ids : \A c \in Ids : b < c /\ pc[c] # "idle" => pc[b] \in CompileEnded

\* What a compile has done to the files by the time it is where it is.
ProgressOf(c) ==
    /\ pc[c] \in {"unrecord", "unreport"} \cup Touching => exe = "refuse"
    /\ pc[c] \in {"unreport", "build", "cleanup", "persist"} => record = None
    /\ pc[c] = "build" => \A i \in 1..Parts : i < at[c] => part[i] = c
    /\ pc[c] = "build" => report = None
    /\ pc[c] \in {"idle", "refuse", "unrecord", "unreport"} => at[c] = 1 /\ tool[c] = FALSE
    /\ pc[c] \in {"persist", "link"} =>
          /\ \A i \in 1..Parts : part[i] = c
          /\ report = IF c \in Ams THEN c ELSE None
    /\ pc[c] = "link" => record = c
    /\ tool[c] = TRUE => pc[c] = "build" /\ at[c] =< Parts
    /\ pc[c] = "build" => \A s \in Simvs : simv[s] = "read" => s \in rebuilt
Progress == \A c \in Ids : ProgressOf(c)

\* A run that no compile has started under reads one compile's parts.
ReadsOf(s) ==
    /\ simv[s] = "read" /\ s \notin rebuilt =>
          /\ \A i \in 1..Parts : part[i] = job[s]
          /\ next[s] = 1 => seen[s] = {}
          /\ next[s] > 1 => seen[s] = {job[s]}
    /\ simv[s] \in {"idle", "job"} => next[s] = 1 /\ seen[s] = {}
Reads == \A s \in Simvs : ReadsOf(s)

Safe == NeverHalfRunnable /\ SuccessRuns /\ FailureRefuses /\ MixedNeedsRebuild /\ ReportOfRecord

IInv == TypeOK /\ Sequential /\ Progress /\ Reads /\ Safe

\* A tool works on a part that exists.
ToolPlace == \A c \in Ids : tool[c] = TRUE => at[c] =< Parts

\* The first states have their types.
LEMMA InitType == Init => TypeOK /\ ToolPlace
  BY DEF Init, TypeOK, ToolPlace, Ids, None

\* Every step keeps the types.
LEMMA TypeStep == TypeOK /\ ToolPlace /\ [Next]_vars => TypeOK'
<1> SUFFICES ASSUME TypeOK, ToolPlace, [Next]_vars PROVE TypeOK'
  OBVIOUS
<1> USE DEF Goto, files, compile, run, TypeOK, CompileEnded, Touching, Ids, None, Half
<1>1. ASSUME NEW c \in Ids, Start(c) PROVE TypeOK'
  BY <1>1 DEF Start
<1>2. ASSUME NEW c \in Ids, InvalidateExe(c) PROVE TypeOK'
  BY <1>2 DEF InvalidateExe
<1>3. ASSUME NEW c \in Ids, InvalidateRecord(c) PROVE TypeOK'
  BY <1>3 DEF InvalidateRecord
<1>4. ASSUME NEW c \in Ids, InvalidateReport(c) PROVE TypeOK'
  BY <1>4 DEF InvalidateReport
<1>5. ASSUME NEW c \in Ids, CannotPrepare(c) PROVE TypeOK'
  BY <1>5 DEF CannotPrepare
<1>6. ASSUME NEW c \in Ids, ToolStarts(c) PROVE TypeOK'
  BY <1>6 DEF ToolStarts
<1>7. ASSUME NEW c \in Ids, ToolEnds(c) PROVE TypeOK'
  <2>1. at[c] \in 1..Parts /\ tool[c] = TRUE
    BY <1>7 DEF ToolEnds, ToolPlace
  <2> QED
    BY <1>7, <2>1 DEF ToolEnds
<1>8. ASSUME NEW c \in Ids, ToolFails(c) PROVE TypeOK'
  BY <1>8 DEF ToolFails
<1>9. ASSUME NEW c \in Ids, CompileError(c) PROVE TypeOK'
  BY <1>9 DEF CompileError
<1>10. ASSUME NEW c \in Ids, Compiled(c) PROVE TypeOK'
  BY <1>10 DEF Compiled
<1>11. ASSUME NEW c \in Ids, Cleanup(c) PROVE TypeOK'
  BY <1>11 DEF Cleanup
<1>12. ASSUME NEW c \in Ids, Persist(c) PROVE TypeOK'
  BY <1>12 DEF Persist
<1>13. ASSUME NEW c \in Ids, Link(c) PROVE TypeOK'
  BY <1>13 DEF Link
<1>14. ASSUME NEW c \in Ids, Kill(c) PROVE TypeOK'
  BY <1>14 DEF Kill
<1>15. ASSUME NEW s \in Simvs, SimvStarts(s) PROVE TypeOK'
  BY <1>15 DEF SimvStarts
<1>16. ASSUME NEW s \in Simvs, DaidirStarts(s) PROVE TypeOK'
  BY <1>16 DEF DaidirStarts
<1>17. ASSUME NEW s \in Simvs, ReadJob(s) PROVE TypeOK'
  BY <1>17 DEF ReadJob
<1>18. ASSUME NEW s \in Simvs, ReadPart(s) PROVE TypeOK'
  BY <1>18 DEF ReadPart
<1>19. ASSUME NEW s \in Simvs, SimvEnds(s) PROVE TypeOK'
  BY <1>19 DEF SimvEnds
<1>20. CASE UNCHANGED vars
  BY <1>20 DEF vars
<1> QED
  BY <1>1, <1>2, <1>3, <1>4, <1>5, <1>6, <1>7, <1>8, <1>9, <1>10,
     <1>11, <1>12, <1>13, <1>14, <1>15, <1>16, <1>17, <1>18, <1>19, <1>20
  DEF Next, CompileStep, SimvStep

\* A tool is started for a part that exists and ends with it.
LEMMA ToolPlaceStep == TypeOK /\ ToolPlace /\ [Next]_vars => ToolPlace'
<1> SUFFICES ASSUME TypeOK, ToolPlace, [Next]_vars PROVE ToolPlace'
  OBVIOUS
<1> USE DEF Goto, files, compile, run, ToolPlace
<1>1. ASSUME NEW c \in Ids, Start(c) PROVE ToolPlace'
  BY <1>1 DEF Start
<1>2. ASSUME NEW c \in Ids, InvalidateExe(c) PROVE ToolPlace'
  BY <1>2 DEF InvalidateExe
<1>3. ASSUME NEW c \in Ids, InvalidateRecord(c) PROVE ToolPlace'
  BY <1>3 DEF InvalidateRecord
<1>4. ASSUME NEW c \in Ids, InvalidateReport(c) PROVE ToolPlace'
  BY <1>4 DEF InvalidateReport
<1>5. ASSUME NEW c \in Ids, CannotPrepare(c) PROVE ToolPlace'
  BY <1>5 DEF CannotPrepare
<1>6. ASSUME NEW c \in Ids, ToolStarts(c) PROVE ToolPlace'
  BY <1>6 DEF ToolStarts, TypeOK
<1>7. ASSUME NEW c \in Ids, ToolEnds(c) PROVE ToolPlace'
  BY <1>7 DEF ToolEnds, TypeOK
<1>8. ASSUME NEW c \in Ids, ToolFails(c) PROVE ToolPlace'
  BY <1>8 DEF ToolFails, TypeOK
<1>9. ASSUME NEW c \in Ids, CompileError(c) PROVE ToolPlace'
  BY <1>9 DEF CompileError
<1>10. ASSUME NEW c \in Ids, Compiled(c) PROVE ToolPlace'
  BY <1>10 DEF Compiled
<1>11. ASSUME NEW c \in Ids, Cleanup(c) PROVE ToolPlace'
  BY <1>11 DEF Cleanup
<1>12. ASSUME NEW c \in Ids, Persist(c) PROVE ToolPlace'
  BY <1>12 DEF Persist
<1>13. ASSUME NEW c \in Ids, Link(c) PROVE ToolPlace'
  BY <1>13 DEF Link
<1>14. ASSUME NEW c \in Ids, Kill(c) PROVE ToolPlace'
  BY <1>14 DEF Kill, TypeOK
<1>15. ASSUME NEW s \in Simvs, SimvStarts(s) PROVE ToolPlace'
  BY <1>15 DEF SimvStarts
<1>16. ASSUME NEW s \in Simvs, DaidirStarts(s) PROVE ToolPlace'
  BY <1>16 DEF DaidirStarts
<1>17. ASSUME NEW s \in Simvs, ReadJob(s) PROVE ToolPlace'
  BY <1>17 DEF ReadJob
<1>18. ASSUME NEW s \in Simvs, ReadPart(s) PROVE ToolPlace'
  BY <1>18 DEF ReadPart
<1>19. ASSUME NEW s \in Simvs, SimvEnds(s) PROVE ToolPlace'
  BY <1>19 DEF SimvEnds
<1>20. CASE UNCHANGED vars
  BY <1>20 DEF vars
<1> QED
  BY <1>1, <1>2, <1>3, <1>4, <1>5, <1>6, <1>7, <1>8, <1>9, <1>10,
     <1>11, <1>12, <1>13, <1>14, <1>15, <1>16, <1>17, <1>18, <1>19, <1>20
  DEF Next, CompileStep, SimvStep

\* The type invariant, with or without GroupKill.
THEOREM TypeCorrect == Spec => []TypeOK
  BY InitType, TypeStep, ToolPlaceStep, PTL DEF Spec

\* A compile starts only after the one before it ended with its tool.
LEMMA SequentialStep == GroupKill = TRUE /\ IInv /\ [Next]_vars => Sequential'
<1> SUFFICES ASSUME GroupKill = TRUE, IInv, [Next]_vars, NEW b \in Ids, NEW e \in Ids, b < e PROVE (pc[e] # "idle" => pc[b] \in CompileEnded)'
  BY DEF Sequential
<1>0. TypeOK /\ (pc[e] # "idle" => pc[b] \in CompileEnded) /\ (\A d \in Ids : tool[d] = TRUE => pc[d] = "build")
  BY DEF IInv, Sequential, Progress, ProgressOf
<1> USE DEF Goto, files, compile, run
<1>1. ASSUME NEW c \in Ids, Start(c) PROVE (pc[e] # "idle" => pc[b] \in CompileEnded)'
  <2>1. e = c => b \in 1..(c - 1)
    BY DEF Ids
  <2> QED
    BY <1>0, <2>1, <1>1 DEF Start, TypeOK, CompileEnded
<1>2. ASSUME NEW c \in Ids, InvalidateExe(c) PROVE (pc[e] # "idle" => pc[b] \in CompileEnded)'
  BY <1>0, <1>2 DEF InvalidateExe, TypeOK, CompileEnded
<1>3. ASSUME NEW c \in Ids, InvalidateRecord(c) PROVE (pc[e] # "idle" => pc[b] \in CompileEnded)'
  BY <1>0, <1>3 DEF InvalidateRecord, TypeOK, CompileEnded
<1>4. ASSUME NEW c \in Ids, InvalidateReport(c) PROVE (pc[e] # "idle" => pc[b] \in CompileEnded)'
  BY <1>0, <1>4 DEF InvalidateReport, TypeOK, CompileEnded
<1>5. ASSUME NEW c \in Ids, CannotPrepare(c) PROVE (pc[e] # "idle" => pc[b] \in CompileEnded)'
  BY <1>0, <1>5 DEF CannotPrepare, TypeOK, CompileEnded
<1>6. ASSUME NEW c \in Ids, ToolStarts(c) PROVE (pc[e] # "idle" => pc[b] \in CompileEnded)'
  BY <1>0, <1>6 DEF ToolStarts, TypeOK, CompileEnded
<1>7. ASSUME NEW c \in Ids, ToolEnds(c) PROVE (pc[e] # "idle" => pc[b] \in CompileEnded)'
  BY <1>0, <1>7 DEF ToolEnds, TypeOK, CompileEnded
<1>8. ASSUME NEW c \in Ids, ToolFails(c) PROVE (pc[e] # "idle" => pc[b] \in CompileEnded)'
  BY <1>0, <1>8 DEF ToolFails, TypeOK, CompileEnded
<1>9. ASSUME NEW c \in Ids, CompileError(c) PROVE (pc[e] # "idle" => pc[b] \in CompileEnded)'
  BY <1>0, <1>9 DEF CompileError, TypeOK, CompileEnded
<1>10. ASSUME NEW c \in Ids, Compiled(c) PROVE (pc[e] # "idle" => pc[b] \in CompileEnded)'
  BY <1>0, <1>10 DEF Compiled, TypeOK, CompileEnded
<1>11. ASSUME NEW c \in Ids, Cleanup(c) PROVE (pc[e] # "idle" => pc[b] \in CompileEnded)'
  BY <1>0, <1>11 DEF Cleanup, TypeOK, CompileEnded
<1>12. ASSUME NEW c \in Ids, Persist(c) PROVE (pc[e] # "idle" => pc[b] \in CompileEnded)'
  BY <1>0, <1>12 DEF Persist, TypeOK, CompileEnded
<1>13. ASSUME NEW c \in Ids, Link(c) PROVE (pc[e] # "idle" => pc[b] \in CompileEnded)'
  BY <1>0, <1>13 DEF Link, TypeOK, CompileEnded
<1>14. ASSUME NEW c \in Ids, Kill(c) PROVE (pc[e] # "idle" => pc[b] \in CompileEnded)'
  BY <1>0, <1>14 DEF Kill, TypeOK, CompileEnded
<1>15. ASSUME NEW s \in Simvs, SimvStarts(s) PROVE (pc[e] # "idle" => pc[b] \in CompileEnded)'
  BY <1>0, <1>15 DEF SimvStarts, TypeOK, CompileEnded
<1>16. ASSUME NEW s \in Simvs, DaidirStarts(s) PROVE (pc[e] # "idle" => pc[b] \in CompileEnded)'
  BY <1>0, <1>16 DEF DaidirStarts, TypeOK, CompileEnded
<1>17. ASSUME NEW s \in Simvs, ReadJob(s) PROVE (pc[e] # "idle" => pc[b] \in CompileEnded)'
  BY <1>0, <1>17 DEF ReadJob, TypeOK, CompileEnded
<1>18. ASSUME NEW s \in Simvs, ReadPart(s) PROVE (pc[e] # "idle" => pc[b] \in CompileEnded)'
  BY <1>0, <1>18 DEF ReadPart, TypeOK, CompileEnded
<1>19. ASSUME NEW s \in Simvs, SimvEnds(s) PROVE (pc[e] # "idle" => pc[b] \in CompileEnded)'
  BY <1>0, <1>19 DEF SimvEnds, TypeOK, CompileEnded
<1>20. CASE UNCHANGED vars
  BY <1>0, <1>20 DEF vars, TypeOK, CompileEnded
<1> QED
  BY <1>1, <1>2, <1>3, <1>4, <1>5, <1>6, <1>7, <1>8, <1>9, <1>10,
     <1>11, <1>12, <1>13, <1>14, <1>15, <1>16, <1>17, <1>18, <1>19, <1>20
  DEF Next, CompileStep, SimvStep

\* Only the compile at work changes the files, so the others' progress stays.
LEMMA ProgressStep == GroupKill = TRUE /\ IInv /\ [Next]_vars => Progress'
<1> SUFFICES ASSUME GroupKill = TRUE, IInv, [Next]_vars, NEW e \in Ids PROVE ProgressOf(e)'
  BY DEF Progress
<1>0. TypeOK /\ Sequential /\ ProgressOf(e)
  BY DEF IInv, Progress
<1> USE DEF Goto, files, compile, run, CompileEnded, Touching, Ids, None
<1>1. ASSUME NEW c \in Ids, Start(c) PROVE ProgressOf(e)'
  <2>1. CASE e = c
    BY <1>0, <1>1, <2>1 DEF Start, TypeOK, ProgressOf
  <2>2. CASE e # c
    BY <1>0, <1>1, <2>2 DEF Start, TypeOK, ProgressOf
  <2> QED
    BY <2>1, <2>2
<1>2. ASSUME NEW c \in Ids, InvalidateExe(c) PROVE ProgressOf(e)'
  <2>1. CASE e = c
    BY <1>0, <1>2, <2>1 DEF InvalidateExe, TypeOK, ProgressOf
  <2>2. CASE e # c
    <3>1. e < c \/ c < e
      BY <2>2 DEF Ids
    <3>2. pc[e] \in CompileEnded \cup {"idle"}
      BY <1>0, <1>2, <3>1 DEF InvalidateExe, Sequential, CompileEnded
    <3>3. pc'[e] = pc[e] /\ tool'[e] = tool[e] /\ at'[e] = at[e]
      BY <1>0, <1>2, <2>2 DEF InvalidateExe, TypeOK
    <3> QED
      BY <1>0, <3>2, <3>3 DEF ProgressOf, CompileEnded, Touching
  <2> QED
    BY <2>1, <2>2
<1>3. ASSUME NEW c \in Ids, InvalidateRecord(c) PROVE ProgressOf(e)'
  <2>1. CASE e = c
    BY <1>0, <1>3, <2>1 DEF InvalidateRecord, TypeOK, ProgressOf
  <2>2. CASE e # c
    <3>1. e < c \/ c < e
      BY <2>2 DEF Ids
    <3>2. pc[e] \in CompileEnded \cup {"idle"}
      BY <1>0, <1>3, <3>1 DEF InvalidateRecord, Sequential, CompileEnded
    <3>3. pc'[e] = pc[e] /\ tool'[e] = tool[e] /\ at'[e] = at[e]
      BY <1>0, <1>3, <2>2 DEF InvalidateRecord, TypeOK
    <3> QED
      BY <1>0, <3>2, <3>3 DEF ProgressOf, CompileEnded, Touching
  <2> QED
    BY <2>1, <2>2
<1>4. ASSUME NEW c \in Ids, InvalidateReport(c) PROVE ProgressOf(e)'
  <2>1. CASE e = c
    BY <1>0, <1>4, <2>1 DEF InvalidateReport, TypeOK, ProgressOf
  <2>2. CASE e # c
    <3>1. e < c \/ c < e
      BY <2>2 DEF Ids
    <3>2. pc[e] \in CompileEnded \cup {"idle"}
      BY <1>0, <1>4, <3>1 DEF InvalidateReport, Sequential, CompileEnded
    <3>3. pc'[e] = pc[e] /\ tool'[e] = tool[e] /\ at'[e] = at[e]
      BY <1>0, <1>4, <2>2 DEF InvalidateReport, TypeOK
    <3> QED
      BY <1>0, <3>2, <3>3 DEF ProgressOf, CompileEnded, Touching
  <2> QED
    BY <2>1, <2>2
<1>5. ASSUME NEW c \in Ids, CannotPrepare(c) PROVE ProgressOf(e)'
  <2>1. CASE e = c
    BY <1>0, <1>5, <2>1 DEF CannotPrepare, TypeOK, ProgressOf
  <2>2. CASE e # c
    <3>1. e < c \/ c < e
      BY <2>2 DEF Ids
    <3>2. pc[e] \in CompileEnded \cup {"idle"}
      BY <1>0, <1>5, <3>1 DEF CannotPrepare, Sequential, CompileEnded
    <3>3. pc'[e] = pc[e] /\ tool'[e] = tool[e] /\ at'[e] = at[e]
      BY <1>0, <1>5, <2>2 DEF CannotPrepare, TypeOK
    <3> QED
      BY <1>0, <3>2, <3>3 DEF ProgressOf, CompileEnded, Touching
  <2> QED
    BY <2>1, <2>2
<1>6. ASSUME NEW c \in Ids, ToolStarts(c) PROVE ProgressOf(e)'
  <2>1. CASE e = c
    BY <1>0, <1>6, <2>1 DEF ToolStarts, TypeOK, ProgressOf
  <2>2. CASE e # c
    <3>1. e < c \/ c < e
      BY <2>2 DEF Ids
    <3>2. pc[e] \in CompileEnded \cup {"idle"}
      BY <1>0, <1>6, <3>1 DEF ToolStarts, Sequential, CompileEnded
    <3>3. pc'[e] = pc[e] /\ tool'[e] = tool[e] /\ at'[e] = at[e]
      BY <1>0, <1>6, <2>2 DEF ToolStarts, TypeOK
    <3> QED
      BY <1>0, <3>2, <3>3 DEF ProgressOf, CompileEnded, Touching
  <2> QED
    BY <2>1, <2>2
<1>7. ASSUME NEW c \in Ids, ToolEnds(c) PROVE ProgressOf(e)'
  <2>1. CASE e = c
    BY <1>0, <1>7, <2>1 DEF ToolEnds, TypeOK, ProgressOf
  <2>2. CASE e # c
    <3>1. e < c \/ c < e
      BY <2>2 DEF Ids
    <3>2. pc[e] \in CompileEnded \cup {"idle"}
      <4>1. pc[c] = "build"
        BY <1>7 DEF ToolEnds, IInv, Progress, ProgressOf
      <4> QED
        BY <1>0, <3>1, <4>1 DEF Sequential, CompileEnded
    <3>3. pc'[e] = pc[e] /\ tool'[e] = tool[e] /\ at'[e] = at[e]
      BY <1>0, <1>7, <2>2 DEF ToolEnds, TypeOK
    <3> QED
      BY <1>0, <3>2, <3>3 DEF ProgressOf, CompileEnded, Touching
  <2> QED
    BY <2>1, <2>2
<1>8. ASSUME NEW c \in Ids, ToolFails(c) PROVE ProgressOf(e)'
  <2>1. CASE e = c
    BY <1>0, <1>8, <2>1 DEF ToolFails, TypeOK, ProgressOf
  <2>2. CASE e # c
    <3>1. e < c \/ c < e
      BY <2>2 DEF Ids
    <3>2. pc[e] \in CompileEnded \cup {"idle"}
      <4>1. pc[c] = "build"
        BY <1>8 DEF ToolFails, IInv, Progress, ProgressOf
      <4> QED
        BY <1>0, <3>1, <4>1 DEF Sequential, CompileEnded
    <3>3. pc'[e] = pc[e] /\ tool'[e] = tool[e] /\ at'[e] = at[e]
      BY <1>0, <1>8, <2>2 DEF ToolFails, TypeOK
    <3> QED
      BY <1>0, <3>2, <3>3 DEF ProgressOf, CompileEnded, Touching
  <2> QED
    BY <2>1, <2>2
<1>9. ASSUME NEW c \in Ids, CompileError(c) PROVE ProgressOf(e)'
  <2>1. CASE e = c
    BY <1>0, <1>9, <2>1 DEF CompileError, TypeOK, ProgressOf
  <2>2. CASE e # c
    <3>1. e < c \/ c < e
      BY <2>2 DEF Ids
    <3>2. pc[e] \in CompileEnded \cup {"idle"}
      BY <1>0, <1>9, <3>1 DEF CompileError, Sequential, CompileEnded
    <3>3. pc'[e] = pc[e] /\ tool'[e] = tool[e] /\ at'[e] = at[e]
      BY <1>0, <1>9, <2>2 DEF CompileError, TypeOK
    <3> QED
      BY <1>0, <3>2, <3>3 DEF ProgressOf, CompileEnded, Touching
  <2> QED
    BY <2>1, <2>2
<1>10. ASSUME NEW c \in Ids, Compiled(c) PROVE ProgressOf(e)'
  <2>1. CASE e = c
    BY <1>0, <1>10, <2>1 DEF Compiled, TypeOK, ProgressOf
  <2>2. CASE e # c
    <3>1. e < c \/ c < e
      BY <2>2 DEF Ids
    <3>2. pc[e] \in CompileEnded \cup {"idle"}
      BY <1>0, <1>10, <3>1 DEF Compiled, Sequential, CompileEnded
    <3>3. pc'[e] = pc[e] /\ tool'[e] = tool[e] /\ at'[e] = at[e]
      BY <1>0, <1>10, <2>2 DEF Compiled, TypeOK
    <3> QED
      BY <1>0, <3>2, <3>3 DEF ProgressOf, CompileEnded, Touching
  <2> QED
    BY <2>1, <2>2
<1>11. ASSUME NEW c \in Ids, Cleanup(c) PROVE ProgressOf(e)'
  <2>1. CASE e = c
    BY <1>0, <1>11, <2>1 DEF Cleanup, TypeOK, ProgressOf
  <2>2. CASE e # c
    <3>1. e < c \/ c < e
      BY <2>2 DEF Ids
    <3>2. pc[e] \in CompileEnded \cup {"idle"}
      BY <1>0, <1>11, <3>1 DEF Cleanup, Sequential, CompileEnded
    <3>3. pc'[e] = pc[e] /\ tool'[e] = tool[e] /\ at'[e] = at[e]
      BY <1>0, <1>11, <2>2 DEF Cleanup, TypeOK
    <3> QED
      BY <1>0, <3>2, <3>3 DEF ProgressOf, CompileEnded, Touching
  <2> QED
    BY <2>1, <2>2
<1>12. ASSUME NEW c \in Ids, Persist(c) PROVE ProgressOf(e)'
  <2>1. CASE e = c
    BY <1>0, <1>12, <2>1 DEF Persist, TypeOK, ProgressOf
  <2>2. CASE e # c
    <3>1. e < c \/ c < e
      BY <2>2 DEF Ids
    <3>2. pc[e] \in CompileEnded \cup {"idle"}
      BY <1>0, <1>12, <3>1 DEF Persist, Sequential, CompileEnded
    <3>3. pc'[e] = pc[e] /\ tool'[e] = tool[e] /\ at'[e] = at[e]
      BY <1>0, <1>12, <2>2 DEF Persist, TypeOK
    <3> QED
      BY <1>0, <3>2, <3>3 DEF ProgressOf, CompileEnded, Touching
  <2> QED
    BY <2>1, <2>2
<1>13. ASSUME NEW c \in Ids, Link(c) PROVE ProgressOf(e)'
  <2>1. CASE e = c
    BY <1>0, <1>13, <2>1 DEF Link, TypeOK, ProgressOf
  <2>2. CASE e # c
    <3>1. e < c \/ c < e
      BY <2>2 DEF Ids
    <3>2. pc[e] \in CompileEnded \cup {"idle"}
      BY <1>0, <1>13, <3>1 DEF Link, Sequential, CompileEnded
    <3>3. pc'[e] = pc[e] /\ tool'[e] = tool[e] /\ at'[e] = at[e]
      BY <1>0, <1>13, <2>2 DEF Link, TypeOK
    <3> QED
      BY <1>0, <3>2, <3>3 DEF ProgressOf, CompileEnded, Touching
  <2> QED
    BY <2>1, <2>2
<1>14. ASSUME NEW c \in Ids, Kill(c) PROVE ProgressOf(e)'
  <2>1. CASE e = c
    BY <1>0, <1>14, <2>1 DEF Kill, TypeOK, ProgressOf
  <2>2. CASE e # c
    BY <1>0, <1>14, <2>2 DEF Kill, TypeOK, ProgressOf
  <2> QED
    BY <2>1, <2>2
<1>15. ASSUME NEW s \in Simvs, SimvStarts(s) PROVE ProgressOf(e)'
  BY <1>0, <1>15 DEF SimvStarts, TypeOK, ProgressOf
<1>16. ASSUME NEW s \in Simvs, DaidirStarts(s) PROVE ProgressOf(e)'
  BY <1>0, <1>16 DEF DaidirStarts, TypeOK, ProgressOf
<1>17. ASSUME NEW s \in Simvs, ReadJob(s) PROVE ProgressOf(e)'
  BY <1>0, <1>17 DEF ReadJob, TypeOK, ProgressOf
<1>18. ASSUME NEW s \in Simvs, ReadPart(s) PROVE ProgressOf(e)'
  BY <1>0, <1>18 DEF ReadPart, TypeOK, ProgressOf
<1>19. ASSUME NEW s \in Simvs, SimvEnds(s) PROVE ProgressOf(e)'
  BY <1>0, <1>19 DEF SimvEnds, TypeOK, ProgressOf
<1>20. CASE UNCHANGED vars
  BY <1>0, <1>20 DEF vars, TypeOK, ProgressOf
<1> QED
  BY <1>1, <1>2, <1>3, <1>4, <1>5, <1>6, <1>7, <1>8, <1>9, <1>10,
     <1>11, <1>12, <1>13, <1>14, <1>15, <1>16, <1>17, <1>18, <1>19, <1>20
  DEF Next, CompileStep, SimvStep

\* Parts change only under runs that are in rebuilt.
LEMMA ReadsStep == GroupKill = TRUE /\ IInv /\ [Next]_vars => Reads'
<1> SUFFICES ASSUME GroupKill = TRUE, IInv, [Next]_vars, NEW q \in Simvs PROVE ReadsOf(q)'
  BY DEF Reads
<1>0. TypeOK /\ ReadsOf(q)
  BY DEF IInv, Reads
<1> USE DEF Goto, files, compile, run, None
<1>1. ASSUME NEW c \in Ids, Start(c) PROVE ReadsOf(q)'
  BY <1>0, <1>1 DEF Start, TypeOK, ReadsOf
<1>2. ASSUME NEW c \in Ids, InvalidateExe(c) PROVE ReadsOf(q)'
  BY <1>0, <1>2 DEF InvalidateExe, TypeOK, ReadsOf
<1>3. ASSUME NEW c \in Ids, InvalidateRecord(c) PROVE ReadsOf(q)'
  BY <1>0, <1>3 DEF InvalidateRecord, TypeOK, ReadsOf
<1>4. ASSUME NEW c \in Ids, InvalidateReport(c) PROVE ReadsOf(q)'
  BY <1>0, <1>4 DEF InvalidateReport, TypeOK, ReadsOf
<1>5. ASSUME NEW c \in Ids, CannotPrepare(c) PROVE ReadsOf(q)'
  BY <1>0, <1>5 DEF CannotPrepare, TypeOK, ReadsOf
<1>6. ASSUME NEW c \in Ids, ToolStarts(c) PROVE ReadsOf(q)'
  <2>1. \A u \in Simvs : simv[u] = "read" => u \in rebuilt
    BY <1>6 DEF ToolStarts, IInv, Progress, ProgressOf
  <2> QED
    BY <1>0, <2>1, <1>6 DEF ToolStarts, TypeOK, ReadsOf
<1>7. ASSUME NEW c \in Ids, ToolEnds(c) PROVE ReadsOf(q)'
  <2>1. \A u \in Simvs : simv[u] = "read" => u \in rebuilt
    BY <1>7 DEF ToolEnds, IInv, Progress, ProgressOf
  <2> QED
    BY <1>0, <2>1, <1>7 DEF ToolEnds, TypeOK, ReadsOf
<1>8. ASSUME NEW c \in Ids, ToolFails(c) PROVE ReadsOf(q)'
  BY <1>0, <1>8 DEF ToolFails, TypeOK, ReadsOf
<1>9. ASSUME NEW c \in Ids, CompileError(c) PROVE ReadsOf(q)'
  BY <1>0, <1>9 DEF CompileError, TypeOK, ReadsOf
<1>10. ASSUME NEW c \in Ids, Compiled(c) PROVE ReadsOf(q)'
  BY <1>0, <1>10 DEF Compiled, TypeOK, ReadsOf
<1>11. ASSUME NEW c \in Ids, Cleanup(c) PROVE ReadsOf(q)'
  BY <1>0, <1>11 DEF Cleanup, TypeOK, ReadsOf
<1>12. ASSUME NEW c \in Ids, Persist(c) PROVE ReadsOf(q)'
  BY <1>0, <1>12 DEF Persist, TypeOK, ReadsOf
<1>13. ASSUME NEW c \in Ids, Link(c) PROVE ReadsOf(q)'
  BY <1>0, <1>13 DEF Link, TypeOK, ReadsOf
<1>14. ASSUME NEW c \in Ids, Kill(c) PROVE ReadsOf(q)'
  BY <1>0, <1>14 DEF Kill, TypeOK, ReadsOf
<1>15. ASSUME NEW s \in Simvs, SimvStarts(s) PROVE ReadsOf(q)'
  BY <1>0, <1>15 DEF SimvStarts, TypeOK, ReadsOf
<1>16. ASSUME NEW s \in Simvs, DaidirStarts(s) PROVE ReadsOf(q)'
  BY <1>0, <1>16 DEF DaidirStarts, TypeOK, ReadsOf
<1>17. ASSUME NEW s \in Simvs, ReadJob(s) PROVE ReadsOf(q)'
  <2>1. record # None => \A i \in 1..Parts : part[i] = record
    BY DEF IInv, Safe, NeverHalfRunnable
  <2>2. CASE q = s
    BY <1>0, <2>1, <2>2, <1>17 DEF ReadJob, TypeOK, ReadsOf
  <2>3. CASE q # s
    BY <1>0, <2>3, <1>17 DEF ReadJob, TypeOK, ReadsOf
  <2> QED
    BY <2>2, <2>3
<1>18. ASSUME NEW s \in Simvs, ReadPart(s) PROVE ReadsOf(q)'
  <2>2. CASE q = s
    <3>1. next[s] \in 1..Parts
      BY <1>0, <1>18 DEF ReadPart, TypeOK
    <3>2. CASE s \notin rebuilt
      BY <1>0, <2>2, <3>1, <3>2, <1>18 DEF ReadPart, TypeOK, ReadsOf
    <3>3. CASE s \in rebuilt
      BY <1>0, <2>2, <3>3, <1>18 DEF ReadPart, TypeOK, ReadsOf
    <3> QED
      BY <3>2, <3>3
  <2>3. CASE q # s
    BY <1>0, <2>3, <1>18 DEF ReadPart, TypeOK, ReadsOf
  <2> QED
    BY <2>2, <2>3
<1>19. ASSUME NEW s \in Simvs, SimvEnds(s) PROVE ReadsOf(q)'
  BY <1>0, <1>19 DEF SimvEnds, TypeOK, ReadsOf
<1>20. CASE UNCHANGED vars
  BY <1>0, <1>20 DEF vars, TypeOK, ReadsOf
<1> QED
  BY <1>1, <1>2, <1>3, <1>4, <1>5, <1>6, <1>7, <1>8, <1>9, <1>10,
     <1>11, <1>12, <1>13, <1>14, <1>15, <1>16, <1>17, <1>18, <1>19, <1>20
  DEF Next, CompileStep, SimvStep

\* The executable runs only when the record and every part are one compile's.
LEMMA HalfStep == GroupKill = TRUE /\ IInv /\ [Next]_vars => NeverHalfRunnable'
<1> SUFFICES ASSUME GroupKill = TRUE, IInv, [Next]_vars PROVE NeverHalfRunnable'
  BY DEF NeverHalfRunnable
<1>0. TypeOK /\ NeverHalfRunnable
  BY DEF IInv, Safe
<1> USE DEF Goto, files, compile, run, None, Ids, Touching
<1>1. ASSUME NEW c \in Ids, Start(c) PROVE NeverHalfRunnable'
  BY <1>0, <1>1 DEF Start, TypeOK, NeverHalfRunnable
<1>2. ASSUME NEW c \in Ids, InvalidateExe(c) PROVE NeverHalfRunnable'
  <2>1. ProgressOf(c)
    BY DEF IInv, Progress
  <2> QED
    BY <1>0, <2>1, <1>2 DEF InvalidateExe, TypeOK, ProgressOf, NeverHalfRunnable
<1>3. ASSUME NEW c \in Ids, InvalidateRecord(c) PROVE NeverHalfRunnable'
  <2>1. ProgressOf(c)
    BY DEF IInv, Progress
  <2> QED
    BY <1>0, <2>1, <1>3 DEF InvalidateRecord, TypeOK, ProgressOf, NeverHalfRunnable
<1>4. ASSUME NEW c \in Ids, InvalidateReport(c) PROVE NeverHalfRunnable'
  <2>1. ProgressOf(c)
    BY DEF IInv, Progress
  <2> QED
    BY <1>0, <2>1, <1>4 DEF InvalidateReport, TypeOK, ProgressOf, NeverHalfRunnable
<1>5. ASSUME NEW c \in Ids, CannotPrepare(c) PROVE NeverHalfRunnable'
  BY <1>0, <1>5 DEF CannotPrepare, TypeOK, NeverHalfRunnable
<1>6. ASSUME NEW c \in Ids, ToolStarts(c) PROVE NeverHalfRunnable'
  <2>1. ProgressOf(c)
    BY DEF IInv, Progress
  <2> QED
    BY <1>0, <2>1, <1>6 DEF ToolStarts, TypeOK, ProgressOf, NeverHalfRunnable
<1>7. ASSUME NEW c \in Ids, ToolEnds(c) PROVE NeverHalfRunnable'
  <2>1. ProgressOf(c)
    BY DEF IInv, Progress
  <2> QED
    BY <1>0, <2>1, <1>7 DEF ToolEnds, TypeOK, ProgressOf, NeverHalfRunnable
<1>8. ASSUME NEW c \in Ids, ToolFails(c) PROVE NeverHalfRunnable'
  BY <1>0, <1>8 DEF ToolFails, TypeOK, NeverHalfRunnable
<1>9. ASSUME NEW c \in Ids, CompileError(c) PROVE NeverHalfRunnable'
  BY <1>0, <1>9 DEF CompileError, TypeOK, NeverHalfRunnable
<1>10. ASSUME NEW c \in Ids, Compiled(c) PROVE NeverHalfRunnable'
  <2>1. ProgressOf(c)
    BY DEF IInv, Progress
  <2> QED
    BY <1>0, <2>1, <1>10 DEF Compiled, TypeOK, ProgressOf, NeverHalfRunnable
<1>11. ASSUME NEW c \in Ids, Cleanup(c) PROVE NeverHalfRunnable'
  <2>1. ProgressOf(c)
    BY DEF IInv, Progress
  <2> QED
    BY <1>0, <2>1, <1>11 DEF Cleanup, TypeOK, ProgressOf, NeverHalfRunnable
<1>12. ASSUME NEW c \in Ids, Persist(c) PROVE NeverHalfRunnable'
  <2>1. ProgressOf(c)
    BY DEF IInv, Progress
  <2> QED
    BY <1>0, <2>1, <1>12 DEF Persist, TypeOK, ProgressOf, NeverHalfRunnable
<1>13. ASSUME NEW c \in Ids, Link(c) PROVE NeverHalfRunnable'
  <2>1. ProgressOf(c)
    BY DEF IInv, Progress
  <2> QED
    BY <1>0, <2>1, <1>13 DEF Link, TypeOK, ProgressOf, NeverHalfRunnable
<1>14. ASSUME NEW c \in Ids, Kill(c) PROVE NeverHalfRunnable'
  BY <1>0, <1>14 DEF Kill, TypeOK, NeverHalfRunnable
<1>15. ASSUME NEW s \in Simvs, SimvStarts(s) PROVE NeverHalfRunnable'
  BY <1>0, <1>15 DEF SimvStarts, TypeOK, NeverHalfRunnable
<1>16. ASSUME NEW s \in Simvs, DaidirStarts(s) PROVE NeverHalfRunnable'
  BY <1>0, <1>16 DEF DaidirStarts, TypeOK, NeverHalfRunnable
<1>17. ASSUME NEW s \in Simvs, ReadJob(s) PROVE NeverHalfRunnable'
  BY <1>0, <1>17 DEF ReadJob, TypeOK, NeverHalfRunnable
<1>18. ASSUME NEW s \in Simvs, ReadPart(s) PROVE NeverHalfRunnable'
  BY <1>0, <1>18 DEF ReadPart, TypeOK, NeverHalfRunnable
<1>19. ASSUME NEW s \in Simvs, SimvEnds(s) PROVE NeverHalfRunnable'
  BY <1>0, <1>19 DEF SimvEnds, TypeOK, NeverHalfRunnable
<1>20. CASE UNCHANGED vars
  BY <1>0, <1>20 DEF vars, TypeOK, NeverHalfRunnable
<1> QED
  BY <1>1, <1>2, <1>3, <1>4, <1>5, <1>6, <1>7, <1>8, <1>9, <1>10,
     <1>11, <1>12, <1>13, <1>14, <1>15, <1>16, <1>17, <1>18, <1>19, <1>20
  DEF Next, CompileStep, SimvStep

\* A report kept belongs to the compile of the record.
LEMMA ReportStep == GroupKill = TRUE /\ IInv /\ [Next]_vars => ReportOfRecord'
<1> SUFFICES ASSUME GroupKill = TRUE, IInv, [Next]_vars PROVE ReportOfRecord'
  BY DEF ReportOfRecord
<1>0. TypeOK /\ ReportOfRecord
  BY DEF IInv, Safe
<1> USE DEF Goto, files, compile, run, None, Ids, Touching
<1>1. ASSUME NEW c \in Ids, Start(c) PROVE ReportOfRecord'
  BY <1>0, <1>1 DEF Start, TypeOK, ReportOfRecord
<1>2. ASSUME NEW c \in Ids, InvalidateExe(c) PROVE ReportOfRecord'
  <2>1. ProgressOf(c)
    BY DEF IInv, Progress
  <2> QED
    BY <1>0, <2>1, <1>2 DEF InvalidateExe, TypeOK, ProgressOf, ReportOfRecord
<1>3. ASSUME NEW c \in Ids, InvalidateRecord(c) PROVE ReportOfRecord'
  <2>1. ProgressOf(c)
    BY DEF IInv, Progress
  <2> QED
    BY <1>0, <2>1, <1>3 DEF InvalidateRecord, TypeOK, ProgressOf, ReportOfRecord
<1>4. ASSUME NEW c \in Ids, InvalidateReport(c) PROVE ReportOfRecord'
  <2>1. ProgressOf(c)
    BY DEF IInv, Progress
  <2> QED
    BY <1>0, <2>1, <1>4 DEF InvalidateReport, TypeOK, ProgressOf, ReportOfRecord
<1>5. ASSUME NEW c \in Ids, CannotPrepare(c) PROVE ReportOfRecord'
  BY <1>0, <1>5 DEF CannotPrepare, TypeOK, ReportOfRecord
<1>6. ASSUME NEW c \in Ids, ToolStarts(c) PROVE ReportOfRecord'
  <2>1. ProgressOf(c)
    BY DEF IInv, Progress
  <2> QED
    BY <1>0, <2>1, <1>6 DEF ToolStarts, TypeOK, ProgressOf, ReportOfRecord
<1>7. ASSUME NEW c \in Ids, ToolEnds(c) PROVE ReportOfRecord'
  <2>1. ProgressOf(c)
    BY DEF IInv, Progress
  <2> QED
    BY <1>0, <2>1, <1>7 DEF ToolEnds, TypeOK, ProgressOf, ReportOfRecord
<1>8. ASSUME NEW c \in Ids, ToolFails(c) PROVE ReportOfRecord'
  BY <1>0, <1>8 DEF ToolFails, TypeOK, ReportOfRecord
<1>9. ASSUME NEW c \in Ids, CompileError(c) PROVE ReportOfRecord'
  BY <1>0, <1>9 DEF CompileError, TypeOK, ReportOfRecord
<1>10. ASSUME NEW c \in Ids, Compiled(c) PROVE ReportOfRecord'
  <2>1. ProgressOf(c)
    BY DEF IInv, Progress
  <2> QED
    BY <1>0, <2>1, <1>10 DEF Compiled, TypeOK, ProgressOf, ReportOfRecord
<1>11. ASSUME NEW c \in Ids, Cleanup(c) PROVE ReportOfRecord'
  <2>1. ProgressOf(c)
    BY DEF IInv, Progress
  <2> QED
    BY <1>0, <2>1, <1>11 DEF Cleanup, TypeOK, ProgressOf, ReportOfRecord
<1>12. ASSUME NEW c \in Ids, Persist(c) PROVE ReportOfRecord'
  <2>1. ProgressOf(c)
    BY DEF IInv, Progress
  <2> QED
    BY <1>0, <2>1, <1>12 DEF Persist, TypeOK, ProgressOf, ReportOfRecord
<1>13. ASSUME NEW c \in Ids, Link(c) PROVE ReportOfRecord'
  <2>1. ProgressOf(c)
    BY DEF IInv, Progress
  <2> QED
    BY <1>0, <2>1, <1>13 DEF Link, TypeOK, ProgressOf, ReportOfRecord
<1>14. ASSUME NEW c \in Ids, Kill(c) PROVE ReportOfRecord'
  BY <1>0, <1>14 DEF Kill, TypeOK, ReportOfRecord
<1>15. ASSUME NEW s \in Simvs, SimvStarts(s) PROVE ReportOfRecord'
  BY <1>0, <1>15 DEF SimvStarts, TypeOK, ReportOfRecord
<1>16. ASSUME NEW s \in Simvs, DaidirStarts(s) PROVE ReportOfRecord'
  BY <1>0, <1>16 DEF DaidirStarts, TypeOK, ReportOfRecord
<1>17. ASSUME NEW s \in Simvs, ReadJob(s) PROVE ReportOfRecord'
  BY <1>0, <1>17 DEF ReadJob, TypeOK, ReportOfRecord
<1>18. ASSUME NEW s \in Simvs, ReadPart(s) PROVE ReportOfRecord'
  BY <1>0, <1>18 DEF ReadPart, TypeOK, ReportOfRecord
<1>19. ASSUME NEW s \in Simvs, SimvEnds(s) PROVE ReportOfRecord'
  BY <1>0, <1>19 DEF SimvEnds, TypeOK, ReportOfRecord
<1>20. CASE UNCHANGED vars
  BY <1>0, <1>20 DEF vars, TypeOK, ReportOfRecord
<1> QED
  BY <1>1, <1>2, <1>3, <1>4, <1>5, <1>6, <1>7, <1>8, <1>9, <1>10,
     <1>11, <1>12, <1>13, <1>14, <1>15, <1>16, <1>17, <1>18, <1>19, <1>20
  DEF Next, CompileStep, SimvStep

\* A run whose daidir no compile touched has read one compile's parts.
LEMMA MixedStep == GroupKill = TRUE /\ IInv /\ [Next]_vars => MixedNeedsRebuild'
<1> SUFFICES ASSUME GroupKill = TRUE, IInv, [Next]_vars, NEW q \in Simvs PROVE (simv[q] = "ran" /\ seen[q] # {job[q]} => q \in rebuilt)'
  BY DEF MixedNeedsRebuild
<1>0. TypeOK /\ ReadsOf(q) /\ (simv[q] = "ran" /\ seen[q] # {job[q]} => q \in rebuilt)
  BY DEF IInv, Safe, Reads, MixedNeedsRebuild
<1> USE DEF Goto, files, compile, run
<1>1. ASSUME NEW c \in Ids, Start(c) PROVE (simv[q] = "ran" /\ seen[q] # {job[q]} => q \in rebuilt)'
  BY <1>0, <1>1 DEF Start, TypeOK, ReadsOf
<1>2. ASSUME NEW c \in Ids, InvalidateExe(c) PROVE (simv[q] = "ran" /\ seen[q] # {job[q]} => q \in rebuilt)'
  BY <1>0, <1>2 DEF InvalidateExe, TypeOK, ReadsOf
<1>3. ASSUME NEW c \in Ids, InvalidateRecord(c) PROVE (simv[q] = "ran" /\ seen[q] # {job[q]} => q \in rebuilt)'
  BY <1>0, <1>3 DEF InvalidateRecord, TypeOK, ReadsOf
<1>4. ASSUME NEW c \in Ids, InvalidateReport(c) PROVE (simv[q] = "ran" /\ seen[q] # {job[q]} => q \in rebuilt)'
  BY <1>0, <1>4 DEF InvalidateReport, TypeOK, ReadsOf
<1>5. ASSUME NEW c \in Ids, CannotPrepare(c) PROVE (simv[q] = "ran" /\ seen[q] # {job[q]} => q \in rebuilt)'
  BY <1>0, <1>5 DEF CannotPrepare, TypeOK, ReadsOf
<1>6. ASSUME NEW c \in Ids, ToolStarts(c) PROVE (simv[q] = "ran" /\ seen[q] # {job[q]} => q \in rebuilt)'
  BY <1>0, <1>6 DEF ToolStarts, TypeOK, ReadsOf
<1>7. ASSUME NEW c \in Ids, ToolEnds(c) PROVE (simv[q] = "ran" /\ seen[q] # {job[q]} => q \in rebuilt)'
  BY <1>0, <1>7 DEF ToolEnds, TypeOK, ReadsOf
<1>8. ASSUME NEW c \in Ids, ToolFails(c) PROVE (simv[q] = "ran" /\ seen[q] # {job[q]} => q \in rebuilt)'
  BY <1>0, <1>8 DEF ToolFails, TypeOK, ReadsOf
<1>9. ASSUME NEW c \in Ids, CompileError(c) PROVE (simv[q] = "ran" /\ seen[q] # {job[q]} => q \in rebuilt)'
  BY <1>0, <1>9 DEF CompileError, TypeOK, ReadsOf
<1>10. ASSUME NEW c \in Ids, Compiled(c) PROVE (simv[q] = "ran" /\ seen[q] # {job[q]} => q \in rebuilt)'
  BY <1>0, <1>10 DEF Compiled, TypeOK, ReadsOf
<1>11. ASSUME NEW c \in Ids, Cleanup(c) PROVE (simv[q] = "ran" /\ seen[q] # {job[q]} => q \in rebuilt)'
  BY <1>0, <1>11 DEF Cleanup, TypeOK, ReadsOf
<1>12. ASSUME NEW c \in Ids, Persist(c) PROVE (simv[q] = "ran" /\ seen[q] # {job[q]} => q \in rebuilt)'
  BY <1>0, <1>12 DEF Persist, TypeOK, ReadsOf
<1>13. ASSUME NEW c \in Ids, Link(c) PROVE (simv[q] = "ran" /\ seen[q] # {job[q]} => q \in rebuilt)'
  BY <1>0, <1>13 DEF Link, TypeOK, ReadsOf
<1>14. ASSUME NEW c \in Ids, Kill(c) PROVE (simv[q] = "ran" /\ seen[q] # {job[q]} => q \in rebuilt)'
  BY <1>0, <1>14 DEF Kill, TypeOK, ReadsOf
<1>15. ASSUME NEW s \in Simvs, SimvStarts(s) PROVE (simv[q] = "ran" /\ seen[q] # {job[q]} => q \in rebuilt)'
  BY <1>0, <1>15 DEF SimvStarts, TypeOK, ReadsOf
<1>16. ASSUME NEW s \in Simvs, DaidirStarts(s) PROVE (simv[q] = "ran" /\ seen[q] # {job[q]} => q \in rebuilt)'
  BY <1>0, <1>16 DEF DaidirStarts, TypeOK, ReadsOf
<1>17. ASSUME NEW s \in Simvs, ReadJob(s) PROVE (simv[q] = "ran" /\ seen[q] # {job[q]} => q \in rebuilt)'
  BY <1>0, <1>17 DEF ReadJob, TypeOK, ReadsOf
<1>18. ASSUME NEW s \in Simvs, ReadPart(s) PROVE (simv[q] = "ran" /\ seen[q] # {job[q]} => q \in rebuilt)'
  BY <1>0, <1>18 DEF ReadPart, TypeOK, ReadsOf
<1>19. ASSUME NEW s \in Simvs, SimvEnds(s) PROVE (simv[q] = "ran" /\ seen[q] # {job[q]} => q \in rebuilt)'
  BY <1>0, <1>19 DEF SimvEnds, TypeOK, ReadsOf
<1>20. CASE UNCHANGED vars
  BY <1>0, <1>20 DEF vars, TypeOK, ReadsOf
<1> QED
  BY <1>1, <1>2, <1>3, <1>4, <1>5, <1>6, <1>7, <1>8, <1>9, <1>10,
     <1>11, <1>12, <1>13, <1>14, <1>15, <1>16, <1>17, <1>18, <1>19, <1>20
  DEF Next, CompileStep, SimvStep

\* What a finished compile left stays until the next one refuses runs.
LEMMA SuccessStep == GroupKill = TRUE /\ IInv /\ [Next]_vars => SuccessRuns'
<1> SUFFICES ASSUME GroupKill = TRUE, IInv, [Next]_vars, NEW e \in Ids PROVE (Last(e) /\ pc[e] = "done" => exe = "real" /\ record = e /\ \A i \in 1..Parts : part[i] = e)'
  BY DEF SuccessRuns
<1>0. TypeOK /\ Sequential /\ (Last(e) /\ pc[e] = "done" => exe = "real" /\ record = e /\ \A i \in 1..Parts : part[i] = e)
  BY DEF IInv, Safe, SuccessRuns
<1> USE DEF Goto, files, compile, run, CompileEnded, Touching
<1>1. ASSUME NEW c \in Ids, Start(c) PROVE (Last(e) /\ pc[e] = "done" => exe = "real" /\ record = e /\ \A i \in 1..Parts : part[i] = e)'
  <2>1. CASE e = c
    <3>1. ProgressOf(c)
      BY DEF IInv, Progress
    <3> QED
      BY <1>0, <2>1, <3>1, <1>1 DEF Start, TypeOK, ProgressOf
  <2>2. CASE e # c
    <3>1. Last(e)' => Last(e)
      <4>1. \A d \in Ids : pc'[d] \in {"idle", "refused"} => pc[d] \in {"idle", "refused"}
        BY <1>0, <1>1 DEF Start, TypeOK
      <4>2. pc'[e] = pc[e]
        BY <1>0, <2>2, <1>1 DEF Start, TypeOK
      <4>3. \A d \in (e + 1)..Compiles : d \in Ids
        BY DEF Ids
      <4> QED
        BY <4>1, <4>2, <4>3 DEF Last
    <3>2. UNCHANGED files /\ pc'[e] = pc[e] /\ hadExe'[e] = hadExe[e]
      BY <1>0, <2>2, <1>1 DEF Start, TypeOK
    <3> QED
      BY <1>0, <3>1, <3>2
  <2> QED
    BY <2>1, <2>2
<1>2. ASSUME NEW c \in Ids, InvalidateExe(c) PROVE (Last(e) /\ pc[e] = "done" => exe = "real" /\ record = e /\ \A i \in 1..Parts : part[i] = e)'
  <2>1. CASE e = c
    <3>1. ProgressOf(c)
      BY DEF IInv, Progress
    <3> QED
      BY <1>0, <2>1, <3>1, <1>2 DEF InvalidateExe, TypeOK, ProgressOf
  <2>2. CASE e # c
    <3>1. e < c \/ c < e
      BY <2>2 DEF Ids
    <3>2. pc[c] \in {"refuse"}
      BY <1>2 DEF InvalidateExe, IInv, Progress, ProgressOf
    <3>3. e < c => ~(Last(e)')
      <4>1. pc'[c] \notin {"idle", "refused"}
        BY <1>0, <3>2, <1>2 DEF InvalidateExe, TypeOK
      <4>2. e < c => c \in (e + 1)..Compiles
        BY DEF Ids
      <4> QED
        BY <4>1, <4>2 DEF Last
    <3>4. c < e => pc'[e] # "done"
      BY <1>0, <2>2, <3>2, <1>2 DEF InvalidateExe, TypeOK, Sequential, CompileEnded
    <3> QED
      BY <3>1, <3>3, <3>4
  <2> QED
    BY <2>1, <2>2
<1>3. ASSUME NEW c \in Ids, InvalidateRecord(c) PROVE (Last(e) /\ pc[e] = "done" => exe = "real" /\ record = e /\ \A i \in 1..Parts : part[i] = e)'
  <2>1. CASE e = c
    <3>1. ProgressOf(c)
      BY DEF IInv, Progress
    <3> QED
      BY <1>0, <2>1, <3>1, <1>3 DEF InvalidateRecord, TypeOK, ProgressOf
  <2>2. CASE e # c
    <3>1. e < c \/ c < e
      BY <2>2 DEF Ids
    <3>2. pc[c] \in {"unrecord"}
      BY <1>3 DEF InvalidateRecord, IInv, Progress, ProgressOf
    <3>3. e < c => ~(Last(e)')
      <4>1. pc'[c] \notin {"idle", "refused"}
        BY <1>0, <3>2, <1>3 DEF InvalidateRecord, TypeOK
      <4>2. e < c => c \in (e + 1)..Compiles
        BY DEF Ids
      <4> QED
        BY <4>1, <4>2 DEF Last
    <3>4. c < e => pc'[e] # "done"
      BY <1>0, <2>2, <3>2, <1>3 DEF InvalidateRecord, TypeOK, Sequential, CompileEnded
    <3> QED
      BY <3>1, <3>3, <3>4
  <2> QED
    BY <2>1, <2>2
<1>4. ASSUME NEW c \in Ids, InvalidateReport(c) PROVE (Last(e) /\ pc[e] = "done" => exe = "real" /\ record = e /\ \A i \in 1..Parts : part[i] = e)'
  <2>1. CASE e = c
    <3>1. ProgressOf(c)
      BY DEF IInv, Progress
    <3> QED
      BY <1>0, <2>1, <3>1, <1>4 DEF InvalidateReport, TypeOK, ProgressOf
  <2>2. CASE e # c
    <3>1. e < c \/ c < e
      BY <2>2 DEF Ids
    <3>2. pc[c] \in {"unreport"}
      BY <1>4 DEF InvalidateReport, IInv, Progress, ProgressOf
    <3>3. e < c => ~(Last(e)')
      <4>1. pc'[c] \notin {"idle", "refused"}
        BY <1>0, <3>2, <1>4 DEF InvalidateReport, TypeOK
      <4>2. e < c => c \in (e + 1)..Compiles
        BY DEF Ids
      <4> QED
        BY <4>1, <4>2 DEF Last
    <3>4. c < e => pc'[e] # "done"
      BY <1>0, <2>2, <3>2, <1>4 DEF InvalidateReport, TypeOK, Sequential, CompileEnded
    <3> QED
      BY <3>1, <3>3, <3>4
  <2> QED
    BY <2>1, <2>2
<1>5. ASSUME NEW c \in Ids, CannotPrepare(c) PROVE (Last(e) /\ pc[e] = "done" => exe = "real" /\ record = e /\ \A i \in 1..Parts : part[i] = e)'
  <2>1. CASE e = c
    <3>1. ProgressOf(c)
      BY DEF IInv, Progress
    <3> QED
      BY <1>0, <2>1, <3>1, <1>5 DEF CannotPrepare, TypeOK, ProgressOf
  <2>2. CASE e # c
    <3>1. e < c \/ c < e
      BY <2>2 DEF Ids
    <3>2. pc[c] \in {"refuse", "unrecord", "unreport"}
      BY <1>5 DEF CannotPrepare, IInv, Progress, ProgressOf
    <3>3. e < c => ~(Last(e)')
      <4>1. pc'[c] \notin {"idle", "refused"}
        BY <1>0, <3>2, <1>5 DEF CannotPrepare, TypeOK
      <4>2. e < c => c \in (e + 1)..Compiles
        BY DEF Ids
      <4> QED
        BY <4>1, <4>2 DEF Last
    <3>4. c < e => pc'[e] # "done"
      BY <1>0, <2>2, <3>2, <1>5 DEF CannotPrepare, TypeOK, Sequential, CompileEnded
    <3> QED
      BY <3>1, <3>3, <3>4
  <2> QED
    BY <2>1, <2>2
<1>6. ASSUME NEW c \in Ids, ToolStarts(c) PROVE (Last(e) /\ pc[e] = "done" => exe = "real" /\ record = e /\ \A i \in 1..Parts : part[i] = e)'
  <2>1. CASE e = c
    <3>1. ProgressOf(c)
      BY DEF IInv, Progress
    <3> QED
      BY <1>0, <2>1, <3>1, <1>6 DEF ToolStarts, TypeOK, ProgressOf
  <2>2. CASE e # c
    <3>1. e < c \/ c < e
      BY <2>2 DEF Ids
    <3>2. pc[c] \in {"build"}
      BY <1>6 DEF ToolStarts, IInv, Progress, ProgressOf
    <3>3. e < c => ~(Last(e)')
      <4>1. pc'[c] \notin {"idle", "refused"}
        BY <1>0, <3>2, <1>6 DEF ToolStarts, TypeOK
      <4>2. e < c => c \in (e + 1)..Compiles
        BY DEF Ids
      <4> QED
        BY <4>1, <4>2 DEF Last
    <3>4. c < e => pc'[e] # "done"
      BY <1>0, <2>2, <3>2, <1>6 DEF ToolStarts, TypeOK, Sequential, CompileEnded
    <3> QED
      BY <3>1, <3>3, <3>4
  <2> QED
    BY <2>1, <2>2
<1>7. ASSUME NEW c \in Ids, ToolEnds(c) PROVE (Last(e) /\ pc[e] = "done" => exe = "real" /\ record = e /\ \A i \in 1..Parts : part[i] = e)'
  <2>1. CASE e = c
    <3>1. ProgressOf(c)
      BY DEF IInv, Progress
    <3> QED
      BY <1>0, <2>1, <3>1, <1>7 DEF ToolEnds, TypeOK, ProgressOf
  <2>2. CASE e # c
    <3>1. e < c \/ c < e
      BY <2>2 DEF Ids
    <3>2. pc[c] \in {"build"}
      BY <1>7 DEF ToolEnds, IInv, Progress, ProgressOf
    <3>3. e < c => ~(Last(e)')
      <4>1. pc'[c] \notin {"idle", "refused"}
        BY <1>0, <3>2, <1>7 DEF ToolEnds, TypeOK
      <4>2. e < c => c \in (e + 1)..Compiles
        BY DEF Ids
      <4> QED
        BY <4>1, <4>2 DEF Last
    <3>4. c < e => pc'[e] # "done"
      BY <1>0, <2>2, <3>2, <1>7 DEF ToolEnds, TypeOK, Sequential, CompileEnded
    <3> QED
      BY <3>1, <3>3, <3>4
  <2> QED
    BY <2>1, <2>2
<1>8. ASSUME NEW c \in Ids, ToolFails(c) PROVE (Last(e) /\ pc[e] = "done" => exe = "real" /\ record = e /\ \A i \in 1..Parts : part[i] = e)'
  <2>1. CASE e = c
    <3>1. ProgressOf(c)
      BY DEF IInv, Progress
    <3> QED
      BY <1>0, <2>1, <3>1, <1>8 DEF ToolFails, TypeOK, ProgressOf
  <2>2. CASE e # c
    <3>1. e < c \/ c < e
      BY <2>2 DEF Ids
    <3>2. pc[c] \in {"build"}
      BY <1>8 DEF ToolFails, IInv, Progress, ProgressOf
    <3>3. e < c => ~(Last(e)')
      <4>1. pc'[c] \notin {"idle", "refused"}
        BY <1>0, <3>2, <1>8 DEF ToolFails, TypeOK
      <4>2. e < c => c \in (e + 1)..Compiles
        BY DEF Ids
      <4> QED
        BY <4>1, <4>2 DEF Last
    <3>4. c < e => pc'[e] # "done"
      BY <1>0, <2>2, <3>2, <1>8 DEF ToolFails, TypeOK, Sequential, CompileEnded
    <3> QED
      BY <3>1, <3>3, <3>4
  <2> QED
    BY <2>1, <2>2
<1>9. ASSUME NEW c \in Ids, CompileError(c) PROVE (Last(e) /\ pc[e] = "done" => exe = "real" /\ record = e /\ \A i \in 1..Parts : part[i] = e)'
  <2>1. CASE e = c
    <3>1. ProgressOf(c)
      BY DEF IInv, Progress
    <3> QED
      BY <1>0, <2>1, <3>1, <1>9 DEF CompileError, TypeOK, ProgressOf
  <2>2. CASE e # c
    <3>1. e < c \/ c < e
      BY <2>2 DEF Ids
    <3>2. pc[c] \in {"build"}
      BY <1>9 DEF CompileError, IInv, Progress, ProgressOf
    <3>3. e < c => ~(Last(e)')
      <4>1. pc'[c] \notin {"idle", "refused"}
        BY <1>0, <3>2, <1>9 DEF CompileError, TypeOK
      <4>2. e < c => c \in (e + 1)..Compiles
        BY DEF Ids
      <4> QED
        BY <4>1, <4>2 DEF Last
    <3>4. c < e => pc'[e] # "done"
      BY <1>0, <2>2, <3>2, <1>9 DEF CompileError, TypeOK, Sequential, CompileEnded
    <3> QED
      BY <3>1, <3>3, <3>4
  <2> QED
    BY <2>1, <2>2
<1>10. ASSUME NEW c \in Ids, Compiled(c) PROVE (Last(e) /\ pc[e] = "done" => exe = "real" /\ record = e /\ \A i \in 1..Parts : part[i] = e)'
  <2>1. CASE e = c
    <3>1. ProgressOf(c)
      BY DEF IInv, Progress
    <3> QED
      BY <1>0, <2>1, <3>1, <1>10 DEF Compiled, TypeOK, ProgressOf
  <2>2. CASE e # c
    <3>1. e < c \/ c < e
      BY <2>2 DEF Ids
    <3>2. pc[c] \in {"build"}
      BY <1>10 DEF Compiled, IInv, Progress, ProgressOf
    <3>3. e < c => ~(Last(e)')
      <4>1. pc'[c] \notin {"idle", "refused"}
        BY <1>0, <3>2, <1>10 DEF Compiled, TypeOK
      <4>2. e < c => c \in (e + 1)..Compiles
        BY DEF Ids
      <4> QED
        BY <4>1, <4>2 DEF Last
    <3>4. c < e => pc'[e] # "done"
      BY <1>0, <2>2, <3>2, <1>10 DEF Compiled, TypeOK, Sequential, CompileEnded
    <3> QED
      BY <3>1, <3>3, <3>4
  <2> QED
    BY <2>1, <2>2
<1>11. ASSUME NEW c \in Ids, Cleanup(c) PROVE (Last(e) /\ pc[e] = "done" => exe = "real" /\ record = e /\ \A i \in 1..Parts : part[i] = e)'
  <2>1. CASE e = c
    <3>1. ProgressOf(c)
      BY DEF IInv, Progress
    <3> QED
      BY <1>0, <2>1, <3>1, <1>11 DEF Cleanup, TypeOK, ProgressOf
  <2>2. CASE e # c
    <3>1. e < c \/ c < e
      BY <2>2 DEF Ids
    <3>2. pc[c] \in {"cleanup"}
      BY <1>11 DEF Cleanup, IInv, Progress, ProgressOf
    <3>3. e < c => ~(Last(e)')
      <4>1. pc'[c] \notin {"idle", "refused"}
        BY <1>0, <3>2, <1>11 DEF Cleanup, TypeOK
      <4>2. e < c => c \in (e + 1)..Compiles
        BY DEF Ids
      <4> QED
        BY <4>1, <4>2 DEF Last
    <3>4. c < e => pc'[e] # "done"
      BY <1>0, <2>2, <3>2, <1>11 DEF Cleanup, TypeOK, Sequential, CompileEnded
    <3> QED
      BY <3>1, <3>3, <3>4
  <2> QED
    BY <2>1, <2>2
<1>12. ASSUME NEW c \in Ids, Persist(c) PROVE (Last(e) /\ pc[e] = "done" => exe = "real" /\ record = e /\ \A i \in 1..Parts : part[i] = e)'
  <2>1. CASE e = c
    <3>1. ProgressOf(c)
      BY DEF IInv, Progress
    <3> QED
      BY <1>0, <2>1, <3>1, <1>12 DEF Persist, TypeOK, ProgressOf
  <2>2. CASE e # c
    <3>1. e < c \/ c < e
      BY <2>2 DEF Ids
    <3>2. pc[c] \in {"persist"}
      BY <1>12 DEF Persist, IInv, Progress, ProgressOf
    <3>3. e < c => ~(Last(e)')
      <4>1. pc'[c] \notin {"idle", "refused"}
        BY <1>0, <3>2, <1>12 DEF Persist, TypeOK
      <4>2. e < c => c \in (e + 1)..Compiles
        BY DEF Ids
      <4> QED
        BY <4>1, <4>2 DEF Last
    <3>4. c < e => pc'[e] # "done"
      BY <1>0, <2>2, <3>2, <1>12 DEF Persist, TypeOK, Sequential, CompileEnded
    <3> QED
      BY <3>1, <3>3, <3>4
  <2> QED
    BY <2>1, <2>2
<1>13. ASSUME NEW c \in Ids, Link(c) PROVE (Last(e) /\ pc[e] = "done" => exe = "real" /\ record = e /\ \A i \in 1..Parts : part[i] = e)'
  <2>1. CASE e = c
    <3>1. ProgressOf(c)
      BY DEF IInv, Progress
    <3> QED
      BY <1>0, <2>1, <3>1, <1>13 DEF Link, TypeOK, ProgressOf
  <2>2. CASE e # c
    <3>1. e < c \/ c < e
      BY <2>2 DEF Ids
    <3>2. pc[c] \in {"link"}
      BY <1>13 DEF Link, IInv, Progress, ProgressOf
    <3>3. e < c => ~(Last(e)')
      <4>1. pc'[c] \notin {"idle", "refused"}
        BY <1>0, <3>2, <1>13 DEF Link, TypeOK
      <4>2. e < c => c \in (e + 1)..Compiles
        BY DEF Ids
      <4> QED
        BY <4>1, <4>2 DEF Last
    <3>4. c < e => pc'[e] # "done"
      BY <1>0, <2>2, <3>2, <1>13 DEF Link, TypeOK, Sequential, CompileEnded
    <3> QED
      BY <3>1, <3>3, <3>4
  <2> QED
    BY <2>1, <2>2
<1>14. ASSUME NEW c \in Ids, Kill(c) PROVE (Last(e) /\ pc[e] = "done" => exe = "real" /\ record = e /\ \A i \in 1..Parts : part[i] = e)'
  <2>1. CASE e = c
    <3>1. ProgressOf(c)
      BY DEF IInv, Progress
    <3> QED
      BY <1>0, <2>1, <3>1, <1>14 DEF Kill, TypeOK, ProgressOf
  <2>2. CASE e # c
    <3>1. e < c \/ c < e
      BY <2>2 DEF Ids
    <3>2. pc[c] \in {"refuse", "unrecord", "unreport", "build", "cleanup", "persist", "link"}
      BY <1>0, <1>14 DEF Kill, TypeOK
    <3>3. e < c => ~(Last(e)')
      <4>1. pc'[c] \notin {"idle", "refused"}
        BY <1>0, <3>2, <1>14 DEF Kill, TypeOK
      <4>2. e < c => c \in (e + 1)..Compiles
        BY DEF Ids
      <4> QED
        BY <4>1, <4>2 DEF Last
    <3>4. c < e => pc'[e] # "done"
      BY <1>0, <2>2, <3>2, <1>14 DEF Kill, TypeOK, Sequential, CompileEnded
    <3> QED
      BY <3>1, <3>3, <3>4
  <2> QED
    BY <2>1, <2>2
<1>15. ASSUME NEW s \in Simvs, SimvStarts(s) PROVE (Last(e) /\ pc[e] = "done" => exe = "real" /\ record = e /\ \A i \in 1..Parts : part[i] = e)'
  <2>1. UNCHANGED <<files, compile>>
    BY <1>15 DEF SimvStarts
  <2> QED
    BY <1>0, <2>1 DEF Last
<1>16. ASSUME NEW s \in Simvs, DaidirStarts(s) PROVE (Last(e) /\ pc[e] = "done" => exe = "real" /\ record = e /\ \A i \in 1..Parts : part[i] = e)'
  <2>1. UNCHANGED <<files, compile>>
    BY <1>16 DEF DaidirStarts
  <2> QED
    BY <1>0, <2>1 DEF Last
<1>17. ASSUME NEW s \in Simvs, ReadJob(s) PROVE (Last(e) /\ pc[e] = "done" => exe = "real" /\ record = e /\ \A i \in 1..Parts : part[i] = e)'
  <2>1. UNCHANGED <<files, compile>>
    BY <1>17 DEF ReadJob
  <2> QED
    BY <1>0, <2>1 DEF Last
<1>18. ASSUME NEW s \in Simvs, ReadPart(s) PROVE (Last(e) /\ pc[e] = "done" => exe = "real" /\ record = e /\ \A i \in 1..Parts : part[i] = e)'
  <2>1. UNCHANGED <<files, compile>>
    BY <1>18 DEF ReadPart
  <2> QED
    BY <1>0, <2>1 DEF Last
<1>19. ASSUME NEW s \in Simvs, SimvEnds(s) PROVE (Last(e) /\ pc[e] = "done" => exe = "real" /\ record = e /\ \A i \in 1..Parts : part[i] = e)'
  <2>1. UNCHANGED <<files, compile>>
    BY <1>19 DEF SimvEnds
  <2> QED
    BY <1>0, <2>1 DEF Last
<1>20. CASE UNCHANGED vars
  BY <1>0, <1>20 DEF vars, Last
<1> QED
  BY <1>1, <1>2, <1>3, <1>4, <1>5, <1>6, <1>7, <1>8, <1>9, <1>10,
     <1>11, <1>12, <1>13, <1>14, <1>15, <1>16, <1>17, <1>18, <1>19, <1>20
  DEF Next, CompileStep, SimvStep

\* After a failure the executable refuses until a compile succeeds.
LEMMA FailureStep == GroupKill = TRUE /\ IInv /\ [Next]_vars => FailureRefuses'
<1> SUFFICES ASSUME GroupKill = TRUE, IInv, [Next]_vars, NEW e \in Ids PROVE (Last(e) /\ pc[e] = "failed" => exe = (IF hadExe[e] THEN "refuse" ELSE "none"))'
  BY DEF FailureRefuses
<1>0. TypeOK /\ Sequential /\ (Last(e) /\ pc[e] = "failed" => exe = (IF hadExe[e] THEN "refuse" ELSE "none"))
  BY DEF IInv, Safe, FailureRefuses
<1> USE DEF Goto, files, compile, run, CompileEnded, Touching
<1>1. ASSUME NEW c \in Ids, Start(c) PROVE (Last(e) /\ pc[e] = "failed" => exe = (IF hadExe[e] THEN "refuse" ELSE "none"))'
  <2>1. CASE e = c
    <3>1. ProgressOf(c)
      BY DEF IInv, Progress
    <3> QED
      BY <1>0, <2>1, <3>1, <1>1 DEF Start, TypeOK, ProgressOf
  <2>2. CASE e # c
    <3>1. Last(e)' => Last(e)
      <4>1. \A d \in Ids : pc'[d] \in {"idle", "refused"} => pc[d] \in {"idle", "refused"}
        BY <1>0, <1>1 DEF Start, TypeOK
      <4>2. pc'[e] = pc[e]
        BY <1>0, <2>2, <1>1 DEF Start, TypeOK
      <4>3. \A d \in (e + 1)..Compiles : d \in Ids
        BY DEF Ids
      <4> QED
        BY <4>1, <4>2, <4>3 DEF Last
    <3>2. UNCHANGED files /\ pc'[e] = pc[e] /\ hadExe'[e] = hadExe[e]
      BY <1>0, <2>2, <1>1 DEF Start, TypeOK
    <3> QED
      BY <1>0, <3>1, <3>2
  <2> QED
    BY <2>1, <2>2
<1>2. ASSUME NEW c \in Ids, InvalidateExe(c) PROVE (Last(e) /\ pc[e] = "failed" => exe = (IF hadExe[e] THEN "refuse" ELSE "none"))'
  <2>1. CASE e = c
    <3>1. ProgressOf(c)
      BY DEF IInv, Progress
    <3> QED
      BY <1>0, <2>1, <3>1, <1>2 DEF InvalidateExe, TypeOK, ProgressOf
  <2>2. CASE e # c
    <3>1. e < c \/ c < e
      BY <2>2 DEF Ids
    <3>2. pc[c] \in {"refuse"}
      BY <1>2 DEF InvalidateExe, IInv, Progress, ProgressOf
    <3>3. e < c => ~(Last(e)')
      <4>1. pc'[c] \notin {"idle", "refused"}
        BY <1>0, <3>2, <1>2 DEF InvalidateExe, TypeOK
      <4>2. e < c => c \in (e + 1)..Compiles
        BY DEF Ids
      <4> QED
        BY <4>1, <4>2 DEF Last
    <3>4. c < e => pc'[e] # "failed"
      BY <1>0, <2>2, <3>2, <1>2 DEF InvalidateExe, TypeOK, Sequential, CompileEnded
    <3> QED
      BY <3>1, <3>3, <3>4
  <2> QED
    BY <2>1, <2>2
<1>3. ASSUME NEW c \in Ids, InvalidateRecord(c) PROVE (Last(e) /\ pc[e] = "failed" => exe = (IF hadExe[e] THEN "refuse" ELSE "none"))'
  <2>1. CASE e = c
    <3>1. ProgressOf(c)
      BY DEF IInv, Progress
    <3> QED
      BY <1>0, <2>1, <3>1, <1>3 DEF InvalidateRecord, TypeOK, ProgressOf
  <2>2. CASE e # c
    <3>1. e < c \/ c < e
      BY <2>2 DEF Ids
    <3>2. pc[c] \in {"unrecord"}
      BY <1>3 DEF InvalidateRecord, IInv, Progress, ProgressOf
    <3>3. e < c => ~(Last(e)')
      <4>1. pc'[c] \notin {"idle", "refused"}
        BY <1>0, <3>2, <1>3 DEF InvalidateRecord, TypeOK
      <4>2. e < c => c \in (e + 1)..Compiles
        BY DEF Ids
      <4> QED
        BY <4>1, <4>2 DEF Last
    <3>4. c < e => pc'[e] # "failed"
      BY <1>0, <2>2, <3>2, <1>3 DEF InvalidateRecord, TypeOK, Sequential, CompileEnded
    <3> QED
      BY <3>1, <3>3, <3>4
  <2> QED
    BY <2>1, <2>2
<1>4. ASSUME NEW c \in Ids, InvalidateReport(c) PROVE (Last(e) /\ pc[e] = "failed" => exe = (IF hadExe[e] THEN "refuse" ELSE "none"))'
  <2>1. CASE e = c
    <3>1. ProgressOf(c)
      BY DEF IInv, Progress
    <3> QED
      BY <1>0, <2>1, <3>1, <1>4 DEF InvalidateReport, TypeOK, ProgressOf
  <2>2. CASE e # c
    <3>1. e < c \/ c < e
      BY <2>2 DEF Ids
    <3>2. pc[c] \in {"unreport"}
      BY <1>4 DEF InvalidateReport, IInv, Progress, ProgressOf
    <3>3. e < c => ~(Last(e)')
      <4>1. pc'[c] \notin {"idle", "refused"}
        BY <1>0, <3>2, <1>4 DEF InvalidateReport, TypeOK
      <4>2. e < c => c \in (e + 1)..Compiles
        BY DEF Ids
      <4> QED
        BY <4>1, <4>2 DEF Last
    <3>4. c < e => pc'[e] # "failed"
      BY <1>0, <2>2, <3>2, <1>4 DEF InvalidateReport, TypeOK, Sequential, CompileEnded
    <3> QED
      BY <3>1, <3>3, <3>4
  <2> QED
    BY <2>1, <2>2
<1>5. ASSUME NEW c \in Ids, CannotPrepare(c) PROVE (Last(e) /\ pc[e] = "failed" => exe = (IF hadExe[e] THEN "refuse" ELSE "none"))'
  <2>1. CASE e = c
    <3>1. ProgressOf(c)
      BY DEF IInv, Progress
    <3> QED
      BY <1>0, <2>1, <3>1, <1>5 DEF CannotPrepare, TypeOK, ProgressOf
  <2>2. CASE e # c
    <3>1. e < c \/ c < e
      BY <2>2 DEF Ids
    <3>2. pc[c] \in {"refuse", "unrecord", "unreport"}
      BY <1>5 DEF CannotPrepare, IInv, Progress, ProgressOf
    <3>3. e < c => ~(Last(e)')
      <4>1. pc'[c] \notin {"idle", "refused"}
        BY <1>0, <3>2, <1>5 DEF CannotPrepare, TypeOK
      <4>2. e < c => c \in (e + 1)..Compiles
        BY DEF Ids
      <4> QED
        BY <4>1, <4>2 DEF Last
    <3>4. c < e => pc'[e] # "failed"
      BY <1>0, <2>2, <3>2, <1>5 DEF CannotPrepare, TypeOK, Sequential, CompileEnded
    <3> QED
      BY <3>1, <3>3, <3>4
  <2> QED
    BY <2>1, <2>2
<1>6. ASSUME NEW c \in Ids, ToolStarts(c) PROVE (Last(e) /\ pc[e] = "failed" => exe = (IF hadExe[e] THEN "refuse" ELSE "none"))'
  <2>1. CASE e = c
    <3>1. ProgressOf(c)
      BY DEF IInv, Progress
    <3> QED
      BY <1>0, <2>1, <3>1, <1>6 DEF ToolStarts, TypeOK, ProgressOf
  <2>2. CASE e # c
    <3>1. e < c \/ c < e
      BY <2>2 DEF Ids
    <3>2. pc[c] \in {"build"}
      BY <1>6 DEF ToolStarts, IInv, Progress, ProgressOf
    <3>3. e < c => ~(Last(e)')
      <4>1. pc'[c] \notin {"idle", "refused"}
        BY <1>0, <3>2, <1>6 DEF ToolStarts, TypeOK
      <4>2. e < c => c \in (e + 1)..Compiles
        BY DEF Ids
      <4> QED
        BY <4>1, <4>2 DEF Last
    <3>4. c < e => pc'[e] # "failed"
      BY <1>0, <2>2, <3>2, <1>6 DEF ToolStarts, TypeOK, Sequential, CompileEnded
    <3> QED
      BY <3>1, <3>3, <3>4
  <2> QED
    BY <2>1, <2>2
<1>7. ASSUME NEW c \in Ids, ToolEnds(c) PROVE (Last(e) /\ pc[e] = "failed" => exe = (IF hadExe[e] THEN "refuse" ELSE "none"))'
  <2>1. CASE e = c
    <3>1. ProgressOf(c)
      BY DEF IInv, Progress
    <3> QED
      BY <1>0, <2>1, <3>1, <1>7 DEF ToolEnds, TypeOK, ProgressOf
  <2>2. CASE e # c
    <3>1. e < c \/ c < e
      BY <2>2 DEF Ids
    <3>2. pc[c] \in {"build"}
      BY <1>7 DEF ToolEnds, IInv, Progress, ProgressOf
    <3>3. e < c => ~(Last(e)')
      <4>1. pc'[c] \notin {"idle", "refused"}
        BY <1>0, <3>2, <1>7 DEF ToolEnds, TypeOK
      <4>2. e < c => c \in (e + 1)..Compiles
        BY DEF Ids
      <4> QED
        BY <4>1, <4>2 DEF Last
    <3>4. c < e => pc'[e] # "failed"
      BY <1>0, <2>2, <3>2, <1>7 DEF ToolEnds, TypeOK, Sequential, CompileEnded
    <3> QED
      BY <3>1, <3>3, <3>4
  <2> QED
    BY <2>1, <2>2
<1>8. ASSUME NEW c \in Ids, ToolFails(c) PROVE (Last(e) /\ pc[e] = "failed" => exe = (IF hadExe[e] THEN "refuse" ELSE "none"))'
  <2>1. CASE e = c
    <3>1. ProgressOf(c)
      BY DEF IInv, Progress
    <3> QED
      BY <1>0, <2>1, <3>1, <1>8 DEF ToolFails, TypeOK, ProgressOf
  <2>2. CASE e # c
    <3>1. e < c \/ c < e
      BY <2>2 DEF Ids
    <3>2. pc[c] \in {"build"}
      BY <1>8 DEF ToolFails, IInv, Progress, ProgressOf
    <3>3. e < c => ~(Last(e)')
      <4>1. pc'[c] \notin {"idle", "refused"}
        BY <1>0, <3>2, <1>8 DEF ToolFails, TypeOK
      <4>2. e < c => c \in (e + 1)..Compiles
        BY DEF Ids
      <4> QED
        BY <4>1, <4>2 DEF Last
    <3>4. c < e => pc'[e] # "failed"
      BY <1>0, <2>2, <3>2, <1>8 DEF ToolFails, TypeOK, Sequential, CompileEnded
    <3> QED
      BY <3>1, <3>3, <3>4
  <2> QED
    BY <2>1, <2>2
<1>9. ASSUME NEW c \in Ids, CompileError(c) PROVE (Last(e) /\ pc[e] = "failed" => exe = (IF hadExe[e] THEN "refuse" ELSE "none"))'
  <2>1. CASE e = c
    <3>1. ProgressOf(c)
      BY DEF IInv, Progress
    <3> QED
      BY <1>0, <2>1, <3>1, <1>9 DEF CompileError, TypeOK, ProgressOf
  <2>2. CASE e # c
    <3>1. e < c \/ c < e
      BY <2>2 DEF Ids
    <3>2. pc[c] \in {"build"}
      BY <1>9 DEF CompileError, IInv, Progress, ProgressOf
    <3>3. e < c => ~(Last(e)')
      <4>1. pc'[c] \notin {"idle", "refused"}
        BY <1>0, <3>2, <1>9 DEF CompileError, TypeOK
      <4>2. e < c => c \in (e + 1)..Compiles
        BY DEF Ids
      <4> QED
        BY <4>1, <4>2 DEF Last
    <3>4. c < e => pc'[e] # "failed"
      BY <1>0, <2>2, <3>2, <1>9 DEF CompileError, TypeOK, Sequential, CompileEnded
    <3> QED
      BY <3>1, <3>3, <3>4
  <2> QED
    BY <2>1, <2>2
<1>10. ASSUME NEW c \in Ids, Compiled(c) PROVE (Last(e) /\ pc[e] = "failed" => exe = (IF hadExe[e] THEN "refuse" ELSE "none"))'
  <2>1. CASE e = c
    <3>1. ProgressOf(c)
      BY DEF IInv, Progress
    <3> QED
      BY <1>0, <2>1, <3>1, <1>10 DEF Compiled, TypeOK, ProgressOf
  <2>2. CASE e # c
    <3>1. e < c \/ c < e
      BY <2>2 DEF Ids
    <3>2. pc[c] \in {"build"}
      BY <1>10 DEF Compiled, IInv, Progress, ProgressOf
    <3>3. e < c => ~(Last(e)')
      <4>1. pc'[c] \notin {"idle", "refused"}
        BY <1>0, <3>2, <1>10 DEF Compiled, TypeOK
      <4>2. e < c => c \in (e + 1)..Compiles
        BY DEF Ids
      <4> QED
        BY <4>1, <4>2 DEF Last
    <3>4. c < e => pc'[e] # "failed"
      BY <1>0, <2>2, <3>2, <1>10 DEF Compiled, TypeOK, Sequential, CompileEnded
    <3> QED
      BY <3>1, <3>3, <3>4
  <2> QED
    BY <2>1, <2>2
<1>11. ASSUME NEW c \in Ids, Cleanup(c) PROVE (Last(e) /\ pc[e] = "failed" => exe = (IF hadExe[e] THEN "refuse" ELSE "none"))'
  <2>1. CASE e = c
    <3>1. ProgressOf(c)
      BY DEF IInv, Progress
    <3> QED
      BY <1>0, <2>1, <3>1, <1>11 DEF Cleanup, TypeOK, ProgressOf
  <2>2. CASE e # c
    <3>1. e < c \/ c < e
      BY <2>2 DEF Ids
    <3>2. pc[c] \in {"cleanup"}
      BY <1>11 DEF Cleanup, IInv, Progress, ProgressOf
    <3>3. e < c => ~(Last(e)')
      <4>1. pc'[c] \notin {"idle", "refused"}
        BY <1>0, <3>2, <1>11 DEF Cleanup, TypeOK
      <4>2. e < c => c \in (e + 1)..Compiles
        BY DEF Ids
      <4> QED
        BY <4>1, <4>2 DEF Last
    <3>4. c < e => pc'[e] # "failed"
      BY <1>0, <2>2, <3>2, <1>11 DEF Cleanup, TypeOK, Sequential, CompileEnded
    <3> QED
      BY <3>1, <3>3, <3>4
  <2> QED
    BY <2>1, <2>2
<1>12. ASSUME NEW c \in Ids, Persist(c) PROVE (Last(e) /\ pc[e] = "failed" => exe = (IF hadExe[e] THEN "refuse" ELSE "none"))'
  <2>1. CASE e = c
    <3>1. ProgressOf(c)
      BY DEF IInv, Progress
    <3> QED
      BY <1>0, <2>1, <3>1, <1>12 DEF Persist, TypeOK, ProgressOf
  <2>2. CASE e # c
    <3>1. e < c \/ c < e
      BY <2>2 DEF Ids
    <3>2. pc[c] \in {"persist"}
      BY <1>12 DEF Persist, IInv, Progress, ProgressOf
    <3>3. e < c => ~(Last(e)')
      <4>1. pc'[c] \notin {"idle", "refused"}
        BY <1>0, <3>2, <1>12 DEF Persist, TypeOK
      <4>2. e < c => c \in (e + 1)..Compiles
        BY DEF Ids
      <4> QED
        BY <4>1, <4>2 DEF Last
    <3>4. c < e => pc'[e] # "failed"
      BY <1>0, <2>2, <3>2, <1>12 DEF Persist, TypeOK, Sequential, CompileEnded
    <3> QED
      BY <3>1, <3>3, <3>4
  <2> QED
    BY <2>1, <2>2
<1>13. ASSUME NEW c \in Ids, Link(c) PROVE (Last(e) /\ pc[e] = "failed" => exe = (IF hadExe[e] THEN "refuse" ELSE "none"))'
  <2>1. CASE e = c
    <3>1. ProgressOf(c)
      BY DEF IInv, Progress
    <3> QED
      BY <1>0, <2>1, <3>1, <1>13 DEF Link, TypeOK, ProgressOf
  <2>2. CASE e # c
    <3>1. e < c \/ c < e
      BY <2>2 DEF Ids
    <3>2. pc[c] \in {"link"}
      BY <1>13 DEF Link, IInv, Progress, ProgressOf
    <3>3. e < c => ~(Last(e)')
      <4>1. pc'[c] \notin {"idle", "refused"}
        BY <1>0, <3>2, <1>13 DEF Link, TypeOK
      <4>2. e < c => c \in (e + 1)..Compiles
        BY DEF Ids
      <4> QED
        BY <4>1, <4>2 DEF Last
    <3>4. c < e => pc'[e] # "failed"
      BY <1>0, <2>2, <3>2, <1>13 DEF Link, TypeOK, Sequential, CompileEnded
    <3> QED
      BY <3>1, <3>3, <3>4
  <2> QED
    BY <2>1, <2>2
<1>14. ASSUME NEW c \in Ids, Kill(c) PROVE (Last(e) /\ pc[e] = "failed" => exe = (IF hadExe[e] THEN "refuse" ELSE "none"))'
  <2>1. CASE e = c
    <3>1. ProgressOf(c)
      BY DEF IInv, Progress
    <3> QED
      BY <1>0, <2>1, <3>1, <1>14 DEF Kill, TypeOK, ProgressOf
  <2>2. CASE e # c
    <3>1. e < c \/ c < e
      BY <2>2 DEF Ids
    <3>2. pc[c] \in {"refuse", "unrecord", "unreport", "build", "cleanup", "persist", "link"}
      BY <1>0, <1>14 DEF Kill, TypeOK
    <3>3. e < c => ~(Last(e)')
      <4>1. pc'[c] \notin {"idle", "refused"}
        BY <1>0, <3>2, <1>14 DEF Kill, TypeOK
      <4>2. e < c => c \in (e + 1)..Compiles
        BY DEF Ids
      <4> QED
        BY <4>1, <4>2 DEF Last
    <3>4. c < e => pc'[e] # "failed"
      BY <1>0, <2>2, <3>2, <1>14 DEF Kill, TypeOK, Sequential, CompileEnded
    <3> QED
      BY <3>1, <3>3, <3>4
  <2> QED
    BY <2>1, <2>2
<1>15. ASSUME NEW s \in Simvs, SimvStarts(s) PROVE (Last(e) /\ pc[e] = "failed" => exe = (IF hadExe[e] THEN "refuse" ELSE "none"))'
  <2>1. UNCHANGED <<files, compile>>
    BY <1>15 DEF SimvStarts
  <2> QED
    BY <1>0, <2>1 DEF Last
<1>16. ASSUME NEW s \in Simvs, DaidirStarts(s) PROVE (Last(e) /\ pc[e] = "failed" => exe = (IF hadExe[e] THEN "refuse" ELSE "none"))'
  <2>1. UNCHANGED <<files, compile>>
    BY <1>16 DEF DaidirStarts
  <2> QED
    BY <1>0, <2>1 DEF Last
<1>17. ASSUME NEW s \in Simvs, ReadJob(s) PROVE (Last(e) /\ pc[e] = "failed" => exe = (IF hadExe[e] THEN "refuse" ELSE "none"))'
  <2>1. UNCHANGED <<files, compile>>
    BY <1>17 DEF ReadJob
  <2> QED
    BY <1>0, <2>1 DEF Last
<1>18. ASSUME NEW s \in Simvs, ReadPart(s) PROVE (Last(e) /\ pc[e] = "failed" => exe = (IF hadExe[e] THEN "refuse" ELSE "none"))'
  <2>1. UNCHANGED <<files, compile>>
    BY <1>18 DEF ReadPart
  <2> QED
    BY <1>0, <2>1 DEF Last
<1>19. ASSUME NEW s \in Simvs, SimvEnds(s) PROVE (Last(e) /\ pc[e] = "failed" => exe = (IF hadExe[e] THEN "refuse" ELSE "none"))'
  <2>1. UNCHANGED <<files, compile>>
    BY <1>19 DEF SimvEnds
  <2> QED
    BY <1>0, <2>1 DEF Last
<1>20. CASE UNCHANGED vars
  BY <1>0, <1>20 DEF vars, Last
<1> QED
  BY <1>1, <1>2, <1>3, <1>4, <1>5, <1>6, <1>7, <1>8, <1>9, <1>10,
     <1>11, <1>12, <1>13, <1>14, <1>15, <1>16, <1>17, <1>18, <1>19, <1>20
  DEF Next, CompileStep, SimvStep

\* The first states satisfy the invariant.
LEMMA InitIInv == Init => IInv
<1> SUFFICES ASSUME Init PROVE IInv
  OBVIOUS
<1>1. TypeOK
  BY InitType
<1>2. Sequential
  BY DEF Init, Sequential
<1>3. Progress
  BY DEF Init, Progress, ProgressOf, Touching
<1>4. Reads
  BY DEF Init, Reads, ReadsOf
<1>5. NeverHalfRunnable /\ ReportOfRecord
  BY DEF Init, NeverHalfRunnable, ReportOfRecord
<1>6. SuccessRuns /\ FailureRefuses
  BY DEF Init, SuccessRuns, FailureRefuses, Last
<1>7. MixedNeedsRebuild
  BY DEF Init, MixedNeedsRebuild
<1> QED
  BY <1>1, <1>2, <1>3, <1>4, <1>5, <1>6, <1>7 DEF IInv, Safe

\* Every step keeps the invariant.
LEMMA IInvStep == GroupKill = TRUE /\ IInv /\ [Next]_vars => IInv'
<1> SUFFICES ASSUME GroupKill = TRUE, IInv, [Next]_vars PROVE IInv'
  OBVIOUS
<1>1. ToolPlace
  BY DEF IInv, Progress, ProgressOf, ToolPlace
<1>2. TypeOK'
  BY <1>1, TypeStep DEF IInv
<1>3. Sequential' /\ Progress' /\ Reads'
  BY SequentialStep, ProgressStep, ReadsStep
<1>4. Safe'
  BY HalfStep, SuccessStep, FailureStep, MixedStep, ReportStep DEF Safe
<1> QED
  BY <1>2, <1>3, <1>4 DEF IInv

\* The inductive invariant, when what ends vcs ends its tool.
LEMMA Invariance ==
    ASSUME GroupKill = TRUE
    PROVE  Spec => []IInv
<1>1. IInv /\ [Next]_vars => IInv'
  BY IInvStep
<1> QED
  BY InitIInv, <1>1, PTL DEF Spec

\* A compile that fails or is killed with its tool never leaves a half-rebuilt
\* daidir runnable: the claim of vcs.py's invalidate.
THEOREM HalfNeverRuns ==
    ASSUME GroupKill = TRUE
    PROVE  Spec => []NeverHalfRunnable
<1>1. IInv => NeverHalfRunnable
  BY DEF IInv, Safe
<1> QED
  BY Invariance, <1>1, PTL

\* A compile that succeeded can be run until the next one starts, whatever
\* failed or was killed before it.
THEOREM SuccessCanRun ==
    ASSUME GroupKill = TRUE
    PROVE  Spec => []SuccessRuns
<1>1. IInv => SuccessRuns
  BY DEF IInv, Safe
<1> QED
  BY Invariance, <1>1, PTL

\* main's cleanup after a BackendError: a failed compile leaves no ./simv, or
\* one that refuses to run.
THEOREM FailureCannotRun ==
    ASSUME GroupKill = TRUE
    PROVE  Spec => []FailureRefuses
<1>1. IInv => FailureRefuses
  BY DEF IInv, Safe
<1> QED
  BY Invariance, <1>1, PTL

\* A run of run_daidir that no compile has started under simulates exactly the
\* compile whose job record it read.
THEOREM RunsAreWhole ==
    ASSUME GroupKill = TRUE
    PROVE  Spec => []MixedNeedsRebuild
<1>1. IInv => MixedNeedsRebuild
  BY DEF IInv, Safe
<1> QED
  BY Invariance, <1>1, PTL

\* The AMS report beside a design that can be run is that design's own.
THEOREM ReportMatches ==
    ASSUME GroupKill = TRUE
    PROVE  Spec => []ReportOfRecord
<1>1. IInv => ReportOfRecord
  BY DEF IInv, Safe
<1> QED
  BY Invariance, <1>1, PTL
=============================================================================
