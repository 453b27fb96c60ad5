-------------------------- MODULE AhdlCacheProofs --------------------------
(***************************************************************************)
(* For any number of runs, sources and texts: AhdlCache implements         *)
(* OsdiStore, no ended run leaves anything behind, and a target holds      *)
(* another text than its name stands for only after an edit in the window. *)
(***************************************************************************)
EXTENDS AhdlCache, TLAPS

USE CacheAssumption

\* Where the run is fixes how much of nl.hdl is behind it, and whether its
\* openvaf-r can be running.
PlacesOf(r) ==
    /\ Len(out[r]) =< Len(Hdl[r])
    /\ pc[r] \in AtSource => Len(out[r]) < Len(Hdl[r]) /\ hashed[r] \in Texts
    /\ openvaf[r] = "running" => /\ pc[r] \in {"wait", "killed"}
                                 /\ Len(out[r]) < Len(Hdl[r]) /\ hashed[r] \in Texts
Places == \A r \in Runs : PlacesOf(r)

\* The .part file: whole once openvaf-r has ended well, there only while
\* compile_one is at work or its vamos was killed, whole before the rename.
PartsOf(r) ==
    /\ openvaf[r] = "ok" => part[r] # Torn
    /\ part[r] # None => pc[r] \in {"wait", "check", "replace", "raised", "killed"}
    /\ part[r] # None => Len(out[r]) < Len(Hdl[r])
    /\ openvaf[r] = "running" /\ part[r] # None => read[r] # None
    /\ pc[r] = "replace" => part[r] \in Texts
Parts == \A r \in Runs : PartsOf(r)

\* The targets: never torn, and those in out are there.
Targets == /\ \A k \in Keys : osdi[k] # Torn
           /\ \A r \in Runs : \A i \in 1..Len(out[r]) : osdi[out[r][i]] # None

IInv == TypeOK /\ Places /\ Parts /\ Targets

\* The source a run is at, and its target.
LEMMA SrcFacts ==
    ASSUME TypeOK, Places, NEW r \in Runs, Len(out[r]) < Len(Hdl[r])
    PROVE  Src(r) \in Files
  BY DEF TypeOK, Src

\* The name a run computed is one of the cache's.
LEMMA TargetFacts ==
    ASSUME TypeOK, Places, NEW r \in Runs, pc[r] \in AtSource
    PROVE  Target(r) \in Keys
  <1>1. Len(out[r]) < Len(Hdl[r]) /\ hashed[r] \in Texts
    BY DEF Places, PlacesOf
  <1> QED
    BY <1>1, SrcFacts DEF Target, Keys

\* Appending a target to out: the old ones keep their places.
LEMMA AppendFacts ==
    ASSUME NEW S, NEW s \in Seq(S), NEW e \in S
    PROVE  /\ Append(s, e) \in Seq(S)
           /\ Len(Append(s, e)) = Len(s) + 1
           /\ Len(s) \in Nat
           /\ \A i \in 1..Len(s) : Append(s, e)[i] = s[i]
           /\ Append(s, e)[Len(s) + 1] = e
  OBVIOUS

\* The empty cache satisfies the invariant.
LEMMA InitIInv == Init => IInv
<1> SUFFICES ASSUME Init PROVE IInv
  OBVIOUS
<1>1. TypeOK
  BY DEF Init, TypeOK, AtSource, Ended
<1>2. Places
  <2> SUFFICES ASSUME NEW r \in Runs PROVE /\ Len(out[r]) =< Len(Hdl[r])
                                           /\ pc[r] \notin AtSource
                                           /\ openvaf[r] # "running"
    BY DEF Places, PlacesOf
  <2>1. Hdl[r] \in Seq(Files) /\ Len(Hdl[r]) \in Nat
    OBVIOUS
  <2>2. out[r] = <<>> /\ Len(<<>>) = 0
    BY DEF Init
  <2> QED
    BY <2>1, <2>2 DEF Init, AtSource
<1>3. Parts
  BY DEF Init, Parts, PartsOf
<1>4. Targets
  BY DEF Init, Targets
<1> QED
  BY <1>1, <1>2, <1>3, <1>4 DEF IInv

\* Every step keeps the types.
LEMMA TypeStep == TypeOK /\ Places /\ Parts /\ [Next]_vars => TypeOK'
<1> SUFFICES ASSUME TypeOK, Places, Parts, [Next]_vars PROVE TypeOK'
  OBVIOUS
<1> USE DEF Goto, disk, child, history
<1>1. ASSUME NEW r \in Runs, Setup(r) PROVE TypeOK'
  BY <1>1 DEF TypeOK, Setup, Ended, AtSource
<1>2. ASSUME NEW r \in Runs, OsdiPath(r) PROVE TypeOK'
  <2>1. Src(r) \in Files
    BY <1>2, SrcFacts DEF OsdiPath
  <2> QED
    BY <1>2, <2>1 DEF TypeOK, OsdiPath, Ended, AtSource
<1>3. ASSUME NEW r \in Runs, PathsDone(r) PROVE TypeOK'
  BY <1>3 DEF TypeOK, PathsDone, Ended, AtSource
<1>4. ASSUME NEW r \in Runs, IsFile(r) PROVE TypeOK'
  <2>1. Target(r) \in Keys
    BY <1>4, TargetFacts DEF IsFile, AtSource
  <2>2. out' \in [Runs -> Seq(Keys)]
    <3>1. Append(out[r], Target(r)) \in Seq(Keys)
      BY <2>1, AppendFacts DEF TypeOK
    <3> QED
      BY <1>4, <3>1 DEF TypeOK, IsFile
  <2> QED
    BY <1>4, <2>2 DEF TypeOK, IsFile, Ended, AtSource
<1>5. ASSUME NEW r \in Runs, Spawn(r) PROVE TypeOK'
  BY <1>5 DEF TypeOK, Spawn, Ended, AtSource
<1>6. ASSUME NEW r \in Runs, Communicate(r) PROVE TypeOK'
  BY <1>6 DEF TypeOK, Communicate, Ended, AtSource
<1>7. ASSUME NEW r \in Runs, Check(r) PROVE TypeOK'
  BY <1>7 DEF TypeOK, Check, Ended, AtSource
<1>8. ASSUME NEW r \in Runs, Replace(r) PROVE TypeOK'
  <2>1. Target(r) \in Keys
    BY <1>8, TargetFacts DEF Replace, AtSource
  <2>2. out' \in [Runs -> Seq(Keys)]
    BY <1>8, <2>1, AppendFacts DEF TypeOK, Replace
  <2>3. osdi' \in [Keys -> Texts \cup {None, Torn}]
    BY <1>8, <2>1 DEF TypeOK, Replace
  <2> QED
    BY <1>8, <2>2, <2>3 DEF TypeOK, Replace, Ended, AtSource
<1>9. ASSUME NEW r \in Runs, Load(r) PROVE TypeOK'
  BY <1>9 DEF TypeOK, Load, Ended, AtSource
<1>14. ASSUME NEW r \in Runs, ReplaceRaises(r) PROVE TypeOK'
  BY <1>14 DEF TypeOK, ReplaceRaises, Ended, AtSource
<1>10. ASSUME NEW r \in Runs, Openvaf(r) PROVE TypeOK'
  <2>1. Src(r) \in Files
    BY <1>10, SrcFacts DEF Openvaf, OpenvafReads, OpenvafWrites, OpenvafEnds, Places, PlacesOf
  <2>2. CASE OpenvafReads(r)
    BY <2>1, <2>2 DEF TypeOK, OpenvafReads
  <2>3. CASE OpenvafWrites(r)
    BY <2>3 DEF TypeOK, OpenvafWrites
  <2>4. CASE OpenvafEnds(r)
    <3>1. part[r] = Torn => read[r] \in Texts
      BY <2>4 DEF OpenvafEnds, Parts, PartsOf, TypeOK
    <3>2. part' \in [Runs -> Texts \cup {None, Torn}]
      BY <2>4, <3>1 DEF OpenvafEnds, TypeOK
    <3> QED
      BY <2>4, <3>2 DEF TypeOK, OpenvafEnds
  <2> QED
    BY <1>10, <2>2, <2>3, <2>4 DEF Openvaf
<1>11. ASSUME NEW r \in Runs, Signal(r) \/ Kill(r) PROVE TypeOK'
  <2>1. CASE Signal(r)
    <3>1. signals[r] \in 0..2 /\ signals[r] < 2
      BY <2>1 DEF TypeOK, Signal
    <3>2. signals' \in [Runs -> 0..2]
      BY <2>1, <3>1 DEF TypeOK, Signal
    <3> QED
      BY <2>1, <3>2 DEF TypeOK, Signal
  <2>2. CASE Kill(r)
    BY <2>2 DEF TypeOK, Kill, Ended
  <2> QED
    BY <1>11, <2>1, <2>2
<1>12. ASSUME NEW f \in Files, Edit(f) PROVE TypeOK'
  <2>1. PICK t \in Texts : text' = [text EXCEPT ![f] = t]
    BY <1>12 DEF Edit
  <2>2. edits' \in 0..MaxEdits /\ raced' \in SUBSET Files
    BY <1>12 DEF TypeOK, Edit
  <2> QED
    BY <1>12, <2>1, <2>2 DEF TypeOK, Edit
<1>13. CASE UNCHANGED vars
  BY <1>13 DEF TypeOK, vars
<1> QED
  BY <1>1, <1>2, <1>3, <1>4, <1>5, <1>6, <1>7, <1>8, <1>9, <1>10, <1>11, <1>12, <1>13, <1>14 DEF Next, Step

\* A run at a source has hashed it, and has a path for each one before it.
LEMMA PlacesStep == TypeOK /\ Places /\ [Next]_vars => Places'
<1> SUFFICES ASSUME TypeOK, Places, [Next]_vars, NEW q \in Runs PROVE PlacesOf(q)'
  BY DEF Places
<1>0. PlacesOf(q) /\ TypeOK
  BY DEF Places
<1> USE DEF Goto, disk, child, history
<1>1. ASSUME NEW r \in Runs, Setup(r) PROVE PlacesOf(q)'
  BY <1>0, <1>1 DEF TypeOK, Setup, PlacesOf, AtSource, Ended
<1>2. ASSUME NEW r \in Runs, OsdiPath(r) PROVE PlacesOf(q)'
  <2>1. Src(r) \in Files
    BY <1>2, SrcFacts DEF OsdiPath
  <2> QED
    BY <1>0, <1>2, <2>1 DEF TypeOK, OsdiPath, PlacesOf, AtSource, Ended
<1>3. ASSUME NEW r \in Runs, PathsDone(r) PROVE PlacesOf(q)'
  BY <1>0, <1>3 DEF TypeOK, PathsDone, PlacesOf, AtSource, Ended
<1>4. ASSUME NEW r \in Runs, IsFile(r) PROVE PlacesOf(q)'
  <2>1. Target(r) \in Keys
    BY <1>4, TargetFacts DEF IsFile, AtSource
  <2>2. /\ Append(out[r], Target(r)) \in Seq(Keys)
        /\ Len(Append(out[r], Target(r))) = Len(out[r]) + 1
        /\ Len(out[r]) \in Nat /\ Len(Hdl[r]) \in Nat
    BY <2>1, AppendFacts DEF TypeOK
  <2>3. Len(out[r]) < Len(Hdl[r])
    BY <1>4 DEF IsFile, Places, PlacesOf, AtSource
  <2> QED
    BY <1>0, <1>4, <2>2, <2>3 DEF TypeOK, IsFile, PlacesOf, AtSource, Ended
<1>5. ASSUME NEW r \in Runs, Spawn(r) PROVE PlacesOf(q)'
  BY <1>0, <1>5 DEF TypeOK, Spawn, PlacesOf, AtSource, Ended
<1>6. ASSUME NEW r \in Runs, Communicate(r) PROVE PlacesOf(q)'
  BY <1>0, <1>6 DEF TypeOK, Communicate, PlacesOf, AtSource, Ended
<1>7. ASSUME NEW r \in Runs, Check(r) PROVE PlacesOf(q)'
  BY <1>0, <1>7 DEF TypeOK, Check, PlacesOf, AtSource, Ended
<1>8. ASSUME NEW r \in Runs, Replace(r) PROVE PlacesOf(q)'
  <2>1. Target(r) \in Keys
    BY <1>8, TargetFacts DEF Replace, AtSource
  <2>2. /\ Append(out[r], Target(r)) \in Seq(Keys)
        /\ Len(Append(out[r], Target(r))) = Len(out[r]) + 1
        /\ Len(out[r]) \in Nat /\ Len(Hdl[r]) \in Nat
    BY <2>1, AppendFacts DEF TypeOK
  <2>3. Len(out[r]) < Len(Hdl[r])
    BY <1>8 DEF Replace, Places, PlacesOf, AtSource
  <2> QED
    BY <1>0, <1>8, <2>2, <2>3 DEF TypeOK, Replace, PlacesOf, AtSource, Ended
<1>9. ASSUME NEW r \in Runs, Load(r) PROVE PlacesOf(q)'
  BY <1>0, <1>9 DEF TypeOK, Load, PlacesOf, AtSource, Ended
<1>16. ASSUME NEW r \in Runs, ReplaceRaises(r) PROVE PlacesOf(q)'
  BY <1>0, <1>16 DEF TypeOK, ReplaceRaises, PlacesOf, AtSource, Ended
<1>10. ASSUME NEW r \in Runs, OpenvafReads(r) PROVE PlacesOf(q)'
  BY <1>0, <1>10 DEF TypeOK, OpenvafReads, PlacesOf, AtSource, Ended
<1>11. ASSUME NEW r \in Runs, OpenvafWrites(r) PROVE PlacesOf(q)'
  BY <1>0, <1>11 DEF TypeOK, OpenvafWrites, PlacesOf, AtSource, Ended
<1>12. ASSUME NEW r \in Runs, OpenvafEnds(r) PROVE PlacesOf(q)'
  BY <1>0, <1>12 DEF TypeOK, OpenvafEnds, PlacesOf, AtSource, Ended
<1>13. ASSUME NEW r \in Runs, Signal(r) PROVE PlacesOf(q)'
  BY <1>0, <1>13 DEF TypeOK, Signal, PlacesOf, AtSource, Ended
<1>14. ASSUME NEW r \in Runs, Kill(r) PROVE PlacesOf(q)'
  BY <1>0, <1>14 DEF TypeOK, Kill, PlacesOf, AtSource, Ended
<1>15. CASE (\E f \in Files : Edit(f)) \/ UNCHANGED vars
  BY <1>0, <1>15 DEF Edit, PlacesOf, vars
<1> QED
  BY <1>1, <1>2, <1>3, <1>4, <1>5, <1>6, <1>7, <1>8, <1>9, <1>10, <1>11, <1>12, <1>13, <1>14, <1>15, <1>16 DEF Next, Step, Openvaf

\* A part file belongs to the run that compiles into it.
LEMMA PartsStep == TypeOK /\ Places /\ Parts /\ [Next]_vars => Parts'
<1> SUFFICES ASSUME TypeOK, Places, Parts, [Next]_vars, NEW q \in Runs PROVE PartsOf(q)'
  BY DEF Parts
<1>0. PartsOf(q) /\ PlacesOf(q) /\ TypeOK
  BY DEF Parts, Places
<1> USE DEF Goto, disk, child, history
<1>1. ASSUME NEW r \in Runs, Setup(r) PROVE PartsOf(q)'
  BY <1>0, <1>1 DEF TypeOK, Setup, PartsOf, PlacesOf, AtSource, Ended
<1>2. ASSUME NEW r \in Runs, OsdiPath(r) PROVE PartsOf(q)'
  BY <1>0, <1>2 DEF TypeOK, OsdiPath, PartsOf, PlacesOf, AtSource, Ended
<1>3. ASSUME NEW r \in Runs, PathsDone(r) PROVE PartsOf(q)'
  BY <1>0, <1>3 DEF TypeOK, PathsDone, PartsOf, PlacesOf, AtSource, Ended
<1>4. ASSUME NEW r \in Runs, IsFile(r) PROVE PartsOf(q)'
  <2>1. Target(r) \in Keys
    BY <1>4, TargetFacts DEF IsFile, AtSource
  <2>2. /\ Append(out[r], Target(r)) \in Seq(Keys)
        /\ Len(Append(out[r], Target(r))) = Len(out[r]) + 1
        /\ Len(out[r]) \in Nat /\ Len(Hdl[r]) \in Nat
    BY <2>1, AppendFacts DEF TypeOK
  <2>3. Len(out[r]) < Len(Hdl[r])
    BY <1>4 DEF IsFile, Places, PlacesOf, AtSource
  <2> QED
    BY <1>0, <1>4, <2>2, <2>3 DEF TypeOK, IsFile, PartsOf, PlacesOf, AtSource, Ended
<1>5. ASSUME NEW r \in Runs, Spawn(r) PROVE PartsOf(q)'
  BY <1>0, <1>5 DEF TypeOK, Spawn, PartsOf, PlacesOf, AtSource, Ended
<1>6. ASSUME NEW r \in Runs, Communicate(r) PROVE PartsOf(q)'
  BY <1>0, <1>6 DEF TypeOK, Communicate, PartsOf, PlacesOf, AtSource, Ended
<1>7. ASSUME NEW r \in Runs, Check(r) PROVE PartsOf(q)'
  BY <1>0, <1>7 DEF TypeOK, Check, PartsOf, PlacesOf, AtSource, Ended
<1>8. ASSUME NEW r \in Runs, Replace(r) PROVE PartsOf(q)'
  <2>1. Target(r) \in Keys
    BY <1>8, TargetFacts DEF Replace, AtSource
  <2>2. /\ Append(out[r], Target(r)) \in Seq(Keys)
        /\ Len(Append(out[r], Target(r))) = Len(out[r]) + 1
        /\ Len(out[r]) \in Nat /\ Len(Hdl[r]) \in Nat
    BY <2>1, AppendFacts DEF TypeOK
  <2>3. Len(out[r]) < Len(Hdl[r])
    BY <1>8 DEF Replace, Places, PlacesOf, AtSource
  <2> QED
    BY <1>0, <1>8, <2>2, <2>3 DEF TypeOK, Replace, PartsOf, PlacesOf, AtSource, Ended
<1>9. ASSUME NEW r \in Runs, Load(r) PROVE PartsOf(q)'
  BY <1>0, <1>9 DEF TypeOK, Load, PartsOf, PlacesOf, AtSource, Ended
<1>16. ASSUME NEW r \in Runs, ReplaceRaises(r) PROVE PartsOf(q)'
  BY <1>0, <1>16 DEF TypeOK, ReplaceRaises, PartsOf, PlacesOf, AtSource, Ended
<1>10. ASSUME NEW r \in Runs, OpenvafReads(r) PROVE PartsOf(q)'
  BY <1>0, <1>10 DEF TypeOK, OpenvafReads, PartsOf, PlacesOf, AtSource, Ended
<1>11. ASSUME NEW r \in Runs, OpenvafWrites(r) PROVE PartsOf(q)'
  BY <1>0, <1>11 DEF TypeOK, OpenvafWrites, PartsOf, PlacesOf, AtSource, Ended
<1>12. ASSUME NEW r \in Runs, OpenvafEnds(r) PROVE PartsOf(q)'
  BY <1>0, <1>12 DEF TypeOK, OpenvafEnds, PartsOf, PlacesOf, AtSource, Ended
<1>13. ASSUME NEW r \in Runs, Signal(r) PROVE PartsOf(q)'
  BY <1>0, <1>13 DEF TypeOK, Signal, PartsOf, PlacesOf, AtSource, Ended
<1>14. ASSUME NEW r \in Runs, Kill(r) PROVE PartsOf(q)'
  BY <1>0, <1>14 DEF TypeOK, Kill, PartsOf, PlacesOf, AtSource, Ended
<1>15. CASE (\E f \in Files : Edit(f)) \/ UNCHANGED vars
  BY <1>0, <1>15 DEF Edit, PartsOf, vars
<1> QED
  BY <1>1, <1>2, <1>3, <1>4, <1>5, <1>6, <1>7, <1>8, <1>9, <1>10, <1>11, <1>12, <1>13, <1>14, <1>15, <1>16 DEF Next, Step, Openvaf

\* The targets keep their promise: only Replace writes one, and it is whole.
LEMMA TargetsStep == IInv /\ [Next]_vars => Targets'
<1> SUFFICES ASSUME IInv, [Next]_vars PROVE Targets'
  OBVIOUS
<1>0. TypeOK /\ Places /\ Parts /\ Targets
  BY DEF IInv
<1> USE DEF Goto, disk, child, history
<1>1. ASSUME NEW r \in Runs, Replace(r) PROVE Targets'
  <2>1. Target(r) \in Keys
    BY <1>0, <1>1, TargetFacts DEF Replace, AtSource
  <2>2. part[r] \in Texts
    BY <1>0, <1>1 DEF Replace, Parts, PartsOf
  <2>3. \A k \in Keys : osdi'[k] = IF k = Target(r) THEN part[r] ELSE osdi[k]
    BY <1>0, <1>1 DEF Replace, TypeOK
  <2>4. \A k \in Keys : osdi'[k] # Torn
    BY <1>0, <2>2, <2>3 DEF Targets
  <2>5. ASSUME NEW q \in Runs, NEW i \in 1..Len(out'[q]) PROVE osdi'[out'[q][i]] # None
    <3>1. out[q] \in Seq(Keys) /\ Len(out[q]) \in Nat
      BY <1>0 DEF TypeOK
    <3>2. CASE i \in 1..Len(out[q])
      <4>1. out'[q][i] = out[q][i]
        BY <1>0, <1>1, <2>1, <3>1, <3>2, AppendFacts DEF Replace, TypeOK
      <4>2. osdi[out[q][i]] # None /\ out[q][i] \in Keys
        BY <1>0, <3>1, <3>2 DEF Targets
      <4> QED
        BY <2>2, <2>3, <4>1, <4>2
    <3>3. CASE i \notin 1..Len(out[q])
      <4>1. q = r
        BY <1>0, <1>1, <3>3 DEF Replace, TypeOK
      <4>2. out'[q] = Append(out[r], Target(r))
        BY <1>0, <1>1, <4>1 DEF Replace, TypeOK
      <4>3. out'[q][i] = Target(r)
        BY <2>1, <3>1, <3>3, <4>1, <4>2, AppendFacts
      <4> QED
        BY <2>1, <2>2, <2>3, <4>3
    <3> QED
      BY <3>2, <3>3
  <2> QED
    BY <2>4, <2>5 DEF Targets
<1>2. ASSUME NEW r \in Runs, IsFile(r) PROVE Targets'
  <2>1. Target(r) \in Keys
    BY <1>0, <1>2, TargetFacts DEF IsFile, AtSource
  <2>2. ASSUME NEW q \in Runs, NEW i \in 1..Len(out'[q]) PROVE osdi[out'[q][i]] # None
    <3>1. out[q] \in Seq(Keys) /\ Len(out[q]) \in Nat
      BY <1>0 DEF TypeOK
    <3>2. CASE i \in 1..Len(out[q])
      <4>1. out'[q][i] = out[q][i]
        <5>1. out'[q] = out[q] \/ (q = r /\ out'[q] = Append(out[r], Target(r)))
          BY <1>0, <1>2 DEF IsFile, TypeOK
        <5>2. q = r => Append(out[r], Target(r))[i] = out[r][i]
          BY <2>1, <3>1, <3>2, AppendFacts
        <5> QED
          BY <5>1, <5>2
      <4> QED
        BY <1>0, <3>2, <4>1 DEF Targets
    <3>3. CASE i \notin 1..Len(out[q])
      <4>1. q = r /\ osdi[Target(r)] # None
        BY <1>0, <1>2, <3>3 DEF IsFile, TypeOK
      <4>2. out'[q] = Append(out[r], Target(r))
        BY <1>0, <1>2, <4>1 DEF IsFile, TypeOK
      <4>3. out'[q][i] = Target(r)
        BY <2>1, <3>1, <3>3, <4>1, <4>2, AppendFacts
      <4> QED
        BY <4>1, <4>3
    <3> QED
      BY <3>2, <3>3
  <2> QED
    BY <1>0, <1>2, <2>2 DEF Targets, IsFile
<1>3. CASE UNCHANGED <<osdi, out>>
  BY <1>0, <1>3 DEF Targets
<1>4. ASSUME NEW r \in Runs, Step(r), ~Replace(r), ~IsFile(r) PROVE UNCHANGED <<osdi, out>>
  BY <1>4 DEF Step, Setup, OsdiPath, PathsDone, Spawn, Communicate, Check, ReplaceRaises, Load
<1>5. ASSUME NEW r \in Runs, Openvaf(r) \/ Signal(r) \/ Kill(r) PROVE UNCHANGED <<osdi, out>>
  BY <1>5 DEF Openvaf, OpenvafReads, OpenvafWrites, OpenvafEnds, Signal, Kill
<1>6. CASE (\E f \in Files : Edit(f)) \/ UNCHANGED vars
  BY <1>3, <1>6 DEF Edit, vars
<1> QED
  BY <1>1, <1>2, <1>3, <1>4, <1>5, <1>6 DEF Next

\* The invariant is inductive.
THEOREM Invariance == Spec => []IInv
<1>1. IInv /\ [Next]_vars => IInv'
  BY TypeStep, PlacesStep, PartsStep, TargetsStep DEF IInv
<1> QED
  BY InitIInv, <1>1, PTL DEF Spec

\* The type invariant, for any number of runs, sources and texts.
THEOREM TypeCorrect == Spec => []TypeOK
<1>1. IInv => TypeOK
  BY DEF IInv
<1> QED
  BY Invariance, <1>1, PTL

\* However a run ends, SIGKILL apart, it leaves no openvaf-r behind, and no
\* .part file unless an exception ended compile_one.
THEOREM NothingIsLeft == Spec => []NothingLeft
<1>1. IInv => NothingLeft
  BY DEF IInv, NothingLeft, Places, PlacesOf, Parts, PartsOf, Ended
<1> QED
  BY Invariance, <1>1, PTL

-----------------------------------------------------------------------------
(***************************************************************************)
(* The refinement: Replace is Publish, Load is Load, all else is invisible.*)
(***************************************************************************)
Loaded == [r \in Runs |-> IF pc[r] = "loaded" THEN Elems(out[r]) ELSE {}]

\* What compile_va returned, as a set of names.
LEMMA ElemsFacts ==
    ASSUME NEW s \in Seq(Keys)
    PROVE  /\ Elems(s) \in SUBSET Keys
           /\ \A k \in Elems(s) : \E i \in 1..Len(s) : k = s[i]
  BY DEF Elems

\* No module is published and none is loaded at the start.
LEMMA InitRefines == Init => Store!Init
  BY DEF Init, Store!Init

\* Each step publishes a whole module, loads published ones, or is not seen.
LEMMA StepRefines == IInv /\ [Next]_vars => [Store!Next]_<<osdi, Loaded>>
<1> SUFFICES ASSUME IInv, [Next]_vars PROVE Store!Next \/ UNCHANGED <<osdi, Loaded>>
  OBVIOUS
<1>0. TypeOK /\ Places /\ Parts /\ Targets
  BY DEF IInv
<1> USE DEF Goto, disk, child, history
<1>1. ASSUME NEW r \in Runs, Replace(r) PROVE Store!Next
  <2>1. Target(r) \in Keys
    BY <1>0, <1>1, TargetFacts DEF Replace, AtSource
  <2>2. part[r] \in Texts
    BY <1>0, <1>1 DEF Replace, Parts, PartsOf
  <2>3. ASSUME NEW q \in Runs, pc'[q] = "loaded" \/ pc[q] = "loaded"
        PROVE  pc'[q] = pc[q] /\ out'[q] = out[q]
    BY <1>0, <1>1, <2>3 DEF Replace, TypeOK
  <2>4. Loaded' = Loaded
    BY <2>3 DEF Loaded
  <2>5. Store!Publish(Target(r), part[r])
    BY <1>1, <2>4 DEF Store!Publish, Replace, Loaded
  <2> QED
    BY <2>1, <2>2, <2>5 DEF Store!Next
<1>2. ASSUME NEW r \in Runs, Load(r) PROVE Store!Next
  <2>1. /\ Elems(out[r]) \in SUBSET Keys
        /\ \A k \in Elems(out[r]) : \E i \in 1..Len(out[r]) : k = out[r][i]
    BY <1>0, ElemsFacts DEF TypeOK
  <2>2. \A k \in Elems(out[r]) : osdi[k] # None
    BY <1>0, <2>1 DEF Targets
  <2>3. out' = out /\ pc' = [pc EXCEPT ![r] = "loaded"]
    BY <1>2 DEF Load
  <2>4. \A q \in Runs : pc'[q] = IF q = r THEN "loaded" ELSE pc[q]
    BY <1>0, <2>3 DEF TypeOK
  <2>5. Loaded' = [Loaded EXCEPT ![r] = Elems(out[r])]
    BY <2>3, <2>4 DEF Loaded
  <2>6. PICK w \in SUBSET Keys : w = Elems(out[r])
    BY <2>1, Zenon
  <2>7. Store!Load(r, w)
    BY <1>2, <2>2, <2>5, <2>6 DEF Store!Load, Load, Loaded
  <2> QED
    BY <2>7 DEF Store!Next
<1>3. ASSUME UNCHANGED osdi,
             \A q \in Runs : /\ pc'[q] = "loaded" <=> pc[q] = "loaded"
                             /\ pc[q] = "loaded" => out'[q] = out[q]
      PROVE  UNCHANGED <<osdi, Loaded>>
  BY <1>3 DEF Loaded
<1>4. ASSUME NEW r \in Runs, Step(r), ~Replace(r), ~Load(r), NEW q \in Runs
      PROVE  /\ UNCHANGED osdi
             /\ pc'[q] = "loaded" <=> pc[q] = "loaded"
             /\ pc[q] = "loaded" => out'[q] = out[q]
  BY <1>0, <1>4 DEF TypeOK, Step, Setup, OsdiPath, PathsDone, IsFile, Spawn, Communicate, Check, ReplaceRaises
<1>5. ASSUME NEW r \in Runs, Openvaf(r) \/ Signal(r) \/ Kill(r), NEW q \in Runs
      PROVE  /\ UNCHANGED osdi
             /\ pc'[q] = "loaded" <=> pc[q] = "loaded"
             /\ pc[q] = "loaded" => out'[q] = out[q]
  BY <1>0, <1>5 DEF TypeOK, Openvaf, OpenvafReads, OpenvafWrites, OpenvafEnds, Signal, Kill, Ended
<1>6. CASE (\E f \in Files : Edit(f)) \/ UNCHANGED vars
  BY <1>3, <1>6 DEF Edit, vars
<1>7. ASSUME NEW r \in Runs, Step(r), ~Replace(r), ~Load(r) PROVE UNCHANGED <<osdi, Loaded>>
  BY <1>3, <1>4, <1>7
<1>8. ASSUME NEW r \in Runs, Openvaf(r) \/ Signal(r) \/ Kill(r) PROVE UNCHANGED <<osdi, Loaded>>
  BY <1>3, <1>5, <1>8
<1> QED
  BY <1>1, <1>2, <1>6, <1>7, <1>8 DEF Next

\* However many runs share the directory of compiled Verilog-A, and whichever
\* of them is stopped, killed or fails, the directory keeps OsdiStore's promise.
THEOREM Implements == Spec => ImplementsStore
<1>1. Init => Store!Init
  BY InitRefines
<1>2. IInv /\ [Next]_vars => [Store!Next]_<<osdi, Loaded>>
  BY StepRefines
<1> QED
  BY <1>1, <1>2, Invariance, PTL DEF Spec, ImplementsStore, Store!Spec, Loaded

-----------------------------------------------------------------------------
(***************************************************************************)
(* The texts: what a run has hashed is what its openvaf-r will read, reads *)
(* and writes, unless the source was edited in the window.                 *)
(***************************************************************************)
TextsOf(r) ==
    /\ pc[r] \in {"test", "spawn"} \/ (openvaf[r] = "running" /\ read[r] = None)
       => hashed[r] = text[Src(r)] \/ Src(r) \in raced
    /\ openvaf[r] = "running" /\ read[r] # None => read[r] = hashed[r] \/ Src(r) \in raced
    /\ part[r] \in Texts => part[r] = hashed[r] \/ Src(r) \in raced

SInv == /\ \A r \in Runs : TextsOf(r)
        /\ StaleNeedsRace

\* No edit has raced a compile at the start.
LEMMA InitSInv == Init => SInv
  BY DEF Init, SInv, TextsOf, StaleNeedsRace

\* A name gets another text's module only from an edit under openvaf-r.
LEMMA SInvStep == IInv /\ SInv /\ [Next]_vars => SInv'
<1> SUFFICES ASSUME IInv, SInv, [Next]_vars PROVE SInv'
  OBVIOUS
<1>0. TypeOK /\ Places /\ Parts
  BY DEF IInv
<1> USE DEF Goto, disk, child, history
<1>1. ASSUME NEW r \in Runs, Setup(r) PROVE SInv'
  <2>3. StaleNeedsRace'
    BY <1>1 DEF Setup, SInv, StaleNeedsRace
  <2>4. ASSUME NEW q \in Runs PROVE TextsOf(q)'
    BY <1>0, <1>1 DEF Setup, TextsOf, TypeOK, Places, PlacesOf, Parts, PartsOf, SInv, Src
  <2> QED
    BY <2>3, <2>4 DEF SInv
<1>2. ASSUME NEW r \in Runs, OsdiPath(r) PROVE SInv'
  <2>3. StaleNeedsRace'
    BY <1>2 DEF OsdiPath, SInv, StaleNeedsRace
  <2>4. ASSUME NEW q \in Runs PROVE TextsOf(q)'
    BY <1>0, <1>2 DEF OsdiPath, TextsOf, TypeOK, Places, PlacesOf, Parts, PartsOf, SInv, Src
  <2> QED
    BY <2>3, <2>4 DEF SInv
<1>3. ASSUME NEW r \in Runs, PathsDone(r) PROVE SInv'
  <2>3. StaleNeedsRace'
    BY <1>3 DEF PathsDone, SInv, StaleNeedsRace
  <2>4. ASSUME NEW q \in Runs PROVE TextsOf(q)'
    BY <1>0, <1>3 DEF PathsDone, TextsOf, TypeOK, Places, PlacesOf, Parts, PartsOf, SInv, Src
  <2> QED
    BY <2>3, <2>4 DEF SInv
<1>4. ASSUME NEW r \in Runs, IsFile(r) PROVE SInv'
  <2>3. StaleNeedsRace'
    BY <1>4 DEF IsFile, SInv, StaleNeedsRace
  <2>4. ASSUME NEW q \in Runs PROVE TextsOf(q)'
    <3>1. CASE q = r
      BY <1>0, <1>4, <3>1 DEF IsFile, TextsOf, TypeOK, Places, PlacesOf, Parts, PartsOf, SInv, Src
    <3>2. CASE q # r
      BY <1>0, <1>4, <3>2 DEF IsFile, TextsOf, TypeOK, SInv, Src
    <3> QED
      BY <3>1, <3>2
  <2> QED
    BY <2>3, <2>4 DEF SInv
<1>5. ASSUME NEW r \in Runs, Spawn(r) PROVE SInv'
  <2>3. StaleNeedsRace'
    BY <1>5 DEF Spawn, SInv, StaleNeedsRace
  <2>4. ASSUME NEW q \in Runs PROVE TextsOf(q)'
    BY <1>0, <1>5 DEF Spawn, TextsOf, TypeOK, Places, PlacesOf, Parts, PartsOf, SInv, Src
  <2> QED
    BY <2>3, <2>4 DEF SInv
<1>6. ASSUME NEW r \in Runs, Communicate(r) PROVE SInv'
  <2>3. StaleNeedsRace'
    BY <1>6 DEF Communicate, SInv, StaleNeedsRace
  <2>4. ASSUME NEW q \in Runs PROVE TextsOf(q)'
    BY <1>0, <1>6 DEF Communicate, TextsOf, TypeOK, Places, PlacesOf, Parts, PartsOf, SInv, Src
  <2> QED
    BY <2>3, <2>4 DEF SInv
<1>7. ASSUME NEW r \in Runs, Check(r) PROVE SInv'
  <2>3. StaleNeedsRace'
    BY <1>7 DEF Check, SInv, StaleNeedsRace
  <2>4. ASSUME NEW q \in Runs PROVE TextsOf(q)'
    BY <1>0, <1>7 DEF Check, TextsOf, TypeOK, Places, PlacesOf, Parts, PartsOf, SInv, Src
  <2> QED
    BY <2>3, <2>4 DEF SInv
<1>8. ASSUME NEW r \in Runs, Replace(r) PROVE SInv'
  <2>1. Target(r) \in Keys
    BY <1>0, <1>8, TargetFacts DEF Replace, AtSource
  <2>2. part[r] \in Texts /\ (part[r] = hashed[r] \/ Src(r) \in raced)
    BY <1>0, <1>8 DEF Replace, Parts, PartsOf, SInv, TextsOf
  <2>3. StaleNeedsRace'
    BY <1>0, <1>8, <2>1, <2>2 DEF Replace, SInv, StaleNeedsRace, TypeOK, Target
  <2>4. ASSUME NEW q \in Runs PROVE TextsOf(q)'
    <3>1. CASE q = r
      BY <1>0, <1>8, <3>1 DEF Replace, TextsOf, TypeOK, Places, PlacesOf
    <3>2. CASE q # r
      BY <1>0, <1>8, <3>2 DEF Replace, TextsOf, TypeOK, SInv, Src
    <3> QED
      BY <3>1, <3>2
  <2> QED
    BY <2>3, <2>4 DEF SInv
<1>9. ASSUME NEW r \in Runs, Load(r) PROVE SInv'
  <2>3. StaleNeedsRace'
    BY <1>9 DEF Load, SInv, StaleNeedsRace
  <2>4. ASSUME NEW q \in Runs PROVE TextsOf(q)'
    BY <1>0, <1>9 DEF Load, TextsOf, TypeOK, Places, PlacesOf, Parts, PartsOf, SInv, Src
  <2> QED
    BY <2>3, <2>4 DEF SInv
<1>10. ASSUME NEW r \in Runs, OpenvafReads(r) PROVE SInv'
  <2>3. StaleNeedsRace'
    BY <1>10 DEF OpenvafReads, SInv, StaleNeedsRace
  <2>4. ASSUME NEW q \in Runs PROVE TextsOf(q)'
    BY <1>0, <1>10 DEF OpenvafReads, TextsOf, TypeOK, Places, PlacesOf, Parts, PartsOf, SInv, Src
  <2> QED
    BY <2>3, <2>4 DEF SInv
<1>11. ASSUME NEW r \in Runs, OpenvafWrites(r) PROVE SInv'
  <2>3. StaleNeedsRace'
    BY <1>11 DEF OpenvafWrites, SInv, StaleNeedsRace
  <2>4. ASSUME NEW q \in Runs PROVE TextsOf(q)'
    BY <1>0, <1>11 DEF OpenvafWrites, TextsOf, TypeOK, Places, PlacesOf, Parts, PartsOf, SInv, Src
  <2> QED
    BY <2>3, <2>4 DEF SInv
<1>12. ASSUME NEW r \in Runs, OpenvafEnds(r) PROVE SInv'
  <2>3. StaleNeedsRace'
    BY <1>12 DEF OpenvafEnds, SInv, StaleNeedsRace
  <2>4. ASSUME NEW q \in Runs PROVE TextsOf(q)'
    BY <1>0, <1>12 DEF OpenvafEnds, TextsOf, TypeOK, Places, PlacesOf, Parts, PartsOf, SInv, Src
  <2> QED
    BY <2>3, <2>4 DEF SInv
<1>13. ASSUME NEW r \in Runs, Signal(r) PROVE SInv'
  <2>3. StaleNeedsRace'
    BY <1>13 DEF Signal, SInv, StaleNeedsRace
  <2>4. ASSUME NEW q \in Runs PROVE TextsOf(q)'
    BY <1>0, <1>13 DEF Signal, TextsOf, TypeOK, Places, PlacesOf, Parts, PartsOf, SInv, Src
  <2> QED
    BY <2>3, <2>4 DEF SInv
<1>14. ASSUME NEW r \in Runs, Kill(r) PROVE SInv'
  <2>3. StaleNeedsRace'
    BY <1>14 DEF Kill, SInv, StaleNeedsRace
  <2>4. ASSUME NEW q \in Runs PROVE TextsOf(q)'
    BY <1>0, <1>14 DEF Kill, TextsOf, TypeOK, Places, PlacesOf, Parts, PartsOf, SInv, Src
  <2> QED
    BY <2>3, <2>4 DEF SInv
<1>15. ASSUME NEW f \in Files, Edit(f) PROVE SInv'
  <2>1. StaleNeedsRace' /\ raced \subseteq raced'
    BY <1>15 DEF Edit, SInv, StaleNeedsRace
  <2>2. PICK t \in Texts : text' = [text EXCEPT ![f] = t]
    BY <1>15 DEF Edit
  <2>3. ASSUME NEW q \in Runs PROVE TextsOf(q)'
    <3>1. Src(q)' = Src(q) /\ TextsOf(q)
      BY <1>15 DEF Edit, Src, SInv
    <3>2. CASE Between(q, f)
      <4>1. Src(q) \in raced'
        BY <1>15, <3>2 DEF Edit, Between
      <4> QED
        BY <3>1, <4>1 DEF TextsOf
    <3>3. CASE ~Between(q, f)
      <4>1. CASE Src(q) = f
        BY <1>15, <2>1, <3>1, <3>3, <4>1 DEF Edit, Between, TextsOf
      <4>2. CASE Src(q) # f
        <5>1. text'[Src(q)] = text[Src(q)]
          BY <1>0, <2>2, <4>2 DEF TypeOK
        <5> QED
          BY <1>15, <2>1, <3>1, <5>1 DEF Edit, TextsOf
      <4> QED
        BY <4>1, <4>2
    <3> QED
      BY <3>2, <3>3
  <2> QED
    BY <2>1, <2>3 DEF SInv
<1>16. CASE UNCHANGED vars
  BY <1>16 DEF vars, SInv, TextsOf, StaleNeedsRace, Src
<1>17. ASSUME NEW r \in Runs, ReplaceRaises(r) PROVE SInv'
  <2>3. StaleNeedsRace'
    BY <1>17 DEF ReplaceRaises, SInv, StaleNeedsRace
  <2>4. ASSUME NEW q \in Runs PROVE TextsOf(q)'
    BY <1>0, <1>17 DEF ReplaceRaises, TextsOf, TypeOK, Places, PlacesOf, Parts, PartsOf, SInv, Src
  <2> QED
    BY <2>3, <2>4 DEF SInv
<1> QED
  BY <1>1, <1>2, <1>3, <1>4, <1>5, <1>6, <1>7, <1>8, <1>9, <1>10, <1>11, <1>12, <1>13, <1>14, <1>15, <1>16, <1>17 DEF Next, Step, Openvaf

\* A target that holds another text than its name stands for comes from an
\* edit between osdi_path's hash and openvaf-r's reading, and from nothing else.
THEOREM StaleOnlyByRace == Spec => []StaleNeedsRace
<1>1. SInv => StaleNeedsRace
  BY DEF SInv
<1> QED
  BY InitSInv, SInvStep, Invariance, <1>1, PTL DEF Spec
=============================================================================
