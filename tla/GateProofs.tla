------------------------------ MODULE GateProofs ------------------------------
(***************************************************************************)
(* Proofs about the gate, for any gates, repositories, commits and blocks, *)
(* any steps of coord-gate.sh and any baselines set by hand.               *)
(***************************************************************************)
EXTENDS Gate, TLAPS

\* A gate has a repository from its request to its end.
RepoKnown(g) == UnderWay(g) => Repo(g) \in Repos

\* A gate has resolved its ref before it checks it out, and until it ends.
ShaKnown(g) == UnderWay(g) /\ pc[g] # "resolve" => sha[g] \in Commits

\* A run is recorded by one gate, and its results come after it.
OwnRow(g) ==
    /\ pc[g] = "running" => own[g] # 0
    /\ pc[g] # "running" /\ pc[g] \notin Judged => on[g] = {}
    /\ \A h \in Gates : h # g /\ own[g] # 0 => own[h] # own[g]

JudgedOwn(g) ==
    pc[g] \in Judged /\ killed[g] = FALSE => runid[g] # 0 /\ runid[g] = own[g]

\* Two gates of one repository under way together are not alone.
Exclusive(g) ==
    \A h \in Gates :
        g # h /\ UnderWay(g) /\ UnderWay(h) /\ Repo(g) = Repo(h) => alone[g] = FALSE

Undisturbed(g) ==
    opts[g].build = TRUE /\ killed[g] = FALSE /\ ignored[g] = FALSE /\ alone[g] = TRUE

\* From the checkout to the push, the build area of an undisturbed gate holds
\* its candidate, and so do the results of its run.
Candidate(g) ==
    Undisturbed(g) =>
        /\ pc[g] \in {"build", "building"} => head[Repo(g)] = sha[g]
        /\ pc[g] = "building" => src[g] = sha[g]
        /\ pc[g] \in {"test", "running"} => built[Repo(g)] = sha[g]
        /\ pc[g] = "running" \/ pc[g] \in Judged => on[g] \subseteq {sha[g]}

\* What a gate pushed is still on the branch, unless that drifted.
PushedIsMain(g) ==
    Pushing(g) /\ Repo(g) \notin drift => main[Repo(g)] = sha[g]

\* Two gates of one repository between push and set_baseline: it drifts.
PushApart(g) ==
    \A h \in Gates :
        g # h /\ Pushing(g) /\ Pushing(h) /\ Repo(g) = Repo(h) => Repo(g) \in drift

BaselineOf(r) ==
    baseline[r].sha \notin {None, main[r]} =>
        r \in drift \/ \E g \in Gates : Repo(g) = r /\ Pushing(g)

\* The row of a baseline is not being written any more.
Frozen(g) ==
    pc[g] = "running" => \A r \in Repos : r \in early \/ baseline[r].run # own[g]

\* The comparison a gate found clean is still clean at its push.
StillClean(g) ==
    /\ killed[g] = FALSE /\ alone[g] = TRUE /\ Repo(g) \notin early
    /\ pc[g] \in {"push", "pushed", "setbase"}
    => Regressions(runid[g], baseline[Repo(g)].run) = {}

IInv ==
    /\ TypeOK
    /\ \A g \in Gates :
        /\ RepoKnown(g) /\ ShaKnown(g) /\ OwnRow(g) /\ JudgedOwn(g)
        /\ Exclusive(g) /\ Candidate(g) /\ PushedIsMain(g) /\ PushApart(g)
        /\ Frozen(g) /\ StillClean(g)
    /\ \A r \in Repos : BaselineOf(r)

-----------------------------------------------------------------------------
(* The table of runs. *)

\* start_run adds a row and changes none.
LEMMA RowAdded ==
    ASSUME GateAssumption, TypeOK, NEW row \in RunRows, runs' = Append(runs, row)
    PROVE  /\ Len(runs') = Len(runs) + 1
           /\ Len(runs) \in Nat
           /\ \A i \in 1 .. Len(runs) : runs'[i] = runs[i]
           /\ runs' \in Seq(RunRows)
<1>1. runs \in Seq(RunRows)
  BY DEF TypeOK
<1> QED
  BY <1>1

\* A new run has the type of a row.
LEMMA NewRunTyped == NewRun \in RunRows
BY DEF NewRun, RunRows, Outcomes

\* record_results changes one row.
LEMMA RowWritten ==
    ASSUME GateAssumption, TypeOK, NEW g \in Gates, OwnRow(g), BlockRuns(g)
    PROVE  /\ Len(runs') = Len(runs)
           /\ Len(runs) \in Nat
           /\ own[g] \in 1 .. Len(runs)
           /\ \A i \in 1 .. Len(runs) : i # own[g] => runs'[i] = runs[i]
           /\ runs' \in Seq(RunRows)
<1>1. own[g] \in 1 .. Len(runs) /\ Len(runs) \in Nat
  BY DEF OwnRow, BlockRuns, TypeOK, RunIds
<1>2. PICK b \in Blocks, r \in {"good", "bad"} :
        runs' = [runs EXCEPT ![own[g]][b] = r]
  BY DEF BlockRuns, TypeOK
<1>3. runs \in Seq(RunRows) /\ runs[own[g]] \in RunRows
  BY <1>1 DEF TypeOK
<1> DEFINE new == [runs[own[g]] EXCEPT ![b] = r]
<1>4. new \in RunRows
  BY <1>3 DEF RunRows, Outcomes
<1>5. runs' = [runs EXCEPT ![own[g]] = new]
  BY <1>1, <1>2, <1>3 DEF RunRows
<1> HIDE DEF new
<1> QED
  BY <1>1, <1>3, <1>4, <1>5

\* The end of a gate leaves every gate's variables with their types.
LEMMA EndTyped ==
    ASSUME GateAssumption, TypeOK, NEW g \in Gates, End(g), UNCHANGED runs
    PROVE  /\ pc' \in [Gates -> Places]
           /\ opts' \in [Gates -> [repo : Repos \cup {None}, build : BOOLEAN,
                                   filter : SUBSET Blocks]]
           /\ sha' \in [Gates -> Commits \cup {None}]
           /\ src' \in [Gates -> Commits \cup {None}]
           /\ own' \in [Gates -> RunIds']
           /\ on' \in [Gates -> SUBSET (Commits \cup {Torn})]
           /\ runid' \in [Gates -> RunIds']
           /\ alone' \in [Gates -> BOOLEAN]
           /\ killed' \in [Gates -> BOOLEAN]
           /\ ignored' \in [Gates -> BOOLEAN]
<1>1. /\ NoOptions \in [repo : Repos \cup {None}, build : BOOLEAN, filter : SUBSET Blocks]
      /\ RunIds' = RunIds
      /\ 0 \in RunIds
  BY DEF TypeOK, NoOptions, RunIds
<1>2. pc' \in [Gates -> Places]
  BY DEF TypeOK, End, Goto, Places
<1>3. opts' \in [Gates -> [repo : Repos \cup {None}, build : BOOLEAN,
                           filter : SUBSET Blocks]]
  BY <1>1 DEF TypeOK, End
<1>4. /\ sha' \in [Gates -> Commits \cup {None}]
      /\ src' \in [Gates -> Commits \cup {None}]
      /\ on' \in [Gates -> SUBSET (Commits \cup {Torn})]
  BY DEF TypeOK, End
<1>5. own' \in [Gates -> RunIds'] /\ runid' \in [Gates -> RunIds']
  BY <1>1 DEF TypeOK, End
<1>6. /\ alone' \in [Gates -> BOOLEAN]
      /\ killed' \in [Gates -> BOOLEAN]
      /\ ignored' \in [Gates -> BOOLEAN]
  BY DEF TypeOK, End
<1> QED
  BY <1>2, <1>3, <1>4, <1>5, <1>6

\* A step of others leaves the gates' own variables with their types.
LEMMA OutsideTyped ==
    ASSUME GateAssumption, TypeOK, NEW rs, Outside(rs)
    PROVE  alone' \in [Gates -> BOOLEAN] /\ outside' \in Nat
<1>1. \A g \in Gates :
        (IF UnderWay(g) /\ Repo(g) \in rs THEN FALSE ELSE alone[g]) \in BOOLEAN
  BY Zenon DEF TypeOK
<1>2. alone' = [g \in Gates |->
                  IF UnderWay(g) /\ Repo(g) \in rs THEN FALSE ELSE alone[g]]
  BY Zenon DEF Outside
<1>3. alone' \in [Gates -> BOOLEAN]
  BY <1>1, <1>2, Zenon
<1>4. outside' \in Nat
  BY DEF Outside, TypeOK
<1> QED
  BY <1>3, <1>4


\* TypeOK is kept (OwnRow: the row a block's results go into exists).
LEMMA TypeStep ==
    ASSUME GateAssumption, [Next]_vars,
           TypeOK,
           \A g \in Gates : OwnRow(g) /\ RepoKnown(g) /\ ShaKnown(g)
    PROVE  TypeOK'
<1> USE GateAssumption
<1>1. CASE UNCHANGED vars
  BY <1>1 DEF vars, gateVars, histVars, outVars, Repo, TypeOK, RunIds, Places,
     RepoKnown, ShaKnown, UnderWay
<1>2. ASSUME NEW g \in Gates, Step(g) PROVE TypeOK'
  <2>1. CASE Start(g)
    <3>1. PICK r \in Repos :
            /\ Asks(g, r, FALSE, {})
            /\ alone' = [h \in Gates |->
                          IF h = g THEN ~ \E k \in Gates : Meets(k, r)
                                   ELSE alone[h] /\ ~Meets(h, r)]
      BY <2>1 DEF Start
    <3>2. opts' \in [Gates -> [repo : Repos \cup {None}, build : BOOLEAN,
                               filter : SUBSET Blocks]]
      BY <3>1 DEF Asks, TypeOK
    <3>3. \A h \in Gates : (IF h = g THEN ~ \E k \in Gates : Meets(k, r)
                                   ELSE alone[h] /\ ~Meets(h, r)) \in BOOLEAN
      BY Zenon DEF TypeOK
    <3>4. alone' \in [Gates -> BOOLEAN]
      BY <3>1, <3>3, Zenon
    <3> QED
      BY <2>1, <3>2, <3>4 DEF Start, Goto, TypeOK, RunIds, Places, outVars
  <2>2. CASE Resolve(g)
    BY <2>2 DEF Resolve, Goto, Repo, histVars, outVars, TypeOK, RunIds, Places,
       RepoKnown, ShaKnown, UnderWay
  <2>3. CASE Checkout(g)
    <3>1. opts' \in [Gates -> [repo : Repos \cup {None}, build : BOOLEAN,
                               filter : SUBSET Blocks]]
      BY <2>3 DEF Checkout, ToBuild, Asks, Repo, TypeOK
    <3>2. pc' \in [Gates -> Places]
      BY <2>3 DEF Checkout, ToBuild, Goto, TypeOK, Places
    <3>3. Repo(g) \in Repos /\ sha[g] \in Commits
      BY <2>3 DEF Checkout, RepoKnown, ShaKnown, UnderWay
    <3>4. head' \in [Repos -> Commits]
      BY <2>3, <3>3 DEF Checkout, TypeOK
    <3> QED
      BY <2>3, <3>1, <3>2, <3>4 DEF Checkout, TypeOK, RunIds, histVars, outVars
  <2>4. CASE BuildStarts(g)
    BY <2>4 DEF BuildStarts, Goto, Repo, histVars, outVars, TypeOK, RunIds,
       Places, RepoKnown, ShaKnown, UnderWay
  <2>5. CASE BuildEnds(g)
    BY <2>5 DEF BuildEnds, Goto, Repo, histVars, outVars, TypeOK, RunIds,
       Places, RepoKnown, ShaKnown, UnderWay
  <2>6. CASE BuildIgnored(g)
    BY <2>6 DEF BuildIgnored, Goto, Repo, histVars, outVars, TypeOK, RunIds,
       Places, RepoKnown, ShaKnown, UnderWay
  <2>7. CASE RunStarts(g)
    <3>1. /\ Len(runs') = Len(runs) + 1 /\ Len(runs) \in Nat /\ runs' \in Seq(RunRows)
      BY <2>7, RowAdded, NewRunTyped DEF RunStarts
    <3>2. opts' \in [Gates -> [repo : Repos \cup {None}, build : BOOLEAN,
                               filter : SUBSET Blocks]]
      BY <2>7 DEF RunStarts, Asks, Repo, TypeOK
    <3>3. RunIds \subseteq RunIds' /\ Len(runs) + 1 \in RunIds'
      BY <3>1 DEF RunIds
    <3>4. own' \in [Gates -> RunIds'] /\ runid' \in [Gates -> RunIds']
      BY <2>7, <3>3 DEF RunStarts, TypeOK
    <3>5. baseline' \in [Repos -> [run : RunIds', sha : Commits \cup {None}]]
      BY <2>7, <3>3 DEF RunStarts, TypeOK
    <3>6. pc' \in [Gates -> Places]
      BY <2>7 DEF RunStarts, Goto, TypeOK, Places
    <3> QED
      BY <2>7, <3>1, <3>2, <3>4, <3>5, <3>6 DEF TypeOK, RunStarts, histVars, outVars
  <2>8. CASE NothingSelected(g)
    <3>1. End(g) /\ UNCHANGED <<head, built, main, runs, baseline, drift, early, outside>>
      BY <2>8 DEF NothingSelected, outVars
    <3> QED
      BY <3>1, EndTyped DEF TypeOK, RunIds
  <2>9. CASE BlockRuns(g)
    <3>1. /\ Len(runs') = Len(runs) /\ runs' \in Seq(RunRows)
      BY <2>9, RowWritten
    <3>2. on' \in [Gates -> SUBSET (Commits \cup {Torn})]
      <4>1. Repo(g) \in Repos
        BY <2>9 DEF BlockRuns, RepoKnown, UnderWay
      <4> QED
        BY <2>9, <4>1 DEF BlockRuns, TypeOK
    <3> QED
      BY <2>9, <3>1, <3>2 DEF TypeOK, RunIds, BlockRuns, histVars, outVars
  <2>10. CASE RunEnds(g)
    BY <2>10 DEF RunEnds, Goto, Takes, Repo, histVars, outVars, TypeOK, RunIds,
       Places, RepoKnown, ShaKnown, UnderWay
  <2>11. CASE RunDies(g)
    BY <2>11 DEF RunDies, Goto, Takes, Repo, histVars, outVars, TypeOK, RunIds,
       Places, RepoKnown, ShaKnown, UnderWay
  <2>12. CASE RunKilled(g)
    BY <2>12 DEF RunKilled, Goto, Takes, LatestRun, Repo, histVars, outVars,
       TypeOK, RunIds, Places, RepoKnown, ShaKnown, UnderWay
  <2>13. CASE Judge(g)
    BY <2>13 DEF Judge, Goto, Repo, histVars, outVars, TypeOK, RunIds, Places,
       RepoKnown, ShaKnown, UnderWay
  <2>14. CASE NotPushed(g)
    <3>1. End(g) /\ UNCHANGED <<head, built, main, runs, baseline, drift, early, outside>>
      BY <2>14 DEF NotPushed, outVars
    <3> QED
      BY <3>1, EndTyped DEF TypeOK, RunIds
  <2>15. CASE Push(g)
    BY <2>15 DEF Push, Goto, Repo, Pushing, histVars, outVars, TypeOK, RunIds,
       Places, RepoKnown, ShaKnown, UnderWay
  <2>16. CASE PushElsewhere(g)
    BY <2>16 DEF PushElsewhere, Goto, Drifts, Repo, histVars, outVars, TypeOK,
       RunIds, Places, RepoKnown, ShaKnown, UnderWay
  <2>17. CASE PushRefused(g)
    <3>1. End(g) /\ UNCHANGED <<head, built, main, runs, baseline, drift, early, outside>>
      BY <2>17 DEF PushRefused, outVars
    <3> QED
      BY <3>1, EndTyped DEF TypeOK, RunIds
  <2>18. CASE PushLost(g)
    <3>1. End(g) /\ UNCHANGED <<head, built, runs, baseline, early, outside>>
      BY <2>18 DEF PushLost
    <3>2. Repo(g) \in Repos /\ sha[g] \in Commits
      BY <2>18 DEF PushLost, RepoKnown, ShaKnown, UnderWay
    <3>3. drift' \subseteq Repos /\ main' \in [Repos -> Commits]
      BY <2>18, <3>2 DEF PushLost, Drifts, TypeOK
    <3> QED
      BY <3>1, <3>3, EndTyped DEF TypeOK, RunIds
  <2>19. CASE CheckoutMain(g)
    <3>1. head' \in [Repos -> Commits]
      BY <2>19 DEF CheckoutMain, TypeOK
    <3> QED
      BY <2>19, <3>1 DEF CheckoutMain, Goto, TypeOK, RunIds, Places, histVars, outVars
  <2>20. CASE SetBaseline(g)
    <3>1. End(g) /\ UNCHANGED <<head, built, main, runs, drift, outside>>
      BY <2>20 DEF SetBaseline
    <3>2. Repo(g) \in Repos
      BY <2>20 DEF SetBaseline, RepoKnown, UnderWay
    <3>3. /\ baseline' \in [Repos -> [run : RunIds, sha : Commits \cup {None}]]
          /\ early' \subseteq Repos
      BY <2>20, <3>2 DEF SetBaseline, Rebase, TypeOK
    <3> QED
      BY <3>1, <3>3, EndTyped DEF TypeOK, RunIds
  <2>21. CASE Fail(g)
    <3>1. End(g) /\ UNCHANGED <<head, built, main, runs, baseline, drift, early, outside>>
      BY <2>21 DEF Fail, outVars
    <3> QED
      BY <3>1, EndTyped DEF TypeOK, RunIds
  <2>22. CASE CheckoutKilled(g)
    <3>1. opts' \in [Gates -> [repo : Repos \cup {None}, build : BOOLEAN,
                               filter : SUBSET Blocks]]
      BY <2>22 DEF CheckoutKilled, ToBuild, Asks, Repo, TypeOK
    <3>2. pc' \in [Gates -> Places]
      BY <2>22 DEF CheckoutKilled, ToBuild, Goto, TypeOK, Places
    <3>3. Repo(g) \in Repos /\ sha[g] \in Commits
      BY <2>22 DEF CheckoutKilled, RepoKnown, ShaKnown, UnderWay
    <3>4. head' \in [Repos -> Commits]
      BY <2>22, <3>3 DEF CheckoutKilled, TypeOK
    <3> QED
      BY <2>22, <3>1, <3>2, <3>4 DEF CheckoutKilled, Killed, TypeOK, RunIds, histVars, outVars
  <2>23. CASE BuildKilled(g)
    BY <2>23 DEF BuildKilled, Killed, Goto, Repo, histVars, outVars, TypeOK,
       RunIds, Places, RepoKnown, ShaKnown, UnderWay
  <2>24. CASE PushKilled(g)
    BY <2>24 DEF PushKilled, Killed, Drifts, Goto, Repo, histVars, outVars,
       TypeOK, RunIds, Places, RepoKnown, ShaKnown, UnderWay
  <2>25. CASE GateDies(g)
    <3>1. End(g) /\ UNCHANGED <<head, built, main, runs, baseline, early, outside>>
      BY <2>25 DEF GateDies
    <3>2. drift' \subseteq Repos
      <4>1. Repo(g) \in Repos
        BY <2>25 DEF GateDies, RepoKnown
      <4> QED
        BY <2>25, <4>1 DEF GateDies, TypeOK
    <3> QED
      BY <3>1, <3>2, EndTyped DEF TypeOK, RunIds
  <2> QED
    BY <1>2, <2>1, <2>2, <2>3, <2>4, <2>5, <2>6, <2>7, <2>8, <2>9, <2>10,
       <2>11, <2>12, <2>13, <2>14, <2>15, <2>16, <2>17, <2>18, <2>19, <2>20,
       <2>21, <2>22, <2>23, <2>24, <2>25 DEF Step
<1>3. CASE CoordRun
  <2>1. PICK row \in [Blocks -> {"good", "bad"}] : runs' = Append(runs, row)
    BY <1>3 DEF CoordRun
  <2>2. row \in RunRows
    BY DEF RunRows, Outcomes
  <2>3. Len(runs') = Len(runs) + 1 /\ Len(runs) \in Nat /\ runs' \in Seq(RunRows)
    BY <2>1, <2>2, RowAdded
  <2>4. alone' \in [Gates -> BOOLEAN] /\ outside' \in Nat
    BY <1>3, OutsideTyped DEF CoordRun
  <2> QED
    BY <1>3, <2>3, <2>4 DEF CoordRun, Outside, TypeOK, RunIds
<1>4. ASSUME NEW p \in Repos, ByOthers(p) PROVE TypeOK'
  <2>1. CASE CoordCheckout(p)
    <3>1. alone' \in [Gates -> BOOLEAN] /\ outside' \in Nat
      BY <2>1, OutsideTyped DEF CoordCheckout
    <3>2. head' \in [Repos -> Commits]
      BY <2>1 DEF CoordCheckout, TypeOK
    <3> QED
      BY <2>1, <3>1, <3>2 DEF CoordCheckout, Outside, TypeOK, RunIds
  <2>2. CASE CoordPush(p)
    <3>1. alone' \in [Gates -> BOOLEAN] /\ outside' \in Nat
      BY <2>2, OutsideTyped DEF CoordPush
    <3> QED
      BY <2>2, <3>1 DEF CoordPush, Outside, Drifts, TypeOK, RunIds
  <2>3. CASE BaselineByHand(p)
    <3>1. alone' \in [Gates -> BOOLEAN] /\ outside' \in Nat
      BY <2>3, OutsideTyped DEF BaselineByHand
    <3>2. PICK n \in 1 .. Len(runs) : Rebase(p, n, None)
      BY <2>3 DEF BaselineByHand
    <3>3. [run |-> n, sha |-> None] \in [run : RunIds, sha : Commits \cup {None}]
      BY DEF RunIds
    <3>4. /\ baseline' \in [Repos -> [run : RunIds, sha : Commits \cup {None}]]
          /\ early' \subseteq Repos
      BY <3>2, <3>3 DEF Rebase, TypeOK
    <3> QED
      BY <2>3, <3>1, <3>4 DEF BaselineByHand, Outside, Drifts, TypeOK, RunIds
  <2> QED
    BY <1>4, <2>1, <2>2, <2>3 DEF ByOthers
<1> QED
  BY <1>1, <1>2, <1>3, <1>4 DEF Next

\* The repository of a gate stays the request's until it ends.
LEMMA RepoStep ==
    ASSUME GateAssumption, [Next]_vars,
           TypeOK,
           \A q \in Gates : RepoKnown(q)
    PROVE  \A q \in Gates : RepoKnown(q)'
<1> USE GateAssumption
<1> SUFFICES ASSUME NEW q \in Gates PROVE RepoKnown(q)'
  OBVIOUS
<1>1. CASE UNCHANGED vars
  BY <1>1 DEF vars, gateVars, histVars, outVars, Repo, TypeOK, RepoKnown,
     UnderWay
<1>2. ASSUME NEW g \in Gates, Step(g) PROVE RepoKnown(q)'
  <2>1. CASE Start(g)
    BY <2>1 DEF Start, Asks, Goto, Repo, Meets, UnderWay, histVars, outVars,
       TypeOK, RepoKnown
  <2>2. CASE Resolve(g)
    BY <2>2 DEF Resolve, Goto, Repo, histVars, outVars, TypeOK, RepoKnown,
       UnderWay
  <2>3. CASE Checkout(g)
    BY <2>3 DEF Checkout, Goto, ToBuild, Asks, Repo, histVars, outVars, TypeOK,
       RepoKnown, UnderWay
  <2>4. CASE BuildStarts(g)
    BY <2>4 DEF BuildStarts, Goto, Repo, histVars, outVars, TypeOK, RepoKnown,
       UnderWay
  <2>5. CASE BuildEnds(g)
    BY <2>5 DEF BuildEnds, Goto, Repo, histVars, outVars, TypeOK, RepoKnown,
       UnderWay
  <2>6. CASE BuildIgnored(g)
    BY <2>6 DEF BuildIgnored, Goto, Repo, histVars, outVars, TypeOK, RepoKnown,
       UnderWay
  <2>7. CASE RunStarts(g)
    BY <2>7 DEF RunStarts, Asks, Goto, Repo, NewRun, histVars, outVars, TypeOK,
       RepoKnown, UnderWay
  <2>8. CASE NothingSelected(g)
    BY <2>8 DEF NothingSelected, End, Goto, NoOptions, Repo, histVars, outVars,
       TypeOK, RepoKnown, UnderWay
  <2>9. CASE BlockRuns(g)
    BY <2>9 DEF BlockRuns, Repo, histVars, outVars, TypeOK, RepoKnown, UnderWay
  <2>10. CASE RunEnds(g)
    BY <2>10 DEF RunEnds, Goto, Takes, Repo, histVars, outVars, TypeOK,
       RepoKnown, UnderWay
  <2>11. CASE RunDies(g)
    BY <2>11 DEF RunDies, Goto, Takes, Repo, histVars, outVars, TypeOK,
       RepoKnown, UnderWay
  <2>12. CASE RunKilled(g)
    BY <2>12 DEF RunKilled, Goto, Takes, LatestRun, Repo, histVars, outVars,
       TypeOK, RepoKnown, UnderWay
  <2>13. CASE Judge(g)
    BY <2>13 DEF Judge, Goto, Repo, histVars, outVars, TypeOK, RepoKnown,
       UnderWay
  <2>14. CASE NotPushed(g)
    BY <2>14 DEF NotPushed, End, Goto, NoOptions, Repo, histVars, outVars,
       TypeOK, RepoKnown, UnderWay
  <2>15. CASE Push(g)
    BY <2>15 DEF Push, Goto, Repo, Pushing, histVars, outVars, TypeOK,
       RepoKnown, UnderWay
  <2>16. CASE PushElsewhere(g)
    BY <2>16 DEF PushElsewhere, Goto, Drifts, Repo, histVars, outVars, TypeOK,
       RepoKnown, UnderWay
  <2>17. CASE PushRefused(g)
    BY <2>17 DEF PushRefused, End, Goto, NoOptions, Repo, histVars, outVars,
       TypeOK, RepoKnown, UnderWay
  <2>18. CASE PushLost(g)
    BY <2>18 DEF PushLost, End, Goto, NoOptions, Drifts, Repo, histVars,
       outVars, TypeOK, RepoKnown, UnderWay
  <2>19. CASE CheckoutMain(g)
    BY <2>19 DEF CheckoutMain, Goto, Repo, histVars, outVars, TypeOK,
       RepoKnown, UnderWay
  <2>20. CASE SetBaseline(g)
    BY <2>20 DEF SetBaseline, End, Goto, NoOptions, Rebase, Unfinished, Repo,
       histVars, outVars, TypeOK, RepoKnown, UnderWay
  <2>21. CASE Fail(g)
    BY <2>21 DEF Fail, End, Goto, NoOptions, Repo, histVars, outVars, TypeOK,
       RepoKnown, UnderWay
  <2>22. CASE CheckoutKilled(g)
    BY <2>22 DEF CheckoutKilled, Killed, ToBuild, Asks, Goto, Repo, histVars,
       outVars, TypeOK, RepoKnown, UnderWay
  <2>23. CASE BuildKilled(g)
    BY <2>23 DEF BuildKilled, Killed, Goto, Repo, histVars, outVars, TypeOK,
       RepoKnown, UnderWay
  <2>24. CASE PushKilled(g)
    BY <2>24 DEF PushKilled, Killed, Drifts, Goto, Repo, histVars, outVars,
       TypeOK, RepoKnown, UnderWay
  <2>25. CASE GateDies(g)
    BY <2>25 DEF GateDies, End, Goto, NoOptions, UnderWay, Pushing, Repo,
       histVars, outVars, TypeOK, RepoKnown
  <2> QED
    BY <1>2, <2>1, <2>2, <2>3, <2>4, <2>5, <2>6, <2>7, <2>8, <2>9, <2>10,
       <2>11, <2>12, <2>13, <2>14, <2>15, <2>16, <2>17, <2>18, <2>19, <2>20,
       <2>21, <2>22, <2>23, <2>24, <2>25 DEF Step
<1>3. CASE CoordRun
  BY <1>3 DEF CoordRun, Outside, UnderWay, Repo, histVars, outVars, TypeOK,
     RepoKnown
<1>4. ASSUME NEW p \in Repos, ByOthers(p) PROVE RepoKnown(q)'
  <2>1. CASE CoordCheckout(p)
    BY <2>1 DEF CoordCheckout, Outside, UnderWay, Repo, histVars, outVars,
       TypeOK, RepoKnown
  <2>2. CASE CoordPush(p)
    BY <2>2 DEF CoordPush, Outside, Drifts, UnderWay, Repo, histVars, outVars,
       TypeOK, RepoKnown
  <2>3. CASE BaselineByHand(p)
    BY <2>3 DEF BaselineByHand, Outside, Drifts, Rebase, Unfinished, UnderWay,
       Repo, histVars, outVars, TypeOK, RepoKnown
  <2> QED
    BY <1>4, <2>1, <2>2, <2>3 DEF ByOthers
<1> QED
  BY <1>1, <1>2, <1>3, <1>4 DEF Next

\* rev-parse gives a commit.
LEMMA ShaStep ==
    ASSUME GateAssumption, [Next]_vars,
           TypeOK,
           \A q \in Gates : ShaKnown(q)
    PROVE  \A q \in Gates : ShaKnown(q)'
<1> USE GateAssumption
<1> SUFFICES ASSUME NEW q \in Gates PROVE ShaKnown(q)'
  OBVIOUS
<1>1. CASE UNCHANGED vars
  BY <1>1 DEF vars, gateVars, histVars, outVars, Repo, TypeOK, ShaKnown,
     UnderWay
<1>2. ASSUME NEW g \in Gates, Step(g) PROVE ShaKnown(q)'
  <2>1. CASE Start(g)
    BY <2>1 DEF Start, Asks, Goto, Repo, Meets, UnderWay, histVars, outVars,
       TypeOK, ShaKnown
  <2>2. CASE Resolve(g)
    BY <2>2 DEF Resolve, Goto, Repo, histVars, outVars, TypeOK, ShaKnown,
       UnderWay
  <2>3. CASE Checkout(g)
    BY <2>3 DEF Checkout, Goto, ToBuild, Asks, Repo, histVars, outVars, TypeOK,
       ShaKnown, UnderWay
  <2>4. CASE BuildStarts(g)
    BY <2>4 DEF BuildStarts, Goto, Repo, histVars, outVars, TypeOK, ShaKnown,
       UnderWay
  <2>5. CASE BuildEnds(g)
    BY <2>5 DEF BuildEnds, Goto, Repo, histVars, outVars, TypeOK, ShaKnown,
       UnderWay
  <2>6. CASE BuildIgnored(g)
    BY <2>6 DEF BuildIgnored, Goto, Repo, histVars, outVars, TypeOK, ShaKnown,
       UnderWay
  <2>7. CASE RunStarts(g)
    BY <2>7 DEF RunStarts, Asks, Goto, Repo, NewRun, histVars, outVars, TypeOK,
       ShaKnown, UnderWay
  <2>8. CASE NothingSelected(g)
    BY <2>8 DEF NothingSelected, End, Goto, NoOptions, Repo, histVars, outVars,
       TypeOK, ShaKnown, UnderWay
  <2>9. CASE BlockRuns(g)
    BY <2>9 DEF BlockRuns, Repo, histVars, outVars, TypeOK, ShaKnown, UnderWay
  <2>10. CASE RunEnds(g)
    BY <2>10 DEF RunEnds, Goto, Takes, Repo, histVars, outVars, TypeOK,
       ShaKnown, UnderWay
  <2>11. CASE RunDies(g)
    BY <2>11 DEF RunDies, Goto, Takes, Repo, histVars, outVars, TypeOK,
       ShaKnown, UnderWay
  <2>12. CASE RunKilled(g)
    BY <2>12 DEF RunKilled, Goto, Takes, LatestRun, Repo, histVars, outVars,
       TypeOK, ShaKnown, UnderWay
  <2>13. CASE Judge(g)
    BY <2>13 DEF Judge, Goto, Repo, histVars, outVars, TypeOK, ShaKnown,
       UnderWay
  <2>14. CASE NotPushed(g)
    BY <2>14 DEF NotPushed, End, Goto, NoOptions, Repo, histVars, outVars,
       TypeOK, ShaKnown, UnderWay
  <2>15. CASE Push(g)
    BY <2>15 DEF Push, Goto, Repo, Pushing, histVars, outVars, TypeOK,
       ShaKnown, UnderWay
  <2>16. CASE PushElsewhere(g)
    BY <2>16 DEF PushElsewhere, Goto, Drifts, Repo, histVars, outVars, TypeOK,
       ShaKnown, UnderWay
  <2>17. CASE PushRefused(g)
    BY <2>17 DEF PushRefused, End, Goto, NoOptions, Repo, histVars, outVars,
       TypeOK, ShaKnown, UnderWay
  <2>18. CASE PushLost(g)
    BY <2>18 DEF PushLost, End, Goto, NoOptions, Drifts, Repo, histVars,
       outVars, TypeOK, ShaKnown, UnderWay
  <2>19. CASE CheckoutMain(g)
    BY <2>19 DEF CheckoutMain, Goto, Repo, histVars, outVars, TypeOK, ShaKnown,
       UnderWay
  <2>20. CASE SetBaseline(g)
    BY <2>20 DEF SetBaseline, End, Goto, NoOptions, Rebase, Unfinished, Repo,
       histVars, outVars, TypeOK, ShaKnown, UnderWay
  <2>21. CASE Fail(g)
    BY <2>21 DEF Fail, End, Goto, NoOptions, Repo, histVars, outVars, TypeOK,
       ShaKnown, UnderWay
  <2>22. CASE CheckoutKilled(g)
    BY <2>22 DEF CheckoutKilled, Killed, ToBuild, Asks, Goto, Repo, histVars,
       outVars, TypeOK, ShaKnown, UnderWay
  <2>23. CASE BuildKilled(g)
    BY <2>23 DEF BuildKilled, Killed, Goto, Repo, histVars, outVars, TypeOK,
       ShaKnown, UnderWay
  <2>24. CASE PushKilled(g)
    BY <2>24 DEF PushKilled, Killed, Drifts, Goto, Repo, histVars, outVars,
       TypeOK, ShaKnown, UnderWay
  <2>25. CASE GateDies(g)
    BY <2>25 DEF GateDies, End, Goto, NoOptions, UnderWay, Pushing, Repo,
       histVars, outVars, TypeOK, ShaKnown
  <2> QED
    BY <1>2, <2>1, <2>2, <2>3, <2>4, <2>5, <2>6, <2>7, <2>8, <2>9, <2>10,
       <2>11, <2>12, <2>13, <2>14, <2>15, <2>16, <2>17, <2>18, <2>19, <2>20,
       <2>21, <2>22, <2>23, <2>24, <2>25 DEF Step
<1>3. CASE CoordRun
  BY <1>3 DEF CoordRun, Outside, UnderWay, Repo, histVars, outVars, TypeOK,
     ShaKnown
<1>4. ASSUME NEW p \in Repos, ByOthers(p) PROVE ShaKnown(q)'
  <2>1. CASE CoordCheckout(p)
    BY <2>1 DEF CoordCheckout, Outside, UnderWay, Repo, histVars, outVars,
       TypeOK, ShaKnown
  <2>2. CASE CoordPush(p)
    BY <2>2 DEF CoordPush, Outside, Drifts, UnderWay, Repo, histVars, outVars,
       TypeOK, ShaKnown
  <2>3. CASE BaselineByHand(p)
    BY <2>3 DEF BaselineByHand, Outside, Drifts, Rebase, Unfinished, UnderWay,
       Repo, histVars, outVars, TypeOK, ShaKnown
  <2> QED
    BY <1>4, <2>1, <2>2, <2>3 DEF ByOthers
<1> QED
  BY <1>1, <1>2, <1>3, <1>4 DEF Next

\* A new run has a number no gate has.
LEMMA OwnStep ==
    ASSUME GateAssumption, [Next]_vars,
           TypeOK,
           \A q \in Gates : OwnRow(q)
    PROVE  \A q \in Gates : OwnRow(q)'
<1> USE GateAssumption
<1> SUFFICES ASSUME NEW q \in Gates PROVE OwnRow(q)'
  OBVIOUS
<1>1. CASE UNCHANGED vars
  BY <1>1 DEF vars, gateVars, histVars, outVars, Repo, TypeOK, OwnRow, Judged,
     RunIds
<1>2. ASSUME NEW g \in Gates, Step(g) PROVE OwnRow(q)'
  <2>1. CASE Start(g)
    BY <2>1 DEF Start, Asks, Goto, Repo, Meets, UnderWay, histVars, outVars,
       TypeOK, OwnRow, Judged, RunIds
  <2>2. CASE Resolve(g)
    BY <2>2 DEF Resolve, Goto, Repo, histVars, outVars, TypeOK, OwnRow, Judged,
       RunIds
  <2>3. CASE Checkout(g)
    BY <2>3 DEF Checkout, Goto, ToBuild, Asks, Repo, histVars, outVars, TypeOK,
       OwnRow, Judged, RunIds
  <2>4. CASE BuildStarts(g)
    BY <2>4 DEF BuildStarts, Goto, Repo, histVars, outVars, TypeOK, OwnRow,
       Judged, RunIds
  <2>5. CASE BuildEnds(g)
    BY <2>5 DEF BuildEnds, Goto, Repo, histVars, outVars, TypeOK, OwnRow,
       Judged, RunIds
  <2>6. CASE BuildIgnored(g)
    BY <2>6 DEF BuildIgnored, Goto, Repo, histVars, outVars, TypeOK, OwnRow,
       Judged, RunIds
  <2>7. CASE RunStarts(g)
    BY <2>7 DEF RunStarts, Asks, Goto, Repo, NewRun, histVars, outVars, TypeOK,
       OwnRow, Judged, RunIds
  <2>8. CASE NothingSelected(g)
    BY <2>8 DEF NothingSelected, End, Goto, NoOptions, Repo, histVars, outVars,
       TypeOK, OwnRow, Judged, RunIds
  <2>9. CASE BlockRuns(g)
    BY <2>9 DEF BlockRuns, Repo, histVars, outVars, TypeOK, OwnRow, Judged,
       RunIds
  <2>10. CASE RunEnds(g)
    BY <2>10 DEF RunEnds, Goto, Takes, Repo, histVars, outVars, TypeOK, OwnRow,
       Judged, RunIds
  <2>11. CASE RunDies(g)
    BY <2>11 DEF RunDies, Goto, Takes, Repo, histVars, outVars, TypeOK, OwnRow,
       Judged, RunIds
  <2>12. CASE RunKilled(g)
    BY <2>12 DEF RunKilled, Goto, Takes, LatestRun, Repo, histVars, outVars,
       TypeOK, OwnRow, Judged, RunIds
  <2>13. CASE Judge(g)
    BY <2>13 DEF Judge, Goto, Repo, histVars, outVars, TypeOK, OwnRow, Judged,
       RunIds
  <2>14. CASE NotPushed(g)
    BY <2>14 DEF NotPushed, End, Goto, NoOptions, Repo, histVars, outVars,
       TypeOK, OwnRow, Judged, RunIds
  <2>15. CASE Push(g)
    BY <2>15 DEF Push, Goto, Repo, Pushing, histVars, outVars, TypeOK, OwnRow,
       Judged, RunIds
  <2>16. CASE PushElsewhere(g)
    BY <2>16 DEF PushElsewhere, Goto, Drifts, Repo, histVars, outVars, TypeOK,
       OwnRow, Judged, RunIds
  <2>17. CASE PushRefused(g)
    BY <2>17 DEF PushRefused, End, Goto, NoOptions, Repo, histVars, outVars,
       TypeOK, OwnRow, Judged, RunIds
  <2>18. CASE PushLost(g)
    BY <2>18 DEF PushLost, End, Goto, NoOptions, Drifts, Repo, histVars,
       outVars, TypeOK, OwnRow, Judged, RunIds
  <2>19. CASE CheckoutMain(g)
    BY <2>19 DEF CheckoutMain, Goto, Repo, histVars, outVars, TypeOK, OwnRow,
       Judged, RunIds
  <2>20. CASE SetBaseline(g)
    BY <2>20 DEF SetBaseline, End, Goto, NoOptions, Rebase, Unfinished, Repo,
       histVars, outVars, TypeOK, OwnRow, Judged, RunIds
  <2>21. CASE Fail(g)
    BY <2>21 DEF Fail, End, Goto, NoOptions, Repo, histVars, outVars, TypeOK,
       OwnRow, Judged, RunIds
  <2>22. CASE CheckoutKilled(g)
    BY <2>22 DEF CheckoutKilled, Killed, ToBuild, Asks, Goto, Repo, histVars,
       outVars, TypeOK, OwnRow, Judged, RunIds
  <2>23. CASE BuildKilled(g)
    BY <2>23 DEF BuildKilled, Killed, Goto, Repo, histVars, outVars, TypeOK,
       OwnRow, Judged, RunIds
  <2>24. CASE PushKilled(g)
    BY <2>24 DEF PushKilled, Killed, Drifts, Goto, Repo, histVars, outVars,
       TypeOK, OwnRow, Judged, RunIds
  <2>25. CASE GateDies(g)
    BY <2>25 DEF GateDies, End, Goto, NoOptions, UnderWay, Pushing, Repo,
       histVars, outVars, TypeOK, OwnRow, Judged, RunIds
  <2> QED
    BY <1>2, <2>1, <2>2, <2>3, <2>4, <2>5, <2>6, <2>7, <2>8, <2>9, <2>10,
       <2>11, <2>12, <2>13, <2>14, <2>15, <2>16, <2>17, <2>18, <2>19, <2>20,
       <2>21, <2>22, <2>23, <2>24, <2>25 DEF Step
<1>3. CASE CoordRun
  BY <1>3 DEF CoordRun, Outside, UnderWay, Repo, histVars, outVars, TypeOK,
     OwnRow, Judged, RunIds
<1>4. ASSUME NEW p \in Repos, ByOthers(p) PROVE OwnRow(q)'
  <2>1. CASE CoordCheckout(p)
    BY <2>1 DEF CoordCheckout, Outside, UnderWay, Repo, histVars, outVars,
       TypeOK, OwnRow, Judged, RunIds
  <2>2. CASE CoordPush(p)
    BY <2>2 DEF CoordPush, Outside, Drifts, UnderWay, Repo, histVars, outVars,
       TypeOK, OwnRow, Judged, RunIds
  <2>3. CASE BaselineByHand(p)
    BY <2>3 DEF BaselineByHand, Outside, Drifts, Rebase, Unfinished, UnderWay,
       Repo, histVars, outVars, TypeOK, OwnRow, Judged, RunIds
  <2> QED
    BY <1>4, <2>1, <2>2, <2>3 DEF ByOthers
<1> QED
  BY <1>1, <1>2, <1>3, <1>4 DEF Next

\* The gate takes the number its own run printed.
LEMMA JudgedStep ==
    ASSUME GateAssumption, [Next]_vars,
           TypeOK,
           \A q \in Gates : OwnRow(q) /\ JudgedOwn(q)
    PROVE  \A q \in Gates : JudgedOwn(q)'
<1> USE GateAssumption
<1> SUFFICES ASSUME NEW q \in Gates PROVE JudgedOwn(q)'
  OBVIOUS
<1>1. CASE UNCHANGED vars
  BY <1>1 DEF vars, gateVars, histVars, outVars, Repo, TypeOK, JudgedOwn,
     OwnRow, Judged
<1>2. ASSUME NEW g \in Gates, Step(g) PROVE JudgedOwn(q)'
  <2>1. CASE Start(g)
    BY <2>1 DEF Start, Asks, Goto, Repo, Meets, UnderWay, histVars, outVars,
       TypeOK, JudgedOwn, OwnRow, Judged
  <2>2. CASE Resolve(g)
    BY <2>2 DEF Resolve, Goto, Repo, histVars, outVars, TypeOK, JudgedOwn,
       OwnRow, Judged
  <2>3. CASE Checkout(g)
    BY <2>3 DEF Checkout, Goto, ToBuild, Asks, Repo, histVars, outVars, TypeOK,
       JudgedOwn, OwnRow, Judged
  <2>4. CASE BuildStarts(g)
    BY <2>4 DEF BuildStarts, Goto, Repo, histVars, outVars, TypeOK, JudgedOwn,
       OwnRow, Judged
  <2>5. CASE BuildEnds(g)
    BY <2>5 DEF BuildEnds, Goto, Repo, histVars, outVars, TypeOK, JudgedOwn,
       OwnRow, Judged
  <2>6. CASE BuildIgnored(g)
    BY <2>6 DEF BuildIgnored, Goto, Repo, histVars, outVars, TypeOK, JudgedOwn,
       OwnRow, Judged
  <2>7. CASE RunStarts(g)
    BY <2>7 DEF RunStarts, Asks, Goto, Repo, NewRun, histVars, outVars, TypeOK,
       JudgedOwn, OwnRow, Judged
  <2>8. CASE NothingSelected(g)
    BY <2>8 DEF NothingSelected, End, Goto, NoOptions, Repo, histVars, outVars,
       TypeOK, JudgedOwn, OwnRow, Judged
  <2>9. CASE BlockRuns(g)
    BY <2>9 DEF BlockRuns, Repo, histVars, outVars, TypeOK, JudgedOwn, OwnRow,
       Judged
  <2>10. CASE RunEnds(g)
    BY <2>10 DEF RunEnds, Goto, Takes, Repo, histVars, outVars, TypeOK,
       JudgedOwn, OwnRow, Judged
  <2>11. CASE RunDies(g)
    BY <2>11 DEF RunDies, Goto, Takes, Repo, histVars, outVars, TypeOK,
       JudgedOwn, OwnRow, Judged
  <2>12. CASE RunKilled(g)
    BY <2>12 DEF RunKilled, Goto, Takes, LatestRun, Repo, histVars, outVars,
       TypeOK, JudgedOwn, OwnRow, Judged
  <2>13. CASE Judge(g)
    BY <2>13 DEF Judge, Goto, Repo, histVars, outVars, TypeOK, JudgedOwn,
       OwnRow, Judged
  <2>14. CASE NotPushed(g)
    BY <2>14 DEF NotPushed, End, Goto, NoOptions, Repo, histVars, outVars,
       TypeOK, JudgedOwn, OwnRow, Judged
  <2>15. CASE Push(g)
    BY <2>15 DEF Push, Goto, Repo, Pushing, histVars, outVars, TypeOK,
       JudgedOwn, OwnRow, Judged
  <2>16. CASE PushElsewhere(g)
    BY <2>16 DEF PushElsewhere, Goto, Drifts, Repo, histVars, outVars, TypeOK,
       JudgedOwn, OwnRow, Judged
  <2>17. CASE PushRefused(g)
    BY <2>17 DEF PushRefused, End, Goto, NoOptions, Repo, histVars, outVars,
       TypeOK, JudgedOwn, OwnRow, Judged
  <2>18. CASE PushLost(g)
    BY <2>18 DEF PushLost, End, Goto, NoOptions, Drifts, Repo, histVars,
       outVars, TypeOK, JudgedOwn, OwnRow, Judged
  <2>19. CASE CheckoutMain(g)
    BY <2>19 DEF CheckoutMain, Goto, Repo, histVars, outVars, TypeOK,
       JudgedOwn, OwnRow, Judged
  <2>20. CASE SetBaseline(g)
    BY <2>20 DEF SetBaseline, End, Goto, NoOptions, Rebase, Unfinished, Repo,
       histVars, outVars, TypeOK, JudgedOwn, OwnRow, Judged
  <2>21. CASE Fail(g)
    BY <2>21 DEF Fail, End, Goto, NoOptions, Repo, histVars, outVars, TypeOK,
       JudgedOwn, OwnRow, Judged
  <2>22. CASE CheckoutKilled(g)
    BY <2>22 DEF CheckoutKilled, Killed, ToBuild, Asks, Goto, Repo, histVars,
       outVars, TypeOK, JudgedOwn, OwnRow, Judged
  <2>23. CASE BuildKilled(g)
    BY <2>23 DEF BuildKilled, Killed, Goto, Repo, histVars, outVars, TypeOK,
       JudgedOwn, OwnRow, Judged
  <2>24. CASE PushKilled(g)
    BY <2>24 DEF PushKilled, Killed, Drifts, Goto, Repo, histVars, outVars,
       TypeOK, JudgedOwn, OwnRow, Judged
  <2>25. CASE GateDies(g)
    BY <2>25 DEF GateDies, End, Goto, NoOptions, UnderWay, Pushing, Repo,
       histVars, outVars, TypeOK, JudgedOwn, OwnRow, Judged
  <2> QED
    BY <1>2, <2>1, <2>2, <2>3, <2>4, <2>5, <2>6, <2>7, <2>8, <2>9, <2>10,
       <2>11, <2>12, <2>13, <2>14, <2>15, <2>16, <2>17, <2>18, <2>19, <2>20,
       <2>21, <2>22, <2>23, <2>24, <2>25 DEF Step
<1>3. CASE CoordRun
  BY <1>3 DEF CoordRun, Outside, UnderWay, Repo, histVars, outVars, TypeOK,
     JudgedOwn, OwnRow, Judged
<1>4. ASSUME NEW p \in Repos, ByOthers(p) PROVE JudgedOwn(q)'
  <2>1. CASE CoordCheckout(p)
    BY <2>1 DEF CoordCheckout, Outside, UnderWay, Repo, histVars, outVars,
       TypeOK, JudgedOwn, OwnRow, Judged
  <2>2. CASE CoordPush(p)
    BY <2>2 DEF CoordPush, Outside, Drifts, UnderWay, Repo, histVars, outVars,
       TypeOK, JudgedOwn, OwnRow, Judged
  <2>3. CASE BaselineByHand(p)
    BY <2>3 DEF BaselineByHand, Outside, Drifts, Rebase, Unfinished, UnderWay,
       Repo, histVars, outVars, TypeOK, JudgedOwn, OwnRow, Judged
  <2> QED
    BY <1>4, <2>1, <2>2, <2>3 DEF ByOthers
<1> QED
  BY <1>1, <1>2, <1>3, <1>4 DEF Next

\* A gate that begins next to another of its repository marks both.
LEMMA ExclusiveStep ==
    ASSUME GateAssumption, [Next]_vars,
           TypeOK,
           \A q \in Gates : Exclusive(q)
    PROVE  \A q \in Gates : Exclusive(q)'
<1> USE GateAssumption
<1> SUFFICES ASSUME NEW q \in Gates PROVE Exclusive(q)'
  OBVIOUS
<1>1. CASE UNCHANGED vars
  BY <1>1 DEF vars, gateVars, histVars, outVars, Repo, TypeOK, Exclusive,
     UnderWay, Meets
<1>2. ASSUME NEW g \in Gates, Step(g) PROVE Exclusive(q)'
  <2>1. CASE Start(g)
    <3>1. PICK r \in Repos :
            /\ Asks(g, r, FALSE, {})
            /\ alone' = [h \in Gates |->
                          IF h = g THEN ~ \E k \in Gates : Meets(k, r)
                                   ELSE alone[h] /\ ~Meets(h, r)]
      BY <2>1 DEF Start
    <3>2. /\ Repo(g)' = r /\ ~UnderWay(g)
          /\ \A h \in Gates : h # g => Repo(h)' = Repo(h) /\ pc'[h] = pc[h]
      BY <2>1, <3>1 DEF Start, Asks, Goto, Repo, UnderWay, TypeOK
    <3> SUFFICES ASSUME NEW h \in Gates, q # h, UnderWay(q)', UnderWay(h)',
                        Repo(q)' = Repo(h)'
                 PROVE  alone'[q] = FALSE
      BY DEF Exclusive
    <3>3. CASE q = g
      <4>1. Meets(h, r)
        BY <3>2, <3>3 DEF Meets, UnderWay
      <4> QED
        BY <3>1, <3>3, <4>1, Zenon
    <3>4. CASE q # g /\ h = g
      <4>1. Meets(q, r)
        BY <3>2, <3>4 DEF Meets, UnderWay
      <4> QED
        BY <3>1, <3>4, <4>1, Zenon
    <3>5. CASE q # g /\ h # g
      <4>1. alone[q] = FALSE
        BY <3>2, <3>5 DEF Exclusive, UnderWay
      <4> QED
        BY <3>1, <3>5, <4>1, Zenon
    <3> QED
      BY <3>3, <3>4, <3>5
  <2>2. CASE Resolve(g)
    BY <2>2 DEF Resolve, Goto, Repo, histVars, outVars, TypeOK, Exclusive,
       UnderWay, Meets
  <2>3. CASE Checkout(g)
    BY <2>3 DEF Checkout, Goto, ToBuild, Asks, Repo, histVars, outVars, TypeOK,
       Exclusive, UnderWay, Meets
  <2>4. CASE BuildStarts(g)
    BY <2>4 DEF BuildStarts, Goto, Repo, histVars, outVars, TypeOK, Exclusive,
       UnderWay, Meets
  <2>5. CASE BuildEnds(g)
    BY <2>5 DEF BuildEnds, Goto, Repo, histVars, outVars, TypeOK, Exclusive,
       UnderWay, Meets
  <2>6. CASE BuildIgnored(g)
    BY <2>6 DEF BuildIgnored, Goto, Repo, histVars, outVars, TypeOK, Exclusive,
       UnderWay, Meets
  <2>7. CASE RunStarts(g)
    BY <2>7 DEF RunStarts, Asks, Goto, Repo, NewRun, histVars, outVars, TypeOK,
       Exclusive, UnderWay, Meets
  <2>8. CASE NothingSelected(g)
    BY <2>8 DEF NothingSelected, End, Goto, NoOptions, Repo, histVars, outVars,
       TypeOK, Exclusive, UnderWay, Meets
  <2>9. CASE BlockRuns(g)
    BY <2>9 DEF BlockRuns, Repo, histVars, outVars, TypeOK, Exclusive,
       UnderWay, Meets
  <2>10. CASE RunEnds(g)
    BY <2>10 DEF RunEnds, Goto, Takes, Repo, histVars, outVars, TypeOK,
       Exclusive, UnderWay, Meets
  <2>11. CASE RunDies(g)
    BY <2>11 DEF RunDies, Goto, Takes, Repo, histVars, outVars, TypeOK,
       Exclusive, UnderWay, Meets
  <2>12. CASE RunKilled(g)
    BY <2>12 DEF RunKilled, Goto, Takes, LatestRun, Repo, histVars, outVars,
       TypeOK, Exclusive, UnderWay, Meets
  <2>13. CASE Judge(g)
    BY <2>13 DEF Judge, Goto, Repo, histVars, outVars, TypeOK, Exclusive,
       UnderWay, Meets
  <2>14. CASE NotPushed(g)
    BY <2>14 DEF NotPushed, End, Goto, NoOptions, Repo, histVars, outVars,
       TypeOK, Exclusive, UnderWay, Meets
  <2>15. CASE Push(g)
    BY <2>15 DEF Push, Goto, Repo, Pushing, histVars, outVars, TypeOK,
       Exclusive, UnderWay, Meets
  <2>16. CASE PushElsewhere(g)
    BY <2>16 DEF PushElsewhere, Goto, Drifts, Repo, histVars, outVars, TypeOK,
       Exclusive, UnderWay, Meets
  <2>17. CASE PushRefused(g)
    BY <2>17 DEF PushRefused, End, Goto, NoOptions, Repo, histVars, outVars,
       TypeOK, Exclusive, UnderWay, Meets
  <2>18. CASE PushLost(g)
    BY <2>18 DEF PushLost, End, Goto, NoOptions, Drifts, Repo, histVars,
       outVars, TypeOK, Exclusive, UnderWay, Meets
  <2>19. CASE CheckoutMain(g)
    BY <2>19 DEF CheckoutMain, Goto, Repo, histVars, outVars, TypeOK,
       Exclusive, UnderWay, Meets
  <2>20. CASE SetBaseline(g)
    BY <2>20 DEF SetBaseline, End, Goto, NoOptions, Rebase, Unfinished, Repo,
       histVars, outVars, TypeOK, Exclusive, UnderWay, Meets
  <2>21. CASE Fail(g)
    BY <2>21 DEF Fail, End, Goto, NoOptions, Repo, histVars, outVars, TypeOK,
       Exclusive, UnderWay, Meets
  <2>22. CASE CheckoutKilled(g)
    BY <2>22 DEF CheckoutKilled, Killed, ToBuild, Asks, Goto, Repo, histVars,
       outVars, TypeOK, Exclusive, UnderWay, Meets
  <2>23. CASE BuildKilled(g)
    BY <2>23 DEF BuildKilled, Killed, Goto, Repo, histVars, outVars, TypeOK,
       Exclusive, UnderWay, Meets
  <2>24. CASE PushKilled(g)
    BY <2>24 DEF PushKilled, Killed, Drifts, Goto, Repo, histVars, outVars,
       TypeOK, Exclusive, UnderWay, Meets
  <2>25. CASE GateDies(g)
    BY <2>25 DEF GateDies, End, Goto, NoOptions, UnderWay, Pushing, Repo,
       histVars, outVars, TypeOK, Exclusive, Meets
  <2> QED
    BY <1>2, <2>1, <2>2, <2>3, <2>4, <2>5, <2>6, <2>7, <2>8, <2>9, <2>10,
       <2>11, <2>12, <2>13, <2>14, <2>15, <2>16, <2>17, <2>18, <2>19, <2>20,
       <2>21, <2>22, <2>23, <2>24, <2>25 DEF Step
<1>3. CASE CoordRun
  BY <1>3 DEF CoordRun, Outside, UnderWay, Repo, histVars, outVars, TypeOK,
     Exclusive, Meets
<1>4. ASSUME NEW p \in Repos, ByOthers(p) PROVE Exclusive(q)'
  <2>1. CASE CoordCheckout(p)
    BY <2>1 DEF CoordCheckout, Outside, UnderWay, Repo, histVars, outVars,
       TypeOK, Exclusive, Meets
  <2>2. CASE CoordPush(p)
    BY <2>2 DEF CoordPush, Outside, Drifts, UnderWay, Repo, histVars, outVars,
       TypeOK, Exclusive, Meets
  <2>3. CASE BaselineByHand(p)
    BY <2>3 DEF BaselineByHand, Outside, Drifts, Rebase, Unfinished, UnderWay,
       Repo, histVars, outVars, TypeOK, Exclusive, Meets
  <2> QED
    BY <1>4, <2>1, <2>2, <2>3 DEF ByOthers
<1> QED
  BY <1>1, <1>2, <1>3, <1>4 DEF Next

\* Only others on the repository could change the checkout or the build, and
\* they mark the gate.
LEMMA CandidateStep ==
    ASSUME GateAssumption, [Next]_vars,
           TypeOK,
           \A q \in Gates : Candidate(q) /\ Exclusive(q) /\ OwnRow(q) /\ RepoKnown(q)
    PROVE  \A q \in Gates : Candidate(q)'
<1> USE GateAssumption
<1> SUFFICES ASSUME NEW q \in Gates PROVE Candidate(q)'
  OBVIOUS
<1>1. CASE UNCHANGED vars
  BY <1>1 DEF vars, gateVars, histVars, outVars, Repo, TypeOK, Candidate,
     Undisturbed, Exclusive, OwnRow, RepoKnown, UnderWay, Judged
<1>2. ASSUME NEW g \in Gates, Step(g) PROVE Candidate(q)'
  <2>1. CASE Start(g)
    BY <2>1 DEF Start, Asks, Goto, Repo, Meets, UnderWay, histVars, outVars,
       TypeOK, Candidate, Undisturbed, Exclusive, OwnRow, RepoKnown, Judged
  <2>2. CASE Resolve(g)
    BY <2>2 DEF Resolve, Goto, Repo, histVars, outVars, TypeOK, Candidate,
       Undisturbed, Exclusive, OwnRow, RepoKnown, UnderWay, Judged
  <2>3. CASE Checkout(g)
    BY <2>3 DEF Checkout, Goto, ToBuild, Asks, Repo, histVars, outVars, TypeOK,
       Candidate, Undisturbed, Exclusive, OwnRow, RepoKnown, UnderWay, Judged
  <2>4. CASE BuildStarts(g)
    BY <2>4 DEF BuildStarts, Goto, Repo, histVars, outVars, TypeOK, Candidate,
       Undisturbed, Exclusive, OwnRow, RepoKnown, UnderWay, Judged
  <2>5. CASE BuildEnds(g)
    <3>1. UNCHANGED <<opts, sha, own, on, runid, head, alone, killed, ignored>>
      BY <2>5 DEF BuildEnds, histVars
    <3>2. CASE q = g
      BY <2>5, <3>1, <3>2 DEF BuildEnds, Goto, Repo, TypeOK, Candidate, Undisturbed,
         RepoKnown, UnderWay, OwnRow, Judged
    <3>3. CASE q # g
      <4>1. pc[g] = "building" /\ pc'[q] = pc[q] /\ src'[q] = src[q]
        BY <2>5, <3>3 DEF BuildEnds, Goto, TypeOK
      <4>2. CASE Repo(q) # Repo(g)
        <5>1. built'[Repo(q)] = built[Repo(q)]
          BY <2>5, <4>2 DEF BuildEnds, TypeOK
        <5> QED
          BY <3>1, <4>1, <5>1 DEF Candidate, Undisturbed, Repo
      <4>3. CASE Repo(q) = Repo(g) /\ pc[q] \in {"test", "running"}
        <5>1. alone[q] = FALSE
          BY <3>3, <4>1, <4>3 DEF Exclusive, UnderWay
        <5> QED
          BY <3>1, <5>1 DEF Candidate, Undisturbed
      <4>4. CASE pc[q] \notin {"test", "running"}
        BY <3>1, <4>1, <4>4 DEF Candidate, Undisturbed, Repo
      <4> QED
        BY <4>2, <4>3, <4>4
    <3> QED
      BY <3>2, <3>3
  <2>6. CASE BuildIgnored(g)
    BY <2>6 DEF BuildIgnored, Goto, Repo, histVars, outVars, TypeOK, Candidate,
       Undisturbed, Exclusive, OwnRow, RepoKnown, UnderWay, Judged
  <2>7. CASE RunStarts(g)
    BY <2>7 DEF RunStarts, Asks, Goto, Repo, NewRun, histVars, outVars, TypeOK,
       Candidate, Undisturbed, Exclusive, OwnRow, RepoKnown, UnderWay, Judged
  <2>8. CASE NothingSelected(g)
    BY <2>8 DEF NothingSelected, End, Goto, NoOptions, Repo, histVars, outVars,
       TypeOK, Candidate, Undisturbed, Exclusive, OwnRow, RepoKnown, UnderWay,
       Judged
  <2>9. CASE BlockRuns(g)
    BY <2>9 DEF BlockRuns, Repo, histVars, outVars, TypeOK, Candidate,
       Undisturbed, Exclusive, OwnRow, RepoKnown, UnderWay, Judged
  <2>10. CASE RunEnds(g)
    BY <2>10 DEF RunEnds, Goto, Takes, Repo, histVars, outVars, TypeOK,
       Candidate, Undisturbed, Exclusive, OwnRow, RepoKnown, UnderWay, Judged
  <2>11. CASE RunDies(g)
    BY <2>11 DEF RunDies, Goto, Takes, Repo, histVars, outVars, TypeOK,
       Candidate, Undisturbed, Exclusive, OwnRow, RepoKnown, UnderWay, Judged
  <2>12. CASE RunKilled(g)
    BY <2>12 DEF RunKilled, Goto, Takes, LatestRun, Repo, histVars, outVars,
       TypeOK, Candidate, Undisturbed, Exclusive, OwnRow, RepoKnown, UnderWay,
       Judged
  <2>13. CASE Judge(g)
    BY <2>13 DEF Judge, Goto, Repo, histVars, outVars, TypeOK, Candidate,
       Undisturbed, Exclusive, OwnRow, RepoKnown, UnderWay, Judged
  <2>14. CASE NotPushed(g)
    BY <2>14 DEF NotPushed, End, Goto, NoOptions, Repo, histVars, outVars,
       TypeOK, Candidate, Undisturbed, Exclusive, OwnRow, RepoKnown, UnderWay,
       Judged
  <2>15. CASE Push(g)
    BY <2>15 DEF Push, Goto, Repo, Pushing, histVars, outVars, TypeOK,
       Candidate, Undisturbed, Exclusive, OwnRow, RepoKnown, UnderWay, Judged
  <2>16. CASE PushElsewhere(g)
    BY <2>16 DEF PushElsewhere, Goto, Drifts, Repo, histVars, outVars, TypeOK,
       Candidate, Undisturbed, Exclusive, OwnRow, RepoKnown, UnderWay, Judged
  <2>17. CASE PushRefused(g)
    BY <2>17 DEF PushRefused, End, Goto, NoOptions, Repo, histVars, outVars,
       TypeOK, Candidate, Undisturbed, Exclusive, OwnRow, RepoKnown, UnderWay,
       Judged
  <2>18. CASE PushLost(g)
    BY <2>18 DEF PushLost, End, Goto, NoOptions, Drifts, Repo, histVars,
       outVars, TypeOK, Candidate, Undisturbed, Exclusive, OwnRow, RepoKnown,
       UnderWay, Judged
  <2>19. CASE CheckoutMain(g)
    BY <2>19 DEF CheckoutMain, Goto, Repo, histVars, outVars, TypeOK,
       Candidate, Undisturbed, Exclusive, OwnRow, RepoKnown, UnderWay, Judged
  <2>20. CASE SetBaseline(g)
    BY <2>20 DEF SetBaseline, End, Goto, NoOptions, Rebase, Unfinished, Repo,
       histVars, outVars, TypeOK, Candidate, Undisturbed, Exclusive, OwnRow,
       RepoKnown, UnderWay, Judged
  <2>21. CASE Fail(g)
    BY <2>21 DEF Fail, End, Goto, NoOptions, Repo, histVars, outVars, TypeOK,
       Candidate, Undisturbed, Exclusive, OwnRow, RepoKnown, UnderWay, Judged
  <2>22. CASE CheckoutKilled(g)
    BY <2>22 DEF CheckoutKilled, Killed, ToBuild, Asks, Goto, Repo, histVars,
       outVars, TypeOK, Candidate, Undisturbed, Exclusive, OwnRow, RepoKnown,
       UnderWay, Judged
  <2>23. CASE BuildKilled(g)
    BY <2>23 DEF BuildKilled, Killed, Goto, Repo, histVars, outVars, TypeOK,
       Candidate, Undisturbed, Exclusive, OwnRow, RepoKnown, UnderWay, Judged
  <2>24. CASE PushKilled(g)
    BY <2>24 DEF PushKilled, Killed, Drifts, Goto, Repo, histVars, outVars,
       TypeOK, Candidate, Undisturbed, Exclusive, OwnRow, RepoKnown, UnderWay,
       Judged
  <2>25. CASE GateDies(g)
    BY <2>25 DEF GateDies, End, Goto, NoOptions, UnderWay, Pushing, Repo,
       histVars, outVars, TypeOK, Candidate, Undisturbed, Exclusive, OwnRow,
       RepoKnown, Judged
  <2> QED
    BY <1>2, <2>1, <2>2, <2>3, <2>4, <2>5, <2>6, <2>7, <2>8, <2>9, <2>10,
       <2>11, <2>12, <2>13, <2>14, <2>15, <2>16, <2>17, <2>18, <2>19, <2>20,
       <2>21, <2>22, <2>23, <2>24, <2>25 DEF Step
<1>3. CASE CoordRun
  BY <1>3 DEF CoordRun, Outside, UnderWay, Repo, histVars, outVars, TypeOK,
     Candidate, Undisturbed, Exclusive, OwnRow, RepoKnown, Judged
<1>4. ASSUME NEW p \in Repos, ByOthers(p) PROVE Candidate(q)'
  <2>1. CASE CoordCheckout(p)
    BY <2>1 DEF CoordCheckout, Outside, UnderWay, Repo, histVars, outVars,
       TypeOK, Candidate, Undisturbed, Exclusive, OwnRow, RepoKnown, Judged
  <2>2. CASE CoordPush(p)
    BY <2>2 DEF CoordPush, Outside, Drifts, UnderWay, Repo, histVars, outVars,
       TypeOK, Candidate, Undisturbed, Exclusive, OwnRow, RepoKnown, Judged
  <2>3. CASE BaselineByHand(p)
    BY <2>3 DEF BaselineByHand, Outside, Drifts, Rebase, Unfinished, UnderWay,
       Repo, histVars, outVars, TypeOK, Candidate, Undisturbed, Exclusive,
       OwnRow, RepoKnown, Judged
  <2> QED
    BY <1>4, <2>1, <2>2, <2>3 DEF ByOthers
<1> QED
  BY <1>1, <1>2, <1>3, <1>4 DEF Next

\* Who moves the branch while a gate is to set the baseline makes it drift.
LEMMA PushedStep ==
    ASSUME GateAssumption, [Next]_vars,
           TypeOK,
           \A q \in Gates : PushedIsMain(q) /\ PushApart(q) /\ RepoKnown(q)
    PROVE  \A q \in Gates : (PushedIsMain(q) /\ PushApart(q))'
<1> USE GateAssumption
<1> SUFFICES ASSUME NEW q \in Gates PROVE (PushedIsMain(q) /\ PushApart(q))'
  OBVIOUS
<1>1. CASE UNCHANGED vars
  BY <1>1 DEF vars, gateVars, histVars, outVars, Repo, TypeOK, PushedIsMain,
     PushApart, RepoKnown, UnderWay, Pushing
<1>2. ASSUME NEW g \in Gates, Step(g) PROVE (PushedIsMain(q) /\ PushApart(q))'
  <2>1. CASE Start(g)
    BY <2>1 DEF Start, Asks, Goto, Repo, Meets, UnderWay, histVars, outVars,
       TypeOK, PushedIsMain, PushApart, RepoKnown, Pushing
  <2>2. CASE Resolve(g)
    BY <2>2 DEF Resolve, Goto, Repo, histVars, outVars, TypeOK, PushedIsMain,
       PushApart, RepoKnown, UnderWay, Pushing
  <2>3. CASE Checkout(g)
    BY <2>3 DEF Checkout, Goto, ToBuild, Asks, Repo, histVars, outVars, TypeOK,
       PushedIsMain, PushApart, RepoKnown, UnderWay, Pushing
  <2>4. CASE BuildStarts(g)
    BY <2>4 DEF BuildStarts, Goto, Repo, histVars, outVars, TypeOK,
       PushedIsMain, PushApart, RepoKnown, UnderWay, Pushing
  <2>5. CASE BuildEnds(g)
    BY <2>5 DEF BuildEnds, Goto, Repo, histVars, outVars, TypeOK, PushedIsMain,
       PushApart, RepoKnown, UnderWay, Pushing
  <2>6. CASE BuildIgnored(g)
    BY <2>6 DEF BuildIgnored, Goto, Repo, histVars, outVars, TypeOK,
       PushedIsMain, PushApart, RepoKnown, UnderWay, Pushing
  <2>7. CASE RunStarts(g)
    BY <2>7 DEF RunStarts, Asks, Goto, Repo, NewRun, histVars, outVars, TypeOK,
       PushedIsMain, PushApart, RepoKnown, UnderWay, Pushing
  <2>8. CASE NothingSelected(g)
    BY <2>8 DEF NothingSelected, End, Goto, NoOptions, Repo, histVars, outVars,
       TypeOK, PushedIsMain, PushApart, RepoKnown, UnderWay, Pushing
  <2>9. CASE BlockRuns(g)
    BY <2>9 DEF BlockRuns, Repo, histVars, outVars, TypeOK, PushedIsMain,
       PushApart, RepoKnown, UnderWay, Pushing
  <2>10. CASE RunEnds(g)
    BY <2>10 DEF RunEnds, Goto, Takes, Repo, histVars, outVars, TypeOK,
       PushedIsMain, PushApart, RepoKnown, UnderWay, Pushing
  <2>11. CASE RunDies(g)
    BY <2>11 DEF RunDies, Goto, Takes, Repo, histVars, outVars, TypeOK,
       PushedIsMain, PushApart, RepoKnown, UnderWay, Pushing
  <2>12. CASE RunKilled(g)
    BY <2>12 DEF RunKilled, Goto, Takes, LatestRun, Repo, histVars, outVars,
       TypeOK, PushedIsMain, PushApart, RepoKnown, UnderWay, Pushing
  <2>13. CASE Judge(g)
    BY <2>13 DEF Judge, Goto, Repo, histVars, outVars, TypeOK, PushedIsMain,
       PushApart, RepoKnown, UnderWay, Pushing
  <2>14. CASE NotPushed(g)
    BY <2>14 DEF NotPushed, End, Goto, NoOptions, Repo, histVars, outVars,
       TypeOK, PushedIsMain, PushApart, RepoKnown, UnderWay, Pushing
  <2>15. CASE Push(g)
    BY <2>15 DEF Push, Goto, Repo, Pushing, histVars, outVars, TypeOK,
       PushedIsMain, PushApart, RepoKnown, UnderWay
  <2>16. CASE PushElsewhere(g)
    BY <2>16 DEF PushElsewhere, Goto, Drifts, Repo, histVars, outVars, TypeOK,
       PushedIsMain, PushApart, RepoKnown, UnderWay, Pushing
  <2>17. CASE PushRefused(g)
    BY <2>17 DEF PushRefused, End, Goto, NoOptions, Repo, histVars, outVars,
       TypeOK, PushedIsMain, PushApart, RepoKnown, UnderWay, Pushing
  <2>18. CASE PushLost(g)
    BY <2>18 DEF PushLost, End, Goto, NoOptions, Drifts, Repo, histVars,
       outVars, TypeOK, PushedIsMain, PushApart, RepoKnown, UnderWay, Pushing
  <2>19. CASE CheckoutMain(g)
    BY <2>19 DEF CheckoutMain, Goto, Repo, histVars, outVars, TypeOK,
       PushedIsMain, PushApart, RepoKnown, UnderWay, Pushing
  <2>20. CASE SetBaseline(g)
    BY <2>20 DEF SetBaseline, End, Goto, NoOptions, Rebase, Unfinished, Repo,
       histVars, outVars, TypeOK, PushedIsMain, PushApart, RepoKnown, UnderWay,
       Pushing
  <2>21. CASE Fail(g)
    BY <2>21 DEF Fail, End, Goto, NoOptions, Repo, histVars, outVars, TypeOK,
       PushedIsMain, PushApart, RepoKnown, UnderWay, Pushing
  <2>22. CASE CheckoutKilled(g)
    BY <2>22 DEF CheckoutKilled, Killed, ToBuild, Asks, Goto, Repo, histVars,
       outVars, TypeOK, PushedIsMain, PushApart, RepoKnown, UnderWay, Pushing
  <2>23. CASE BuildKilled(g)
    BY <2>23 DEF BuildKilled, Killed, Goto, Repo, histVars, outVars, TypeOK,
       PushedIsMain, PushApart, RepoKnown, UnderWay, Pushing
  <2>24. CASE PushKilled(g)
    BY <2>24 DEF PushKilled, Killed, Drifts, Goto, Repo, histVars, outVars,
       TypeOK, PushedIsMain, PushApart, RepoKnown, UnderWay, Pushing
  <2>25. CASE GateDies(g)
    BY <2>25 DEF GateDies, End, Goto, NoOptions, UnderWay, Pushing, Repo,
       histVars, outVars, TypeOK, PushedIsMain, PushApart, RepoKnown
  <2> QED
    BY <1>2, <2>1, <2>2, <2>3, <2>4, <2>5, <2>6, <2>7, <2>8, <2>9, <2>10,
       <2>11, <2>12, <2>13, <2>14, <2>15, <2>16, <2>17, <2>18, <2>19, <2>20,
       <2>21, <2>22, <2>23, <2>24, <2>25 DEF Step
<1>3. CASE CoordRun
  BY <1>3 DEF CoordRun, Outside, UnderWay, Repo, histVars, outVars, TypeOK,
     PushedIsMain, PushApart, RepoKnown, Pushing
<1>4. ASSUME NEW p \in Repos, ByOthers(p) PROVE (PushedIsMain(q) /\ PushApart(q))'
  <2>1. CASE CoordCheckout(p)
    BY <2>1 DEF CoordCheckout, Outside, UnderWay, Repo, histVars, outVars,
       TypeOK, PushedIsMain, PushApart, RepoKnown, Pushing
  <2>2. CASE CoordPush(p)
    BY <2>2 DEF CoordPush, Outside, Drifts, UnderWay, Repo, histVars, outVars,
       TypeOK, PushedIsMain, PushApart, RepoKnown, Pushing
  <2>3. CASE BaselineByHand(p)
    BY <2>3 DEF BaselineByHand, Outside, Drifts, Rebase, Unfinished, UnderWay,
       Repo, histVars, outVars, TypeOK, PushedIsMain, PushApart, RepoKnown,
       Pushing
  <2> QED
    BY <1>4, <2>1, <2>2, <2>3 DEF ByOthers
<1> QED
  BY <1>1, <1>2, <1>3, <1>4 DEF Next

\* Who makes a run under way the baseline marks the repository.
LEMMA FrozenStep ==
    ASSUME GateAssumption, [Next]_vars,
           TypeOK,
           \A q \in Gates : Frozen(q) /\ OwnRow(q) /\ RepoKnown(q)
    PROVE  \A q \in Gates : Frozen(q)'
<1> USE GateAssumption
<1> SUFFICES ASSUME NEW q \in Gates PROVE Frozen(q)'
  OBVIOUS
<1>1. CASE UNCHANGED vars
  BY <1>1 DEF vars, gateVars, histVars, outVars, Repo, TypeOK, Frozen, OwnRow,
     RepoKnown, UnderWay, RunIds
<1>2. ASSUME NEW g \in Gates, Step(g) PROVE Frozen(q)'
  <2>1. CASE Start(g)
    BY <2>1 DEF Start, Asks, Goto, Repo, Meets, UnderWay, histVars, outVars,
       TypeOK, Frozen, OwnRow, RepoKnown, RunIds
  <2>2. CASE Resolve(g)
    BY <2>2 DEF Resolve, Goto, Repo, histVars, outVars, TypeOK, Frozen, OwnRow,
       RepoKnown, UnderWay, RunIds
  <2>3. CASE Checkout(g)
    BY <2>3 DEF Checkout, Goto, ToBuild, Asks, Repo, histVars, outVars, TypeOK,
       Frozen, OwnRow, RepoKnown, UnderWay, RunIds
  <2>4. CASE BuildStarts(g)
    BY <2>4 DEF BuildStarts, Goto, Repo, histVars, outVars, TypeOK, Frozen,
       OwnRow, RepoKnown, UnderWay, RunIds
  <2>5. CASE BuildEnds(g)
    BY <2>5 DEF BuildEnds, Goto, Repo, histVars, outVars, TypeOK, Frozen,
       OwnRow, RepoKnown, UnderWay, RunIds
  <2>6. CASE BuildIgnored(g)
    BY <2>6 DEF BuildIgnored, Goto, Repo, histVars, outVars, TypeOK, Frozen,
       OwnRow, RepoKnown, UnderWay, RunIds
  <2>7. CASE RunStarts(g)
    BY <2>7 DEF RunStarts, Asks, Goto, Repo, NewRun, histVars, outVars, TypeOK,
       Frozen, OwnRow, RepoKnown, UnderWay, RunIds
  <2>8. CASE NothingSelected(g)
    BY <2>8 DEF NothingSelected, End, Goto, NoOptions, Repo, histVars, outVars,
       TypeOK, Frozen, OwnRow, RepoKnown, UnderWay, RunIds
  <2>9. CASE BlockRuns(g)
    BY <2>9 DEF BlockRuns, Repo, histVars, outVars, TypeOK, Frozen, OwnRow,
       RepoKnown, UnderWay, RunIds
  <2>10. CASE RunEnds(g)
    BY <2>10 DEF RunEnds, Goto, Takes, Repo, histVars, outVars, TypeOK, Frozen,
       OwnRow, RepoKnown, UnderWay, RunIds
  <2>11. CASE RunDies(g)
    BY <2>11 DEF RunDies, Goto, Takes, Repo, histVars, outVars, TypeOK, Frozen,
       OwnRow, RepoKnown, UnderWay, RunIds
  <2>12. CASE RunKilled(g)
    BY <2>12 DEF RunKilled, Goto, Takes, LatestRun, Repo, histVars, outVars,
       TypeOK, Frozen, OwnRow, RepoKnown, UnderWay, RunIds
  <2>13. CASE Judge(g)
    BY <2>13 DEF Judge, Goto, Repo, histVars, outVars, TypeOK, Frozen, OwnRow,
       RepoKnown, UnderWay, RunIds
  <2>14. CASE NotPushed(g)
    BY <2>14 DEF NotPushed, End, Goto, NoOptions, Repo, histVars, outVars,
       TypeOK, Frozen, OwnRow, RepoKnown, UnderWay, RunIds
  <2>15. CASE Push(g)
    BY <2>15 DEF Push, Goto, Repo, Pushing, histVars, outVars, TypeOK, Frozen,
       OwnRow, RepoKnown, UnderWay, RunIds
  <2>16. CASE PushElsewhere(g)
    BY <2>16 DEF PushElsewhere, Goto, Drifts, Repo, histVars, outVars, TypeOK,
       Frozen, OwnRow, RepoKnown, UnderWay, RunIds
  <2>17. CASE PushRefused(g)
    BY <2>17 DEF PushRefused, End, Goto, NoOptions, Repo, histVars, outVars,
       TypeOK, Frozen, OwnRow, RepoKnown, UnderWay, RunIds
  <2>18. CASE PushLost(g)
    BY <2>18 DEF PushLost, End, Goto, NoOptions, Drifts, Repo, histVars,
       outVars, TypeOK, Frozen, OwnRow, RepoKnown, UnderWay, RunIds
  <2>19. CASE CheckoutMain(g)
    BY <2>19 DEF CheckoutMain, Goto, Repo, histVars, outVars, TypeOK, Frozen,
       OwnRow, RepoKnown, UnderWay, RunIds
  <2>20. CASE SetBaseline(g)
    BY <2>20 DEF SetBaseline, End, Goto, NoOptions, Rebase, Unfinished, Repo,
       histVars, outVars, TypeOK, Frozen, OwnRow, RepoKnown, UnderWay, RunIds
  <2>21. CASE Fail(g)
    BY <2>21 DEF Fail, End, Goto, NoOptions, Repo, histVars, outVars, TypeOK,
       Frozen, OwnRow, RepoKnown, UnderWay, RunIds
  <2>22. CASE CheckoutKilled(g)
    BY <2>22 DEF CheckoutKilled, Killed, ToBuild, Asks, Goto, Repo, histVars,
       outVars, TypeOK, Frozen, OwnRow, RepoKnown, UnderWay, RunIds
  <2>23. CASE BuildKilled(g)
    BY <2>23 DEF BuildKilled, Killed, Goto, Repo, histVars, outVars, TypeOK,
       Frozen, OwnRow, RepoKnown, UnderWay, RunIds
  <2>24. CASE PushKilled(g)
    BY <2>24 DEF PushKilled, Killed, Drifts, Goto, Repo, histVars, outVars,
       TypeOK, Frozen, OwnRow, RepoKnown, UnderWay, RunIds
  <2>25. CASE GateDies(g)
    BY <2>25 DEF GateDies, End, Goto, NoOptions, UnderWay, Pushing, Repo,
       histVars, outVars, TypeOK, Frozen, OwnRow, RepoKnown, RunIds
  <2> QED
    BY <1>2, <2>1, <2>2, <2>3, <2>4, <2>5, <2>6, <2>7, <2>8, <2>9, <2>10,
       <2>11, <2>12, <2>13, <2>14, <2>15, <2>16, <2>17, <2>18, <2>19, <2>20,
       <2>21, <2>22, <2>23, <2>24, <2>25 DEF Step
<1>3. CASE CoordRun
  BY <1>3 DEF CoordRun, Outside, UnderWay, Repo, histVars, outVars, TypeOK,
     Frozen, OwnRow, RepoKnown, RunIds
<1>4. ASSUME NEW p \in Repos, ByOthers(p) PROVE Frozen(q)'
  <2>1. CASE CoordCheckout(p)
    BY <2>1 DEF CoordCheckout, Outside, UnderWay, Repo, histVars, outVars,
       TypeOK, Frozen, OwnRow, RepoKnown, RunIds
  <2>2. CASE CoordPush(p)
    BY <2>2 DEF CoordPush, Outside, Drifts, UnderWay, Repo, histVars, outVars,
       TypeOK, Frozen, OwnRow, RepoKnown, RunIds
  <2>3. CASE BaselineByHand(p)
    BY <2>3 DEF BaselineByHand, Outside, Drifts, Rebase, Unfinished, UnderWay,
       Repo, histVars, outVars, TypeOK, Frozen, OwnRow, RepoKnown, RunIds
  <2> QED
    BY <1>4, <2>1, <2>2, <2>3 DEF ByOthers
<1> QED
  BY <1>1, <1>2, <1>3, <1>4 DEF Next

\* Neither the baseline nor the two runs compared change before the push.
LEMMA CleanStep ==
    ASSUME GateAssumption, [Next]_vars,
           TypeOK,
           \A q \in Gates : StillClean(q) /\ Frozen(q) /\ Exclusive(q) /\ OwnRow(q),
           \A q \in Gates : RepoKnown(q) /\ JudgedOwn(q)
    PROVE  \A q \in Gates : StillClean(q)'
<1> USE GateAssumption
<1> SUFFICES ASSUME NEW q \in Gates PROVE StillClean(q)'
  OBVIOUS
<1>1. CASE UNCHANGED vars
  BY <1>1 DEF vars, gateVars, histVars, outVars, Repo, TypeOK, StillClean,
     RepoKnown, UnderWay, Exclusive, Regressions, Judged, RunIds
<1>2. ASSUME NEW g \in Gates, Step(g) PROVE StillClean(q)'
  <2>1. CASE Start(g)
    BY <2>1 DEF Start, Asks, Goto, Repo, Meets, UnderWay, histVars, outVars,
       TypeOK, StillClean, RepoKnown, Exclusive, Regressions, Judged, RunIds
  <2>2. CASE Resolve(g)
    BY <2>2 DEF Resolve, Goto, Repo, histVars, outVars, TypeOK, StillClean,
       RepoKnown, UnderWay, Exclusive, Regressions, Judged, RunIds
  <2>3. CASE Checkout(g)
    BY <2>3 DEF Checkout, Goto, ToBuild, Asks, Repo, histVars, outVars, TypeOK,
       StillClean, RepoKnown, UnderWay, Exclusive, Regressions, Judged, RunIds
  <2>4. CASE BuildStarts(g)
    BY <2>4 DEF BuildStarts, Goto, Repo, histVars, outVars, TypeOK, StillClean,
       RepoKnown, UnderWay, Exclusive, Regressions, Judged, RunIds
  <2>5. CASE BuildEnds(g)
    BY <2>5 DEF BuildEnds, Goto, Repo, histVars, outVars, TypeOK, StillClean,
       RepoKnown, UnderWay, Exclusive, Regressions, Judged, RunIds
  <2>6. CASE BuildIgnored(g)
    BY <2>6 DEF BuildIgnored, Goto, Repo, histVars, outVars, TypeOK,
       StillClean, RepoKnown, UnderWay, Exclusive, Regressions, Judged, RunIds
  <2>7. CASE RunStarts(g)
    <3>1. Len(runs) \in Nat /\ \A i \in 1 .. Len(runs) : runs'[i] = runs[i]
      BY <2>7, RowAdded, NewRunTyped DEF RunStarts
    <3>2. UNCHANGED <<runid, baseline, alone, killed, early>>
      BY <2>7 DEF RunStarts, histVars, outVars
    <3>3. /\ pc'[q] \in {"push", "pushed", "setbase"} => pc'[q] = pc[q]
          /\ Repo(q)' = Repo(q)
      BY <2>7 DEF RunStarts, Asks, Goto, Repo, TypeOK
    <3> SUFFICES ASSUME killed[q] = FALSE, alone[q] = TRUE, Repo(q) \notin early,
                        pc[q] \in {"push", "pushed", "setbase"}
                 PROVE  Regressions(runid[q], baseline[Repo(q)].run)' = {}
      BY <3>2, <3>3 DEF StillClean
    <3>4. runid[q] \in 0 .. Len(runs) /\ baseline[Repo(q)].run \in 0 .. Len(runs)
      BY DEF RepoKnown, UnderWay, TypeOK, RunIds
    <3>5. Regressions(runid[q], baseline[Repo(q)].run) = {}
      BY DEF StillClean
    <3> QED
      BY <3>1, <3>2, <3>3, <3>4, <3>5 DEF Regressions
  <2>8. CASE NothingSelected(g)
    BY <2>8 DEF NothingSelected, End, Goto, NoOptions, Repo, histVars, outVars,
       TypeOK, StillClean, RepoKnown, UnderWay, Exclusive, Regressions, Judged,
       RunIds
  <2>9. CASE BlockRuns(g)
    <3>1. /\ own[g] \in 1 .. Len(runs)
          /\ Len(runs) \in Nat
          /\ \A i \in 1 .. Len(runs) : i # own[g] => runs'[i] = runs[i]
      BY <2>9, RowWritten
    <3>2. UNCHANGED <<pc, opts, runid, baseline, alone, killed, early>>
      BY <2>9 DEF BlockRuns, histVars, outVars
    <3>3. pc[g] = "running"
      BY <2>9 DEF BlockRuns
    <3> SUFFICES ASSUME killed[q] = FALSE, alone[q] = TRUE, Repo(q) \notin early,
                        pc[q] \in {"push", "pushed", "setbase"}
                 PROVE  Regressions(runid[q], baseline[Repo(q)].run)' = {}
      BY <3>2 DEF StillClean, Repo
    <3>4. runid[q] \in 1 .. Len(runs) /\ runid[q] # own[g]
      <4>1. runid[q] # 0 /\ runid[q] = own[q] /\ q # g
        BY <3>3 DEF JudgedOwn, Judged
      <4>2. own[q] # own[g]
        BY <4>1 DEF OwnRow
      <4>3. runid[q] \in 0 .. Len(runs)
        BY DEF TypeOK, RunIds
      <4> QED
        BY <3>1, <4>1, <4>2, <4>3
    <3>5. Repo(q) \in Repos /\ baseline[Repo(q)].run \in 0 .. Len(runs)
      BY DEF RepoKnown, UnderWay, TypeOK, RunIds
    <3>6. baseline[Repo(q)].run # own[g]
      BY <3>3, <3>5 DEF Frozen
    <3>7. Regressions(runid[q], baseline[Repo(q)].run) = {}
      BY DEF StillClean
    <3>8. Repo(q)' = Repo(q) /\ baseline' = baseline /\ runid' = runid
      BY <3>2 DEF Repo
    <3>9. CASE baseline[Repo(q)].run = 0
      BY <3>8, <3>9 DEF Regressions
    <3>10. CASE baseline[Repo(q)].run # 0
      <4>1. runs'[runid[q]] = runs[runid[q]]
        BY <3>1, <3>4
      <4>2. runs'[baseline[Repo(q)].run] = runs[baseline[Repo(q)].run]
        BY <3>1, <3>5, <3>6, <3>10
      <4> QED
        BY <3>4, <3>7, <3>8, <3>10, <4>1, <4>2 DEF Regressions
    <3> QED
      BY <3>9, <3>10
  <2>10. CASE RunEnds(g)
    BY <2>10 DEF RunEnds, Goto, Takes, Repo, histVars, outVars, TypeOK,
       StillClean, RepoKnown, UnderWay, Exclusive, Regressions, Judged, RunIds
  <2>11. CASE RunDies(g)
    BY <2>11 DEF RunDies, Goto, Takes, Repo, histVars, outVars, TypeOK,
       StillClean, RepoKnown, UnderWay, Exclusive, Regressions, Judged, RunIds
  <2>12. CASE RunKilled(g)
    BY <2>12 DEF RunKilled, Goto, Takes, LatestRun, Repo, histVars, outVars,
       TypeOK, StillClean, RepoKnown, UnderWay, Exclusive, Regressions, Judged,
       RunIds
  <2>13. CASE Judge(g)
    <3>1. /\ Regressions(runid[g], baseline[Repo(g)].run) = {}
          /\ UNCHANGED <<opts, runid, runs, baseline, alone, killed, early>>
          /\ \A h \in Gates : h # g => pc'[h] = pc[h]
      BY <2>13 DEF Judge, Goto, TypeOK, histVars, outVars
    <3>2. /\ Repo(q)' = Repo(q)
          /\ Regressions(runid[q], baseline[Repo(q)].run)'
                = Regressions(runid[q], baseline[Repo(q)].run)
      BY <3>1 DEF Repo, Regressions
    <3>3. CASE q = g
      BY <3>1, <3>2, <3>3 DEF StillClean
    <3>4. CASE q # g
      BY <3>1, <3>2, <3>4 DEF StillClean
    <3> QED
      BY <3>3, <3>4
  <2>14. CASE NotPushed(g)
    BY <2>14 DEF NotPushed, End, Goto, NoOptions, Repo, histVars, outVars,
       TypeOK, StillClean, RepoKnown, UnderWay, Exclusive, Regressions, Judged,
       RunIds
  <2>15. CASE Push(g)
    BY <2>15 DEF Push, Goto, Repo, Pushing, histVars, outVars, TypeOK,
       StillClean, RepoKnown, UnderWay, Exclusive, Regressions, Judged, RunIds
  <2>16. CASE PushElsewhere(g)
    BY <2>16 DEF PushElsewhere, Goto, Drifts, Repo, histVars, outVars, TypeOK,
       StillClean, RepoKnown, UnderWay, Exclusive, Regressions, Judged, RunIds
  <2>17. CASE PushRefused(g)
    BY <2>17 DEF PushRefused, End, Goto, NoOptions, Repo, histVars, outVars,
       TypeOK, StillClean, RepoKnown, UnderWay, Exclusive, Regressions, Judged,
       RunIds
  <2>18. CASE PushLost(g)
    BY <2>18 DEF PushLost, End, Goto, NoOptions, Drifts, Repo, histVars,
       outVars, TypeOK, StillClean, RepoKnown, UnderWay, Exclusive,
       Regressions, Judged, RunIds
  <2>19. CASE CheckoutMain(g)
    BY <2>19 DEF CheckoutMain, Goto, Repo, histVars, outVars, TypeOK,
       StillClean, RepoKnown, UnderWay, Exclusive, Regressions, Judged, RunIds
  <2>20. CASE SetBaseline(g)
    BY <2>20 DEF SetBaseline, End, Goto, NoOptions, Rebase, Unfinished, Repo,
       histVars, outVars, TypeOK, StillClean, RepoKnown, UnderWay, Exclusive,
       Regressions, Judged, RunIds
  <2>21. CASE Fail(g)
    BY <2>21 DEF Fail, End, Goto, NoOptions, Repo, histVars, outVars, TypeOK,
       StillClean, RepoKnown, UnderWay, Exclusive, Regressions, Judged, RunIds
  <2>22. CASE CheckoutKilled(g)
    BY <2>22 DEF CheckoutKilled, Killed, ToBuild, Asks, Goto, Repo, histVars,
       outVars, TypeOK, StillClean, RepoKnown, UnderWay, Exclusive,
       Regressions, Judged, RunIds
  <2>23. CASE BuildKilled(g)
    BY <2>23 DEF BuildKilled, Killed, Goto, Repo, histVars, outVars, TypeOK,
       StillClean, RepoKnown, UnderWay, Exclusive, Regressions, Judged, RunIds
  <2>24. CASE PushKilled(g)
    BY <2>24 DEF PushKilled, Killed, Drifts, Goto, Repo, histVars, outVars,
       TypeOK, StillClean, RepoKnown, UnderWay, Exclusive, Regressions, Judged,
       RunIds
  <2>25. CASE GateDies(g)
    BY <2>25 DEF GateDies, End, Goto, NoOptions, UnderWay, Pushing, Repo,
       histVars, outVars, TypeOK, StillClean, RepoKnown, Exclusive,
       Regressions, Judged, RunIds
  <2> QED
    BY <1>2, <2>1, <2>2, <2>3, <2>4, <2>5, <2>6, <2>7, <2>8, <2>9, <2>10,
       <2>11, <2>12, <2>13, <2>14, <2>15, <2>16, <2>17, <2>18, <2>19, <2>20,
       <2>21, <2>22, <2>23, <2>24, <2>25 DEF Step
<1>3. CASE CoordRun
  <2>1. PICK row \in [Blocks -> {"good", "bad"}] : runs' = Append(runs, row)
    BY <1>3 DEF CoordRun
  <2>2. row \in RunRows
    BY DEF RunRows, Outcomes
  <2>3. Len(runs) \in Nat /\ \A i \in 1 .. Len(runs) : runs'[i] = runs[i]
    BY <2>1, <2>2, RowAdded
  <2>4. UNCHANGED <<pc, opts, runid, baseline, killed, early>>
    BY <1>3 DEF CoordRun, Outside
  <2>5. alone'[q] = alone[q]
    BY <1>3 DEF CoordRun, Outside
  <2> SUFFICES ASSUME killed[q] = FALSE, alone[q] = TRUE, Repo(q) \notin early,
                      pc[q] \in {"push", "pushed", "setbase"}
               PROVE  Regressions(runid[q], baseline[Repo(q)].run)' = {}
    BY <2>4, <2>5 DEF StillClean, Repo
  <2>6. runid[q] \in 0 .. Len(runs) /\ baseline[Repo(q)].run \in 0 .. Len(runs)
    BY DEF RepoKnown, UnderWay, TypeOK, RunIds
  <2>7. Regressions(runid[q], baseline[Repo(q)].run) = {}
    BY DEF StillClean
  <2> QED
    BY <2>3, <2>4, <2>6, <2>7 DEF Regressions, Repo
<1>4. ASSUME NEW p \in Repos, ByOthers(p) PROVE StillClean(q)'
  <2>1. CASE CoordCheckout(p)
    BY <2>1 DEF CoordCheckout, Outside, UnderWay, Repo, histVars, outVars,
       TypeOK, StillClean, RepoKnown, Exclusive, Regressions, Judged, RunIds
  <2>2. CASE CoordPush(p)
    BY <2>2 DEF CoordPush, Outside, Drifts, UnderWay, Repo, histVars, outVars,
       TypeOK, StillClean, RepoKnown, Exclusive, Regressions, Judged, RunIds
  <2>3. CASE BaselineByHand(p)
    BY <2>3 DEF BaselineByHand, Outside, Drifts, Rebase, Unfinished, UnderWay,
       Repo, histVars, outVars, TypeOK, StillClean, RepoKnown, Exclusive,
       Regressions, Judged, RunIds
  <2> QED
    BY <1>4, <2>1, <2>2, <2>3 DEF ByOthers
<1> QED
  BY <1>1, <1>2, <1>3, <1>4 DEF Next

\* The baseline of a repository lags the branch only for a reason.
LEMMA BaselineStep ==
    ASSUME GateAssumption, [Next]_vars,
           TypeOK,
           \A r \in Repos : BaselineOf(r),
           \A q \in Gates : RepoKnown(q) /\ ShaKnown(q) /\ PushedIsMain(q)
    PROVE  \A r \in Repos : BaselineOf(r)'
<1> USE GateAssumption
<1> SUFFICES ASSUME NEW r \in Repos PROVE BaselineOf(r)'
  OBVIOUS
<1>1. CASE UNCHANGED vars
  BY <1>1 DEF vars, gateVars, histVars, outVars, Repo, TypeOK, BaselineOf,
     RepoKnown, ShaKnown, UnderWay, Pushing, PushedIsMain
<1>2. ASSUME NEW g \in Gates, Step(g) PROVE BaselineOf(r)'
  <2>1. CASE Start(g)
    <3>1. UNCHANGED <<main, baseline, drift>>
      BY <2>1 DEF Start, outVars
    <3>2. ASSUME NEW h \in Gates, Pushing(h) PROVE Pushing(h)' /\ Repo(h)' = Repo(h)
      BY <2>1, <3>2 DEF Start, Asks, Goto, Pushing, Repo, TypeOK
    <3> QED
      BY <3>1, <3>2 DEF BaselineOf
  <2>2. CASE Resolve(g)
    BY <2>2 DEF Resolve, Goto, Repo, histVars, outVars, TypeOK, BaselineOf,
       RepoKnown, ShaKnown, UnderWay, Pushing, PushedIsMain
  <2>3. CASE Checkout(g)
    <3>1. UNCHANGED <<main, baseline, drift>>
      BY <2>3 DEF Checkout, outVars
    <3>2. ASSUME NEW h \in Gates, Pushing(h) PROVE Pushing(h)' /\ Repo(h)' = Repo(h)
      BY <2>3, <3>2 DEF Checkout, ToBuild, Asks, Goto, Pushing, Repo, TypeOK
    <3> QED
      BY <3>1, <3>2 DEF BaselineOf
  <2>4. CASE BuildStarts(g)
    BY <2>4 DEF BuildStarts, Goto, Repo, histVars, outVars, TypeOK, BaselineOf,
       RepoKnown, ShaKnown, UnderWay, Pushing, PushedIsMain
  <2>5. CASE BuildEnds(g)
    BY <2>5 DEF BuildEnds, Goto, Repo, histVars, outVars, TypeOK, BaselineOf,
       RepoKnown, ShaKnown, UnderWay, Pushing, PushedIsMain
  <2>6. CASE BuildIgnored(g)
    BY <2>6 DEF BuildIgnored, Goto, Repo, histVars, outVars, TypeOK,
       BaselineOf, RepoKnown, ShaKnown, UnderWay, Pushing, PushedIsMain
  <2>7. CASE RunStarts(g)
    <3>1. UNCHANGED <<main, baseline, drift>>
      BY <2>7 DEF RunStarts, outVars
    <3>2. ASSUME NEW h \in Gates, Pushing(h) PROVE Pushing(h)' /\ Repo(h)' = Repo(h)
      BY <2>7, <3>2 DEF RunStarts, Asks, Goto, Pushing, Repo, TypeOK
    <3> QED
      BY <3>1, <3>2 DEF BaselineOf
  <2>8. CASE NothingSelected(g)
    BY <2>8 DEF NothingSelected, End, Goto, NoOptions, Repo, histVars, outVars,
       TypeOK, BaselineOf, RepoKnown, ShaKnown, UnderWay, Pushing, PushedIsMain
  <2>9. CASE BlockRuns(g)
    BY <2>9 DEF BlockRuns, Repo, histVars, outVars, TypeOK, BaselineOf,
       RepoKnown, ShaKnown, UnderWay, Pushing, PushedIsMain
  <2>10. CASE RunEnds(g)
    BY <2>10 DEF RunEnds, Goto, Takes, Repo, histVars, outVars, TypeOK,
       BaselineOf, RepoKnown, ShaKnown, UnderWay, Pushing, PushedIsMain
  <2>11. CASE RunDies(g)
    BY <2>11 DEF RunDies, Goto, Takes, Repo, histVars, outVars, TypeOK,
       BaselineOf, RepoKnown, ShaKnown, UnderWay, Pushing, PushedIsMain
  <2>12. CASE RunKilled(g)
    BY <2>12 DEF RunKilled, Goto, Takes, LatestRun, Repo, histVars, outVars,
       TypeOK, BaselineOf, RepoKnown, ShaKnown, UnderWay, Pushing, PushedIsMain
  <2>13. CASE Judge(g)
    BY <2>13 DEF Judge, Goto, Repo, histVars, outVars, TypeOK, BaselineOf,
       RepoKnown, ShaKnown, UnderWay, Pushing, PushedIsMain
  <2>14. CASE NotPushed(g)
    BY <2>14 DEF NotPushed, End, Goto, NoOptions, Repo, histVars, outVars,
       TypeOK, BaselineOf, RepoKnown, ShaKnown, UnderWay, Pushing, PushedIsMain
  <2>15. CASE Push(g)
    BY <2>15 DEF Push, Goto, Repo, Pushing, histVars, outVars, TypeOK,
       BaselineOf, RepoKnown, ShaKnown, UnderWay, PushedIsMain
  <2>16. CASE PushElsewhere(g)
    BY <2>16 DEF PushElsewhere, Goto, Drifts, Repo, histVars, outVars, TypeOK,
       BaselineOf, RepoKnown, ShaKnown, UnderWay, Pushing, PushedIsMain
  <2>17. CASE PushRefused(g)
    BY <2>17 DEF PushRefused, End, Goto, NoOptions, Repo, histVars, outVars,
       TypeOK, BaselineOf, RepoKnown, ShaKnown, UnderWay, Pushing, PushedIsMain
  <2>18. CASE PushLost(g)
    BY <2>18 DEF PushLost, End, Goto, NoOptions, Drifts, Repo, histVars,
       outVars, TypeOK, BaselineOf, RepoKnown, ShaKnown, UnderWay, Pushing,
       PushedIsMain
  <2>19. CASE CheckoutMain(g)
    BY <2>19 DEF CheckoutMain, Goto, Repo, histVars, outVars, TypeOK,
       BaselineOf, RepoKnown, ShaKnown, UnderWay, Pushing, PushedIsMain
  <2>20. CASE SetBaseline(g)
    BY <2>20 DEF SetBaseline, End, Goto, NoOptions, Rebase, Unfinished, Repo,
       histVars, outVars, TypeOK, BaselineOf, RepoKnown, ShaKnown, UnderWay,
       Pushing, PushedIsMain
  <2>21. CASE Fail(g)
    BY <2>21 DEF Fail, End, Goto, NoOptions, Repo, histVars, outVars, TypeOK,
       BaselineOf, RepoKnown, ShaKnown, UnderWay, Pushing, PushedIsMain
  <2>22. CASE CheckoutKilled(g)
    <3>1. UNCHANGED <<main, baseline, drift>>
      BY <2>22 DEF CheckoutKilled, outVars
    <3>2. ASSUME NEW h \in Gates, Pushing(h) PROVE Pushing(h)' /\ Repo(h)' = Repo(h)
      BY <2>22, <3>2 DEF CheckoutKilled, ToBuild, Asks, Goto, Pushing, Repo, TypeOK
    <3> QED
      BY <3>1, <3>2 DEF BaselineOf
  <2>23. CASE BuildKilled(g)
    BY <2>23 DEF BuildKilled, Killed, Goto, Repo, histVars, outVars, TypeOK,
       BaselineOf, RepoKnown, ShaKnown, UnderWay, Pushing, PushedIsMain
  <2>24. CASE PushKilled(g)
    BY <2>24 DEF PushKilled, Killed, Drifts, Goto, Repo, histVars, outVars,
       TypeOK, BaselineOf, RepoKnown, ShaKnown, UnderWay, Pushing, PushedIsMain
  <2>25. CASE GateDies(g)
    BY <2>25 DEF GateDies, End, Goto, NoOptions, UnderWay, Pushing, Repo,
       histVars, outVars, TypeOK, BaselineOf, RepoKnown, ShaKnown, PushedIsMain
  <2> QED
    BY <1>2, <2>1, <2>2, <2>3, <2>4, <2>5, <2>6, <2>7, <2>8, <2>9, <2>10,
       <2>11, <2>12, <2>13, <2>14, <2>15, <2>16, <2>17, <2>18, <2>19, <2>20,
       <2>21, <2>22, <2>23, <2>24, <2>25 DEF Step
<1>3. CASE CoordRun
  BY <1>3 DEF CoordRun, Outside, UnderWay, Repo, histVars, outVars, TypeOK,
     BaselineOf, RepoKnown, ShaKnown, Pushing, PushedIsMain
<1>4. ASSUME NEW p \in Repos, ByOthers(p) PROVE BaselineOf(r)'
  <2>1. CASE CoordCheckout(p)
    BY <2>1 DEF CoordCheckout, Outside, UnderWay, Repo, histVars, outVars,
       TypeOK, BaselineOf, RepoKnown, ShaKnown, Pushing, PushedIsMain
  <2>2. CASE CoordPush(p)
    BY <2>2 DEF CoordPush, Outside, Drifts, UnderWay, Repo, histVars, outVars,
       TypeOK, BaselineOf, RepoKnown, ShaKnown, Pushing, PushedIsMain
  <2>3. CASE BaselineByHand(p)
    BY <2>3 DEF BaselineByHand, Outside, Drifts, Rebase, Unfinished, UnderWay,
       Repo, histVars, outVars, TypeOK, BaselineOf, RepoKnown, ShaKnown,
       Pushing, PushedIsMain
  <2> QED
    BY <1>4, <2>1, <2>2, <2>3 DEF ByOthers
<1> QED
  BY <1>1, <1>2, <1>3, <1>4 DEF Next

-----------------------------------------------------------------------------
(* The inductive invariant. *)

\* The first states: nothing under way, the baseline, if any, at the branch.
LEMMA InitInv ==
    ASSUME GateAssumption, Init
    PROVE  IInv
<1> USE GateAssumption
<1>1. /\ runs \in Seq(RunRows) /\ Len(runs) \in Nat
      /\ baseline \in [Repos -> [run : RunIds, sha : Commits \cup {None}]]
      /\ \A r \in Repos : baseline[r].sha \in {None, main[r]}
  <2>1. CASE runs = <<>> /\ baseline = [r \in Repos |-> NoBaseline]
    BY <2>1 DEF NoBaseline, RunIds
  <2>2. CASE /\ runs = <<[b \in Blocks |-> "good"]>>
             /\ baseline = [r \in Repos |-> [run |-> 1, sha |-> Root]]
    <3>1. [b \in Blocks |-> "good"] \in RunRows
      BY DEF RunRows, Outcomes
    <3>2. runs \in Seq(RunRows) /\ Len(runs) = 1
      BY <2>2, <3>1
    <3>3. main = [r \in Repos |-> Root]
      BY DEF Init
    <3> QED
      BY <2>2, <3>2, <3>3 DEF RunIds
  <2> QED
    BY <2>1, <2>2 DEF Init
<1>2. TypeOK
  BY <1>1 DEF Init, TypeOK, Places, RunIds, NoOptions
<1>3. ASSUME NEW g \in Gates
      PROVE  /\ RepoKnown(g) /\ ShaKnown(g) /\ OwnRow(g) /\ JudgedOwn(g)
             /\ Exclusive(g) /\ Candidate(g) /\ PushedIsMain(g) /\ PushApart(g)
             /\ Frozen(g) /\ StillClean(g)
  BY DEF Init, RepoKnown, ShaKnown, OwnRow, JudgedOwn, Exclusive, Candidate,
     PushedIsMain, PushApart, Frozen, StillClean, UnderWay, Judged, Pushing
<1>4. \A r \in Repos : BaselineOf(r)
  BY <1>1 DEF BaselineOf
<1> QED
  BY <1>2, <1>3, <1>4 DEF IInv

\* Every step keeps it.
LEMMA StepInv ==
    ASSUME GateAssumption, IInv, [Next]_vars
    PROVE  IInv'
<1>1. TypeOK'
  BY TypeStep DEF IInv
<1>2. \A q \in Gates : RepoKnown(q)' /\ ShaKnown(q)'
  BY RepoStep, ShaStep DEF IInv
<1>3. \A q \in Gates : OwnRow(q)' /\ JudgedOwn(q)'
  BY OwnStep, JudgedStep DEF IInv
<1>4. \A q \in Gates : Exclusive(q)' /\ Candidate(q)'
  BY ExclusiveStep, CandidateStep DEF IInv
<1>5. \A q \in Gates : PushedIsMain(q)' /\ PushApart(q)'
  BY PushedStep DEF IInv
<1>6. \A q \in Gates : Frozen(q)' /\ StillClean(q)'
  BY FrozenStep, CleanStep DEF IInv
<1>7. \A r \in Repos : BaselineOf(r)'
  BY BaselineStep DEF IInv
<1> QED
  BY <1>1, <1>2, <1>3, <1>4, <1>5, <1>6, <1>7 DEF IInv

(***************************************************************************)
(* The inductive invariant holds in every behaviour of any number of gates *)
(* of any repositories, with their crashes and killed children, and with   *)
(* the steps of others.                                                    *)
(***************************************************************************)
THEOREM Invariance == Spec => []IInv
<1>1. Init => IInv
  BY InitInv, GateAssumption
<1>2. IInv /\ [Next]_vars => IInv'
  BY StepInv, GateAssumption
<1> QED
  BY <1>1, <1>2, PTL DEF Spec

(***************************************************************************)
(* Every variable of the gates, the build areas and the database keeps its *)
(* type; a run number always names a row of the table.                     *)
(***************************************************************************)
THEOREM TypeCorrect == Spec => []TypeOK
<1>1. IInv => TypeOK
  BY DEF IInv
<1> QED
  BY <1>1, Invariance, PTL

(***************************************************************************)
(* A gate none of whose children was killed judges the run of its own      *)
(* `regress run', whatever the other gates record (Gate.pm 72-80).         *)
(***************************************************************************)
THEOREM JudgesItsOwn == Spec => []JudgedOwnRun
<1>1. IInv => JudgedOwnRun
  BY DEF IInv, TypeOK, JudgedOwn, JudgedOwnRun
<1> QED
  BY <1>1, Invariance, PTL

(***************************************************************************)
(* A gate that built, ignored no failed step of the build and was          *)
(* undisturbed pushes the commit its results were made with                *)
(* (Gate.pm 55-72, 105).                                                   *)
(***************************************************************************)
THEOREM PushesWhatItTested == Spec => []TestedWhatItPushes
<1>1. IInv => TestedWhatItPushes
  BY DEF IInv, TypeOK, JudgedOwn, Candidate, Undisturbed, Judged, TestedWhatItPushes
<1> QED
  BY <1>1, Invariance, PTL

(***************************************************************************)
(* The baseline's commit is the branch's, but between a push and its       *)
(* set_baseline, or since one of the two moved alone (Gate.pm 105-113,     *)
(* coord-gate.sh 241): the next push brings them together again.           *)
(***************************************************************************)
THEOREM BaselineFollows == Spec => []BaselineIsMain
<1>1. IInv => BaselineIsMain
  BY DEF IInv, BaselineOf, BaselineIsMain
<1> QED
  BY <1>1, Invariance, PTL

(***************************************************************************)
(* No block is lost between two baselines of an undisturbed gate           *)
(* (Gate.pm 83-113): what was found clean is still clean when the baseline *)
(* is set.                                                                 *)
(***************************************************************************)
THEOREM NothingLost == Spec => BaselineKeepsGood
<1> DEFINE P == \A g \in Gates :
         /\ pc[g] = "setbase" /\ pc'[g] = "ended"
         /\ alone[g] /\ ~killed[g] /\ Repo(g) \notin early
         /\ \A b \in Blocks : runs[runid[g]][b] \in {"good", "bad"}
         /\ baseline[Repo(g)].run # 0
         => \A b \in Blocks :
              runs[baseline[Repo(g)].run][b] = "good"
                => runs'[baseline'[Repo(g)].run][b] = "good"
<1>1. ASSUME IInv, [Next]_vars PROVE [P]_vars
  <2> SUFFICES ASSUME NEW g \in Gates, pc[g] = "setbase", pc'[g] = "ended", alone[g],
                      ~killed[g], Repo(g) \notin early,
                      \A b \in Blocks : runs[runid[g]][b] \in {"good", "bad"},
                      baseline[Repo(g)].run # 0,
                      NEW b \in Blocks, runs[baseline[Repo(g)].run][b] = "good"
               PROVE  runs'[baseline'[Repo(g)].run][b] = "good"
    BY DEF P
  <2>1. TypeOK /\ StillClean(g) /\ RepoKnown(g) /\ JudgedOwn(g)
    BY <1>1 DEF IInv
  <2>2. alone[g] = TRUE /\ killed[g] = FALSE
    BY <2>1 DEF TypeOK
  <2>3. Step(g)
    <3>1. CASE UNCHANGED vars
      BY <3>1 DEF vars, gateVars
    <3>2. CASE CoordRun
      BY <3>2 DEF CoordRun, Outside
    <3>3. ASSUME NEW p \in Repos, ByOthers(p) PROVE FALSE
      BY <3>3 DEF ByOthers, CoordCheckout, CoordPush, BaselineByHand, Outside
    <3>4. ASSUME NEW h \in Gates, Step(h), h # g PROVE FALSE
      BY <2>1, <3>4 DEF Step, Start, Resolve, Checkout, ToBuild, BuildStarts,
         BuildEnds, BuildIgnored, RunStarts, NothingSelected, BlockRuns, RunEnds,
         RunDies, RunKilled, Judge, NotPushed, Push, PushElsewhere, PushRefused, PushLost,
         CheckoutMain, SetBaseline, Fail, CheckoutKilled, BuildKilled, PushKilled,
         GateDies, Asks, Goto, End, TypeOK
    <3> QED
      BY <1>1, <3>1, <3>2, <3>3, <3>4 DEF Next
  <2>4. CASE GateDies(g)
    BY <2>4 DEF GateDies
  <2>5. CASE SetBaseline(g)
    <3>1. runs' = runs /\ baseline'[Repo(g)].run = runid[g]
      <4>1. Repo(g) \in Repos
        BY <2>1 DEF RepoKnown, UnderWay
      <4> QED
        BY <2>1, <2>5, <4>1 DEF SetBaseline, Rebase, TypeOK
    <3>2. Regressions(runid[g], baseline[Repo(g)].run) = {} /\ runid[g] # 0
      BY <2>1, <2>2 DEF StillClean, JudgedOwn, Judged
    <3> QED
      BY <3>1, <3>2 DEF Regressions
  <2>6. SetBaseline(g) \/ GateDies(g)
    BY <2>1, <2>3 DEF Step, Start, Resolve, Checkout, ToBuild, BuildStarts,
       BuildEnds, BuildIgnored, RunStarts, NothingSelected, BlockRuns, RunEnds,
       RunDies, RunKilled, Judge, NotPushed, Push, PushElsewhere, PushRefused, PushLost,
       CheckoutMain, Fail, CheckoutKilled, BuildKilled, PushKilled
  <2> QED
    BY <2>4, <2>5, <2>6
<1>2. BaselineKeepsGood <=> [][P]_vars
  BY PTL DEF BaselineKeepsGood
<1> QED
  BY <1>1, <1>2, Invariance, PTL DEF Spec

=============================================================================
