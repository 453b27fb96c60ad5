------------------------------ MODULE Collect ------------------------------
(***************************************************************************)
(* spectre/results.py collect(): the results of an engine run in the order *)
(* the conversion writes them, and spectre/flow.py's filter on them        *)
(* (save=nooutput).  A plan is a sequence of analysis steps                *)
(*                                                                         *)
(*   ctx       the names of the sweeps the analysis is in, outermost first *)
(*   present   groups in the engine's output, one per sweep point          *)
(*   failedAt  EngineResult.failed_points (1-based), 0 for none            *)
(*   status    EngineResult.status: ok, failed or interrupted              *)
(*   rowless   groups (from 0) without the operating point's row           *)
(*   nooutput  save=nooutput                                               *)
(*   state     which of write= and writefinal= it has (the state files)    *)
(*                                                                         *)
(* and a result is                                                         *)
(*                                                                         *)
(*   id, parent   its key and its parent's (empty at the top)           *)
(*   kind         "parent" or "data"                                       *)
(*   points       the sweep points a parent lists                          *)
(*   ok           it has data (its status is not "failed")                 *)
(*   lost         the group did not fail and its row is missing            *)
(*   interrupted  its status is "interrupted"                              *)
(*   nooutput     save=nooutput; of a parent: its leaves are left out      *)
(*   state        the state files post() is to write of it                 *)
(*   block        the number of collect's block it is in                   *)
(*                                                                         *)
(* The values, names and headers of a result are left out.                 *)
(***************************************************************************)
EXTENDS Integers, SequencesExt

CONSTANT
    Points       \* sweep name -> its number of points

\* _Step.group_index: the group of a point
GroupIndex(st, idx) ==
    FoldLeft(LAMBDA g, k : g * Points[st.ctx[k]] + idx[k], 0, [k \in 1 .. Len(idx) |-> k])

\* _Step.group_status(g) = "failed"
GroupFailed(st, g) ==
    \/ st.failedAt # 0 /\ g >= st.failedAt - 1
    \/ g >= st.present
    \/ /\ ~(st.status = "interrupted" /\ g = st.present - 1)
       /\ st.status = "failed" /\ st.failedAt = 0

\* A parent's key (parent_name): the step, the level and the point around it
ParentKey(n, d, idx) == IF d = 0 THEN <<>> ELSE <<"sweep", n, d, idx>>

\* _Step.group_status(g) = "interrupted"
GroupCut(st, g) == ~GroupFailed(st, g) /\ st.status = "interrupted" /\ g = st.present - 1

\* _Collector.leaf, unswept and fill: the data of step n at a point; a group
\* without the row of its operating point is a failed result too
Leaf(plan, n, idx, legacy) ==
    LET st == plan[n]
        g == GroupIndex(st, idx)
    IN  [id |-> <<"data", n, idx>>, kind |-> "data",
         parent |-> IF legacy THEN <<>> ELSE ParentKey(n, Len(idx), IF idx = <<>> THEN idx ELSE Front(idx)),
         points |-> 0, ok |-> ~GroupFailed(st, g) /\ g \notin st.rowless,
         lost |-> ~GroupFailed(st, g) /\ g \in st.rowless, interrupted |-> GroupCut(st, g),
         state |-> st.state, nooutput |-> st.nooutput, block |-> 0]

\* _Collector.parent: level d of step n's sweeps; the innermost one lists the
\* points before the first that failed (group_status: it does not see a
\* missing row)
Parent(plan, n, d, idx) ==
    LET st == plan[n]
        all == Points[st.ctx[d]]
        kept == {k \in 0 .. all : \A i \in 0 .. k - 1 : ~GroupFailed(st, GroupIndex(st, Append(idx, i)))}
    IN  [id |-> ParentKey(n, d, idx), kind |-> "parent",
         parent |-> ParentKey(n, d - 1, IF idx = <<>> THEN idx ELSE Front(idx)),
         points |-> IF d = Len(st.ctx) THEN Max(kept) ELSE all, ok |-> TRUE, lost |-> FALSE,
         interrupted |-> FALSE, state |-> {}, nooutput |-> st.nooutput /\ d = Len(st.ctx), block |-> 0]

\* The runs of consecutive steps under the same sweep at level d; a step with
\* no sweep there is alone
RECURSIVE Partition(_, _, _)
Partition(plan, steps, d) ==
    IF steps = <<>> THEN <<>>
    ELSE LET ctx(k) == plan[steps[k]].ctx
             same(k) == \A j \in 1 .. k : Len(ctx(j)) >= d /\ ctx(j)[d] = ctx(1)[d]
             n == IF Len(ctx(1)) < d THEN 1 ELSE Max({k \in 1 .. Len(steps) : same(k)})
         IN  <<SubSeq(steps, 1, n)>> \o Partition(plan, SubSeq(steps, n + 1, Len(steps)), d)

\* _Collector.points (and the body of run's loop, d = 1): a leaf, or the
\* parents of the group and then, per point, what is below it
RECURSIVE Emit(_, _, _, _, _)
Emit(plan, group, d, idx, legacy) ==
    LET ctx == plan[group[1]].ctx IN
    IF Len(ctx) < d THEN <<Leaf(plan, group[1], idx, legacy)>>
    ELSE LET parts == Partition(plan, group, d + 1)
             at(i) == FlattenSeq([k \in 1 .. Len(parts) |->
                                    Emit(plan, parts[k], d + 1, Append(idx, i - 1), legacy)])
         IN  (IF legacy THEN <<>>
              ELSE [k \in 1 .. Len(group) |-> Parent(plan, group[k], d, idx)])
             \o FlattenSeq([i \in 1 .. Points[ctx[d]] |-> at(i)])

\* _Collector.run
CollectRun(plan, legacy) ==
    LET blocks == Partition(plan, [k \in 1 .. Len(plan) |-> k], 1)
        number(b) == LET rs == Emit(plan, blocks[b], 1, <<>>, legacy)
                     IN  [k \in 1 .. Len(rs) |-> [rs[k] EXCEPT !.block = b]]
    IN  FlattenSeq([b \in 1 .. Len(blocks) |-> number(b)])

\* flow.py convert: the stream without the results of save=nooutput; the step
\* of a parent is not looked up (_StepIndex.step_of)
Stream(plan, legacy) ==
    SelectSeq(CollectRun(plan, legacy), LAMBDA r : r.kind = "parent" \/ ~r.nooutput)
============================================================================
