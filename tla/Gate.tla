-------------------------------- MODULE Gate --------------------------------
(***************************************************************************)
(* The CI gate of the regression harness (regress/lib/Regress/Gate.pm,     *)
(* `run'): fetch and resolve a candidate, check it out in the repository's *)
(* one build area, build it, run the repository's blocks through           *)
(* `regress run', compare the run with the repository's baseline, push the *)
(* candidate to the default branch if nothing regressed, and make the run  *)
(* the new baseline.                                                       *)
(*                                                                         *)
(* The web server starts one detached gate per request (Web.pm,            *)
(* _spawn_gate) and nothing orders them, so gates of one repository share  *)
(* its checkout, its build directory, the table of runs and its baseline.  *)
(* coord-gate.sh works on the same checkouts, branches and run table, and  *)
(* `regress baseline' sets a baseline by hand.                             *)
(* Any child of a gate may be killed by a signal, which run_capture        *)
(* reports as exit status 0 ($? >> 8), and a gate itself may die.          *)
(***************************************************************************)
EXTENDS Naturals, Sequences, FiniteSets

CONSTANTS
    Gates,      \* the gate jobs
    Repos,      \* the gated repositories
    Commits,    \* the commits of a repository
    Anc,        \* [Commits -> SUBSET Commits]: a commit and its ancestors
    Root,       \* what the default branch holds at the start
    Blocks,     \* the blocks of REPO_BLOCKS (each stands for its tests)
    Unchecked,  \* the repositories whose recipe ignores failing steps (build_nvc)
    MaxJobs,    \* bound: the gates begun and the steps of others, together
    None,       \* undef
    Torn        \* a build directory no one commit was built in

ASSUME GateAssumption ==
    /\ None \notin Repos
    /\ Anc \in [Commits -> SUBSET Commits]
    /\ \A c \in Commits : c \in Anc[c]
    /\ Root \in Commits
    /\ Unchecked \subseteq Repos
    /\ MaxJobs \in Nat
    /\ None \notin Commits
    /\ Torn \notin Commits
    /\ None # Torn

VARIABLES
    pc,         \* where each gate is
    opts,       \* its options: [repo, build, filter]
    sha,        \* the commit its ref resolved to
    src,        \* the checkout its build under way started from
    own,        \* the run its `regress run' inserted (0: none)
    on,         \* what the results of that run were made with
    runid,      \* $run_id (0: undef)
    head,       \* the commit checked out in each repository's build area
    built,      \* what its build directory was built from
    main,       \* the default branch on origin
    runs,       \* the run table with its results
    baseline,   \* the baseline table
    alone,      \* nobody else worked on its repository since it began
    killed,     \* one of its children was killed by a signal
    ignored,    \* a step of its build failed and the build went on
    drift,      \* repositories whose branch or baseline moved without the other
    early,      \* repositories that got a run still under way as baseline
    outside     \* the steps taken outside the gates

histVars == <<alone, killed, ignored>>
gateVars == <<pc, opts, sha, src, own, on, runid, histVars>>
outVars == <<drift, early, outside>>
vars == <<gateVars, head, built, main, runs, baseline, outVars>>

Repo(g) == opts[g].repo
UnderWay(g) == pc[g] \notin {"idle", "ended"}

\* No request.
NoOptions == [repo |-> None, build |-> FALSE, filter |-> {}]

\* The options of g as far as they are read.
Asks(g, r, b, f) ==
    opts' = [opts EXCEPT ![g] = [repo |-> r, build |-> b, filter |-> f]]

\* A gate of repository r is under way.
Meets(g, r) == UnderWay(g) /\ Repo(g) = r

MoreJobs == Cardinality({g \in Gates : pc[g] # "idle"}) + outside < MaxJobs

\* The gate has pushed and not yet set the baseline.
Pushing(g) == pc[g] \in {"pushed", "setbase"}

\* A regress run is still writing run n.
Unfinished(n) == \E h \in Gates : pc[h] = "running" /\ own[h] = n

Goto(g, place) == pc' = [pc EXCEPT ![g] = place]

\* The gate ends, done or failed; what it knew is gone.
End(g) ==
    /\ Goto(g, "ended")
    /\ opts' = [opts EXCEPT ![g] = NoOptions]
    /\ sha' = [sha EXCEPT ![g] = None]
    /\ src' = [src EXCEPT ![g] = None]
    /\ own' = [own EXCEPT ![g] = 0]
    /\ on' = [on EXCEPT ![g] = {}]
    /\ runid' = [runid EXCEPT ![g] = 0]
    /\ alone' = [alone EXCEPT ![g] = TRUE]
    /\ killed' = [killed EXCEPT ![g] = FALSE]
    /\ ignored' = [ignored EXCEPT ![g] = FALSE]

\* The branch or the baseline of r moved without the other.
Drifts(r) == drift' = drift \cup {r}

-----------------------------------------------------------------------------
(* The database. *)

\* start_run, start_block_run: a run without results.  Its number is its
\* place in the table.
NewRun == [b \in Blocks |-> "none"]

\* latest_run_id (0: the table is empty)
LatestRun == Len(runs)

\* Mutant: compare with the run before, as regressions_in_run does.
RegressionsVsPrev(run, base) ==
    IF run < 2 \/ base = 0
      THEN {}
      ELSE {b \in Blocks : runs[run - 1][b] = "good" /\ runs[run][b] = "bad"}

\* regressions_vs_baseline: tests of both runs only.
Regressions(run, base) ==
    IF run = 0 \/ base = 0
      THEN {}
      ELSE {b \in Blocks : runs[base][b] = "good" /\ runs[run][b] = "bad"}

-----------------------------------------------------------------------------
(* Steps 1 to 3: the candidate in the build area. *)

\* create_gate, then the fetch.  The options are the request's; no_build and
\* filter are drawn where they are read.
Start(g) ==
    /\ pc[g] = "idle"
    /\ MoreJobs
    /\ \E r \in Repos :
         /\ Asks(g, r, FALSE, {})
         /\ alone' = [h \in Gates |->
                        IF h = g
                          THEN ~ \E k \in Gates : Meets(k, r)
                          ELSE alone[h] /\ ~Meets(h, r)]
    /\ Goto(g, "resolve")
    /\ UNCHANGED <<sha, src, own, on, runid, head, built, main, runs, baseline,
                   killed, ignored, outVars>>

\* rev-parse: the ref is a branch anyone may have moved, or HEAD.
Resolve(g) ==
    /\ pc[g] = "resolve"
    /\ \E c \in Commits : sha' = [sha EXCEPT ![g] = c]
    /\ Goto(g, "checkout")
    /\ UNCHANGED <<opts, src, own, on, runid, head, built, main, runs, baseline,
                   histVars, outVars>>

\* unless ($o{no_build})
ToBuild(g) ==
    \E build \in BOOLEAN :
        /\ Asks(g, Repo(g), build, {})
        /\ Goto(g, IF build THEN "build" ELSE "test")

\* Mutant: without --force a dirty tree keeps its commit.
CheckoutDirty(g) ==
    /\ pc[g] = "checkout"
    /\ head' \in {head, [head EXCEPT ![Repo(g)] = sha[g]]}
    /\ ToBuild(g)
    /\ UNCHANGED <<sha, src, own, on, runid, built, main, runs, baseline,
                   histVars, outVars>>

\* checkout --detach --force
Checkout(g) ==
    /\ pc[g] = "checkout"
    /\ head' = [head EXCEPT ![Repo(g)] = sha[g]]
    /\ ToBuild(g)
    /\ UNCHANGED <<sha, src, own, on, runid, built, main, runs, baseline,
                   histVars, outVars>>

\* build_repo rewrites the build directory from its first step (rm -rf lib,
\* configure) on.
BuildStarts(g) ==
    /\ pc[g] = "build"
    /\ src' = [src EXCEPT ![g] = head[Repo(g)]]
    /\ built' = [built EXCEPT ![Repo(g)] = Torn]
    /\ Goto(g, "building")
    /\ UNCHANGED <<opts, sha, own, on, runid, head, main, runs, baseline,
                   histVars, outVars>>

\* Every step succeeded: make compiled whatever was checked out while it ran.
BuildEnds(g) ==
    /\ pc[g] = "building"
    /\ built' = [built EXCEPT ![Repo(g)] =
                   IF head[Repo(g)] = src[g] THEN src[g] ELSE Torn]
    /\ src' = [src EXCEPT ![g] = None]
    /\ Goto(g, "test")
    /\ UNCHANGED <<opts, sha, own, on, runid, head, main, runs, baseline,
                   histVars, outVars>>

\* rm, smak or make -k failed, and build_nvc goes on to its smoke test: what
\* was not rebuilt is still of an older build (the directory stays Torn).
BuildIgnored(g) ==
    /\ pc[g] = "building"
    /\ Repo(g) \in Unchecked
    /\ src' = [src EXCEPT ![g] = None]
    /\ ignored' = [ignored EXCEPT ![g] = TRUE]
    /\ Goto(g, "test")
    /\ UNCHANGED <<opts, sha, own, on, runid, head, built, main, runs, baseline,
                   alone, killed, outVars>>

-----------------------------------------------------------------------------
(* Step 4: ./regress run ... --seq --filter F, a child of the gate. *)

\* cmd_run: filter_check, then start_run.
RunStarts(g) ==
    /\ pc[g] = "test"
    /\ \E f \in SUBSET Blocks \ {{}} : Asks(g, Repo(g), opts[g].build, f)
    /\ runs' = Append(runs, NewRun)
    /\ own' = [own EXCEPT ![g] = Len(runs) + 1]
    /\ Goto(g, "running")
    /\ UNCHANGED <<sha, src, on, runid, head, built, main, baseline,
                   histVars, outVars>>

\* A filter that selects no test of any block: regress run dies, nothing is
\* recorded, and the gate fails.
NothingSelected(g) ==
    /\ pc[g] = "test"
    /\ End(g)
    /\ UNCHANGED <<head, built, main, runs, baseline, outVars>>

\* run_one_inproc, record_results: the results of one block in a transaction,
\* made by what the build directory holds now.
BlockRuns(g) ==
    /\ pc[g] = "running"
    /\ \E b \in opts[g].filter, r \in {"good", "bad"} :
         /\ runs[own[g]][b] = "none"
         /\ runs' = [runs EXCEPT ![own[g]][b] = r]
    /\ on' = [on EXCEPT ![g] = @ \cup {built[Repo(g)]}]
    /\ UNCHANGED <<pc, opts, sha, src, own, runid, head, built, main, baseline,
                   histVars, outVars>>

\* $run_id
Takes(g, n) == runid' = [runid EXCEPT ![g] = n]

\* Mutant: the latest run of the table is taken for the gate's.
RunEndsLatest(g) ==
    /\ pc[g] = "running"
    /\ \A b \in opts[g].filter : runs[own[g]][b] # "none"
    /\ Takes(g, LatestRun)
    /\ Goto(g, "judge")
    /\ UNCHANGED <<opts, sha, src, own, on, head, built, main, runs, baseline,
                   histVars, outVars>>

\* The gate reads `Run #N' from the run's output.
RunEnds(g) ==
    /\ pc[g] = "running"
    /\ \A b \in opts[g].filter : runs[own[g]][b] # "none"
    /\ Takes(g, own[g])
    /\ Goto(g, "judge")
    /\ UNCHANGED <<opts, sha, src, own, on, head, built, main, runs, baseline,
                   histVars, outVars>>

\* regress run dies by itself (its DB is locked, its disk is full) after it
\* recorded the run: exit status not 0, but the output names the run.  Or the
\* adapter of a block died: one error row under the block's own name, which no
\* baseline has, and no result of its tests.
RunDies(g) ==
    /\ pc[g] = "running"
    /\ Takes(g, own[g])
    /\ Goto(g, "judge")
    /\ UNCHANGED <<opts, sha, src, own, on, head, built, main, runs, baseline,
                   histVars, outVars>>

\* regress run is killed: exit status 0.  If `Run #N' (written to a file
\* through a buffer) is not in its output, the gate takes the latest run.
RunKilled(g) ==
    /\ pc[g] \in {"test", "running"}
    /\ \E n \in {LatestRun} \cup (IF pc[g] = "running" THEN {own[g]} ELSE {}) :
         Takes(g, n)
    /\ Goto(g, "judge")
    /\ killed' = [killed EXCEPT ![g] = TRUE]
    /\ UNCHANGED <<opts, sha, src, own, on, head, built, main, runs, baseline,
                   alone, ignored, outVars>>

-----------------------------------------------------------------------------
(* Steps 5 and 6: the comparison, the push, the new baseline. *)

\* get_baseline and regressions_vs_baseline: clean, and a push is requested
\* (the request's option, read here only).
Judge(g) ==
    /\ pc[g] = "judge"
    /\ Regressions(runid[g], baseline[Repo(g)].run) = {}
    /\ Goto(g, "push")
    /\ UNCHANGED <<opts, sha, src, own, on, runid, head, built, main, runs, baseline,
                   histVars, outVars>>

\* Not clean, or no push requested: the gate is done.
NotPushed(g) ==
    /\ pc[g] = "judge"
    /\ End(g)
    /\ UNCHANGED <<head, built, main, runs, baseline, outVars>>

\* git push origin <sha>:refs/heads/<branch>: the server takes only a
\* fast-forward.  The baseline will follow, and what had moved alone before is
\* made good, unless another gate's set_baseline is still to come.
Push(g) ==
    /\ pc[g] = "push"
    /\ main[Repo(g)] \in Anc[sha[g]]
    /\ main' = [main EXCEPT ![Repo(g)] = sha[g]]
    /\ drift' = IF \E h \in Gates : h # g /\ Repo(h) = Repo(g) /\ Pushing(h)
                  THEN drift \cup {Repo(g)}
                  ELSE drift \ {Repo(g)}
    /\ Goto(g, "pushed")
    /\ UNCHANGED <<opts, sha, src, own, on, runid, head, built, runs, baseline,
                   histVars, early, outside>>

\* push_remote, push_branch, or default_branch's fallback where origin/HEAD is
\* not set, name another branch: the default one does not move.
PushElsewhere(g) ==
    /\ pc[g] = "push"
    /\ Drifts(Repo(g))
    /\ Goto(g, "pushed")
    /\ UNCHANGED <<opts, sha, src, own, on, runid, head, built, main, runs, baseline,
                   histVars, early, outside>>

\* Not a fast-forward, or the network failed.
PushRefused(g) ==
    /\ pc[g] = "push"
    /\ End(g)
    /\ UNCHANGED <<head, built, main, runs, baseline, outVars>>

\* The server moved the branch and its answer is lost: $prc is not 0.
PushLost(g) ==
    /\ pc[g] = "push"
    /\ main[Repo(g)] \in Anc[sha[g]]
    /\ main' = [main EXCEPT ![Repo(g)] = sha[g]]
    /\ Drifts(Repo(g))
    /\ End(g)
    /\ UNCHANGED <<head, built, runs, baseline, early, outside>>

\* checkout --force <branch>: wherever the local branch is (coord-gate.sh moves
\* it, no gate does); the exit status is not looked at.
CheckoutMain(g) ==
    /\ pc[g] = "pushed"
    /\ \E c \in Commits : head' = [head EXCEPT ![Repo(g)] = c]
    /\ Goto(g, "setbase")
    /\ UNCHANGED <<opts, sha, src, own, on, runid, built, main, runs, baseline,
                   histVars, outVars>>

\* Run n becomes the baseline of r; the history notes a run under way.
Rebase(r, n, c) ==
    /\ baseline' = [baseline EXCEPT ![r] = [run |-> n, sha |-> c]]
    /\ early' = IF Unfinished(n) THEN early \cup {r} ELSE early

\* Mutant: the commit checked out is taken for the one pushed.
SetBaselineHead(g) ==
    /\ pc[g] = "setbase"
    /\ Rebase(Repo(g), runid[g], head[Repo(g)])
    /\ End(g)
    /\ UNCHANGED <<head, built, main, runs, drift, outside>>

\* set_baseline
SetBaseline(g) ==
    /\ pc[g] = "setbase"
    /\ Rebase(Repo(g), runid[g], sha[g])
    /\ End(g)
    /\ UNCHANGED <<head, built, main, runs, drift, outside>>

-----------------------------------------------------------------------------
(* Failures. *)

\* _fail: git fetch, rev-parse, checkout or a step of the build that is looked
\* at reports an error, or regress run dies before it recorded a run.
Fail(g) ==
    /\ pc[g] \in {"resolve", "checkout", "building", "test"}
    /\ End(g)
    /\ UNCHANGED <<head, built, main, runs, baseline, outVars>>

\* A child killed before it did its work: run_capture's status is 0 and the
\* gate goes on.
Killed(g) == killed' = [killed EXCEPT ![g] = TRUE]

CheckoutKilled(g) ==
    /\ pc[g] = "checkout"
    /\ Killed(g)
    /\ ToBuild(g)
    /\ UNCHANGED <<sha, src, own, on, runid, head, built, main, runs, baseline,
                   alone, ignored, outVars>>

BuildKilled(g) ==
    /\ pc[g] = "building"
    /\ Killed(g)
    /\ src' = [src EXCEPT ![g] = None]
    /\ Goto(g, "test")
    /\ UNCHANGED <<opts, sha, own, on, runid, head, built, main, runs, baseline,
                   alone, ignored, outVars>>

PushKilled(g) ==
    /\ pc[g] = "push"
    /\ Killed(g)
    /\ Drifts(Repo(g))
    /\ Goto(g, "pushed")
    /\ UNCHANGED <<opts, sha, src, own, on, runid, head, built, main, runs, baseline,
                   alone, ignored, early, outside>>

\* The gate itself is killed, with its session and so with the child it waits
\* for, or its update_gate finds the database locked, between two children.
GateDies(g) ==
    /\ UnderWay(g)
    /\ drift' = IF Pushing(g) THEN drift \cup {Repo(g)} ELSE drift
    /\ End(g)
    /\ UNCHANGED <<head, built, main, runs, baseline, early, outside>>

-----------------------------------------------------------------------------
(* Outside the gates: coord-gate.sh and the command line. *)

\* One step more, and the gates under way on the repositories in rs are not
\* alone any more.
Outside(rs) ==
    /\ MoreJobs
    /\ outside' = outside + 1
    /\ alone' = [g \in Gates |-> IF UnderWay(g) /\ Repo(g) \in rs THEN FALSE ELSE alone[g]]
    /\ UNCHANGED <<pc, opts, sha, src, own, on, runid, killed, ignored, built>>

\* regress run "$BLOCK" --seq, on whatever is built, or any run by hand: a
\* finished run of no gate.
CoordRun ==
    /\ \E row \in [Blocks -> {"good", "bad"}] : runs' = Append(runs, row)
    /\ Outside({})
    /\ UNCHANGED <<head, main, baseline, drift, early>>

\* checkout "$BRANCH" and the rebase move the shared checkout.
CoordCheckout(r) ==
    /\ \E c \in Commits \ {head[r]} : head' = [head EXCEPT ![r] = c]
    /\ Outside({r})
    /\ UNCHANGED <<main, runs, baseline, drift, early>>

\* push origin "$BRANCH:refs/heads/$def", or any push that is no gate's: no
\* baseline is set.
CoordPush(r) ==
    /\ \E c \in Commits \ {main[r]} :
         main[r] \in Anc[c] /\ main' = [main EXCEPT ![r] = c]
    /\ Drifts(r)
    /\ Outside({})
    /\ UNCHANGED <<head, runs, baseline, early>>

\* regress baseline --repo r --run n: any run.  The commit recorded for it, if
\* there is one, is left out: no gate reads a baseline's commit.
BaselineByHand(r) ==
    /\ \E n \in 1 .. Len(runs) : Rebase(r, n, None)
    /\ Drifts(r)
    /\ Outside({r})
    /\ UNCHANGED <<head, main, runs>>

-----------------------------------------------------------------------------
NoBaseline == [run |-> 0, sha |-> None]

\* Nothing was ever recorded, or run 1, in which every block is good, is the
\* baseline of every repository.
Init ==
    /\ pc = [g \in Gates |-> "idle"]
    /\ opts = [g \in Gates |-> NoOptions]
    /\ sha = [g \in Gates |-> None]
    /\ src = [g \in Gates |-> None]
    /\ own = [g \in Gates |-> 0]
    /\ on = [g \in Gates |-> {}]
    /\ runid = [g \in Gates |-> 0]
    /\ head = [r \in Repos |-> Root]
    /\ built = [r \in Repos |-> Root]
    /\ main = [r \in Repos |-> Root]
    /\ \/ runs = <<>> /\ baseline = [r \in Repos |-> NoBaseline]
       \/ /\ runs = <<[b \in Blocks |-> "good"]>>
          /\ baseline = [r \in Repos |-> [run |-> 1, sha |-> Root]]
    /\ alone = [g \in Gates |-> TRUE]
    /\ killed = [g \in Gates |-> FALSE]
    /\ ignored = [g \in Gates |-> FALSE]
    /\ drift = {}
    /\ early = {}
    /\ outside = 0

Step(g) ==
    \/ Start(g) \/ Resolve(g) \/ Checkout(g) \/ BuildStarts(g) \/ BuildEnds(g)
    \/ BuildIgnored(g)
    \/ RunStarts(g) \/ NothingSelected(g) \/ BlockRuns(g) \/ RunEnds(g)
    \/ RunDies(g) \/ RunKilled(g)
    \/ Judge(g) \/ NotPushed(g) \/ Push(g) \/ PushElsewhere(g) \/ PushRefused(g) \/ PushLost(g)
    \/ CheckoutMain(g) \/ SetBaseline(g)
    \/ Fail(g) \/ CheckoutKilled(g) \/ BuildKilled(g) \/ PushKilled(g) \/ GateDies(g)

ByOthers(r) == CoordCheckout(r) \/ CoordPush(r) \/ BaselineByHand(r)

Next ==
    \/ \E g \in Gates : Step(g)
    \/ CoordRun
    \/ \E r \in Repos : ByOthers(r)

Spec == Init /\ [][Next]_vars

-----------------------------------------------------------------------------
Places == {"idle", "resolve", "checkout", "build", "building", "test", "running",
           "judge", "push", "pushed", "setbase", "ended"}

Outcomes == {"none", "good", "bad"}

RunRows == [Blocks -> Outcomes]

RunIds == 0 .. Len(runs)

\* Every variable has its type; a run number, when there is one, names a row.
TypeOK ==
    /\ pc \in [Gates -> Places]
    /\ opts \in [Gates -> [repo : Repos \cup {None}, build : BOOLEAN,
                         filter : SUBSET Blocks]]
    /\ sha \in [Gates -> Commits \cup {None}]
    /\ src \in [Gates -> Commits \cup {None}]
    /\ runs \in Seq(RunRows)
    /\ own \in [Gates -> RunIds]
    /\ on \in [Gates -> SUBSET (Commits \cup {Torn})]
    /\ runid \in [Gates -> RunIds]
    /\ head \in [Repos -> Commits]
    /\ built \in [Repos -> Commits \cup {Torn}]
    /\ main \in [Repos -> Commits]
    /\ baseline \in [Repos -> [run : RunIds, sha : Commits \cup {None}]]
    /\ alone \in [Gates -> BOOLEAN]
    /\ killed \in [Gates -> BOOLEAN]
    /\ ignored \in [Gates -> BOOLEAN]
    /\ drift \subseteq Repos
    /\ early \subseteq Repos
    /\ outside \in Nat

\* The places at which a gate has taken a run for its own.
Judged == {"judge", "push", "pushed", "setbase"}

(***************************************************************************)
(* A gate none of whose children was killed judges the run its own         *)
(* `regress run' recorded, whatever other runs (of this or of another      *)
(* repository, of coord-gate.sh) entered the table meanwhile: `Run #N' and *)
(* not the latest run (Gate.pm 72-80).                                     *)
(***************************************************************************)
JudgedOwnRun ==
    \A g \in Gates :
        pc[g] \in Judged /\ ~killed[g] =>
            runid[g] # 0 /\ runid[g] = own[g]

(***************************************************************************)
(* What a gate pushes is what its run tested: every result of the run came *)
(* from a build of the candidate, when the gate built, no failed step of   *)
(* the build was ignored (Gate.pm 166-168), none of its children was       *)
(* killed, and neither another gate of the repository nor coord-gate.sh    *)
(* worked in its checkout meanwhile (Gate.pm 55-72, 105).  Gates of other  *)
(* repositories, runs and pushes by others are free.                       *)
(***************************************************************************)
TestedWhatItPushes ==
    \A g \in Gates :
        /\ pc[g] \in {"push", "pushed", "setbase"}
        /\ opts[g].build /\ ~ignored[g] /\ ~killed[g] /\ alone[g]
        => runid[g] = own[g] /\ on[g] \subseteq {sha[g]}

(***************************************************************************)
(* The baseline is the run of what origin's default branch holds           *)
(* (Gate.pm 112-113, DB.pm 134): they differ only while a gate is between  *)
(* its push and set_baseline, or since one of the two moved without the    *)
(* other: a push by others, a baseline set by hand, a push whose answer    *)
(* was lost, that was killed or went to another branch, a gate that died   *)
(* after its push or pushed while another one was still to set the         *)
(* baseline.  The next gate that pushes alone brings them together again.  *)
(***************************************************************************)
BaselineIsMain ==
    \A r \in Repos :
        baseline[r].sha \notin {None, main[r]} =>
            r \in drift \/ \E g \in Gates : Repo(g) = r /\ Pushing(g)

(***************************************************************************)
(* No block is lost from one baseline to the next: when a gate that was    *)
(* alone on its repository, no child of which was killed and whose run     *)
(* finished every block sets the baseline, each block good in the old      *)
(* baseline is good in the new one.  It needs the comparison with the      *)
(* baseline, not with the last run (Gate.pm 83-88), which gates of other   *)
(* repositories write meanwhile, and an old baseline that was not still    *)
(* being written when it was set.                                          *)
(***************************************************************************)
BaselineKeepsGood ==
    [][\A g \in Gates :
         /\ pc[g] = "setbase" /\ pc'[g] = "ended"
         /\ alone[g] /\ ~killed[g] /\ Repo(g) \notin early
         /\ \A b \in Blocks : runs[runid[g]][b] \in {"good", "bad"}
         /\ baseline[Repo(g)].run # 0
         => \A b \in Blocks :
              runs[baseline[Repo(g)].run][b] = "good"
                => runs'[baseline'[Repo(g)].run][b] = "good"]_vars

(***************************************************************************)
(* "judging the latest earlier run instead would be wrong" (Gate.pm 75-76, *)
(* about a regress run that stopped before it recorded a run): the run a   *)
(* gate judges, if it has any, is its own.                                 *)
(***************************************************************************)
NoEarlierRunJudged ==
    \A g \in Gates :
        pc[g] \in Judged /\ runid[g] # 0 => runid[g] = own[g]

=============================================================================
