----------------------------- MODULE AhdlCache -----------------------------
(***************************************************************************)
(* The directory of compiled Verilog-A (vamos/spectre/run_vacask.py,       *)
(* compile_va and compile_one) and the vamos processes that fill it at the *)
(* same time.  Each process hashes a source (osdi_path), reuses the file   *)
(* of that name or has openvaf-r compile the source into a .part file of   *)
(* its own beside it, and renames that file into place.  Stop signals,     *)
(* SIGKILL, a failing openvaf-r and an edit of a source may fall between   *)
(* any two steps.                                                          *)
(*                                                                         *)
(* The name of a target stands for the file and the text that was hashed:  *)
(* sha1 is taken to be injective, and the macros, include directories and  *)
(* openvaf-r itself, hashed as well, are fixed.  The signals are those the *)
(* runner's Interrupts recorded; how they reach the child is               *)
(* Interrupts.tla's subject, and here only that they may end it.           *)
(***************************************************************************)
EXTENDS Naturals, Sequences

CONSTANTS
    Runs,        \* the vamos processes that share the directory
    Files,       \* Verilog-A sources, each with the files it includes
    Hdl,         \* nl.hdl of each run: its sources, in order
    Texts,       \* the texts a source can have
    None,        \* no file
    Torn,        \* a file without its end
    MaxEdits     \* bound: edits of sources

ASSUME CacheAssumption ==
    /\ Hdl \in [Runs -> Seq(Files)]
    /\ None \notin Texts /\ Torn \notin Texts /\ None # Torn
    /\ MaxEdits \in Nat

VARIABLES
    text,        \* the sources on disk
    osdi,        \* the directory: the file of each target
    part,        \* the .part file of each run
    pc,          \* where the run is in compile_va and compile_one
    out,         \* compile_va's out: the targets so far
    hashed,      \* the text osdi_path hashed for the source at hand
    openvaf,     \* the run's openvaf-r: none, running, or its exit: ok, failed
    read,        \* the text that openvaf-r has read
    signals,     \* stop signals recorded: intr.signum is the first, intr.second the second
    \* history
    edits,       \* edits made
    raced        \* sources edited between a hash and openvaf-r's reading of them

vars == <<text, osdi, part, pc, out, hashed, openvaf, read, signals, edits, raced>>

Keys == Files \X Texts

Ended == {"failed", "stopped", "aborted", "raised", "loaded", "killed"}
AtSource == {"test", "spawn", "wait", "check", "replace"}

TypeOK ==
    /\ text \in [Files -> Texts]
    /\ osdi \in [Keys -> Texts \cup {None, Torn}]
    /\ part \in [Runs -> Texts \cup {None, Torn}]
    /\ pc \in [Runs -> {"setup", "path", "load"} \cup AtSource \cup Ended]
    /\ out \in [Runs -> Seq(Keys)]
    /\ hashed \in [Runs -> Texts \cup {None}]
    /\ openvaf \in [Runs -> {"none", "running", "ok", "failed"}]
    /\ read \in [Runs -> Texts \cup {None}]
    /\ signals \in [Runs -> 0..2]
    /\ edits \in 0..MaxEdits
    /\ raced \in SUBSET Files

Init ==
    /\ text \in [Files -> Texts]
    /\ osdi = [k \in Keys |-> None]
    /\ part = [r \in Runs |-> None]
    /\ pc = [r \in Runs |-> "setup"]
    /\ out = [r \in Runs |-> <<>>]
    /\ hashed = [r \in Runs |-> None]
    /\ openvaf = [r \in Runs |-> "none"]
    /\ read = [r \in Runs |-> None]
    /\ signals = [r \in Runs |-> 0]
    /\ edits = 0
    /\ raced = {}

\* The source the run is at, and the name of its target.
Src(r) == Hdl[r][Len(out[r]) + 1]
Target(r) == <<Src(r), hashed[r]>>

Goto(r, l) == pc' = [pc EXCEPT ![r] = l]

disk == <<osdi, part>>
child == <<openvaf, read>>
history == <<edits, raced>>

\* compile_va up to its loop: no sources, or a macro, openvaf-r or the directory that will not do.
Setup(r) ==
    /\ pc[r] = "setup"
    /\ \/ Goto(r, "path")
       \/ Hdl[r] # <<>> /\ Goto(r, "failed")
    /\ UNCHANGED <<text, disk, out, hashed, child, signals, history>>

\* osdi_path; a target with a double quote in its name is refused.
\* mutant: the key does not cover the text of the source.
OsdiPathNameOnly(r) ==
    /\ pc[r] = "path" /\ Len(out[r]) < Len(Hdl[r])
    /\ hashed' = [hashed EXCEPT ![r] = CHOOSE t \in Texts : TRUE]
    /\ Goto(r, "test") \/ Goto(r, "failed")
    /\ UNCHANGED <<text, disk, out, child, signals, history>>
OsdiPath(r) ==
    /\ pc[r] = "path" /\ Len(out[r]) < Len(Hdl[r])
    /\ hashed' = [hashed EXCEPT ![r] = text[Src(r)]]
    /\ Goto(r, "test") \/ Goto(r, "failed")
    /\ UNCHANGED <<text, disk, out, child, signals, history>>

\* The loop is over: out goes to the deck's load lines.
PathsDone(r) ==
    /\ pc[r] = "path" /\ Len(out[r]) = Len(Hdl[r])
    /\ Goto(r, "load")
    /\ UNCHANGED <<text, disk, out, hashed, child, signals, history>>

\* os.path.isfile(target): whatever is there is reused.
IsFile(r) ==
    /\ pc[r] = "test"
    /\ IF osdi[Target(r)] # None
       THEN out' = [out EXCEPT ![r] = Append(@, Target(r))] /\ Goto(r, "path")
       ELSE UNCHANGED out /\ Goto(r, "spawn")
    /\ UNCHANGED <<text, disk, hashed, child, signals, history>>

\* compile_one up to Popen: a recorded stop signal first, then openvaf-r starts or cannot.
Spawn(r) ==
    /\ pc[r] = "spawn"
    /\ \/ signals[r] > 0 /\ Goto(r, "stopped") /\ UNCHANGED child
       \/ signals[r] = 0 /\ Goto(r, "failed") /\ UNCHANGED child
       \/ /\ signals[r] = 0
          /\ openvaf' = [openvaf EXCEPT ![r] = "running"]
          /\ read' = [read EXCEPT ![r] = None]
          /\ Goto(r, "wait")
    /\ UNCHANGED <<text, disk, out, hashed, signals, history>>

\* communicate() returns when openvaf-r is gone; a second signal ends the loop, and kill_group the child.
\* flags() or communicate() may also raise (a log that cannot be written): the finally clause ends the
\* child, and the exception leaves compile_one past the tests that remove the .part file.
\* mutant: no kill_group in the finally clause.
CommunicateNoKill(r) ==
    /\ pc[r] = "wait"
    /\ \/ (openvaf[r] \in {"ok", "failed"} \/ signals[r] = 2) /\ Goto(r, "check")
       \/ Goto(r, "raised")
    /\ UNCHANGED <<text, disk, out, hashed, child, signals, history>>
Communicate(r) ==
    /\ pc[r] = "wait"
    /\ \/ (openvaf[r] \in {"ok", "failed"} \/ signals[r] = 2) /\ Goto(r, "check")
       \/ Goto(r, "raised")
    /\ openvaf' = [openvaf EXCEPT ![r] = IF @ = "running" THEN "failed" ELSE @]
    /\ UNCHANGED <<text, disk, out, hashed, read, signals, history>>

\* The tests between the child and os.replace, each of which removes the .part file.
\* mutant: the exit status and the file are not looked at.
CheckNothing(r) ==
    /\ pc[r] = "check"
    /\ IF signals[r] > 0
       THEN part' = [part EXCEPT ![r] = None] /\ Goto(r, IF signals[r] = 2 THEN "aborted" ELSE "stopped")
       ELSE UNCHANGED part /\ Goto(r, "replace")
    /\ UNCHANGED <<text, osdi, out, hashed, child, signals, history>>
Check(r) ==
    /\ pc[r] = "check"
    /\ LET bad == openvaf[r] # "ok" \/ part[r] = None
       IN  /\ part' = [part EXCEPT ![r] = IF signals[r] > 0 \/ bad THEN None ELSE @]
           /\ Goto(r, CASE signals[r] = 2 -> "aborted"
                        [] signals[r] = 1 -> "stopped"
                        [] signals[r] = 0 /\ bad -> "failed"
                        [] OTHER -> "replace")
    /\ UNCHANGED <<text, osdi, out, hashed, child, signals, history>>

\* os.replace(tmp, target), and compile_va's out.append.
Replace(r) ==
    /\ pc[r] = "replace"
    /\ osdi' = [osdi EXCEPT ![Target(r)] = part[r]]
    /\ part' = [part EXCEPT ![r] = None]
    /\ out' = [out EXCEPT ![r] = Append(@, Target(r))]
    /\ Goto(r, "path")
    /\ UNCHANGED <<text, hashed, child, signals, history>>

\* os.replace fails (the directory is read-only or full): the OSError leaves the .part file.
ReplaceRaises(r) ==
    /\ pc[r] = "replace"
    /\ Goto(r, "raised")
    /\ UNCHANGED <<text, disk, out, hashed, child, signals, history>>

\* The simulator opens every target.
Load(r) ==
    /\ pc[r] = "load"
    /\ Goto(r, "loaded")
    /\ UNCHANGED <<text, disk, out, hashed, child, signals, history>>

\* openvaf-r, which goes on when its vamos has been killed: reads the source,
\* opens its output, and ends, with a status that is 0 only for a whole file
\* or for none (or an empty one: alike for the test of the size); any other
\* end, a signal's among them, leaves what is there.
OpenvafReads(r) ==
    /\ openvaf[r] = "running" /\ read[r] = None
    /\ read' = [read EXCEPT ![r] = text[Src(r)]]
    /\ UNCHANGED <<text, disk, pc, out, hashed, openvaf, signals, history>>

OpenvafWrites(r) ==
    /\ openvaf[r] = "running" /\ read[r] # None /\ part[r] = None
    /\ part' = [part EXCEPT ![r] = Torn]
    /\ UNCHANGED <<text, osdi, pc, out, hashed, child, signals, history>>

OpenvafEnds(r) ==
    /\ openvaf[r] = "running"
    /\ \/ /\ openvaf' = [openvaf EXCEPT ![r] = "ok"]
          /\ part' = [part EXCEPT ![r] = IF @ = Torn THEN read[r] ELSE @]
       \/ /\ openvaf' = [openvaf EXCEPT ![r] = "failed"]
          /\ UNCHANGED part
    /\ UNCHANGED <<text, osdi, pc, out, hashed, read, signals, history>>

\* INT, TERM, HUP or QUIT to vamos, as the runner's Interrupts records them.
Signal(r) ==
    /\ pc[r] \notin Ended /\ signals[r] < 2
    /\ signals' = [signals EXCEPT ![r] = @ + 1]
    /\ UNCHANGED <<text, disk, pc, out, hashed, child, history>>

Kill(r) ==
    /\ pc[r] \notin Ended
    /\ Goto(r, "killed")
    /\ UNCHANGED <<text, disk, out, hashed, child, signals, history>>

\* A run that has hashed f and whose openvaf-r is yet to read it.
Between(r, f) == \/ pc[r] \in {"test", "spawn"} /\ Src(r) = f
                 \/ openvaf[r] = "running" /\ read[r] = None /\ Src(r) = f

Edit(f) ==
    /\ edits < MaxEdits
    /\ edits' = edits + 1
    /\ text' \in {[text EXCEPT ![f] = t] : t \in Texts \ {text[f]}}
    /\ raced' = IF \E r \in Runs : Between(r, f) THEN raced \cup {f} ELSE raced
    /\ UNCHANGED <<disk, pc, out, hashed, child, signals>>

Step(r) == \/ Setup(r) \/ OsdiPath(r) \/ PathsDone(r) \/ IsFile(r) \/ Spawn(r)
           \/ Communicate(r) \/ Check(r) \/ Replace(r) \/ ReplaceRaises(r) \/ Load(r)

Openvaf(r) == OpenvafReads(r) \/ OpenvafWrites(r) \/ OpenvafEnds(r)

Next == \/ \E r \in Runs : Step(r) \/ Openvaf(r) \/ Signal(r) \/ Kill(r)
        \/ \E f \in Files : Edit(f)

Spec == Init /\ [][Next]_vars

-----------------------------------------------------------------------------
(***************************************************************************)
(* The properties.                                                         *)
(***************************************************************************)

Elems(s) == {s[i] : i \in DOMAIN s}

\* The directory as OsdiStore promises it: the targets are the files, and a
\* run has loaded what its deck names once its simulator is running.
Store == INSTANCE OsdiStore WITH
           Contents <- Texts, store <- osdi,
           loaded <- [r \in Runs |-> IF pc[r] = "loaded" THEN Elems(out[r]) ELSE {}]

\* Whatever runs share the directory, and whenever one is stopped, killed or
\* fails, a target is written whole, in one step, and never goes; and every
\* run that gets past compile_va finds each target its load lines name.
ImplementsStore == Store!Spec

\* A run that has ended other than by SIGKILL has no openvaf-r left, and one that
\* a failing openvaf-r or stop signals ended, or that went on to its simulator,
\* leaves no .part file: compile_one removes it before it gives up, and only once
\* openvaf-r can no longer write it again.  An exception out of the wait loop or
\* of os.replace, which nothing in compile_one catches, may leave the file.
NothingLeft ==
    \A r \in Runs : pc[r] \in Ended \ {"killed"} =>
        openvaf[r] # "running" /\ (pc[r] # "raised" => part[r] = None)

\* osdi_path's promise, "a change compiles anew and an unchanged source is
\* reused": a target holds another text than the one its name stands for only
\* if the source was edited in the window between a hash and openvaf-r's
\* reading of it.
StaleNeedsRace == \A k \in Keys : osdi[k] \notin {None, k[2]} => k[1] \in raced
=============================================================================
