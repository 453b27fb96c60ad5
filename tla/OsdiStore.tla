----------------------------- MODULE OsdiStore -----------------------------
(***************************************************************************)
(* What the directory of compiled Verilog-A promises the runs that share   *)
(* it (vamos/spectre/run_vacask.py: ahdl_dir, compile_va): a compiled file *)
(* appears whole, in one step; it may be replaced by another whole one and *)
(* is never taken away; and a run goes on to the simulator with targets    *)
(* that are all there.  AhdlCache.tla is shown to implement this.          *)
(***************************************************************************)
CONSTANTS
    Runs,        \* the vamos processes that share the directory
    Keys,        \* the names a compiled file can have
    Contents,    \* what a whole compiled file can hold
    None         \* no file

VARIABLES
    store,       \* the file of each name
    loaded       \* the targets each run gave its simulator

TypeOK == /\ store \in [Keys -> Contents \cup {None}]
          /\ loaded \in [Runs -> SUBSET Keys]

Init == /\ store = [k \in Keys |-> None]
        /\ loaded = [r \in Runs |-> {}]

Publish(k, c) == /\ store' = [store EXCEPT ![k] = c]
                 /\ UNCHANGED loaded

Load(r, want) == /\ \A k \in want : store[k] # None
                 /\ loaded' = [loaded EXCEPT ![r] = want]
                 /\ UNCHANGED store

Next == \/ \E k \in Keys, c \in Contents : Publish(k, c)
        \/ \E r \in Runs, want \in SUBSET Keys : Load(r, want)

Spec == Init /\ [][Next]_<<store, loaded>>
=============================================================================
