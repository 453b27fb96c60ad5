--------------------------- MODULE MCInterrupts ---------------------------
(***************************************************************************)
(* Interrupts for TLC.  The configurations give it two stop signals, one   *)
(* of them the SIGTERM of the death signal, and the flags where the caller *)
(* has flags; nvc's caller finds the default handlers outside its block,   *)
(* the spectre runners' callers find flow.py's.                            *)
(***************************************************************************)
EXTENDS Interrupts
===========================================================================
