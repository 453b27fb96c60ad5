--------------------------- MODULE MCSpectreRun ---------------------------
(***************************************************************************)
(* SpectreRun for TLC: one configuration per engine.                       *)
(***************************************************************************)
EXTENDS SpectreRun
===========================================================================
