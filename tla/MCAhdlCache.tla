---------------------------- MODULE MCAhdlCache ----------------------------
(***************************************************************************)
(* Two runs that share the directory: one uses two sources, the other one  *)
(* of them.                                                                *)
(***************************************************************************)
EXTENDS AhdlCache, TLC

CONSTANTS r1, r2, f1, f2, t1, t2

MCRuns == {r1, r2}
MCFiles == {f1, f2}
MCTexts == {t1, t2}
MCHdl == (r1 :> <<f1, f2>>) @@ (r2 :> <<f1>>)
=============================================================================
