------------------------------ MODULE MCDaidir ------------------------------
(***************************************************************************)
(* Three compiles, the second one AMS (so that a report is there to go),   *)
(* two parts, two runs.                                                    *)
(***************************************************************************)
EXTENDS Daidir

CONSTANTS s1, s2

MCSimvs == {s1, s2}
MCAms == {2}
=============================================================================
