------------------------------- MODULE MCGate -------------------------------
(* Two gates, of one repository or of two; one commit ahead of the branch.  *)
EXTENDS Gate, TLC

CONSTANTS c0, c1

MCCommits == {c0, c1}
MCAnc == [c \in MCCommits |-> IF c = c0 THEN {c0} ELSE MCCommits]

\* Gates are interchangeable (repositories are not: Unchecked).
Symmetry == Permutations(Gates)
=============================================================================
