----------------------------- MODULE MCDispatch -----------------------------
(* Three blocks: the first and the last share a working directory.  *)
EXTENDS Dispatch, TLC

MCSuite == 1 :> "ivtest" @@ 2 :> NoSuite @@ 3 :> "ivtest"

\* Without /proc only smak's dispatch is followed: what it leaves running meets
\* make's jobs, and nothing is claimed of that.
WithProc == os = "linux" \/ tool = "smak"
=============================================================================
