--------------------------- MODULE MCConversion ---------------------------
(***************************************************************************)
(* Conversion for TLC, over what collect yields for every plan of up to    *)
(* MaxSteps analyses: unswept, in a sweep A, in a sweep B, or in B inside  *)
(* A, each run to its end, with a point whose row is missing, failed at    *)
(* its last point, failed, without output, or interrupted, and with        *)
(* save=nooutput or without.                                               *)
(***************************************************************************)
EXTENDS Conversion, Collect

CONSTANTS A, B, MaxSteps

MCPoints == A :> 2 @@ B :> 2

Total(ctx) == FoldLeft(LAMBDA n, s : n * MCPoints[s], 1, ctx)

Steps ==
    UNION {LET step(p, f, s, r, o) == [ctx |-> c, present |-> p, failedAt |-> f, status |-> s, rowless |-> r,
                                       nooutput |-> o, state |-> IF c = <<>> THEN StateKeys ELSE {}]
               n == Total(c)
           IN  {step(n, 0, "ok", {}, FALSE), step(n, 0, "ok", {}, TRUE), step(n, 0, "ok", {0}, FALSE),
                step(n, n, "failed", {}, FALSE), step(0, 0, "failed", {}, FALSE),
                step(n, 0, "failed", {}, FALSE), step(1, 0, "interrupted", {}, FALSE)} :
           c \in {<<>>, <<A>>, <<B>>, <<A, B>>}}

Plans == UNION {[1 .. n -> Steps] : n \in 1 .. MaxSteps}

MCStreams ==
    {[results |-> Stream(p, l), legacy |-> l, stepFailed |-> \E k \in 1 .. Len(p) : p[k].status = "failed"] :
        p \in Plans, l \in BOOLEAN}

\* What the theorems about the blocks suppose of collect
ASSUME StreamsWhole == \A s \in MCStreams : Blocked(s) /\ Whole(s)
===========================================================================
