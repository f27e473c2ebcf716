----------------------------- MODULE MCStartup -----------------------------
(* Values for model checking Startup.                                      *)
EXTENDS Startup

CONSTANT MaxFailures   \* calls that fail in one life of the process

Failures ==
  Cardinality(trouble) + Cardinality({t \in Threads : thr[t] = "absent"})
  + (IF rphase = "null" \/ R!Unbacked THEN 1 ELSE 0) + (IF zpos THEN 1 ELSE 0)

(* What follows the use of an unset cell of the runner is not explored.     *)
UntilUndefined == unsetUsed = {}

FewFailures == Failures <= MaxFailures
=============================================================================
