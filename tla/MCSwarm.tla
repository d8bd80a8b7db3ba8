------------------------------- MODULE MCSwarm -------------------------------
\* A request p with a PFC whose lock another caller h may hold, and a request q of
\* another trace without a PFC.
EXTENDS Swarm

CONSTANTS p, q, h

MCTraceOf == [k \in Keys |-> IF k = "t1:context" THEN "t1" ELSE "t2"]
MCKeyOf == [c \in Callers |-> IF c = q THEN "t2:context" ELSE "t1:context"]
=============================================================================
