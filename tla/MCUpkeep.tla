------------------------------ MODULE MCUpkeep ------------------------------
(***************************************************************************)
(* A small instance of Upkeep: two near prompts, one resolved slot and     *)
(* model, two rows for a batch of one, and a process that may come back in *)
(* the other mode.                                                         *)
(***************************************************************************)
EXTENDS Upkeep

CONSTANTS p1, p2, s1, m1, r1, r2

MCPrompts == {p1, p2}
MCSimilarity == [pq \in MCPrompts \X MCPrompts |-> IF pq[1] = pq[2] THEN 100 ELSE 93]
MCWritten ==
    {p1} \X {
     Namespace("mock", UNRESOLVED, UNRESOLVED), Namespace("mock", s1, m1),
     Namespace("live", UNRESOLVED, UNRESOLVED), Namespace("live", s1, m1)}
MCRecords == {r1, r2}
=============================================================================
