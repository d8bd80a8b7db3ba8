----------------------------- MODULE MCLearning -----------------------------
(***************************************************************************)
(* A small instance of Learning: two background tasks, two difficulties of *)
(* one category, which share the recent counter.                           *)
(***************************************************************************)
EXTENDS Learning, TLC

CONSTANTS t1, t2, easy, hard, coding

MCTasks == {t1, t2}
MCCells == {easy, hard}
MCKeys == {coding}
MCKeyOf == [c \in MCCells |-> coding]
Symmetry == Permutations(MCTasks) \cup Permutations(MCCells)

\* Nothing learned, and a preset that one more success brings to the ceiling.
MCStartWeights == {None, 9850}

\* Below the relevance that carries a success, between a fast and a slow one's,
\* and above both.
MCSimilarities == {100, 200, 500}
=============================================================================
