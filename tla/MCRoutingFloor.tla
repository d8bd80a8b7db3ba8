--------------------------- MODULE MCRoutingFloor ---------------------------
(***************************************************************************)
(* Small instances of RoutingFloor.  Weights are in hundredths, as in the  *)
(* code; what differs between the configurations is the decay rate, which  *)
(* stands for that many idle requests at once.                             *)
(***************************************************************************)
EXTENDS RoutingFloor, TLC

CONSTANTS s1, s2, coding, m1, m2, m3

MCSessions == {s1, s2}
MCCategories == {coding}
MCMutations == {m1, m2}
OneMutation == {m1}
ThreeMutations == {m1, m2, m3}
Symmetry == Permutations(MCSessions) \cup Permutations(ThreeMutations)

\* One cell whose band can rise and fall, one on the full pipeline.
MCDifficulties == {2, 4}
OnlyHard == {4}

\* Within one mutation of promotion, and nothing learned, whose seed is below demotion.
MCStartPresets == {69, None}
NothingLearned == {None}

MCDeltas == {5, -5}
=============================================================================
