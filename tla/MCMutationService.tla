------------------------- MODULE MCMutationService -------------------------
(***************************************************************************)
(* Small instances of MutationService: three calls, the first two of one   *)
(* trace, all about the same target, the third from another session.       *)
(***************************************************************************)
EXTENDS MutationService

CONSTANTS c1, c2, c3, t1, t2, s1, s2, hard

ThreeCalls == {c1, c2, c3}
TwoCalls == {c1, c3}
MCTraces == {t1, t2}
MCSessions == {s1, s2}
MCKeys == {hard}
MCTraceOf == [c \in Calls |-> IF c = c3 THEN t2 ELSE t1]
MCSessionOf == [c \in Calls |-> IF c = c3 THEN s2 ELSE s1]
OneSessionOf == [c \in Calls |-> s1]
MCKeyOf == [c \in Calls |-> hard]

\* The first two calls differ in nothing: one trace, one session, one target.
SameTrace == Permutations({c1, c2})

\* Two negative mutations take a cell from the seed to the lower clamp.
MCDeltas == {-10}
OnlyPositive == {5}
NothingLearned == {None}
=============================================================================
