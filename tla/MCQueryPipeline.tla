-------------------------- MODULE MCQueryPipeline ---------------------------
(***************************************************************************)
(* A small instance of QueryPipeline.  Weights are in hundredths, one on    *)
(* each side of every threshold they meet.                                 *)
(***************************************************************************)
EXTENDS QueryPipeline, TLC

CONSTANTS r1, p1, p2, p3

MCRequests == {r1}
MCPrompts == {p1, p2, p3}
MCCategories == {"coding", General}
MCDifficulties == {1, 2, 4}
MCGoals == {"coding", None}
MCMatches == {Match(0, None), Match(100, "coding")}

MCMoving == {<<General, 2>>, <<"coding", 4>>}

\* Far below demotion, just below it, and just above promotion.
MCWeights == {10, 38, 72}

\* A trivial and a hard prompt about code, and a medium one about nothing known.
MCEvaluations ==
    {Evaluation(ComputeDifficulty(hard, FALSE, 5), "coding", CentroidConfidence(60), 60) :
        hard \in BOOLEAN}
    \cup {Evaluation(ComputeDifficulty(FALSE, TRUE, 5), General,
                    KeywordConfidence(General, 0), 0)}

MCRetrievals == {{}, {20, 60}, {30}}
=============================================================================
