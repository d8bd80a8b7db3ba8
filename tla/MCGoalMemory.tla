---------------------------- MODULE MCGoalMemory ----------------------------
(***************************************************************************)
(* A small instance of GoalMemory: three goals for a stack of two, one of  *)
(* low priority, one out of the overrides' scope.  A tick is twenty        *)
(* minutes in Recency; the TTLs keep the order of the defaults.            *)
(***************************************************************************)
EXTENDS GoalMemory, TLC

CONSTANTS g1, g2, g3, m1, m2

MCGoals == {g1, g2, g3}
MCMutations == {m1, m2}
MCPriorityOf == (g1 :> 8) @@ (g2 :> 8) @@ (g3 :> 3)
MCCovered == {g2, g3}
MCRecency == (0 :> 1000) @@ (1 :> 717) @@ (2 :> 513) @@ (3 :> 368)
MCBaseTtl == [active |-> 2, paused |-> 2, completed |-> 2, low_priority |-> 1]
MCLearnedTypes == {"low_priority"}
MCDeltas == {1, -1}
Symmetry == Permutations(MCMutations)
=============================================================================
