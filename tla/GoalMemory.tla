----------------------------- MODULE GoalMemory -----------------------------
(***************************************************************************)
(* One session's goals: the bounded stack with its ranked eviction, the    *)
(* context that remembers which goal was activated last, the IFOM policy   *)
(* that expires or removes idle goals, and the learned overrides of IFOM's *)
(* time-to-live values with their rollback.                                *)
(*                                                                         *)
(* None of these operations awaits, so each is one step.  Time is kept as  *)
(* the age of each goal, in ticks since it was last used.                  *)
(***************************************************************************)
EXTENDS Integers, SequencesExt, FiniteSetsExt

CONSTANTS
    Goals,
    PriorityOf,     \* priority of each goal, in tenths
    Covered,        \* goals of the category the overrides are kept for
    MaxDepth,       \* GoalStackConfig.max_depth
    Recency,        \* exp(-lambda * age) for ages 0 .. MaxAge, in thousandths
    MaxAge,         \* ages are not told apart beyond this
    BaseTtl,        \* IFOMConfig: ticks for each TTL type
    TtlMin, TtlMax, \* bounds of an override
    Mutations,      \* TTL mutations, each with its rollback id
    LearnedTypes,   \* TTL types proposals are made for
    Deltas,         \* changes they may ask for
    None

LowPriority == 3
Statuses == {"active", "paused", "completed", "expired"}
TtlType == {"active", "paused", "completed", "low_priority"}
Ttl == TtlMin .. TtlMax
Record == [type : TtlType, prev : Ttl, new : Ttl, rolledBack : BOOLEAN]

ASSUME GoalAssumption ==
    /\ PriorityOf \in [Goals -> 0 .. 10]
    /\ Covered \subseteq Goals
    /\ MaxDepth \in Nat \ {0}
    /\ MaxAge \in Nat
    /\ Recency \in [0 .. MaxAge -> Nat]
    /\ \A a, b \in 0 .. MaxAge : a < b => Recency[a] > Recency[b]

ASSUME TtlAssumption ==
    /\ TtlMin \in Nat \ {0} /\ TtlMax \in Nat /\ TtlMin < TtlMax
    /\ BaseTtl \in [TtlType -> TtlMin .. TtlMax]
    /\ LearnedTypes \subseteq TtlType /\ Deltas \subseteq Int \ {0}
    /\ None \notin Goals /\ None \notin Int /\ None \notin Record

VARIABLES
    stack,       \* GoalStack._goals, None when absent
    gone,        \* goals that left the stack: their ids are never used again
    lastActive,  \* SessionGoalContext.last_active_goal_id
    override,    \* InMemoryIFOMTTLOverrideStore._overrides of the covered scope
    record,      \* the service's record of each TTL mutation
    open,        \* history: mutations of a type not rolled back, oldest first
    inOrder      \* history: the types whose rollbacks undid the newest one first

goalVars == <<stack, gone, lastActive>>
ttlVars == <<override, record, open, inOrder>>
vars == <<goalVars, ttlVars>>

Goal == [status : Statuses, age : 0 .. MaxAge]
Present == {g \in Goals : stack[g] # None}

TypeOK ==
    /\ stack \in [Goals -> Goal \cup {None}]
    /\ Cardinality(Present) <= MaxDepth
    /\ gone \subseteq Goals \ Present
    /\ lastActive \in Goals \cup {None}
    /\ override \in [TtlType -> Ttl \cup {None}]
    /\ record \in [Mutations -> Record \cup {None}]
    /\ open \in [TtlType -> Seq(Mutations)]
    /\ inOrder \subseteq TtlType

Init ==
    /\ stack = [g \in Goals |-> None]
    /\ gone = {}
    /\ lastActive = None
    /\ override = [t \in TtlType |-> None]
    /\ record = [m \in Mutations |-> None]
    /\ open = [t \in TtlType |-> <<>>]
    /\ inOrder = TtlType

-----------------------------------------------------------------------------
(***************************************************************************)
(* GoalStack.                                                              *)
(***************************************************************************)
Score(g) == PriorityOf[g] * Recency[stack[g].age]

EvictionOrder == [expired |-> 0, completed |-> 1, paused |-> 2, active |-> 3]

\* A slip: the score alone decides.
RanksBeforeByScore(g, h) == Score(g) <= Score(h)

\* eviction_rank: the status first, then the score.
RanksBefore(g, h) ==
    LET rank(x) == EvictionOrder[stack[x].status]
    IN rank(g) < rank(h) \/ (rank(g) = rank(h) /\ Score(g) <= Score(h))

\* A slip: the stack may hold one goal more.
EvictableLate ==
    IF Cardinality(Present) <= MaxDepth THEN {{}}
    ELSE {{g} : g \in {x \in Present : \A h \in Present : RanksBefore(x, h)}}

\* _evict_one; ties are left open.
Evictable ==
    IF Cardinality(Present) < MaxDepth THEN {{}}
    ELSE {{g} : g \in {x \in Present : \A h \in Present : RanksBefore(x, h)}}

\* add: room is made before the goal comes in.
AddGoal(g) ==
    /\ stack[g] = None /\ g \notin gone
    /\ \E evicted \in Evictable :
        /\ stack' = [h \in Goals |->
                        IF h = g THEN [status |-> "active", age |-> 0]
                        ELSE IF h \in evicted THEN None ELSE stack[h]]
        /\ gone' = gone \cup evicted
    /\ UNCHANGED <<lastActive, ttlVars>>

Update(g, status) ==
    /\ g \in Present
    /\ stack' = [stack EXCEPT ![g].status = status]
    /\ UNCHANGED <<gone, lastActive, ttlVars>>

TouchGoal(g) ==
    /\ g \in Present
    /\ stack' = [stack EXCEPT ![g].age = 0]
    /\ UNCHANGED <<gone, lastActive, ttlVars>>

RemoveGoal(g) ==
    /\ g \in Present
    /\ stack' = [stack EXCEPT ![g] = None]
    /\ gone' = gone \cup {g}
    /\ UNCHANGED <<lastActive, ttlVars>>

ActiveGoals == {g \in Present : stack[g].status = "active"}
TopGoals == {g \in ActiveGoals : \A h \in ActiveGoals : Score(h) <= Score(g)}

(***************************************************************************)
(* SessionGoalContext.                                                     *)
(***************************************************************************)
\* Every other active goal is paused; the goal may have been in any state.
SetActive(g) ==
    /\ g \in Present
    /\ stack' = [h \in Goals |->
                    IF h = g THEN [status |-> "active", age |-> 0]
                    ELSE IF h \in ActiveGoals THEN [stack[h] EXCEPT !.status = "paused"]
                    ELSE stack[h]]
    /\ lastActive' = g
    /\ UNCHANGED <<gone, ttlVars>>

\* get_active_goal: the activated goal while it is active, else the top one.
Focus == IF lastActive \in ActiveGoals THEN {lastActive} ELSE TopGoals

-----------------------------------------------------------------------------
(***************************************************************************)
(* IFOMPolicy.                                                             *)
(***************************************************************************)
IsLow(g) == PriorityOf[g] <= LowPriority
TypeOfGoal(g) == IF IsLow(g) THEN "low_priority" ELSE stack[g].status

BaseTtlOf(g) ==
    IF IsLow(g) /\ stack[g].status = "completed"
    THEN Min({BaseTtl["completed"], BaseTtl["low_priority"]})
    ELSE BaseTtl[TypeOfGoal(g)]

\* adjust_ttl_with_rpe_hook: a resolver that fails leaves the base.
TtlOf(g, failing) ==
    IF g \in Covered \ failing /\ override[TypeOfGoal(g)] # None
    THEN override[TypeOfGoal(g)] ELSE BaseTtlOf(g)

\* evaluate_goal: an expired goal is kept.
Overdue(g, failing) ==
    /\ stack[g].status # "expired"
    /\ stack[g].age > TtlOf(g, failing)

\* A slip: a completed goal is only marked.
EndOfGoalMarks(g) == [stack[g] EXCEPT !.status = "expired"]

EndOfGoal(g) ==
    IF stack[g].status = "completed" THEN None
    ELSE [stack[g] EXCEPT !.status = "expired"]

\* cleanup_expired: every goal is judged before any is changed.
Cleanup ==
    /\ \E failing \in SUBSET Covered :
        stack' = [g \in Goals |->
                    IF g \in Present /\ Overdue(g, failing) THEN EndOfGoal(g) ELSE stack[g]]
    /\ gone' = gone \cup {g \in Present : stack'[g] = None}
    /\ UNCHANGED <<lastActive, ttlVars>>

Tick ==
    /\ stack' = [g \in Goals |->
                    IF g \in Present /\ stack[g].age < MaxAge
                    THEN [stack[g] EXCEPT !.age = @ + 1] ELSE stack[g]]
    /\ UNCHANGED <<gone, lastActive, ttlVars>>

-----------------------------------------------------------------------------
(***************************************************************************)
(* IFOMTTLMutator.                                                         *)
(***************************************************************************)
ClampTtl(x) == IF x < TtlMin THEN TtlMin ELSE IF x > TtlMax THEN TtlMax ELSE x

\* What the learner changes: the override, or the configured value it hints at.
Effective(type) == IF override[type] = None THEN BaseTtl[type] ELSE override[type]

ApplyTtl(m, type, delta) ==
    /\ record[m] = None
    /\ LET new == ClampTtl(Effective(type) + delta)
       IN /\ override' = [override EXCEPT ![type] = new]
          /\ record' = [record EXCEPT ![m] = [type |-> type, prev |-> Effective(type),
                                              new |-> new, rolledBack |-> FALSE]]
    /\ open' = [open EXCEPT ![type] = Append(@, m)]
    /\ UNCHANGED <<goalVars, inOrder>>

\* A slip: the value taken back is written again.
RestoredUndone(r) == r.new

\* previous_value is within the bounds, so the branch that deletes is not reached.
Restored(r) == r.prev

RollbackTtl(m) ==
    /\ record[m] # None /\ ~ record[m].rolledBack
    /\ LET type == record[m].type
       IN /\ override' = [override EXCEPT ![type] = Restored(record[m])]
          /\ open' = [open EXCEPT ![type] = RemoveFirst(@, m)]
          /\ inOrder' = IF Last(open[type]) = m THEN inOrder ELSE inOrder \ {type}
    /\ record' = [record EXCEPT ![m].rolledBack = TRUE]
    /\ UNCHANGED goalVars

-----------------------------------------------------------------------------
Next ==
    \/ \E g \in Goals :
        \/ AddGoal(g) \/ TouchGoal(g) \/ RemoveGoal(g) \/ SetActive(g)
        \/ \E status \in {"active", "paused", "completed"} : Update(g, status)
    \/ Cleanup \/ Tick
    \/ \E m \in Mutations :
        \/ \E type \in LearnedTypes, delta \in Deltas : ApplyTtl(m, type, delta)
        \/ RollbackTtl(m)

Spec == Init /\ [][Next]_vars

-----------------------------------------------------------------------------
(***************************************************************************)
(* Properties.                                                             *)
(***************************************************************************)

\* A new goal takes the focus from the goal activated last only by evicting it, and
\* it evicts it only when every goal of the full stack is active.
FocusIsSticky ==
    [][(\E g \in Goals \ Present : stack'[g] # None) /\ lastActive \in ActiveGoals =>
          \/ Focus' = {lastActive}
          \/ stack'[lastActive] = None /\ ActiveGoals = Present
      ]_goalVars

\* Whatever the resolver fails on, cleanup ends every goal idle for longer than both
\* its configured and its learned time, and none idle for less than either; only a
\* completed goal leaves the stack, the others stay there expired.
CleanupSettles ==
    [][lastActive' = lastActive /\ Cleanup =>
        \A g \in Present : stack[g].status # "expired" =>
            LET ended == IF stack[g].status = "completed" THEN None
                         ELSE [stack[g] EXCEPT !.status = "expired"]
                times == {BaseTtlOf(g), TtlOf(g, {})}
            IN /\ stack[g].age > Max(times) => stack'[g] = ended
               /\ stack[g].age <= Min(times) => stack'[g] = stack[g]
      ]_goalVars

\* As long as rollbacks of a TTL type undo the newest mutation first, goals of the
\* type live as long as the newest mutation left says, or as configured.
RollbacksRestoreTtl ==
    \A type \in inOrder :
        Effective(type) = IF open[type] = <<>> THEN BaseTtl[type]
                          ELSE record[Last(open[type])].new
=============================================================================
