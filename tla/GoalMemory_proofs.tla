-------------------------- MODULE GoalMemory_proofs --------------------------
(***************************************************************************)
(* Proofs about GoalMemory for every set of goals, every depth of the      *)
(* stack, every assignment of priorities and times, and any number of TTL  *)
(* mutations: the stack keeps its bound, the focus stays where it was put, *)
(* cleanup ends what is overdue, and rollbacks restore times to live.      *)
(***************************************************************************)
EXTENDS GoalMemory, QueueLemmas, FiniteSetTheorems

\* The stack of goals: TypeOK's half of it, with the finiteness a bound on a
\* cardinality needs.
StackInv ==
    /\ stack \in [Goals -> Goal \cup {None}]
    /\ IsFiniteSet(Present)
    /\ Cardinality(Present) <= MaxDepth
    /\ gone \subseteq Goals \ Present
    /\ lastActive \in Goals \cup {None}

\* The TTL history: what is open of a type is what was applied to it and not taken
\* back, each once.
HistoryInv ==
    /\ override \in [TtlType -> Ttl \cup {None}]
    /\ record \in [Mutations -> Record \cup {None}]
    /\ open \in [TtlType -> Seq(Mutations)]
    /\ inOrder \subseteq TtlType
    /\ \A type \in TtlType :
          /\ IsInjective(open[type])
          /\ \A m \in Mutations :
                m \in ToSet(open[type])
                  <=> record[m] # None /\ record[m].type = type /\ ~ record[m].rolledBack

\* A chain of mutations s, oldest first, from a base to a value: each starts from the
\* value of the one before it, and the last one made the value.
ValueBefore(base, rec, s, i) == IF i = 1 THEN base ELSE rec[s[i - 1]].new

Chain(base, rec, s, value) ==
    /\ \A i \in 1 .. Len(s) : rec[s[i]].prev = ValueBefore(base, rec, s, i)
    /\ value = ValueBefore(base, rec, s, Len(s) + 1)

\* What is open of a type is such a chain while its rollbacks undo the newest first.
ChainInv ==
    \A type \in inOrder :
        Chain(BaseTtl[type], record, open[type], Effective(type))

IInv == StackInv /\ HistoryInv /\ ChainInv

-----------------------------------------------------------------------------
(* The stack.                                                              *)

\* A step that brings no goal in keeps the bound.
LEMMA NoNewGoal ==
    ASSUME StackInv, Present' \subseteq Present,
           stack' \in [Goals -> Goal \cup {None}],
           gone' \subseteq Goals \ Present',
           lastActive' \in Goals \cup {None}
    PROVE  StackInv'
<1>1. /\ IsFiniteSet(Present')
      /\ Cardinality(Present') <= Cardinality(Present)
      /\ Cardinality(Present) \in Nat /\ Cardinality(Present') \in Nat
  BY FS_Subset, FS_CardinalityType DEF StackInv
<1>2. Cardinality(Present') <= MaxDepth
  BY <1>1, GoalAssumption DEF StackInv
<1>. QED  BY <1>1, <1>2 DEF StackInv

\* add makes room before the goal comes in.
LEMMA AddKeepsBound == ASSUME StackInv, NEW g \in Goals, AddGoal(g) PROVE StackInv'
<1>1. PICK evicted \in Evictable :
        /\ stack' = [h \in Goals |->
                        IF h = g THEN [status |-> "active", age |-> 0]
                        ELSE IF h \in evicted THEN None ELSE stack[h]]
        /\ gone' = gone \cup evicted
  BY DEF AddGoal
<1>2. evicted \subseteq Present
  BY DEF Evictable
<1>3. stack[g] = None /\ g \notin gone /\ lastActive' = lastActive
  BY DEF AddGoal
<1>4. stack' \in [Goals -> Goal \cup {None}]
  BY <1>1, GoalAssumption DEF StackInv, Goal, Statuses
<1>5. Present' \subseteq (Present \ evicted) \cup {g}
  BY <1>1 DEF Present
<1>6. gone' \subseteq Goals \ Present'
  BY <1>1, <1>2, <1>3, <1>5 DEF StackInv, Present
<1>7. Cardinality(Present) \in Nat /\ IsFiniteSet(Present) /\ Cardinality(Present) <= MaxDepth
  BY FS_CardinalityType DEF StackInv
<1>8. /\ IsFiniteSet(Present \ evicted)
      /\ Cardinality(Present \ evicted) \in Nat
      /\ Cardinality(Present \ evicted) < MaxDepth
  <2>1. CASE Cardinality(Present) < MaxDepth
    <3>1. evicted = {}
      BY <2>1 DEF Evictable
    <3>2. Present \ evicted = Present
      BY <3>1
    <3>. QED  BY <1>7, <2>1, <3>2
  <2>2. CASE ~ (Cardinality(Present) < MaxDepth)
    <3>1. PICK x \in Present : evicted = {x}
      BY <2>2 DEF Evictable
    <3>2. /\ IsFiniteSet(Present \ {x})
          /\ Cardinality(Present \ {x}) = Cardinality(Present) - 1
      BY <1>7, FS_RemoveElement
    <3>. QED  BY <1>7, <3>1, <3>2, FS_CardinalityType, GoalAssumption
  <2>. QED  BY <2>1, <2>2
<1>9. /\ IsFiniteSet((Present \ evicted) \cup {g})
      /\ Cardinality((Present \ evicted) \cup {g}) <= MaxDepth
      /\ Cardinality((Present \ evicted) \cup {g}) \in Nat
  <2>1. /\ IsFiniteSet((Present \ evicted) \cup {g})
        /\ \/ Cardinality((Present \ evicted) \cup {g}) = Cardinality(Present \ evicted)
           \/ Cardinality((Present \ evicted) \cup {g}) = Cardinality(Present \ evicted) + 1
    BY <1>8, FS_AddElement
  <2>. QED  BY <1>8, <2>1, GoalAssumption
<1>10. IsFiniteSet(Present') /\ Cardinality(Present') <= MaxDepth
  <2>1. /\ IsFiniteSet(Present') /\ Cardinality(Present') \in Nat
        /\ Cardinality(Present') <= Cardinality((Present \ evicted) \cup {g})
    BY <1>5, <1>9, FS_Subset, FS_CardinalityType
  <2>. QED  BY <1>9, <2>1, GoalAssumption
<1>. QED  BY <1>3, <1>4, <1>6, <1>10 DEF StackInv

\* The other operations of the stack, the context and the policy.
LEMMA GoalSteps ==
    ASSUME StackInv,
           \/ \E g \in Goals : \/ TouchGoal(g) \/ RemoveGoal(g) \/ SetActive(g)
                               \/ \E status \in Statuses : Update(g, status)
           \/ Cleanup \/ Tick
    PROVE  StackInv' /\ Present' \subseteq Present
<1>. USE GoalAssumption
<1>1. \A h \in Present : stack[h] \in Goal
  BY DEF StackInv, Present
<1>2. ASSUME NEW g \in Goals, TouchGoal(g) PROVE StackInv' /\ Present' \subseteq Present
  <2>1. g \in Present /\ stack' = [stack EXCEPT ![g].age = 0] /\ UNCHANGED <<gone, lastActive>>
    BY <1>2 DEF TouchGoal
  <2>2. stack' \in [Goals -> Goal \cup {None}] /\ Present' \subseteq Present
    BY <1>1, <2>1 DEF StackInv, Present, Goal
  <2>. QED  BY <2>1, <2>2, NoNewGoal DEF StackInv
<1>3. ASSUME NEW g \in Goals, RemoveGoal(g) PROVE StackInv' /\ Present' \subseteq Present
  <2>1. /\ g \in Present /\ stack' = [stack EXCEPT ![g] = None]
        /\ gone' = gone \cup {g} /\ lastActive' = lastActive
    BY <1>3 DEF RemoveGoal
  <2>2. stack' \in [Goals -> Goal \cup {None}] /\ Present' \subseteq Present \ {g}
    BY <2>1 DEF StackInv, Present
  <2>. QED  BY <2>1, <2>2, NoNewGoal DEF StackInv
<1>4. ASSUME NEW g \in Goals, SetActive(g) PROVE StackInv' /\ Present' \subseteq Present
  <2>1. /\ g \in Present /\ lastActive' = g /\ gone' = gone
        /\ stack' = [h \in Goals |->
                        IF h = g THEN [status |-> "active", age |-> 0]
                        ELSE IF h \in ActiveGoals THEN [stack[h] EXCEPT !.status = "paused"]
                        ELSE stack[h]]
    BY <1>4 DEF SetActive
  <2>2. stack' \in [Goals -> Goal \cup {None}]
    BY <1>1, <2>1 DEF StackInv, ActiveGoals, Goal, Statuses
  <2>3. Present' \subseteq Present
    BY <2>1 DEF Present, ActiveGoals
  <2>. QED  BY <2>1, <2>2, <2>3, NoNewGoal DEF StackInv
<1>5. ASSUME NEW g \in Goals, NEW status \in Statuses, Update(g, status)
      PROVE  StackInv' /\ Present' \subseteq Present
  <2>1. /\ g \in Present /\ stack' = [stack EXCEPT ![g].status = status]
        /\ UNCHANGED <<gone, lastActive>>
    BY <1>5 DEF Update
  <2>2. stack' \in [Goals -> Goal \cup {None}] /\ Present' \subseteq Present
    BY <1>1, <2>1 DEF StackInv, Present, Goal
  <2>. QED  BY <2>1, <2>2, NoNewGoal DEF StackInv
<1>6. CASE Cleanup
  <2>1. PICK failing \in SUBSET Covered :
          stack' = [g \in Goals |->
                      IF g \in Present /\ Overdue(g, failing) THEN EndOfGoal(g) ELSE stack[g]]
    BY <1>6 DEF Cleanup
  <2>2. \A g \in Present : EndOfGoal(g) \in Goal \cup {None}
    BY <1>1 DEF EndOfGoal, Goal, Statuses
  <2>3. stack' \in [Goals -> Goal \cup {None}] /\ Present' \subseteq Present
    BY <2>1, <2>2 DEF StackInv, Present
  <2>4. gone' \subseteq Goals \ Present' /\ lastActive' = lastActive
    BY <1>6, <2>3 DEF Cleanup, StackInv, Present
  <2>. QED  BY <2>3, <2>4, NoNewGoal DEF StackInv
<1>7. CASE Tick
  <2>1. /\ UNCHANGED <<gone, lastActive>>
        /\ stack' = [g \in Goals |->
                        IF g \in Present /\ stack[g].age < MaxAge
                        THEN [stack[g] EXCEPT !.age = @ + 1] ELSE stack[g]]
    BY <1>7 DEF Tick
  <2>2. stack' \in [Goals -> Goal \cup {None}] /\ Present' \subseteq Present
    BY <1>1, <2>1 DEF StackInv, Present, Goal
  <2>. QED  BY <2>1, <2>2, NoNewGoal DEF StackInv
<1>. QED  BY <1>2, <1>3, <1>4, <1>5, <1>6, <1>7

-----------------------------------------------------------------------------
(* The times to live.                                                      *)

\* A chain is about the values its own mutations keep.
LEMMA ChainKept ==
    ASSUME NEW base, NEW rec, NEW rec2, NEW value,
           NEW s \in Seq(Mutations), Chain(base, rec, s, value),
           \A m \in ToSet(s) : rec2[m].prev = rec[m].prev /\ rec2[m].new = rec[m].new
    PROVE  Chain(base, rec2, s, value)
<1>1. /\ Len(s) \in Nat
      /\ \A i \in 1 .. Len(s) : s[i] \in ToSet(s)
  BY Elements
<1>2. ASSUME NEW i \in 1 .. Len(s) + 1
      PROVE  ValueBefore(base, rec2, s, i) = ValueBefore(base, rec, s, i)
  <2>1. i # 1 => i - 1 \in 1 .. Len(s)
    BY <1>1
  <2>. QED  BY <2>1, <1>1 DEF ValueBefore
<1>. QED  BY <1>1, <1>2 DEF Chain

\* A new mutation that starts from the chain's value makes it longer.
LEMMA ChainGrows ==
    ASSUME NEW base, NEW rec, NEW value,
           NEW s \in Seq(Mutations), Chain(base, rec, s, value),
           NEW m \in Mutations, rec[m].prev = value
    PROVE  Chain(base, rec, Append(s, m), rec[m].new)
<1>. DEFINE z == Append(s, m)
            n == Len(s)
<1>1. /\ n \in Nat /\ Len(z) = n + 1 /\ z[n + 1] = m
      /\ \A i \in 1 .. n : z[i] = s[i]
  BY AppendProperties, Elements
<1>2. /\ \A i \in 1 .. n : rec[s[i]].prev = ValueBefore(base, rec, s, i)
      /\ value = ValueBefore(base, rec, s, n + 1)
  BY DEF Chain
<1>. HIDE DEF z, n
<1>3. ASSUME NEW i \in 1 .. n + 1
      PROVE  ValueBefore(base, rec, z, i) = ValueBefore(base, rec, s, i)
  <2>1. i # 1 => i - 1 \in 1 .. n
    BY <1>1
  <2>. QED  BY <2>1, <1>1 DEF ValueBefore
<1>4. ValueBefore(base, rec, z, (n + 1) + 1) = rec[m].new
  <2>1. (n + 1) + 1 # 1 /\ ((n + 1) + 1) - 1 = n + 1
    BY <1>1
  <2>. QED  BY <2>1, <1>1 DEF ValueBefore
<1>5. ASSUME NEW i \in 1 .. n + 1
      PROVE  rec[z[i]].prev = ValueBefore(base, rec, z, i)
  <2>1. CASE i = n + 1
    BY <2>1, <1>1, <1>2, <1>3
  <2>2. CASE i # n + 1
    <3>1. i \in 1 .. n
      BY <2>2, <1>1
    <3>. QED  BY <3>1, <1>1, <1>2, <1>3
  <2>. QED  BY <2>1, <2>2
<1>. QED  BY <1>1, <1>4, <1>5 DEF Chain, z

\* Undoing the newest mutation restores the value before it and leaves a chain.
LEMMA ChainShrinks ==
    ASSUME NEW base, NEW rec, NEW value,
           NEW s \in Seq(Mutations), IsInjective(s), s # <<>>,
           Chain(base, rec, s, value)
    PROVE  Chain(base, rec, RemoveFirst(s, Last(s)), rec[Last(s)].prev)
<1>. DEFINE z == RemoveFirst(s, Last(s))
            n == Len(s)
<1>1. /\ n \in Nat \ {0}
      /\ Last(s) = s[n] /\ Len(z) = n - 1
      /\ \A i \in 1 .. n - 1 : z[i] = s[i]
  BY RemoveNewest, EmptySeq
<1>2. \A i \in 1 .. n : rec[s[i]].prev = ValueBefore(base, rec, s, i)
  BY DEF Chain
<1>. HIDE DEF z, n
<1>3. ASSUME NEW i \in 1 .. n
      PROVE  ValueBefore(base, rec, z, i) = ValueBefore(base, rec, s, i)
  <2>1. i # 1 => i - 1 \in 1 .. n - 1
    BY <1>1
  <2>. QED  BY <2>1, <1>1 DEF ValueBefore
<1>4. \A i \in 1 .. n - 1 : rec[z[i]].prev = ValueBefore(base, rec, z, i)
  BY <1>1, <1>2, <1>3
<1>5. rec[Last(s)].prev = ValueBefore(base, rec, z, (n - 1) + 1)
  <2>1. n \in 1 .. n /\ (n - 1) + 1 = n
    BY <1>1
  <2>. QED  BY <2>1, <1>1, <1>2, <1>3
<1>. QED  BY <1>1, <1>4, <1>5 DEF Chain, z

\* A value the learner starts from is within the bounds.
LEMMA EffectiveInBounds ==
    ASSUME HistoryInv, NEW type \in TtlType
    PROVE  Effective(type) \in Ttl
  BY TtlAssumption DEF HistoryInv, Effective, Ttl

\* A mutation that is applied becomes the newest of its type.
LEMMA ApplySteps ==
    ASSUME HistoryInv, ChainInv,
           NEW m \in Mutations, NEW type \in LearnedTypes, NEW delta \in Deltas,
           ApplyTtl(m, type, delta)
    PROVE  HistoryInv' /\ ChainInv'
<1>. DEFINE new == ClampTtl(Effective(type) + delta)
            old == Effective(type)
            entry == [type |-> type, prev |-> old, new |-> new, rolledBack |-> FALSE]
            s == open[type]
<1>1. /\ record[m] = None
      /\ override' = [override EXCEPT ![type] = new]
      /\ record' = [record EXCEPT ![m] = entry]
      /\ open' = [open EXCEPT ![type] = Append(s, m)]
      /\ inOrder' = inOrder
  BY DEF ApplyTtl
<1>2. type \in TtlType
  BY TtlAssumption
<1>3. new \in Ttl /\ old \in Ttl
  <2>1. old \in Ttl
    BY <1>2, EffectiveInBounds
  <2>2. old \in Int /\ delta \in Int
    BY <2>1, TtlAssumption DEF Ttl
  <2>. HIDE DEF old
  <2>3. ClampTtl(old + delta) \in Ttl
    BY <2>2, TtlAssumption DEF ClampTtl, Ttl
  <2>. QED  BY <2>1, <2>3 DEF old
<1>. HIDE DEF new, old
<1>4. entry \in Record /\ entry # None
  <2>1. entry \in Record
    BY <1>2, <1>3 DEF Record
  <2>. QED  BY <2>1, TtlAssumption
<1>5. /\ entry.type = type /\ entry.prev = old /\ entry.new = new
      /\ entry.rolledBack = FALSE
  OBVIOUS
<1>. HIDE DEF entry
<1>6. ASSUME NEW t \in TtlType
      PROVE  /\ open[t] \in Seq(Mutations) /\ IsInjective(open[t])
             /\ m \notin ToSet(open[t])
  BY <1>1 DEF HistoryInv
<1>7. /\ Append(s, m) \in Seq(Mutations) /\ IsInjective(Append(s, m))
      /\ ToSet(Append(s, m)) = ToSet(s) \cup {m}
  BY <1>2, <1>6, AppendDistinct
<1>9. HistoryInv'
  <2>1. /\ override' \in [TtlType -> Ttl \cup {None}]
        /\ record' \in [Mutations -> Record \cup {None}]
        /\ inOrder' \subseteq TtlType
    BY <1>1, <1>3, <1>4 DEF HistoryInv
  <2>2. open' \in [TtlType -> Seq(Mutations)]
    BY <1>1, <1>7 DEF HistoryInv
  <2>3. ASSUME NEW t \in TtlType
        PROVE  /\ IsInjective(open'[t])
               /\ \A q \in Mutations :
                     q \in ToSet(open'[t])
                       <=> record'[q] # None /\ record'[q].type = t /\ ~ record'[q].rolledBack
    <3>1. \A q \in Mutations : record'[q] = IF q = m THEN entry ELSE record[q]
      BY <1>1 DEF HistoryInv
    <3>2. open'[t] = IF t = type THEN Append(s, m) ELSE open[t]
      BY <1>1 DEF HistoryInv
    <3>3. \A q \in Mutations : q \in ToSet(open[t])
            <=> record[q] # None /\ record[q].type = t /\ ~ record[q].rolledBack
      BY DEF HistoryInv
    <3>4. IsInjective(open'[t])
      BY <3>2, <1>6, <1>7
    <3>5. ASSUME NEW q \in Mutations
          PROVE  q \in ToSet(open'[t])
                   <=> record'[q] # None /\ record'[q].type = t /\ ~ record'[q].rolledBack
      <4>1. CASE t = type
        <5>1. q \in ToSet(open'[t]) <=> q \in ToSet(open[t]) \/ q = m
          BY <4>1, <3>2, <1>7
        <5>. QED  BY <5>1, <4>1, <3>1, <3>3, <1>4, <1>5
      <4>2. CASE t # type
        <5>1. q \in ToSet(open'[t]) <=> q \in ToSet(open[t])
          BY <4>2, <3>2
        <5>. QED  BY <5>1, <4>2, <3>1, <3>3, <1>1, <1>5
      <4>. QED  BY <4>1, <4>2
    <3>. QED  BY <3>4, <3>5
  <2>. QED  BY <2>1, <2>2, <2>3 DEF HistoryInv
<1>10. ASSUME NEW t \in inOrder
       PROVE  Chain(BaseTtl[t], record', open'[t], Effective(t)')
  <2>1. t \in TtlType /\ open[t] \in Seq(Mutations)
    BY <1>6 DEF HistoryInv
  <2>2. \A q \in ToSet(open[t]) : record'[q] = record[q]
    <3>1. \A q \in ToSet(open[t]) : q \in Mutations /\ q # m
      BY <2>1, <1>6, Elements
    <3>. QED  BY <3>1, <1>1 DEF HistoryInv
  <2>3. Chain(BaseTtl[t], record', open[t], Effective(t))
    BY <2>1, <2>2, ChainKept DEF ChainInv
  <2>4. CASE t = type
    <3>1. open'[t] = Append(open[t], m) /\ record'[m] = entry
      BY <2>4, <1>1, <2>1 DEF HistoryInv
    <3>2. Effective(t)' = new
      BY <2>4, <1>1, <1>2, <1>3, TtlAssumption DEF Effective, HistoryInv, Ttl
    <3>3. record'[m].prev = Effective(t) /\ record'[m].new = new
      BY <3>1, <2>4, <1>5 DEF old
    <3>4. Chain(BaseTtl[t], record', Append(open[t], m), record'[m].new)
      BY <2>1, <2>3, <3>3, ChainGrows
    <3>. QED  BY <3>1, <3>2, <3>3, <3>4
  <2>5. CASE t # type
    <3>1. open'[t] = open[t] /\ Effective(t)' = Effective(t)
      BY <2>5, <1>1, <2>1 DEF HistoryInv, Effective
    <3>. QED  BY <3>1, <2>3
  <2>. QED  BY <2>4, <2>5
<1>. QED  BY <1>1, <1>9, <1>10 DEF ChainInv

\* A rollback takes its mutation out of the history; out of turn, it takes its type
\* out of inOrder.
LEMMA RollbackSteps ==
    ASSUME HistoryInv, ChainInv, NEW m \in Mutations, RollbackTtl(m)
    PROVE  HistoryInv' /\ ChainInv'
<1>. DEFINE type == record[m].type
            s == open[type]
<1>1. /\ record[m] # None /\ ~ record[m].rolledBack
      /\ override' = [override EXCEPT ![type] = record[m].prev]
      /\ open' = [open EXCEPT ![type] = RemoveFirst(s, m)]
      /\ inOrder' = IF Last(s) = m THEN inOrder ELSE inOrder \ {type}
      /\ record' = [record EXCEPT ![m].rolledBack = TRUE]
  BY DEF RollbackTtl, Restored
<1>2. record[m] \in Record
  BY <1>1 DEF HistoryInv
<1>3. type \in TtlType /\ record[m].prev \in Ttl
  BY <1>2 DEF Record
<1>4. /\ s \in Seq(Mutations) /\ IsInjective(s) /\ m \in ToSet(s)
  BY <1>1, <1>3 DEF HistoryInv
<1>. HIDE DEF type, s
<1>5. /\ RemoveFirst(s, m) \in Seq(Mutations)
      /\ IsInjective(RemoveFirst(s, m))
      /\ ToSet(RemoveFirst(s, m)) = ToSet(s) \ {m}
  BY <1>4, RemoveDistinct
<1>6. /\ record'[m] \in Record /\ record'[m] # None /\ record'[m].rolledBack
      /\ record'[m].prev = record[m].prev /\ record'[m].new = record[m].new
      /\ \A q \in Mutations \ {m} : record'[q] = record[q]
  <2>1. /\ record'[m] = [record[m] EXCEPT !.rolledBack = TRUE]
        /\ \A q \in Mutations \ {m} : record'[q] = record[q]
    BY <1>1 DEF HistoryInv
  <2>2. /\ record'[m] \in Record /\ record'[m].rolledBack
        /\ record'[m].prev = record[m].prev /\ record'[m].new = record[m].new
    BY <1>2, <2>1 DEF Record
  <2>. QED  BY <2>1, <2>2, TtlAssumption
<1>7. ASSUME NEW t \in TtlType
      PROVE  open'[t] = IF t = type THEN RemoveFirst(s, m) ELSE open[t]
  BY <1>1 DEF HistoryInv
<1>8. HistoryInv'
  <2>1. /\ override' \in [TtlType -> Ttl \cup {None}]
        /\ inOrder' \subseteq TtlType
    BY <1>1, <1>3 DEF HistoryInv
  <2>2. record' \in [Mutations -> Record \cup {None}]
    BY <1>1, <1>6 DEF HistoryInv
  <2>3. open' \in [TtlType -> Seq(Mutations)]
    BY <1>1, <1>5 DEF HistoryInv
  <2>4. ASSUME NEW t \in TtlType
        PROVE  /\ IsInjective(open'[t])
               /\ \A q \in Mutations :
                     q \in ToSet(open'[t])
                       <=> record'[q] # None /\ record'[q].type = t /\ ~ record'[q].rolledBack
    <3>1. IsInjective(open'[t])
      BY <1>5, <1>7 DEF HistoryInv
    <3>2. \A q \in Mutations : q \in ToSet(open[t])
            <=> record[q] # None /\ record[q].type = t /\ ~ record[q].rolledBack
      BY DEF HistoryInv
    <3>3. ToSet(open'[t]) = ToSet(open[t]) \ {m}
      <4>1. CASE t = type
        BY <4>1, <1>5, <1>7 DEF s
      <4>2. CASE t # type
        <5>1. m \notin ToSet(open[t])
          BY <4>2, <3>2 DEF type
        <5>. QED  BY <4>2, <5>1, <1>7
      <4>. QED  BY <4>1, <4>2
    <3>. QED  BY <3>1, <3>2, <3>3, <1>6
  <2>. QED  BY <2>1, <2>2, <2>3, <2>4 DEF HistoryInv
<1>9. ASSUME NEW t \in inOrder'
      PROVE  Chain(BaseTtl[t], record', open'[t], Effective(t)')
  <2>1. t \in inOrder /\ t \in TtlType /\ (t = type => Last(s) = m)
    BY <1>1 DEF HistoryInv
  <2>2. open[t] \in Seq(Mutations) /\ IsInjective(open[t])
    BY <2>1 DEF HistoryInv
  <2>3. \A q \in ToSet(open[t]) :
          record'[q].prev = record[q].prev /\ record'[q].new = record[q].new
    <3>1. \A q \in ToSet(open[t]) : q \in Mutations
      BY <2>2, Elements
    <3>. QED  BY <3>1, <1>6
  <2>4. Chain(BaseTtl[t], record', open[t], Effective(t))
    BY <2>1, <2>2, <2>3, ChainKept DEF ChainInv
  <2>5. CASE t = type
    <3>1. s = open[t] /\ s # <<>> /\ Last(s) = m
      <4>1. s # <<>>
        BY <1>4, Elements
      <4>. QED  BY <4>1, <2>1, <2>5 DEF s
    <3>2. Effective(t)' = record'[m].prev
      BY <2>5, <1>1, <1>3, <1>6, TtlAssumption DEF Effective, HistoryInv, Ttl
    <3>3. Chain(BaseTtl[t], record', RemoveFirst(s, Last(s)), record'[Last(s)].prev)
      BY <2>2, <2>4, <3>1, ChainShrinks
    <3>. QED  BY <2>1, <2>5, <3>1, <3>2, <3>3, <1>7
  <2>6. CASE t # type
    <3>1. open'[t] = open[t] /\ Effective(t)' = Effective(t)
      BY <2>6, <2>1, <1>1, <1>7 DEF HistoryInv, Effective
    <3>. QED  BY <3>1, <2>4
  <2>. QED  BY <2>5, <2>6
<1>. QED  BY <1>8, <1>9 DEF ChainInv

-----------------------------------------------------------------------------
(* The inductive invariant.                                                *)

LEMMA InitInv == Init => IInv
<1>. SUFFICES ASSUME Init PROVE IInv
  OBVIOUS
<1>1. Present = {}
  BY DEF Init, Present
<1>2. StackInv
  BY <1>1, FS_EmptySet, GoalAssumption DEF Init, StackInv
<1>3. ASSUME NEW type \in TtlType
      PROVE  open[type] = <<>> /\ IsInjective(<<>>) /\ \A m : m \notin ToSet(<<>>)
  BY <1>1 DEF Init, IsInjective, ToSet
<1>4. HistoryInv
  BY <1>3 DEF Init, HistoryInv
<1>5. \A type \in TtlType : Chain(BaseTtl[type], record, <<>>, BaseTtl[type])
  BY DEF Chain, ValueBefore
<1>6. ChainInv
  <2>1. \A type \in TtlType : open[type] = <<>> /\ Effective(type) = BaseTtl[type]
    BY DEF Init, Effective
  <2>. QED  BY <2>1, <1>5, <1>4 DEF ChainInv, HistoryInv
<1>. QED  BY <1>2, <1>4, <1>6 DEF IInv

\* The stack's state and the times' are changed by different operations.
LEMMA Separate ==
    ASSUME IInv
    PROVE  /\ UNCHANGED goalVars => StackInv'
           /\ UNCHANGED ttlVars => HistoryInv' /\ ChainInv'
<1>1. ASSUME UNCHANGED goalVars PROVE StackInv'
  BY <1>1 DEF IInv, StackInv, goalVars, Present
<1>2. ASSUME UNCHANGED ttlVars PROVE HistoryInv' /\ ChainInv'
  BY <1>2 DEF IInv, HistoryInv, ChainInv, ttlVars, Effective
<1>. QED  BY <1>1, <1>2

LEMMA StepInv == ASSUME IInv, [Next]_vars PROVE IInv'
<1>. USE DEF IInv
<1>1. CASE UNCHANGED vars
  BY <1>1, Separate DEF vars
<1>2. ASSUME NEW g \in Goals, AddGoal(g) PROVE IInv'
  BY <1>2, AddKeepsBound, Separate DEF AddGoal
<1>3. ASSUME \/ \E g \in Goals : \/ TouchGoal(g) \/ RemoveGoal(g) \/ SetActive(g)
                              \/ \E status \in Statuses : Update(g, status)
             \/ Cleanup \/ Tick
      PROVE  IInv'
  <2>1. UNCHANGED ttlVars
    BY <1>3 DEF TouchGoal, RemoveGoal, SetActive, Update, Cleanup, Tick
  <2>. QED  BY <1>3, <2>1, GoalSteps, Separate
<1>4. ASSUME NEW m \in Mutations, NEW type \in LearnedTypes, NEW delta \in Deltas,
             ApplyTtl(m, type, delta)
      PROVE  IInv'
  BY <1>4, ApplySteps, Separate DEF ApplyTtl
<1>5. ASSUME NEW m \in Mutations, RollbackTtl(m) PROVE IInv'
  BY <1>5, RollbackSteps, Separate DEF RollbackTtl
<1>. QED  BY <1>1, <1>2, <1>3, <1>4, <1>5 DEF Next, Statuses

\* What every operation on the goals and on the times to live preserves.
THEOREM Invariance == Spec => []IInv
  BY InitInv, StepInv, PTL DEF Spec

-----------------------------------------------------------------------------
(* The theorems.                                                           *)

\* The stack never holds more goals than its depth, whatever comes and goes, and a goal
\* that left it is not in it (GoalStack.add with its eviction).
THEOREM TypeCorrect == Spec => []TypeOK
<1>1. IInv => TypeOK
  BY DEF IInv, StackInv, HistoryInv, TypeOK
<1>. QED  BY <1>1, Invariance, PTL

\* Rollbacks that undo the newest mutation first leave the time to live of the newest
\* mutation that is left, or the configured one: for any number of mutations.
THEOREM NewestFirstRestores == Spec => []RollbacksRestoreTtl
<1>1. IInv => RollbacksRestoreTtl
  <2>. SUFFICES ASSUME IInv, NEW type \in inOrder
                PROVE  Effective(type) = IF open[type] = <<>> THEN BaseTtl[type]
                                         ELSE record[Last(open[type])].new
    BY DEF RollbacksRestoreTtl
  <2>1. /\ open[type] \in Seq(Mutations)
        /\ Effective(type) = ValueBefore(BaseTtl[type], record, open[type], Len(open[type]) + 1)
    BY DEF IInv, HistoryInv, ChainInv, Chain
  <2>2. CASE open[type] = <<>>
    BY <2>1, <2>2 DEF ValueBefore
  <2>3. CASE open[type] # <<>>
    <3>1. Len(open[type]) \in Nat \ {0}
      BY <2>1, <2>3, EmptySeq
    <3>2. Len(open[type]) + 1 # 1 /\ (Len(open[type]) + 1) - 1 = Len(open[type])
      BY <3>1
    <3>. QED  BY <2>1, <2>3, <3>2 DEF ValueBefore, Last
  <2>. QED  BY <2>2, <2>3
<1>. QED  BY <1>1, Invariance, PTL

\* A goal that comes in takes the focus from the one activated last only by evicting
\* it, and only from a stack full of active goals.
THEOREM FocusSticks == Spec => FocusIsSticky
<1>. DEFINE Sticky == (\E g \in Goals \ Present : stack'[g] # None) /\ lastActive \in ActiveGoals =>
                         \/ Focus' = {lastActive}
                         \/ stack'[lastActive] = None /\ ActiveGoals = Present
<1>1. ASSUME IInv, [Next]_vars PROVE [Sticky]_goalVars
  <2>. SUFFICES ASSUME NEW new \in Goals \ Present, stack'[new] # None,
                       lastActive \in ActiveGoals
                PROVE  \/ Focus' = {lastActive}
                       \/ stack'[lastActive] = None /\ ActiveGoals = Present
    OBVIOUS
  <2>1. new \in Present' /\ new \notin Present
    BY DEF Present
  <2>2. PICK g \in Goals : AddGoal(g)
    <3>1. ~ UNCHANGED goalVars
      BY <2>1 DEF goalVars, Present
    <3>2. UNCHANGED vars => UNCHANGED goalVars
      BY DEF vars
    <3>3. ~ \E m \in Mutations :
              \/ \E type \in LearnedTypes, delta \in Deltas : ApplyTtl(m, type, delta)
              \/ RollbackTtl(m)
      BY <3>1 DEF ApplyTtl, RollbackTtl
    <3>. QED  BY <1>1, <2>1, <3>1, <3>2, <3>3, GoalSteps DEF IInv, Next, Statuses
  <2>3. PICK evicted \in Evictable :
          stack' = [h \in Goals |->
                      IF h = g THEN [status |-> "active", age |-> 0]
                      ELSE IF h \in evicted THEN None ELSE stack[h]]
    BY <2>2 DEF AddGoal
  <2>4. lastActive' = lastActive /\ stack[g] = None
    BY <2>2 DEF AddGoal
  <2>5. lastActive \in Goals /\ lastActive # g
    BY <2>4 DEF ActiveGoals, Present
  <2>6. CASE lastActive \notin evicted
    <3>1. stack'[lastActive] = stack[lastActive]
      BY <2>3, <2>5, <2>6
    <3>2. lastActive' \in ActiveGoals'
      BY <2>4, <3>1 DEF ActiveGoals, Present
    <3>. QED  BY <2>4, <3>2 DEF Focus
  <2>7. CASE lastActive \in evicted
    <3>1. stack'[lastActive] = None
      BY <2>3, <2>5, <2>7
    <3>2. \A h \in Present : RanksBefore(lastActive, h)
      BY <2>7 DEF Evictable
    <3>3. ASSUME NEW h \in Present PROVE stack[h].status = "active"
      <4>1. stack[h].status \in Statuses /\ stack[lastActive].status = "active"
        BY <1>1 DEF IInv, StackInv, Present, Goal, ActiveGoals
      <4>2. EvictionOrder["active"] <= EvictionOrder[stack[h].status]
        <5>1. EvictionOrder[stack[h].status] \in Nat /\ EvictionOrder["active"] = 3
          BY <4>1 DEF EvictionOrder, Statuses
        <5>. QED  BY <3>2, <4>1, <5>1 DEF RanksBefore
      <4>. QED  BY <4>1, <4>2 DEF EvictionOrder, Statuses
    <3>. QED  BY <3>1, <3>3 DEF ActiveGoals
  <2>. QED  BY <2>6, <2>7
<1>. QED  BY <1>1, Invariance, PTL DEF Spec, FocusIsSticky

\* The greatest and the least of two times.
LEMMA TwoTimes ==
    ASSUME NEW a \in Int, NEW b \in Int
    PROVE  /\ Max({a, b}) \in {a, b} /\ a <= Max({a, b}) /\ b <= Max({a, b})
           /\ Min({a, b}) \in {a, b} /\ Min({a, b}) <= a /\ Min({a, b}) <= b
<1>1. /\ Max({a, b}) \in {a, b} /\ \A y \in {a, b} : Max({a, b}) >= y
  <2>1. \E x \in {a, b} : \A y \in {a, b} : x >= y
    OBVIOUS
  <2>. QED  BY <2>1 DEF Max
<1>2. /\ Min({a, b}) \in {a, b} /\ \A y \in {a, b} : Min({a, b}) =< y
  <2>1. \E x \in {a, b} : \A y \in {a, b} : x =< y
    OBVIOUS
  <2>. QED  BY <2>1 DEF Min
<1>. QED  BY <1>1, <1>2

\* cleanup ends every goal idle for longer than both its times and none idle for less
\* than either, whatever the resolver of learned times fails on.
THEOREM CleanupEnds == Spec => CleanupSettles
<1>. DEFINE ended(g) == IF stack[g].status = "completed" THEN None
                        ELSE [stack[g] EXCEPT !.status = "expired"]
            times(g) == {BaseTtlOf(g), TtlOf(g, {})}
            Settled == lastActive' = lastActive /\ Cleanup =>
                         \A g \in Present : stack[g].status # "expired" =>
                           /\ stack[g].age > Max(times(g)) => stack'[g] = ended(g)
                           /\ stack[g].age <= Min(times(g)) => stack'[g] = stack[g]
<1>1. ASSUME IInv, [Next]_vars PROVE [Settled]_goalVars
  <2>. SUFFICES ASSUME Cleanup, NEW g \in Present, stack[g].status # "expired"
                PROVE  /\ stack[g].age > Max(times(g)) => stack'[g] = ended(g)
                       /\ stack[g].age <= Min(times(g)) => stack'[g] = stack[g]
    OBVIOUS
  <2>1. PICK failing \in SUBSET Covered :
          stack' = [h \in Goals |->
                      IF h \in Present /\ Overdue(h, failing) THEN EndOfGoal(h) ELSE stack[h]]
    BY DEF Cleanup
  <2>2. g \in Goals /\ stack[g] \in Goal
    BY <1>1 DEF IInv, StackInv, Present
  <2>3. stack[g].age \in Int /\ TypeOfGoal(g) \in TtlType
    BY <2>2, GoalAssumption DEF Goal, TypeOfGoal, TtlType, Statuses
  <2>4. BaseTtlOf(g) \in Int
    <3>1. /\ BaseTtl["completed"] \in Int /\ BaseTtl["low_priority"] \in Int
          /\ BaseTtl[TypeOfGoal(g)] \in Int
      BY <2>3, TtlAssumption DEF TtlType
    <3>. QED  BY <3>1, TwoTimes DEF BaseTtlOf
  <2>5. TtlOf(g, {}) \in Int
    BY <1>1, <2>3, <2>4, TtlAssumption DEF TtlOf, IInv, HistoryInv, Ttl
  <2>6. TtlOf(g, failing) \in times(g)
    BY DEF TtlOf
  <2>7. stack'[g] = IF stack[g].age > TtlOf(g, failing) THEN ended(g) ELSE stack[g]
    BY <2>1, <2>2 DEF Overdue, EndOfGoal
  <2>8. TtlOf(g, failing) \in Int /\ Min(times(g)) \in Int /\ Max(times(g)) \in Int
        /\ Min(times(g)) <= TtlOf(g, failing) /\ TtlOf(g, failing) <= Max(times(g))
    BY <2>4, <2>5, <2>6, TwoTimes
  <2>. HIDE DEF ended, times
  <2>. QED  BY <2>3, <2>7, <2>8
<1>. QED  BY <1>1, Invariance, PTL DEF Spec, CleanupSettles
=============================================================================
