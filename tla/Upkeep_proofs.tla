---------------------------- MODULE Upkeep_proofs ----------------------------
(***************************************************************************)
(* Proofs about Upkeep for every set of prompts, slots, models and rows,   *)
(* every age and batch, and any number of restarts and failures: no cached *)
(* answer crosses a namespace, and the cleaner takes rows for their age,   *)
(* oldest first and a batch at a time.                                     *)
(***************************************************************************)
EXTENDS Upkeep, FiniteSetTheorems, TLAPS

\* An entry is filed under the key of its own prompt and namespace, which could be
\* written; for the semantic cache the namespace itself is the filter.
CacheInv ==
    /\ llmMode \in ModesAllowed
    /\ \A key \in DOMAIN exact :
          /\ exact[key] \in Namespaces /\ Writable(exact[key])
          /\ \E p \in Prompts : key = CacheKey(p, exact[key])
    /\ \A id \in DOMAIN semantic :
          semantic[id].ns \in Namespaces /\ Writable(semantic[id].ns)

\* Rows belong to tracked records and are finitely many; the cleaner's idea of the
\* time is not ahead of the clock.
RowInv ==
    /\ clock \in Nat
    /\ cycle = [stage |-> cycle.stage, now |-> cycle.now, ids |-> cycle.ids]
    /\ cycle.now \in 0 .. clock
    /\ tracked \in [Records -> {None, "available", "rolled_back", "lost"}]
    /\ IsFiniteSet(DOMAIN rows)
    /\ \A r \in DOMAIN rows :
          /\ r \in Records /\ tracked[r] # None
          /\ rows[r] \in [status : {"available", "rolled_back"}, at : Nat]

IInv == CacheInv /\ RowInv

-----------------------------------------------------------------------------
\* Two namespaces with one key are the same (cache_key.py hashes all three fields).
LEMMA KeyNamesNamespace ==
    ASSUME NEW p, NEW q, NEW ns \in Namespaces, NEW other \in Namespaces,
           CacheKey(p, ns) = CacheKey(q, other)
    PROVE  ns = other
  BY DEF CacheKey, Namespaces

\* A batch is small, aged, and leaves nothing older behind.
LEMMA BatchFacts ==
    ASSUME RowInv, NEW b \in Batches
    PROVE  /\ b \subseteq DOMAIN rows
           /\ IsFiniteSet(b) /\ Cardinality(b) <= BatchLimit
           /\ \A r \in b : /\ rows[r].at + MaxAge < clock
                           /\ \A q \in DOMAIN rows \ b : rows[r].at <= rows[q].at
<1>1. /\ b \subseteq AgedRows /\ AgedRows \subseteq DOMAIN rows
      /\ Cardinality(b) = Min({BatchLimit, Cardinality(AgedRows)})
      /\ \A r \in b, q \in AgedRows \ b : rows[r].at <= rows[q].at
  BY DEF Batches, AgedRows
<1>2. IsFiniteSet(AgedRows) /\ IsFiniteSet(b) /\ Cardinality(AgedRows) \in Nat
  BY <1>1, FS_Subset, FS_CardinalityType DEF RowInv
<1>3. \A m, n \in Nat : Min({m, n}) <= m
  <2>. TAKE m, n \in Nat
  <2>. DEFINE least == IF m <= n THEN m ELSE n
  <2>1. least \in {m, n} /\ \A y \in {m, n} : least =< y
    OBVIOUS
  <2>2. Min({m, n}) \in {m, n} /\ \A y \in {m, n} : Min({m, n}) =< y
    BY <2>1 DEF Min
  <2>. QED  BY <2>2
<1>4. Cardinality(b) <= BatchLimit
  BY <1>1, <1>2, <1>3, UpkeepAssumption
<1>5. \A r \in DOMAIN rows : rows[r].at \in Nat
  BY DEF RowInv
<1>6. \A r \in DOMAIN rows : r \in AgedRows <=> rows[r].at < cycle.now - MaxAge
  BY DEF AgedRows, Aged
<1>7. cycle.now \in Nat /\ clock \in Nat /\ cycle.now <= clock /\ MaxAge \in Nat
  BY UpkeepAssumption DEF RowInv
<1>. QED  BY <1>1, <1>2, <1>4, <1>5, <1>6, <1>7

-----------------------------------------------------------------------------
(* The inductive invariant.                                                *)

LEMMA InitInv == Init => IInv
<1>. SUFFICES ASSUME Init PROVE IInv
  OBVIOUS
<1>1. DOMAIN exact = {} /\ DOMAIN semantic = {} /\ DOMAIN rows = {}
  BY DEF Init
<1>2. CacheInv
  BY <1>1 DEF Init, CacheInv
<1>3. RowInv
  BY <1>1, FS_EmptySet DEF Init, RowInv, NoCycle
<1>. QED  BY <1>2, <1>3 DEF IInv

\* Writes to the caches, by whoever asks for one.
LEMMA CacheWrites ==
    ASSUME IInv, NEW w \in Written, PutExact(w[1], w[2]) \/ PutSemantic(w[1], w[2])
    PROVE  IInv'
<1>1. w[1] \in Prompts /\ w[2] \in Namespaces
  BY UpkeepAssumption
<1>2. RowInv'
  BY DEF IInv, RowInv, PutExact, PutSemantic, rowVars
<1>. DEFINE key == CacheKey(w[1], w[2])
<1>3. CASE PutExact(w[1], w[2])
  <2>1. /\ exact' = Stored(exact, key, w[2])
        /\ Writable(w[2]) /\ UNCHANGED <<llmMode, semantic>>
    BY <1>3 DEF PutExact
  <2>2. /\ DOMAIN exact' = DOMAIN exact \cup {key}
        /\ exact'[key] = w[2]
        /\ \A k \in DOMAIN exact \ {key} : exact'[k] = exact[k]
    <3>. HIDE DEF key
    <3>. QED  BY <2>1 DEF Stored
  <2>3. ASSUME NEW k \in DOMAIN exact'
        PROVE  /\ exact'[k] \in Namespaces /\ Writable(exact'[k])
               /\ \E p \in Prompts : k = CacheKey(p, exact'[k])
    BY <1>1, <2>1, <2>2 DEF IInv, CacheInv
  <2>. QED  BY <1>2, <2>1, <2>3 DEF IInv, CacheInv, Writable
<1>4. CASE PutSemantic(w[1], w[2])
  <2>. DEFINE entry == [prompt |-> w[1], ns |-> w[2], created |-> clock]
  <2>1. /\ semantic' = Stored(semantic, key, entry)
        /\ Writable(w[2]) /\ UNCHANGED <<llmMode, exact>>
    BY <1>4 DEF PutSemantic
  <2>2. /\ DOMAIN semantic' = DOMAIN semantic \cup {key}
        /\ semantic'[key].ns = w[2]
        /\ \A k \in DOMAIN semantic \ {key} : semantic'[k] = semantic[k]
    <3>1. entry.ns = w[2]
      OBVIOUS
    <3>. HIDE DEF key, entry
    <3>. QED  BY <2>1, <3>1 DEF Stored
  <2>3. ASSUME NEW k \in DOMAIN semantic'
        PROVE  semantic'[k].ns \in Namespaces /\ Writable(semantic'[k].ns)
    BY <1>1, <2>1, <2>2 DEF IInv, CacheInv
  <2>. QED  BY <1>2, <2>1, <2>3 DEF IInv, CacheInv, Writable
<1>. QED  BY <1>3, <1>4

\* What the service does to rows.
LEMMA RowWrites ==
    ASSUME IInv, NEW r \in Records, Persist(r) \/ UpdateStatus(r)
    PROVE  IInv'
<1>1. CacheInv'
  BY DEF IInv, CacheInv, Persist, UpdateStatus, cacheVars, Writable
<1>. USE DEF IInv
<1>2. CASE Persist(r)
  <2>1. CASE rows' = Stored(rows, r, [status |-> "available", at |-> clock])
    <3>1. /\ DOMAIN rows' = DOMAIN rows \cup {r}
          /\ rows'[r] = [status |-> "available", at |-> clock]
          /\ \A q \in DOMAIN rows \ {r} : rows'[q] = rows[q]
      BY <2>1 DEF Stored
    <3>2. IsFiniteSet(DOMAIN rows')
      BY <3>1, FS_AddElement DEF RowInv
    <3>3. /\ clock' = clock /\ cycle' = cycle
          /\ tracked' = [tracked EXCEPT ![r] = "available"]
      BY <1>2 DEF Persist
    <3>4. ASSUME NEW q \in DOMAIN rows'
          PROVE  /\ q \in Records /\ tracked'[q] # None
                 /\ rows'[q] \in [status : {"available", "rolled_back"}, at : Nat]
      BY <3>1, <3>3, UpkeepAssumption DEF RowInv
    <3>. QED  BY <1>1, <3>2, <3>3, <3>4 DEF RowInv
  <2>2. CASE UNCHANGED rows
    BY <1>1, <1>2, <2>2, UpkeepAssumption DEF Persist, RowInv
  <2>. QED  BY <1>2, <2>1, <2>2 DEF Persist
<1>3. CASE UpdateStatus(r)
  <2>1. DOMAIN rows' = DOMAIN rows
    BY <1>3 DEF UpdateStatus, Updated
  <2>2. \A q \in DOMAIN rows : rows'[q] \in [status : {"available", "rolled_back"}, at : Nat]
    BY <1>3 DEF UpdateStatus, Updated, RowInv
  <2>3. /\ clock' = clock /\ cycle' = cycle
        /\ tracked' = [tracked EXCEPT ![r] = "rolled_back"]
    BY <1>3 DEF UpdateStatus
  <2>. QED  BY <1>1, <2>1, <2>2, <2>3, UpkeepAssumption DEF RowInv
<1>. QED  BY <1>2, <1>3

\* A cleaning cycle, with its failures.
LEMMA CycleSteps == ASSUME IInv, StartCycle \/ CycleStep PROVE IInv'
<1>. USE DEF IInv
<1>1. CASE StartCycle
  BY <1>1 DEF StartCycle, CacheInv, RowInv, cacheVars, rowVars, Writable
<1>2. CASE ListAged
  <2>1. /\ UNCHANGED <<clock, llmMode, cacheVars, rowVars>>
        /\ \E s, ids : cycle' = [cycle EXCEPT !.stage = s, !.ids = ids]
    <3>1. CASE up
      BY <1>2, <3>1 DEF ListAged
    <3>2. CASE ~ up
      <4>1. cycle' = [cycle EXCEPT !.stage = "rows", !.ids = cycle.ids]
        BY <1>2, <3>2 DEF ListAged, RowInv
      <4>. QED  BY <1>2, <4>1 DEF ListAged
    <3>. QED  BY <3>1, <3>2
  <2>2. cycle' = [stage |-> cycle'.stage, now |-> cycle'.now, ids |-> cycle'.ids]
        /\ cycle'.now = cycle.now
    BY <2>1 DEF RowInv
  <2>3. CacheInv'
    BY <2>1 DEF CacheInv, cacheVars, Writable
  <2>4. RowInv'
    BY <2>1, <2>2 DEF RowInv, rowVars
  <2>. QED  BY <2>3, <2>4
<1>3. CASE DeleteListed
  BY <1>3 DEF DeleteListed, CacheInv, RowInv, cacheVars, rowVars, Writable
<1>4. CASE CacheFails
  BY <1>4 DEF CacheFails, CacheInv, RowInv, cacheVars, rowVars, Writable
<1>5. CASE CleanRows
  <2>1. /\ clock' = clock /\ cycle' = NoCycle /\ tracked' = tracked
        /\ UNCHANGED <<llmMode, exact, semantic>>
    BY <1>5 DEF CleanRows, cacheVars
  <2>. CacheInv'
    BY <2>1 DEF CacheInv, Writable
  <2>. cycle'.now = 0 /\ cycle' = [stage |-> cycle'.stage, now |-> cycle'.now, ids |-> cycle'.ids]
    BY <2>1 DEF NoCycle
  <2>2. CASE UNCHANGED rows
    BY <2>1, <2>2 DEF RowInv
  <2>3. CASE \E b \in Batches : rows' = [r \in DOMAIN rows \ b |-> rows[r]]
    <3>1. /\ DOMAIN rows' \subseteq DOMAIN rows
          /\ \A r \in DOMAIN rows' : rows'[r] = rows[r]
      BY <2>3
    <3>2. IsFiniteSet(DOMAIN rows')
      BY <3>1, FS_Subset DEF RowInv
    <3>. QED  BY <2>1, <3>1, <3>2 DEF RowInv
  <2>. QED  BY <1>5, <2>2, <2>3 DEF CleanRows
<1>. QED  BY <1>1, <1>2, <1>3, <1>4, <1>5 DEF CycleStep

\* Time, the end of the process and the next one.
LEMMA ProcessSteps ==
    ASSUME IInv, Tick \/ Shutdown \/ \E mode \in ModesAllowed : Restart(mode)
    PROVE  IInv'
<1>. USE DEF IInv
<1>1. CASE Tick
  BY <1>1 DEF Tick, CacheInv, RowInv, cacheVars, rowVars, Writable
<1>2. CASE Shutdown
  BY <1>2 DEF Shutdown, CacheInv, RowInv, cacheVars, rowVars, Writable
<1>3. ASSUME NEW mode \in ModesAllowed, Restart(mode) PROVE IInv'
  BY <1>3, UpkeepAssumption DEF Restart, CacheInv, RowInv, cacheVars, Writable, NoCycle
<1>. QED  BY <1>1, <1>2, <1>3

LEMMA StepInv == ASSUME IInv, [Next]_vars PROVE IInv'
<1>1. CASE UNCHANGED vars
  BY <1>1 DEF IInv, CacheInv, RowInv, vars, cacheVars, rowVars, Writable
<1>. QED  BY <1>1, CacheWrites, RowWrites, CycleSteps, ProcessSteps DEF Next

\* What every step of the caches, the rows, the cleaner and the process preserves.
THEOREM Invariance == Spec => []IInv
  BY InitInv, StepInv, PTL DEF Spec

-----------------------------------------------------------------------------
(* The theorems.                                                           *)

\* A request is only answered from a cache with an answer of its own mode that no slot
\* was resolved for, and a live request never is: routes read before a tier is chosen.
THEOREM NamespacesHold == Spec => []AnswersStayInTheirNamespace
<1>1. IInv => AnswersStayInTheirNamespace
  <2>. SUFFICES ASSUME IInv, NEW p \in Prompts,
                       NEW from \in ExactAnswers(p) \cup SemanticAnswers(p)
                PROVE  from = ReadNamespace /\ llmMode = "mock"
    BY DEF AnswersStayInTheirNamespace
  <2>1. ReadNamespace \in Namespaces
    BY DEF ReadNamespace, Namespace, Namespaces, IInv, CacheInv
  <2>2. from = ReadNamespace /\ Writable(from)
    <3>1. CASE from \in ExactAnswers(p)
      <4>1. /\ CacheKey(p, ReadNamespace) \in DOMAIN exact
            /\ from = exact[CacheKey(p, ReadNamespace)]
        BY <3>1 DEF ExactAnswers
      <4>2. /\ from \in Namespaces /\ Writable(from)
            /\ \E q \in Prompts : CacheKey(p, ReadNamespace) = CacheKey(q, from)
        BY <4>1 DEF IInv, CacheInv
      <4>. QED  BY <4>2, <2>1, KeyNamesNamespace
    <3>2. CASE from \in SemanticAnswers(p)
      <4>1. PICK id \in DOMAIN semantic : semantic[id].ns = ReadNamespace /\ from = semantic[id].ns
        BY <3>2 DEF SemanticAnswers, Nearest, InNamespace
      <4>. QED  BY <4>1 DEF IInv, CacheInv
    <3>. QED  BY <3>1, <3>2
  <2>. QED  BY <2>2 DEF Writable, ReadNamespace, Namespace
<1>. QED  BY <1>1, Invariance, PTL

\* The cleaner against everything that happens to rows meanwhile.
THEOREM OldestRowsGoFirst == Spec => RowsGoOldestFirst
<1>. DEFINE out == DOMAIN rows \ DOMAIN rows'
            Orderly == /\ Cardinality(out) <= BatchLimit
                       /\ \A r \in out :
                            /\ rows[r].at + MaxAge < clock
                            /\ \A q \in DOMAIN rows' : rows[r].at <= rows'[q].at
                       /\ \A r \in DOMAIN rows' \ DOMAIN rows : tracked[r] = None
<1>1. ASSUME IInv, [Next]_vars PROVE [Orderly]_vars
  <2>1. ASSUME DOMAIN rows' = DOMAIN rows PROVE Orderly
    <3>1. DOMAIN rows' \ DOMAIN rows = {} /\ out = {}
      BY <2>1
    <3>2. Cardinality(out) = 0
      BY <3>1, FS_EmptySet
    <3>. HIDE DEF out
    <3>. QED  BY <3>1, <3>2, UpkeepAssumption
  <2>2. ASSUME NEW r \in Records, Persist(r) PROVE Orderly
    <3>1. rows' = rows \/ DOMAIN rows' = DOMAIN rows \cup {r}
      BY <2>2 DEF Persist, Stored
    <3>2. out = {}
      BY <3>1
    <3>4. Cardinality(out) = 0
      BY <3>2, FS_EmptySet
    <3>3. \A q \in DOMAIN rows' \ DOMAIN rows : tracked[q] = None
      BY <3>1, <2>2 DEF Persist
    <3>. HIDE DEF out
    <3>. QED  BY <3>2, <3>3, <3>4, UpkeepAssumption
  <2>3. ASSUME CleanRows PROVE Orderly
    <3>1. CASE rows' = rows
      BY <3>1, <2>1
    <3>2. CASE \E b \in Batches : rows' = [r \in DOMAIN rows \ b |-> rows[r]]
      <4>1. PICK b \in Batches : rows' = [r \in DOMAIN rows \ b |-> rows[r]]
        BY <3>2
      <4>2. /\ DOMAIN rows' = DOMAIN rows \ b
            /\ \A q \in DOMAIN rows \ b : rows'[q] = rows[q]
        BY <4>1
      <4>3. out = b
        BY <4>2, BatchFacts, <1>1 DEF IInv
      <4>. QED  BY <4>2, <4>3, BatchFacts, <1>1 DEF IInv
    <3>. QED  BY <2>3, <3>1, <3>2 DEF CleanRows
  <2>4. \/ DOMAIN rows' = DOMAIN rows
        \/ \E r \in Records : Persist(r)
        \/ CleanRows
    BY <1>1 DEF Next, vars, rowVars, Tick, PutExact, PutSemantic, UpdateStatus, Updated,
                StartCycle, CycleStep, ListAged, DeleteListed, CacheFails, Shutdown, Restart
  <2>. QED  BY <2>1, <2>2, <2>3, <2>4
<1>. QED  BY <1>1, Invariance, PTL DEF Spec, RowsGoOldestFirst
=============================================================================
