------------------------ MODULE RoutingFloor_proofs ------------------------
(***************************************************************************)
(* Proofs about RoutingFloor for every set of sessions, cells and weights: *)
(* type correctness, the agreement of the two LRUs, the bound on how far a *)
(* floor strays from its baseline, and that only forgetting lowers it.     *)
(***************************************************************************)
EXTENDS RoutingFloor, QueueLemmas


\* The clamp of the mutator and of the preset keeps every weight in its bounds.
LEMMA ClampWeight == \A w \in Int : Clamp(w) \in Weight
  BY WeightAssumption DEF Clamp, Weight

\* A roll-up into the preset stays in the bounds (update_ema).
LEMMA EmaWeight ==
    ASSUME NEW prev \in Weight \cup {None}, NEW value \in Weight
    PROVE  Ema(prev, value) \in Weight
<1>1. value \in Int
  BY WeightAssumption DEF Weight
<1>2. CASE prev = None
  BY <1>1, <1>2, ClampWeight DEF Ema
<1>3. CASE prev # None
  <2>1. (3 * value + 7 * prev) \div 10 \in Int
    BY <1>1, <1>3, WeightAssumption DEF Weight
  <2>. QED  BY <2>1, <1>3, ClampWeight DEF Ema
<1>. QED  BY <1>2, <1>3

\* Forgetting only lowers a weight, and not below the bound (RoutingDecay.step).
LEMMA DecayedWeight ==
    ASSUME NEW w \in Weight, NEW idle \in Nat
    PROVE  Decayed(w, idle) \in Weight
<1>1. DecayRate * idle \in Nat
  BY WeightAssumption
<1>. DEFINE loss == DecayRate * idle
<1>. HIDE DEF loss
<1>2. loss \in Nat
  BY <1>1 DEF loss
<1>3. (IF w - loss < WMin THEN WMin ELSE w - loss) \in Weight
  BY <1>2, WeightAssumption DEF Weight
<1>. QED  BY <1>3 DEF Decayed, loss

\* The override moves a band by one at most and stays among the three bands.
LEMMA OverrideOneBand ==
    ASSUME NEW band \in Band, NEW w \in Weight \cup {None}
    PROVE  /\ Override(band, w) \in Band
           /\ Override(band, w) \in band - 1 .. band + 1
  BY WeightAssumption, NoneAssumption
     DEF Override, Band, Lightweight, Standard, FullPipeline, Weight

\* The ratchet answers the higher of the band and the floor.
LEMMA RatchetedBand ==
    ASSUME NEW band \in Band, NEW floor \in Band \cup {None}
    PROVE  /\ Ratcheted(band, floor) \in Band
           /\ floor = None => Ratcheted(band, floor) = band
           /\ floor # None => /\ Ratcheted(band, floor) >= floor
                              /\ Ratcheted(band, floor) >= band
                              /\ Ratcheted(band, floor) \in {band, floor}
  BY NoneAssumption
     DEF Ratcheted, BandIndex, Band, Lightweight, Standard, FullPipeline

\* The release takes one band away and stops at the baseline.
LEMMA ReleasedBand ==
    ASSUME NEW floor \in Band \cup {None}, NEW base \in Band
    PROVE  /\ Released(floor, base) \in Band \cup {None}
           /\ Released(floor, base) = None <=> floor = None
           /\ floor # None => /\ Released(floor, base) >= base
                              /\ Released(floor, base) >= floor - 1
                              /\ Released(floor, base) \in {base, floor - 1}
  BY NoneAssumption DEF Released, Band, Lightweight, Standard, FullPipeline

-----------------------------------------------------------------------------
\* Every cell has a baseline band (the skip router's table).
LEMMA BaselineBand == \A c \in Cell : BaselineOf(c) \in Band
<1>1. \A c \in Cell : c[2] \in Difficulty
  BY RoutingAssumption DEF Cell
<1>. QED
  BY <1>1 DEF BaselineOf, Baseline, Band, Lightweight, Standard, FullPipeline, Difficulty

-----------------------------------------------------------------------------
(***************************************************************************)
(* What a request computes.                                                *)
(***************************************************************************)

\* What the routing layer reads of a cell is a weight or nothing.
LEMMA ReadWeight ==
    ASSUME TypeOK, NEW s \in Sessions, NEW c \in Cell
    PROVE  Read(s, c) \in Weight \cup {None}
  BY DEF TypeOK, Read

\* Decay leaves a weight or nothing.
LEMMA AfterDecay ==
    ASSUME TypeOK, NEW s \in Sessions, NEW c \in Cell
    PROVE  /\ WeightAfterDecay(s, c) \in Weight \cup {None}
           /\ Decays(s, c) => WeightAfterDecay(s, c) \in Weight
<1>1. Read(s, c) \in Weight \cup {None}
  BY ReadWeight
<1>2. CASE Decays(s, c)
  <2>1. step[s] \in Nat /\ last[s][c] \in Nat
    BY DEF TypeOK
  <2>2. Idle(s, c) \in Nat /\ Read(s, c) \in Weight
    BY <1>1, <1>2, <2>1 DEF Decays, Idle
  <2>. QED  BY <1>2, <2>2, DecayedWeight DEF WeightAfterDecay
<1>3. CASE ~ Decays(s, c)
  BY <1>1, <1>3 DEF WeightAfterDecay
<1>. QED  BY <1>2, <1>3

\* The band a request answers, and how it relates to the floor before it.
LEMMA RouteBand ==
    ASSUME TypeOK, FloorWithinOneBand, NEW s \in Sessions, NEW c \in Cell
    PROVE  /\ Route(s, c) \in Band
           /\ Route(s, c) \in BaselineOf(c) - 1 .. BaselineOf(c) + 1
           /\ floors[s][c] # None /\ Route(s, c) < floors[s][c] =>
                 /\ Forgets(s, c)
                 /\ Route(s, c) = floors[s][c] - 1
                 /\ Route(s, c) >= BaselineOf(c)
<1>. DEFINE base == BaselineOf(c)
            over == Override(base, WeightAfterDecay(s, c))
            old == floors[s][c]
            floor == FloorAfterDecay(s, c)
<1>1. base \in Band
  BY BaselineBand
<1>2. over \in Band /\ over \in base - 1 .. base + 1
  BY <1>1, AfterDecay, OverrideOneBand
<1>3. /\ old \in Band \cup {None}
      /\ old # None => old \in base - 1 .. base + 1
  BY DEF TypeOK, FloorWithinOneBand
<1>4. /\ floor \in Band \cup {None}
      /\ floor = None <=> old = None
      /\ floor # None => floor \in base - 1 .. base + 1
      /\ old # None /\ ~ Forgets(s, c) => floor = old
      /\ old # None /\ Forgets(s, c) => floor >= base /\ floor >= old - 1
  <2>1. CASE Forgets(s, c)
    <3>1. floor = Released(old, base)
      BY <2>1 DEF FloorAfterDecay
    <3>. HIDE DEF base, old, floor
    <3>. QED
      BY <1>1, <1>3, <2>1, <3>1, ReleasedBand, NoneAssumption
         DEF Band, Lightweight, Standard, FullPipeline
  <2>2. CASE ~ Forgets(s, c)
    BY <1>3, <2>2 DEF FloorAfterDecay
  <2>. QED  BY <2>1, <2>2
<1>5. Route(s, c) = Ratcheted(over, floor)
  BY DEF Route
<1>. HIDE DEF base, over, old, floor
<1>6. /\ Route(s, c) \in Band
      /\ Route(s, c) \in base - 1 .. base + 1
  BY <1>1, <1>2, <1>4, <1>5, RatchetedBand
<1>7. ASSUME old # None, Route(s, c) < old
      PROVE  Forgets(s, c) /\ Route(s, c) = old - 1 /\ Route(s, c) >= base
  <2>1. Route(s, c) >= floor /\ floor \in Band /\ old \in Band
    BY <1>2, <1>3, <1>4, <1>5, <1>7, RatchetedBand
  <2>. QED
    BY <1>1, <1>4, <1>6, <1>7, <2>1 DEF Band, Lightweight, Standard, FullPipeline
<1>. QED  BY <1>6, <1>7 DEF base, old

-----------------------------------------------------------------------------
(***************************************************************************)
(* The inductive invariant.                                                *)
(***************************************************************************)

IInv == TypeOK /\ IsInjective(floorOrder) /\ LrusAgree /\ FloorWithinOneBand

\* Nothing is tracked when the process starts.
LEMMA InitInv == Init => IInv
<1>. SUFFICES ASSUME Init PROVE IInv
  OBVIOUS
<1>0. 0 \in Nat /\ 0 \in 0 .. MaxRequests
  BY RoutingAssumption
<1>1. TypeOK
  BY <1>0, RoutingAssumption DEF Init, TypeOK, NoCells
<1>2. IsInjective(floorOrder)
  BY DEF Init, IsInjective
<1>3. LrusAgree
  BY DEF Init, LrusAgree, NoCells
<1>4. FloorWithinOneBand
  BY DEF Init, FloorWithinOneBand, NoCells
<1>. QED  BY <1>1, <1>2, <1>3, <1>4 DEF IInv

\* A routed request (the decay, override and ratchet calls of the route handler).
LEMMA RequestInv ==
    ASSUME IInv, NEW s \in Sessions, NEW c \in Cell, Request(s, c)
    PROVE  IInv'
<1>. DEFINE evicted == Victims(floorOrder, s, MaxSessions)
<1>0. TypeOK /\ LrusAgree /\ FloorWithinOneBand /\ IsInjective(floorOrder)
  BY DEF IInv
<1>1. MaxSessions \in Nat \ {0} /\ floorOrder \in Seq(Sessions) /\ decayOrder = floorOrder
  BY <1>0, RoutingAssumption DEF TypeOK, LrusAgree
<1>2. /\ floorOrder' \in Seq(Sessions)
      /\ IsInjective(floorOrder')
      /\ decayOrder' = floorOrder'
      /\ ToSet(floorOrder') = (ToSet(floorOrder) \cup {s}) \ evicted
      /\ s \notin evicted
  BY <1>0, <1>1, AdmitDistinct DEF Request, RecordUse, StampFloor
<1>3. /\ step' = [t \in Sessions |-> IF t \in evicted THEN 0
                                     ELSE IF t = s THEN step[t] + 1 ELSE step[t]]
      /\ last' = Stamp(last, evicted, NoCells(0), s, c, step[s] + 1)
      /\ floors' = Stamp(floors, evicted, NoCells(None), s, c, Route(s, c))
  BY <1>1 DEF Request, RecordUse, StampFloor
<1>. HIDE DEF evicted
<1>4. /\ Route(s, c) \in Band
      /\ Route(s, c) \in BaselineOf(c) - 1 .. BaselineOf(c) + 1
  BY <1>0, RouteBand
<1>5. Route(s, c) # None /\ step[s] \in Nat /\ step[s] + 1 # 0
  BY <1>0, <1>4, NoneAssumption DEF TypeOK, Band, Lightweight, Standard, FullPipeline
<1>6. TypeOK'
  <2>1. weights' \in [Sessions -> [Cell -> Weight \cup {None}]]
    <3>1. CASE Decays(s, c)
      BY <1>0, <3>1, AfterDecay DEF Request, TypeOK
    <3>2. CASE ~ Decays(s, c)
      BY <1>0, <3>2 DEF Request, TypeOK
    <3>. QED  BY <3>1, <3>2
  <2>2. step' \in [Sessions -> Nat]
    BY <1>0, <1>3 DEF TypeOK
  <2>3. last' \in [Sessions -> [Cell -> Nat]]
    BY <1>0, <1>3, <1>5 DEF TypeOK, Stamp, NoCells
  <2>4. floors' \in [Sessions -> [Cell -> Band \cup {None}]]
    BY <1>0, <1>3, <1>4 DEF TypeOK, Stamp, NoCells
  <2>5. /\ unlearned' \in [Sessions -> [Cell -> Nat]]
        /\ requests' \in 0 .. MaxRequests
    BY <1>0, RoutingAssumption DEF Request, RecordUse, TypeOK
  <2>6. UNCHANGED <<preset, mutation>>
    BY DEF Request
  <2>. QED  BY <1>0, <1>2, <2>1, <2>2, <2>3, <2>4, <2>5, <2>6 DEF TypeOK
<1>7. LrusAgree'
  <2>1. ASSUME NEW t \in Sessions, NEW d \in Cell
        PROVE  /\ (last'[t][d] # 0) <=> (floors'[t][d] # None)
               /\ floors'[t][d] # None => t \in ToSet(floorOrder')
    <3>1. CASE t \in evicted
      BY <1>3, <3>1 DEF Stamp, NoCells
    <3>2. CASE t \notin evicted /\ t = s
      <4>1. /\ last'[t] = [last[t] EXCEPT ![c] = step[s] + 1]
            /\ floors'[t] = [floors[t] EXCEPT ![c] = Route(s, c)]
        BY <1>3, <3>2 DEF Stamp
      <4>2. last[t] \in [Cell -> Nat] /\ floors[t] \in [Cell -> Band \cup {None}]
        BY <1>0 DEF TypeOK
      <4>. QED  BY <1>0, <1>2, <1>5, <3>2, <4>1, <4>2 DEF LrusAgree
    <3>3. CASE t \notin evicted /\ t # s
      <4>1. last'[t] = last[t] /\ floors'[t] = floors[t]
        BY <1>3, <3>3 DEF Stamp
      <4>. QED  BY <1>0, <1>2, <3>3, <4>1 DEF LrusAgree, Tracked
    <3>. QED  BY <3>1, <3>2, <3>3
  <2>2. ASSUME NEW t \in Sessions, t \notin ToSet(floorOrder')
        PROVE  step'[t] = 0
    BY <1>0, <1>2, <1>3, <2>2 DEF LrusAgree, Tracked
  <2>. QED  BY <1>2, <2>1, <2>2 DEF LrusAgree, Tracked
<1>8. FloorWithinOneBand'
  <2>1. SUFFICES ASSUME NEW t \in Sessions, NEW d \in Cell, floors'[t][d] # None
                 PROVE  floors'[t][d] \in BaselineOf(d) - 1 .. BaselineOf(d) + 1
    BY DEF FloorWithinOneBand
  <2>2. floors'[t][d] = floors[t][d] \/ (d = c /\ floors'[t][d] = Route(s, c))
    <3>1. floors[t] \in [Cell -> Band \cup {None}]
      BY <1>0 DEF TypeOK
    <3>2. t \notin evicted
      BY <1>3, <2>1 DEF Stamp, NoCells
    <3>. QED  BY <1>3, <3>1, <3>2 DEF Stamp
  <2>. QED  BY <1>0, <1>4, <2>1, <2>2 DEF FloorWithinOneBand
<1>. QED  BY <1>2, <1>6, <1>7, <1>8 DEF IInv

\* A step of the learner's side leaves floors and LRUs alone: only the types of
\* what it writes are at stake.
LEMMA LearningSide ==
    ASSUME IInv, UNCHANGED <<decay, ratchet>>,
           weights' \in [Sessions -> [Cell -> Weight \cup {None}]],
           preset' \in [Cell -> Weight \cup {None}],
           mutation' \in [Mutations -> MutationRecord \cup {None}],
           unlearned' \in [Sessions -> [Cell -> Nat]]
    PROVE  IInv'
<1>1. TypeOK'
  BY DEF IInv, TypeOK, decay, ratchet
<1>2. LrusAgree'
  BY DEF IInv, LrusAgree, Tracked, decay, ratchet
<1>3. FloorWithinOneBand'
  BY DEF IInv, FloorWithinOneBand, ratchet
<1>4. IsInjective(floorOrder)'
  BY DEF IInv, ratchet
<1>. QED  BY <1>1, <1>2, <1>3, <1>4 DEF IInv

\* The background task applies its mutation (apply_mutation clamps).
LEMMA LearnInv ==
    ASSUME IInv, NEW m \in Mutations, NEW s \in Sessions, NEW c \in Cell,
           NEW d \in Deltas, Learn(m, s, c, d)
    PROVE  IInv'
<1>. DEFINE prev == IF Read(s, c) = None THEN Seed ELSE Read(s, c)
            new == Clamp(prev + d)
            rec == [session |-> s, cell |-> c, prev |-> prev, new |-> new,
                    rolledUp |-> FALSE, reverted |-> FALSE]
<1>0. TypeOK
  BY DEF IInv
<1>1. prev \in Weight
  BY <1>0, ReadWeight, WeightAssumption DEF Weight
<1>2. prev + d \in Int
  BY <1>1, RoutingAssumption, WeightAssumption DEF Weight
<1>3. new \in Weight
  BY <1>2, ClampWeight
<1>4. /\ weights' = [weights EXCEPT ![s][c] = new]
      /\ mutation' = [mutation EXCEPT ![m] = rec]
      /\ unlearned[s][c] > 0
      /\ unlearned' = [unlearned EXCEPT ![s][c] = unlearned[s][c] - 1]
      /\ UNCHANGED <<preset, decay, ratchet>>
  BY DEF Learn
<1>. HIDE DEF prev, new
<1>5. rec \in MutationRecord
  BY <1>1, <1>3 DEF MutationRecord
<1>. HIDE DEF rec
<1>6. unlearned[s][c] - 1 \in Nat
  BY <1>0, <1>4 DEF TypeOK
<1>7. /\ weights' \in [Sessions -> [Cell -> Weight \cup {None}]]
      /\ preset' \in [Cell -> Weight \cup {None}]
      /\ mutation' \in [Mutations -> MutationRecord \cup {None}]
      /\ unlearned' \in [Sessions -> [Cell -> Nat]]
  BY <1>0, <1>3, <1>4, <1>5, <1>6 DEF TypeOK
<1>. QED  BY <1>4, <1>7, LearningSide

\* The roll-up writes the preset's cache (update_ema).
LEMMA RollUpInv ==
    ASSUME IInv, NEW m \in Mutations, RollUp(m)
    PROVE  IInv'
<1>0. TypeOK
  BY DEF IInv
<1>1. mutation[m] \in MutationRecord
  BY <1>0 DEF TypeOK, RollUp
<1>2. mutation[m].new \in Weight /\ mutation[m].cell \in Cell
  BY <1>1 DEF MutationRecord
<1>3. Ema(preset[mutation[m].cell], mutation[m].new) \in Weight
  BY <1>0, <1>2, EmaWeight DEF TypeOK
<1>4. [mutation[m] EXCEPT !.rolledUp = TRUE] \in MutationRecord
  BY <1>1 DEF MutationRecord
<1>5. /\ weights' \in [Sessions -> [Cell -> Weight \cup {None}]]
      /\ preset' \in [Cell -> Weight \cup {None}]
      /\ mutation' \in [Mutations -> MutationRecord \cup {None}]
      /\ unlearned' \in [Sessions -> [Cell -> Nat]]
  BY <1>0, <1>3, <1>4 DEF TypeOK, RollUp
<1>6. UNCHANGED <<decay, ratchet>>
  BY DEF RollUp
<1>. QED  BY <1>5, <1>6, LearningSide

\* A rollback writes back the weight its record remembers.
LEMMA RollbackInv ==
    ASSUME IInv, NEW m \in Mutations, Rollback(m)
    PROVE  IInv'
<1>0. TypeOK
  BY DEF IInv
<1>1. mutation[m] \in MutationRecord
  BY <1>0 DEF TypeOK, Rollback
<1>2. /\ mutation[m].prev \in Weight
      /\ mutation[m].session \in Sessions
      /\ mutation[m].cell \in Cell
  BY <1>1 DEF MutationRecord
<1>3. [mutation[m] EXCEPT !.reverted = TRUE] \in MutationRecord
  BY <1>1 DEF MutationRecord
<1>4. /\ weights' \in [Sessions -> [Cell -> Weight \cup {None}]]
      /\ preset' \in [Cell -> Weight \cup {None}]
      /\ mutation' \in [Mutations -> MutationRecord \cup {None}]
      /\ unlearned' \in [Sessions -> [Cell -> Nat]]
  BY <1>0, <1>2, <1>3 DEF TypeOK, Rollback
<1>5. UNCHANGED <<decay, ratchet>>
  BY DEF Rollback
<1>. QED  BY <1>4, <1>5, LearningSide

\* A cell falls out of the store (PresettedDifficultyStore._put).
LEMMA EvictCellInv ==
    ASSUME IInv, NEW s \in Sessions, NEW c \in Cell, EvictCell(s, c)
    PROVE  IInv'
<1>1. /\ weights' \in [Sessions -> [Cell -> Weight \cup {None}]]
      /\ preset' \in [Cell -> Weight \cup {None}]
      /\ mutation' \in [Mutations -> MutationRecord \cup {None}]
      /\ unlearned' \in [Sessions -> [Cell -> Nat]]
  BY DEF IInv, TypeOK, EvictCell
<1>2. UNCHANGED <<decay, ratchet>>
  BY DEF EvictCell
<1>. QED  BY <1>1, <1>2, LearningSide

\* A new process starts without floors and stamps.
LEMMA RestartInv ==
    ASSUME IInv, Restart
    PROVE  IInv'
<1>1. TypeOK'
  BY DEF IInv, Restart, TypeOK, NoCells
<1>2. IsInjective(floorOrder)'
  BY DEF Restart, IsInjective
<1>3. LrusAgree'
  BY DEF Restart, LrusAgree, NoCells
<1>4. FloorWithinOneBand'
  BY DEF Restart, FloorWithinOneBand, NoCells
<1>. QED  BY <1>1, <1>2, <1>3, <1>4 DEF IInv

\* Every step keeps the invariant.
LEMMA NextInv == IInv /\ [Next]_vars => IInv'
<1>. SUFFICES ASSUME IInv, [Next]_vars PROVE IInv'
  OBVIOUS
<1>1. CASE \E s \in Sessions, c \in Cell : Request(s, c) \/ EvictCell(s, c)
  BY <1>1, RequestInv, EvictCellInv
<1>2. CASE \E m \in Mutations, s \in Sessions, c \in Cell, d \in Deltas :
              Learn(m, s, c, d)
  BY <1>2, LearnInv
<1>3. CASE \E m \in Mutations : RollUp(m) \/ Rollback(m)
  BY <1>3, RollUpInv, RollbackInv
<1>4. CASE Restart
  BY <1>4, RestartInv
<1>5. CASE UNCHANGED vars
  BY <1>5 DEF IInv, TypeOK, LrusAgree, Tracked, FloorWithinOneBand,
              vars, learning, decay, ratchet
<1>. QED  BY <1>1, <1>2, <1>3, <1>4, <1>5 DEF Next

-----------------------------------------------------------------------------
(***************************************************************************)
(* The theorems.                                                           *)
(***************************************************************************)

\* The invariant holds of the routing layer throughout.
THEOREM Invariant == Spec => []IInv
  BY InitInv, NextInv, PTL DEF Spec

\* Every weight stays between the clamp's bounds and every floor is a band,
\* whatever is learned, forgotten, rolled up and taken back.
THEOREM TypeCorrect == Spec => []TypeOK
<1>1. IInv => TypeOK
  BY DEF IInv
<1>. QED  BY <1>1, Invariant, PTL

\* The ratchet and decay track the same sessions and cells, for every bound on
\* the number of sessions and however sessions push each other out.
THEOREM LrusAlwaysAgree == Spec => []LrusAgree
<1>1. IInv => LrusAgree
  BY DEF IInv
<1>. QED  BY <1>1, Invariant, PTL

\* The floor of a cell is never more than one band from its baseline.
THEOREM FloorStaysNear == Spec => []FloorWithinOneBand
<1>1. IInv => FloorWithinOneBand
  BY DEF IInv
<1>. QED  BY <1>1, Invariant, PTL

\* Within a session only a forgetting request lowers a cell's band, by one and not
\* below the baseline.
THEOREM OnlyForgettingLowers == Spec => FallsOnlyByForgetting
<1>. DEFINE Fall == \A s \in Sessions, c \in Cell :
              /\ floors[s][c] # None /\ floors'[s][c] # None
              /\ floors'[s][c] < floors[s][c]
              => /\ Forgets(s, c)
                 /\ floors'[s][c] = floors[s][c] - 1
                 /\ floors'[s][c] >= BaselineOf(c)
<1>1. IInv /\ [Next]_vars => [Fall]_vars
  <2>. SUFFICES ASSUME IInv, Next, NEW s \in Sessions, NEW c \in Cell,
                       floors[s][c] # None, floors'[s][c] # None,
                       floors'[s][c] < floors[s][c]
                PROVE  /\ Forgets(s, c)
                       /\ floors'[s][c] = floors[s][c] - 1
                       /\ floors'[s][c] >= BaselineOf(c)
    OBVIOUS
  <2>0. TypeOK /\ FloorWithinOneBand
    BY DEF IInv
  <2>1. floors[s][c] \in Band
    BY <2>0 DEF TypeOK
  <2>2. floors' # floors
    BY <2>1 DEF Band, Lightweight, Standard, FullPipeline
  <2>3. ~ Restart
    BY DEF Restart, NoCells
  <2>4. PICK t \in Sessions, d \in Cell : Request(t, d)
    BY <2>2, <2>3 DEF Next, EvictCell, Learn, RollUp, Rollback, ratchet
  <2>5. floors' = Stamp(floors, Victims(floorOrder, t, MaxSessions), NoCells(None),
                        t, d, Route(t, d))
    BY <2>4 DEF Request, StampFloor
  <2>6. floors'[s] # NoCells(None)
    BY DEF NoCells
  <2>7. floors'[s] = IF t = s THEN [floors[s] EXCEPT ![d] = Route(s, d)] ELSE floors[s]
    BY <2>5, <2>6 DEF Stamp
  <2>8. s = t /\ c = d /\ floors'[s][c] = Route(s, c)
    BY <2>0, <2>1, <2>7 DEF TypeOK, Band, Lightweight, Standard, FullPipeline
  <2>. QED  BY <2>0, <2>8, RouteBand
<1>. QED  BY <1>1, Invariant, PTL DEF Spec, FallsOnlyByForgetting

-----------------------------------------------------------------------------
(***************************************************************************)
(* The refinement.                                                         *)
(***************************************************************************)

\* Every step is one of the promise's or none: a request answers one cell of its
\* session, and whom the LRU drops for it starts over.
LEMMA StepRefines == ASSUME IInv, [Next]_vars PROVE [Promise!FloorsNext]_floors
<1>1. CASE Restart
  <2>1. floors' = [s \in Sessions |-> Promise!Unknown]
    BY <1>1 DEF Restart, NoCells, Promise!Unknown
  <2>. QED  BY <2>1 DEF Promise!FloorsNext, Promise!KeepOrDrop, Promise!Unknown
<1>2. ASSUME NEW s \in Sessions, NEW c \in Cell, Request(s, c)
      PROVE  Promise!FloorsNext
  <2>. DEFINE dropped == Victims(floorOrder, s, MaxSessions)
              band == Route(s, c)
              old == floors[s][c]
              base == BaselineOf(c)
  <2>1. /\ floors' = Stamp(floors, dropped, NoCells(None), s, c, band)
        /\ s \notin dropped
    <3>1. floors' = Stamp(floors, dropped, NoCells(None), s, c, band)
      BY <1>2 DEF Request, StampFloor
    <3>2. floorOrder \in Seq(Sessions) /\ IsInjective(floorOrder) /\ MaxSessions \in Nat \ {0}
      BY RoutingAssumption DEF IInv, TypeOK
    <3>. QED  BY <3>1, <3>2, AdmitDistinct
  <2>2. /\ band \in Band /\ band \in base - 1 .. base + 1
        /\ old # None /\ band < old => band = old - 1 /\ band >= base
    BY RouteBand DEF IInv
  <2>3. base \in Int
    BY BaselineBand DEF Band, Lightweight, Standard, FullPipeline
  <2>4. floors \in [Sessions -> [Cell -> Band \cup {None}]] /\ old \in Band \cup {None}
    BY DEF IInv, TypeOK
  <2>. HIDE DEF dropped, band, base, old
  <2>5. Promise!MayFollow(c, old, band)
    BY <2>2, <2>3, <2>4
       DEF Promise!MayFollow, Band, Lightweight, Standard, FullPipeline, base
  <2>6. floors' = [t \in Sessions |-> IF t \in dropped THEN NoCells(None)
                                      ELSE IF t = s THEN [floors[t] EXCEPT ![c] = band]
                                      ELSE floors[t]]
    BY <2>1 DEF Stamp
  <2>7. Promise!Answer(s)
    BY <2>1, <2>2, <2>5, <2>6 DEF Promise!Answer, old
  <2>8. \A t \in Sessions \ {s} : Promise!KeepOrDrop(t)
    BY <2>6 DEF Promise!KeepOrDrop, Promise!Unknown, NoCells
  <2>9. floors' \in [Sessions -> [Cell -> Band \cup {None}]]
    BY <2>2, <2>4, <2>6 DEF NoCells
  <2>. QED  BY <2>7, <2>8, <2>9 DEF Promise!FloorsNext
<1>3. CASE UNCHANGED floors
  BY <1>3
<1>. QED
  BY <1>1, <1>2, <1>3 DEF Next, EvictCell, Learn, RollUp, Rollback, ratchet, vars

\* Routing with all its stores is an implementation of the floors that it promises.
THEOREM Refinement == Spec => ImplementsSessionFloors
<1>1. Init => Promise!FloorsInit
  BY DEF Init, NoCells, Promise!FloorsInit, Promise!Unknown
<1>2. IInv /\ [Next]_vars => [Promise!FloorsNext]_floors
  BY StepRefines
<1>. QED
  BY <1>1, <1>2, Invariant, PTL DEF Spec, ImplementsSessionFloors, Promise!FloorsSpec
=============================================================================
