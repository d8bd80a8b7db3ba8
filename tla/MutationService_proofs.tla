----------------------- MODULE MutationService_proofs -----------------------
(***************************************************************************)
(* Proofs about MutationService for every set of calls, traces, sessions   *)
(* and keys: type correctness, the discipline of the locks, one mutation   *)
(* per trace and target, agreement of rows and records, what becomes of    *)
(* tentative and confirmed mutations, and that the service implements      *)
(* MutationLedger.                                                         *)
(***************************************************************************)
EXTENDS MutationService, QueueLemmas


\* The clamp of the mutator and of the preset keeps every weight in its bounds.
LEMMA ClampWeight == \A w \in Int : Clamp(w) \in Weight
  BY WeightAssumption DEF Clamp, Weight

\* A roll-up into the preset stays in the bounds (update_ema).
LEMMA EmaWeight ==
    ASSUME NEW prev \in Weight \cup {None}, NEW value \in Weight
    PROVE  Ema(prev, value) \in Weight
<1>1. value \in Int
  BY WeightAssumption DEF Weight
<1>2. CASE prev = None
  BY <1>1, <1>2, ClampWeight DEF Ema
<1>3. CASE prev # None
  <2>1. (3 * value + 7 * prev) \div 10 \in Int
    BY <1>1, <1>3, WeightAssumption DEF Weight
  <2>. QED  BY <2>1, <1>3, ClampWeight DEF Ema
<1>. QED  BY <1>2, <1>3

\* Forgetting only lowers a weight, and not below the bound (RoutingDecay.step).
LEMMA DecayedWeight ==
    ASSUME NEW w \in Weight, NEW idle \in Nat
    PROVE  Decayed(w, idle) \in Weight
<1>1. DecayRate * idle \in Nat
  BY WeightAssumption
<1>. DEFINE loss == DecayRate * idle
<1>. HIDE DEF loss
<1>2. loss \in Nat
  BY <1>1 DEF loss
<1>3. (IF w - loss < WMin THEN WMin ELSE w - loss) \in Weight
  BY <1>2, WeightAssumption DEF Weight
<1>. QED  BY <1>3 DEF Decayed, loss

-----------------------------------------------------------------------------
(***************************************************************************)
(* The inductive invariant.                                                *)
(***************************************************************************)

Applying == {"persisting", "persisted", "committing", "committed"}

\* How far a call is tells what it has left behind: no record before it applied, a
\* record while it is being persisted, perhaps taken back already, and a registry
\* entry from then on.
StageInv ==
    \A c \in Calls :
        /\ pc[c] \in {"idle", "waiting", "holding", "lost"} => records[c] = None
        /\ pc[c] \in Applying => records[c] # None
        /\ pc[c] = "committing" => ema[c] \in Weight
        /\ pc[c] \in {"waiting", "holding"} => Slot(c) \notin applied
        /\ records[c] # None => Slot(c) \in applied

\* A trace has one call at a time.
SerialInv ==
    \A c, d \in Calls :
        Active(c) /\ Active(d) /\ TraceOf[c] = TraceOf[d] => c = d

\* The scheduler knows only calls that returned, holds a job in one place, and is
\* done with it once it reverted.
SchedInv ==
    /\ \A c \in jobs \cup submitted \cup pending \cup confirmed \cup autoReverted \cup missed :
          pc[c] = "done"
    /\ jobs \cap submitted = {}
    /\ autoReverted \cap (jobs \cup submitted) = {}

\* The row of a call: nothing before the INSERT, then what the record says but for a
\* status write that is under way, failed, or came before the INSERT.  Only a status
\* write makes a row rolled back, and it starts when the record is.
RowInv ==
    /\ \A c \in Calls :
          /\ pc[c] \in {"idle", "waiting", "holding", "persisting"} => rows[c] = "absent"
          /\ pc[c] = "persisting" =>
                Available(c) \/ c \in statusWrites \cup unmatched \cup faulty
          /\ /\ pc[c] \in {"persisted", "committing", "committed", "done"}
             /\ records[c] # None /\ c \notin faulty \cup unmatched
             => /\ rows[c] # "absent"
                /\ c \notin statusWrites => rows[c] = records[c].status
          /\ rows[c] = "rolled_back" => ~ Available(c)
    /\ \A c \in statusWrites : records[c] # None /\ ~ Available(c)

IInv ==
    /\ TypeOK
    /\ LockConsistent
    /\ StageInv
    /\ SerialInv
    /\ SingleApply
    /\ SchedInv
    /\ ConfirmedIsKept
    /\ TentativeIsTracked
    /\ RowInv
    /\ RowAgreesWhenSettled

-----------------------------------------------------------------------------
(***************************************************************************)
(* What single steps do.                                                   *)
(***************************************************************************)

\* What a mutation reads is a weight or nothing (read_weight).
LEMMA ReadWeight ==
    ASSUME TypeOK, NEW cell \in Sessions \X Keys
    PROVE  Read(cell) \in Weight \cup {None}
<1>1. cell[2] \in Keys
  OBVIOUS
<1>. QED  BY <1>1 DEF TypeOK, Read

\* The cell a call is about.
LEMMA CellTyped == \A c \in Calls : CellOf(c) \in Sessions \X Keys
  BY CallAssumption DEF CellOf

\* What a call writes under its lock, and that its record is available.
LEMMA ApplyRecord ==
    ASSUME TypeOK, NEW c \in Calls, NEW delta \in Deltas, Apply(c, delta)
    PROVE  /\ weights' \in [Sessions \X Keys -> Weight \cup {None}]
           /\ records' \in [Calls -> Record \cup {None}]
           /\ \A d \in Calls \ {c} : records'[d] = records[d]
           /\ records'[c] # None
           /\ records'[c].status = "available"
<1>. DEFINE prev == IF Read(CellOf(c)) = None THEN Seed ELSE Read(CellOf(c))
            new == Clamp(prev + delta)
            record == [prev |-> prev, new |-> new, status |-> "available"]
<1>1. prev \in Weight
  BY CellTyped, ReadWeight, WeightAssumption DEF Weight
<1>2. new \in Weight
  BY <1>1, InputAssumption, ClampWeight, WeightAssumption DEF Weight
<1>3. record \in Record /\ record.status = "available"
  BY <1>1, <1>2 DEF Record
<1>4. weights' = [weights EXCEPT ![CellOf(c)] = new]
  BY DEF Apply
<1>5. records' = [records EXCEPT ![c] = record]
  BY DEF Apply
<1>. HIDE DEF prev, new, record
<1>6. /\ weights \in [Sessions \X Keys -> Weight \cup {None}]
      /\ records \in [Calls -> Record \cup {None}]
  BY DEF TypeOK
<1>. QED  BY <1>2, <1>3, <1>4, <1>5, <1>6, RecordAssumption

\* A rollback, by hand or by the scheduler, ends at most one record and tells the
\* table exactly then.
LEMMA RollbackFacts ==
    ASSUME TypeOK, NEW c \in Calls, RollbackEffect(c)
    PROVE  /\ weights' \in [Sessions \X Keys -> Weight \cup {None}]
           /\ records' \in [Calls -> Record \cup {None}]
           /\ \A d \in Calls \ {c} : records'[d] = records[d]
           /\ records'[c] = None <=> records[c] = None
           /\ Available(c) => /\ records'[c].status = "rolled_back"
                              /\ statusWrites' = statusWrites \cup {c}
           /\ ~ Available(c) => UNCHANGED <<weights, records, statusWrites>>
<1>0. /\ weights \in [Sessions \X Keys -> Weight \cup {None}]
      /\ records \in [Calls -> Record \cup {None}]
  BY DEF TypeOK
<1>1. CASE Available(c)
  <2>1. records[c] \in Record
    BY <1>0, <1>1 DEF Available
  <2>. DEFINE record == [records[c] EXCEPT !.status = "rolled_back"]
  <2>2. record \in Record /\ record.status = "rolled_back"
    BY <2>1 DEF Record
  <2>3. records[c].prev \in Weight
    BY <2>1 DEF Record
  <2>4. /\ weights' = [weights EXCEPT ![CellOf(c)] = records[c].prev]
        /\ records' = [records EXCEPT ![c] = record]
        /\ statusWrites' = statusWrites \cup {c}
    BY <1>1 DEF RollbackEffect
  <2>. HIDE DEF record
  <2>5. /\ weights' \in [Sessions \X Keys -> Weight \cup {None}]
        /\ records' \in [Calls -> Record \cup {None}]
        /\ \A d \in Calls \ {c} : records'[d] = records[d]
        /\ records'[c] = record
    BY <1>0, <2>2, <2>3, <2>4
  <2>. QED  BY <1>1, <2>1, <2>2, <2>4, <2>5, RecordAssumption
<1>2. CASE ~ Available(c)
  <2>1. UNCHANGED <<weights, records, statusWrites>>
    BY <1>2 DEF RollbackEffect
  <2>. QED  BY <1>0, <1>2, <2>1
<1>. QED  BY <1>1, <1>2

-----------------------------------------------------------------------------
(***************************************************************************)
(* Types.                                                                  *)
(***************************************************************************)

\* A step of a call that only takes it further leaves everything in its type.
LEMMA CallTypes ==
    ASSUME TypeOK, NEW c \in Calls,
           \/ Begin(c) \/ Grant(c) \/ LockTimeout(c) \/ Persist(c) \/ PersistFails(c)
           \/ Commit(c) \/ CommitFails(c) \/ Schedule(c),
           LockConsistent,
           pc[c] = "committing" => ema[c] \in Weight
    PROVE  TypeOK'
<1>. USE DEF control, memory, presets, table, scheduler, history
<1>0. KeyOf[c] \in Keys
  BY CallAssumption
<1>1. CASE Begin(c)
  <2>1. Append(queue[KeyOf[c]], c) \in Seq(Calls)
    BY <1>0, AppendProperties DEF TypeOK
  <2>2. /\ pc' \in [Calls -> Stage]
        /\ queue' \in [Keys -> Seq(Calls)]
    BY <1>1, <2>1 DEF TypeOK, Begin, Stage
  <2>. QED  BY <1>1, <2>2 DEF TypeOK, Begin
<1>2. CASE Grant(c)
  <2>1. queue[KeyOf[c]] \in Seq(Calls) /\ IsInjective(queue[KeyOf[c]])
    BY <1>0 DEF TypeOK, LockConsistent
  <2>2. c \in ToSet(queue[KeyOf[c]])
    BY <1>0, <1>2 DEF Grant, LockConsistent
  <2>3. queue[KeyOf[c]] # <<>>
    BY <2>1, <2>2, Elements
  <2>4. Tail(queue[KeyOf[c]]) \in Seq(Calls)
    BY <2>1, <2>3, TailDistinct
  <2>5. /\ pc' \in [Calls -> Stage]
        /\ lock' \in [Keys -> Calls \cup {NoOne}]
        /\ queue' \in [Keys -> Seq(Calls)]
    BY <1>2, <2>4 DEF TypeOK, Grant, Stage
  <2>. QED  BY <1>2, <2>5 DEF TypeOK, Grant
<1>3. CASE LockTimeout(c)
  <2>1. queue[KeyOf[c]] \in Seq(Calls) /\ IsInjective(queue[KeyOf[c]])
    BY <1>0 DEF TypeOK, LockConsistent
  <2>2. RemoveFirst(queue[KeyOf[c]], c) \in Seq(Calls)
    BY <2>1, RemoveDistinct
  <2>3. /\ pc' \in [Calls -> Stage]
        /\ queue' \in [Keys -> Seq(Calls)]
    BY <1>3, <2>2 DEF TypeOK, LockTimeout, Stage
  <2>. QED  BY <1>3, <2>3 DEF TypeOK, LockTimeout
<1>4. CASE Persist(c)
  BY <1>4 DEF TypeOK, Persist, Stage
<1>5. CASE PersistFails(c)
  BY <1>5 DEF TypeOK, PersistFails, Fault, Stage
<1>6. CASE Commit(c)
  <2>1. ema[c] \in Weight
    BY <1>6 DEF Commit
  <2>2. presetDb' \in [Keys -> Weight \cup {None}] /\ pc' \in [Calls -> Stage]
    BY <1>0, <1>6, <2>1 DEF TypeOK, Commit, Stage
  <2>. QED  BY <1>6, <2>2 DEF TypeOK, Commit
<1>7. CASE CommitFails(c)
  BY <1>7 DEF TypeOK, CommitFails, Fault, Stage
<1>8. CASE Schedule(c)
  BY <1>8 DEF TypeOK, Schedule, Stage
<1>. QED  BY <1>1, <1>2, <1>3, <1>4, <1>5, <1>6, <1>7, <1>8

\* Every step leaves everything in its type.
LEMMA TypeStep == ASSUME IInv, Next PROVE TypeOK'
<1>. USE DEF control, memory, presets, table, scheduler, history
<1>0. TypeOK /\ LockConsistent /\ StageInv
  BY DEF IInv
<1>1. ASSUME NEW c \in Calls,
             \/ Begin(c) \/ Grant(c) \/ LockTimeout(c) \/ Persist(c) \/ PersistFails(c)
             \/ Commit(c) \/ CommitFails(c) \/ Schedule(c)
      PROVE  TypeOK'
  BY <1>0, <1>1, CallTypes DEF StageInv
<1>2. ASSUME NEW c \in Calls, NEW delta \in Deltas, Apply(c, delta)  PROVE TypeOK'
  <2>1. Slot(c) \in Traces \X Keys
    BY CallAssumption DEF Slot
  <2>2. /\ weights' \in [Sessions \X Keys -> Weight \cup {None}]
        /\ records' \in [Calls -> Record \cup {None}]
    BY <1>0, <1>2, ApplyRecord
  <2>3. /\ pc' \in [Calls -> Stage]
        /\ lock' \in [Keys -> Calls \cup {NoOne}]
        /\ applied' \subseteq Traces \X Keys
    BY <1>0, <1>2, <2>1 DEF TypeOK, Apply, Stage
  <2>. QED  BY <1>0, <1>2, <2>2, <2>3 DEF TypeOK, Apply
<1>3. ASSUME NEW c \in Calls, RollUp(c)  PROVE TypeOK'
  <2>1. KeyOf[c] \in Keys
    BY CallAssumption
  <2>2. records[c] \in Record
    BY <1>0, <1>3 DEF TypeOK, StageInv, Applying, RollUp
  <2>3. Ema(preset[KeyOf[c]], records[c].new) \in Weight
    BY <1>0, <2>1, <2>2, EmaWeight DEF TypeOK, Record
  <2>4. /\ pc' \in [Calls -> Stage]
        /\ preset' \in [Keys -> Weight \cup {None}]
        /\ ema' \in [Calls -> Weight \cup {None}]
    BY <1>0, <1>3, <2>3 DEF TypeOK, RollUp, Stage
  <2>. QED  BY <1>0, <1>3, <2>4 DEF TypeOK, RollUp
<1>4. ASSUME NEW c \in Calls, ManualRollback(c) \/ Fire(c)  PROVE TypeOK'
  <2>1. RollbackEffect(c)
    BY <1>4 DEF ManualRollback, Fire
  <2>2. /\ weights' \in [Sessions \X Keys -> Weight \cup {None}]
        /\ records' \in [Calls -> Record \cup {None}]
        /\ statusWrites' \subseteq Calls
    BY <1>0, <2>1, RollbackFacts DEF TypeOK
  <2>. QED  BY <1>0, <1>4, <2>2 DEF TypeOK, ManualRollback, Fire
<1>5. ASSUME NEW c \in Calls, \/ WriteStatus(c) \/ WriteStatusFails(c) \/ Due(c)
                              \/ Miss(c) \/ Confirm(c)
      PROVE  TypeOK'
  BY <1>0, <1>5 DEF TypeOK, WriteStatus, WriteStatusFails, Fault, Due, Miss, Confirm
<1>6. ASSUME NEW cell \in Sessions \X Keys, Decay(cell) \/ Evict(cell)  PROVE TypeOK'
  <2>1. Decay(cell) => Decayed(Read(cell), 1) \in Weight
    BY <1>0, ReadWeight, DecayedWeight DEF Decay
  <2>2. weights' \in [Sessions \X Keys -> Weight \cup {None}]
    BY <1>0, <1>6, <2>1 DEF TypeOK, Decay, Evict
  <2>3. erosions' \in 0 .. MaxErosions
    BY <1>0, <1>6, BoundAssumption DEF TypeOK, Decay, Evict
  <2>. QED  BY <1>0, <1>6, <2>2, <2>3 DEF TypeOK, Decay, Evict
<1>7. ASSUME Restart  PROVE TypeOK'
  <2>1. restarts' \in 0 .. MaxRestarts
    BY <1>0, <1>7, BoundAssumption DEF TypeOK, Restart
  <2>2. pc' \in [Calls -> Stage]
    BY <1>0, <1>7 DEF TypeOK, Restart, Stage
  <2>3. /\ lock' \in [Keys -> Calls \cup {NoOne}]
        /\ queue' \in [Keys -> Seq(Calls)]
        /\ applied' \subseteq Traces \X Keys
        /\ records' \in [Calls -> Record \cup {None}]
        /\ weights' \in [Sessions \X Keys -> Weight \cup {None}]
        /\ ema' \in [Calls -> Weight \cup {None}]
    BY <1>7 DEF Restart
  <2>. QED  BY <1>0, <1>7, <2>1, <2>2, <2>3 DEF TypeOK, Restart
<1>. QED  BY <1>1, <1>2, <1>3, <1>4, <1>5, <1>6, <1>7 DEF Next, Work, Run

-----------------------------------------------------------------------------
(***************************************************************************)
(* Locks and stages.                                                       *)
(***************************************************************************)

\* A lock and its queue change only when a call queues, is served, gives up,
\* applies, or the process ends.
LEMMA LockQuiet ==
    ASSUME LockConsistent, UNCHANGED <<lock, queue>>,
           \A c \in Calls, stage \in {"waiting", "holding"} :
              pc'[c] = stage <=> pc[c] = stage
    PROVE  LockConsistent'
<1>1. \A k \in Keys, c \in Calls :
         lock'[k] = c <=> (pc'[c] = "holding" /\ KeyOf[c] = k)
  BY DEF LockConsistent
<1>2. \A k \in Keys :
         {c \in Calls : pc'[c] = "waiting" /\ KeyOf[c] = k}
            = {c \in Calls : pc[c] = "waiting" /\ KeyOf[c] = k}
  OBVIOUS
<1>. QED  BY <1>1, <1>2 DEF LockConsistent

\* The queue of a key and the calls that wait for it change together.
LEMMA QueueStep ==
    ASSUME TypeOK, LockConsistent, NEW c \in Calls,
           Begin(c) \/ Grant(c) \/ LockTimeout(c)
    PROVE  LockConsistent'
<1>. DEFINE key == KeyOf[c]
            q == queue[key]
            Waiting(k) == {d \in Calls : pc[d] = "waiting" /\ KeyOf[d] = k}
            WaitingNow(k) == {d \in Calls : pc'[d] = "waiting" /\ KeyOf[d] = k}
<1>0. /\ key \in Keys /\ key = KeyOf[c]
      /\ q \in Seq(Calls) /\ IsInjective(q) /\ ToSet(q) = Waiting(key)
      /\ \A k \in Keys : ToSet(queue[k]) = Waiting(k) /\ IsInjective(queue[k])
      /\ \A k \in Keys, d \in Calls :
            lock[k] = d <=> (pc[d] = "holding" /\ KeyOf[d] = k)
      /\ pc \in [Calls -> Stage]
      /\ lock \in [Keys -> Calls \cup {NoOne}]
      /\ queue \in [Keys -> Seq(Calls)]
      /\ q = queue[key]
      /\ NoOne \notin Calls
  BY CallAssumption DEF TypeOK, LockConsistent, NoOne
<1>1. SUFFICES /\ \A k \in Keys, d \in Calls :
                     lock'[k] = d <=> (pc'[d] = "holding" /\ KeyOf[d] = k)
               /\ \A k \in Keys : ToSet(queue'[k]) = WaitingNow(k) /\ IsInjective(queue'[k])
  BY DEF LockConsistent
<1>. HIDE DEF key, q
<1>2. CASE Begin(c) /\ Slot(c) \notin applied
  <2>1. c \notin ToSet(q)
    BY <1>0, <1>2 DEF Begin
  <2>2. IsInjective(Append(q, c)) /\ ToSet(Append(q, c)) = ToSet(q) \cup {c}
    BY <1>0, <2>1, AppendDistinct
  <2>3. /\ pc' = [pc EXCEPT ![c] = "waiting"]
        /\ queue' = [queue EXCEPT ![key] = Append(q, c)]
        /\ lock' = lock
        /\ pc[c] = "idle"
    BY <1>0, <1>2 DEF Begin
  <2>4. \A k \in Keys : WaitingNow(k) = Waiting(k) \cup (IF k = key THEN {c} ELSE {})
    BY <1>0, <2>3
  <2>5. ASSUME NEW k \in Keys
        PROVE  ToSet(queue'[k]) = WaitingNow(k) /\ IsInjective(queue'[k])
    <3>1. queue'[k] = IF k = key THEN Append(q, c) ELSE queue[k]
      BY <1>0, <2>3
    <3>2. CASE k = key
      <4>1. WaitingNow(k) = Waiting(k) \cup {c}
        BY <2>4, <3>2
      <4>. HIDE DEF Waiting, WaitingNow
      <4>. QED  BY <1>0, <2>2, <3>1, <3>2, <4>1
    <3>3. CASE k # key
      <4>1. WaitingNow(k) = Waiting(k)
        BY <2>4, <3>3
      <4>. HIDE DEF Waiting, WaitingNow
      <4>. QED  BY <1>0, <3>1, <3>3, <4>1
    <3>. QED  BY <3>2, <3>3
  <2>6. \A k \in Keys, d \in Calls :
           lock'[k] = d <=> (pc'[d] = "holding" /\ KeyOf[d] = k)
    BY <1>0, <2>3
  <2>. QED  BY <2>5, <2>6
<1>3. CASE Begin(c) /\ Slot(c) \in applied
  <2>1. /\ UNCHANGED <<lock, queue>>
        /\ pc' = [pc EXCEPT ![c] = "done"]
        /\ pc[c] = "idle"
    BY <1>3 DEF Begin
  <2>2. \A d \in Calls, stage \in {"waiting", "holding"} : pc'[d] = stage <=> pc[d] = stage
    BY <1>0, <2>1
  <2>3. LockConsistent'
    BY <2>1, <2>2, LockQuiet
  <2>. QED  BY <2>3 DEF LockConsistent
<1>4. CASE Grant(c)
  <2>1. c \in ToSet(q)
    BY <1>0, <1>4 DEF Grant
  <2>2. q # <<>>
    BY <1>0, <2>1, Elements
  <2>3. IsInjective(Tail(q)) /\ ToSet(Tail(q)) = ToSet(q) \ {Head(q)}
    BY <1>0, <2>2, TailDistinct
  <2>4. /\ pc' = [pc EXCEPT ![c] = "holding"]
        /\ queue' = [queue EXCEPT ![key] = Tail(q)]
        /\ lock' = [lock EXCEPT ![key] = c]
        /\ pc[c] = "waiting" /\ lock[key] = NoOne
        /\ Head(q) = c
    BY <1>0, <1>4 DEF Grant
  <2>5. \A k \in Keys : WaitingNow(k) = Waiting(k) \ (IF k = key THEN {c} ELSE {})
    BY <1>0, <2>4
  <2>6. ASSUME NEW k \in Keys
        PROVE  ToSet(queue'[k]) = WaitingNow(k) /\ IsInjective(queue'[k])
    <3>1. queue'[k] = IF k = key THEN Tail(q) ELSE queue[k]
      BY <1>0, <2>4
    <3>2. CASE k = key
      <4>1. WaitingNow(k) = Waiting(k) \ {c}
        BY <2>5, <3>2
      <4>. HIDE DEF Waiting, WaitingNow
      <4>. QED  BY <1>0, <2>3, <2>4, <3>1, <3>2, <4>1
    <3>3. CASE k # key
      <4>1. WaitingNow(k) = Waiting(k)
        BY <2>5, <3>3
      <4>. HIDE DEF Waiting, WaitingNow
      <4>. QED  BY <1>0, <3>1, <3>3, <4>1
    <3>. QED  BY <3>2, <3>3
  <2>7. \A k \in Keys, d \in Calls :
           lock'[k] = d <=> (pc'[d] = "holding" /\ KeyOf[d] = k)
    BY <1>0, <2>4
  <2>. QED  BY <2>6, <2>7
<1>5. CASE LockTimeout(c)
  <2>1. /\ pc' = [pc EXCEPT ![c] = "done"]
        /\ queue' = [queue EXCEPT ![key] = RemoveFirst(q, c)]
        /\ lock' = lock
        /\ pc[c] = "waiting"
    BY <1>0, <1>5 DEF LockTimeout
  <2>2. IsInjective(RemoveFirst(q, c)) /\ ToSet(RemoveFirst(q, c)) = ToSet(q) \ {c}
    BY <1>0, RemoveDistinct
  <2>3. \A k \in Keys : WaitingNow(k) = Waiting(k) \ (IF k = key THEN {c} ELSE {})
    BY <1>0, <2>1
  <2>4. ASSUME NEW k \in Keys
        PROVE  ToSet(queue'[k]) = WaitingNow(k) /\ IsInjective(queue'[k])
    <3>1. queue'[k] = IF k = key THEN RemoveFirst(q, c) ELSE queue[k]
      BY <1>0, <2>1
    <3>2. CASE k = key
      <4>1. WaitingNow(k) = Waiting(k) \ {c}
        BY <2>3, <3>2
      <4>. HIDE DEF Waiting, WaitingNow
      <4>. QED  BY <1>0, <2>2, <3>1, <3>2, <4>1
    <3>3. CASE k # key
      <4>1. WaitingNow(k) = Waiting(k)
        BY <2>3, <3>3
      <4>. HIDE DEF Waiting, WaitingNow
      <4>. QED  BY <1>0, <3>1, <3>3, <4>1
    <3>. QED  BY <3>2, <3>3
  <2>5. \A k \in Keys, d \in Calls :
           lock'[k] = d <=> (pc'[d] = "holding" /\ KeyOf[d] = k)
    BY <1>0, <2>1
  <2>. QED  BY <2>4, <2>5
<1>. QED  BY <1>2, <1>3, <1>4, <1>5

\* Every step keeps the discipline of the locks.
LEMMA LockStep == ASSUME IInv, Next PROVE LockConsistent'
<1>. USE DEF control, memory, presets, table, scheduler, history
<1>0. TypeOK /\ LockConsistent /\ pc \in [Calls -> Stage]
  BY DEF IInv, TypeOK
<1>1. ASSUME NEW c \in Calls, Begin(c) \/ Grant(c) \/ LockTimeout(c)
      PROVE  LockConsistent'
  BY <1>0, <1>1, QueueStep
<1>2. ASSUME NEW c \in Calls, NEW delta \in Deltas, Apply(c, delta)
      PROVE  LockConsistent'
  <2>1. /\ lock' = [lock EXCEPT ![KeyOf[c]] = NoOne]
        /\ pc' = [pc EXCEPT ![c] = "persisting"]
        /\ queue' = queue
        /\ pc[c] = "holding"
    BY <1>2 DEF Apply
  <2>2. NoOne \notin Calls /\ KeyOf[c] \in Keys /\ lock \in [Keys -> Calls \cup {NoOne}]
    BY <1>0, CallAssumption DEF NoOne, TypeOK
  <2>3. \A k \in Keys, d \in Calls :
           lock'[k] = d <=> (pc'[d] = "holding" /\ KeyOf[d] = k)
    BY <1>0, <2>1, <2>2 DEF LockConsistent
  <2>4. \A k \in Keys :
           {d \in Calls : pc'[d] = "waiting" /\ KeyOf[d] = k}
              = {d \in Calls : pc[d] = "waiting" /\ KeyOf[d] = k}
    BY <1>0, <2>1
  <2>. QED  BY <1>0, <2>1, <2>3, <2>4 DEF LockConsistent
<1>3. ASSUME NEW c \in Calls,
             \/ Persist(c) \/ PersistFails(c) \/ RollUp(c) \/ Commit(c) \/ CommitFails(c)
             \/ Schedule(c) \/ ManualRollback(c) \/ WriteStatus(c) \/ WriteStatusFails(c)
             \/ Due(c) \/ Fire(c) \/ Miss(c) \/ Confirm(c)
      PROVE  LockConsistent'
  <2>1. /\ UNCHANGED <<lock, queue>>
        /\ \A d \in Calls, stage \in {"waiting", "holding"} :
              pc'[d] = stage <=> pc[d] = stage
    BY <1>0, <1>3 DEF Persist, PersistFails, RollUp, Commit, CommitFails, Schedule,
       ManualRollback, WriteStatus, WriteStatusFails, Due, Fire, Miss, Confirm
  <2>. QED  BY <1>0, <2>1, LockQuiet
<1>4. ASSUME NEW cell \in Sessions \X Keys, Decay(cell) \/ Evict(cell)
      PROVE  LockConsistent'
  BY <1>0, <1>4, LockQuiet DEF Decay, Evict
<1>5. ASSUME Restart  PROVE LockConsistent'
  <2>1. \A c \in Calls : pc'[c] \notin {"waiting", "holding"}
    BY <1>5 DEF Restart, Active
  <2>2. NoOne \notin Calls
    BY CallAssumption DEF NoOne
  <2>3. ToSet(<<>>) = {} /\ IsInjective(<<>>)
    BY DEF ToSet, IsInjective
  <2>. QED  BY <1>5, <2>1, <2>2, <2>3 DEF Restart, LockConsistent
<1>. QED  BY <1>1, <1>2, <1>3, <1>4, <1>5 DEF Next, Work, Run

\* Every step leaves each call with what its stage says.
LEMMA StageStep == ASSUME IInv, Next PROVE StageInv'
<1>. USE DEF control, memory, presets, table, scheduler, history
<1>0. /\ TypeOK /\ StageInv /\ SerialInv
      /\ pc \in [Calls -> Stage]
      /\ records \in [Calls -> Record \cup {None}]
      /\ ema \in [Calls -> Weight \cup {None}]
  BY DEF IInv, TypeOK
<1>1. ASSUME NEW c \in Calls, \/ Begin(c) \/ Grant(c) \/ LockTimeout(c)
                              \/ Persist(c) \/ PersistFails(c)
                              \/ Commit(c) \/ CommitFails(c) \/ Schedule(c)
      PROVE  StageInv'
  BY <1>0, <1>1 DEF StageInv, Applying, Available, Begin, Grant, LockTimeout,
     Persist, PersistFails, Commit, CommitFails, Schedule
<1>2. ASSUME NEW c \in Calls, NEW delta \in Deltas, Apply(c, delta)  PROVE StageInv'
  <2>1. /\ \A d \in Calls \ {c} : records'[d] = records[d]
        /\ records'[c] # None
        /\ records'[c].status = "available"
    BY <1>0, <1>2, ApplyRecord
  <2>2. /\ pc[c] = "holding"
        /\ pc' = [pc EXCEPT ![c] = "persisting"]
        /\ applied' = applied \cup {Slot(c)}
        /\ ema' = ema
    BY <1>2 DEF Apply
  <2>3. \A d \in Calls \ {c} : pc[d] \in {"waiting", "holding"} => Slot(d) # Slot(c)
    BY <1>0, <2>2 DEF SerialInv, Active, Slot
  <2>. QED  BY <1>0, <2>1, <2>2, <2>3 DEF StageInv, Applying, Available
<1>3. ASSUME NEW c \in Calls, RollUp(c)  PROVE StageInv'
  <2>1. KeyOf[c] \in Keys
    BY CallAssumption
  <2>2. records[c] \in Record
    BY <1>0, <1>3 DEF StageInv, Applying, RollUp
  <2>3. Ema(preset[KeyOf[c]], records[c].new) \in Weight
    BY <1>0, <2>1, <2>2, EmaWeight DEF TypeOK, Record
  <2>4. /\ pc' = [pc EXCEPT ![c] = "committing"]
        /\ pc[c] = "persisted"
        /\ ema' = [ema EXCEPT ![c] = Ema(preset[KeyOf[c]], records[c].new)]
        /\ records' = records /\ applied' = applied
    BY <1>3 DEF RollUp
  <2>. QED  BY <1>0, <2>3, <2>4 DEF StageInv, Applying, Available
<1>4. ASSUME NEW c \in Calls, ManualRollback(c) \/ Fire(c)  PROVE StageInv'
  <2>1. /\ RollbackEffect(c)
        /\ UNCHANGED <<pc, applied, ema>>
    BY <1>4 DEF ManualRollback, Fire
  <2>2. \A d \in Calls : records'[d] = None <=> records[d] = None
    BY <1>0, <2>1, RollbackFacts
  <2>. QED  BY <1>0, <2>1, <2>2 DEF StageInv, Applying
<1>5. ASSUME NEW c \in Calls, \/ WriteStatus(c) \/ WriteStatusFails(c) \/ Due(c)
                              \/ Miss(c) \/ Confirm(c)
      PROVE  StageInv'
  BY <1>0, <1>5 DEF StageInv, Available, WriteStatus, WriteStatusFails, Due, Miss, Confirm
<1>6. ASSUME NEW cell \in Sessions \X Keys, Decay(cell) \/ Evict(cell)  PROVE StageInv'
  BY <1>0, <1>6 DEF StageInv, Available, Decay, Evict
<1>7. ASSUME Restart  PROVE StageInv'
  BY <1>0, <1>7 DEF StageInv, Applying, Active, Restart
<1>. QED  BY <1>1, <1>2, <1>3, <1>4, <1>5, <1>6, <1>7 DEF Next, Work, Run

\* Only a call whose trace has no other begins.
LEMMA SerialStep == ASSUME IInv, Next PROVE SerialInv'
<1>. USE DEF control, memory, presets, table, scheduler, history
<1>0. SerialInv /\ pc \in [Calls -> Stage]
  BY DEF IInv, TypeOK
<1>1. ASSUME NEW c \in Calls, Begin(c)  PROVE SerialInv'
  BY <1>0, <1>1 DEF SerialInv, Active, Begin, MayStart
<1>2. SUFFICES ASSUME ~ \E c \in Calls : Begin(c)
               PROVE  \A c \in Calls : Active(c)' => Active(c)
  BY <1>0, <1>1 DEF SerialInv
<1>3. ASSUME NEW c \in Calls, Work(c) \/ LockTimeout(c)
      PROVE  \A d \in Calls : Active(d)' => Active(d)
  BY <1>0, <1>3 DEF Work, LockTimeout, Active, Grant, Apply, Persist, PersistFails,
     RollUp, Commit, CommitFails, Schedule
<1>4. ASSUME pc' = pc  PROVE \A d \in Calls : Active(d)' => Active(d)
  BY <1>4 DEF Active
<1>5. ASSUME NEW c \in Calls, \/ ManualRollback(c) \/ WriteStatus(c) \/ WriteStatusFails(c)
                              \/ Due(c) \/ Run(c) \/ Confirm(c)
      PROVE  pc' = pc
  BY <1>5 DEF ManualRollback, WriteStatus, WriteStatusFails, Due, Run, Fire, Miss, Confirm
<1>6. ASSUME NEW cell \in Sessions \X Keys, Decay(cell) \/ Evict(cell)  PROVE pc' = pc
  BY <1>6 DEF Decay, Evict
<1>7. ASSUME Restart  PROVE \A d \in Calls : Active(d)' => Active(d)
  BY <1>7 DEF Restart, Active
<1>. QED  BY <1>2, <1>3, <1>4, <1>5, <1>6, <1>7 DEF Next

-----------------------------------------------------------------------------
(***************************************************************************)
(* Mutations, the scheduler and the table.                                 *)
(***************************************************************************)

\* A call that holds the lock still finds its slot free: it was free when the call
\* looked, and only a call of the same trace could have taken it since.
LEMMA SingleStep == ASSUME IInv, Next PROVE SingleApply'
<1>. USE DEF control, memory, presets, table, scheduler, history
<1>0. /\ TypeOK /\ StageInv /\ SingleApply
      /\ records \in [Calls -> Record \cup {None}]
  BY DEF IInv, TypeOK
<1>1. ASSUME NEW c \in Calls, NEW delta \in Deltas, Apply(c, delta)
      PROVE  SingleApply'
  <2>1. \A d \in Calls \ {c} : records'[d] = records[d]
    BY <1>0, <1>1, ApplyRecord
  <2>2. \A d \in Calls : records[d] # None => Slot(d) # Slot(c)
    BY <1>0, <1>1 DEF StageInv, Apply
  <2>. QED  BY <1>0, <2>1, <2>2 DEF SingleApply, Slot
<1>2. ASSUME NEW c \in Calls, ManualRollback(c) \/ Fire(c)  PROVE SingleApply'
  <2>1. RollbackEffect(c)
    BY <1>2 DEF ManualRollback, Fire
  <2>2. \A d \in Calls : records'[d] = None <=> records[d] = None
    BY <1>0, <2>1, RollbackFacts
  <2>. QED  BY <1>0, <2>2 DEF SingleApply, Slot
<1>3. ASSUME Restart  PROVE SingleApply'
  BY <1>3 DEF Restart, SingleApply
<1>4. ASSUME records' = records  PROVE SingleApply'
  BY <1>0, <1>4 DEF SingleApply, Slot
<1>5. ASSUME NEW c \in Calls,
             \/ Begin(c) \/ Grant(c) \/ LockTimeout(c) \/ Persist(c) \/ PersistFails(c)
             \/ RollUp(c) \/ Commit(c) \/ CommitFails(c) \/ Schedule(c)
             \/ WriteStatus(c) \/ WriteStatusFails(c) \/ Due(c) \/ Miss(c) \/ Confirm(c)
      PROVE  records' = records
  BY <1>5 DEF Begin, Grant, LockTimeout, Persist, PersistFails, RollUp, Commit,
     CommitFails, Schedule, WriteStatus, WriteStatusFails, Due, Miss, Confirm
<1>6. ASSUME NEW cell \in Sessions \X Keys, Decay(cell) \/ Evict(cell)
      PROVE  records' = records
  BY <1>6 DEF Decay, Evict
<1>. QED  BY <1>1, <1>2, <1>3, <1>4, <1>5, <1>6 DEF Next, Work, Run

\* The scheduler keeps a tentative mutation until it reverts, loses or confirms it.
LEMMA SchedStep ==
    ASSUME IInv, Next
    PROVE  SchedInv' /\ ConfirmedIsKept' /\ TentativeIsTracked'
<1>. USE DEF control, memory, presets, table, scheduler, history
<1>. DEFINE Goal == SchedInv /\ ConfirmedIsKept /\ TentativeIsTracked
<1>0. /\ TypeOK /\ StageInv
      /\ SchedInv /\ ConfirmedIsKept /\ TentativeIsTracked
      /\ pc \in [Calls -> Stage]
      /\ records \in [Calls -> Record \cup {None}]
      /\ jobs \cup submitted \cup pending \subseteq Calls
      /\ confirmed \cup autoReverted \cup missed \subseteq Calls
  BY DEF IInv, TypeOK
<1>1. ASSUME NEW c \in Calls, \/ Begin(c) \/ Grant(c) \/ LockTimeout(c)
                              \/ Persist(c) \/ PersistFails(c) \/ RollUp(c)
                              \/ Commit(c) \/ CommitFails(c)
      PROVE  Goal'
  <2>1. /\ UNCHANGED <<records, scheduler, confirmed, autoReverted, missed>>
        /\ pc[c] # "done"
        /\ \A d \in Calls \ {c} : pc'[d] = pc[d]
        /\ pc'[c] = "done" => records[c] = None
    BY <1>0, <1>1 DEF StageInv, Begin, Grant, LockTimeout, Persist, PersistFails,
       RollUp, Commit, CommitFails, Fault
  <2>. QED  BY <1>0, <2>1 DEF SchedInv, ConfirmedIsKept, TentativeIsTracked, Available
<1>2. ASSUME NEW c \in Calls, NEW delta \in Deltas, Apply(c, delta)  PROVE Goal'
  <2>1. \A d \in Calls \ {c} : records'[d] = records[d]
    BY <1>0, <1>2, ApplyRecord
  <2>2. /\ pc[c] = "holding"
        /\ pc' = [pc EXCEPT ![c] = "persisting"]
        /\ UNCHANGED <<jobs, submitted, pending, confirmed, autoReverted, missed>>
    BY <1>2 DEF Apply
  <2>. QED
    BY <1>0, <2>1, <2>2 DEF SchedInv, ConfirmedIsKept, TentativeIsTracked, Available
<1>3. ASSUME NEW c \in Calls, Schedule(c)  PROVE Goal'
  <2>1. c \notin jobs \cup submitted \cup pending \cup confirmed \cup autoReverted
    BY <1>0, <1>3 DEF SchedInv, Schedule
  <2>. QED
    BY <1>0, <1>3, <2>1
       DEF Schedule, SchedInv, ConfirmedIsKept, TentativeIsTracked, Available
<1>4. ASSUME NEW c \in Calls, ManualRollback(c) \/ Fire(c)  PROVE Goal'
  <2>1. RollbackEffect(c)
    BY <1>4 DEF ManualRollback, Fire
  <2>2. /\ \A d \in Calls \ {c} : records'[d] = records[d]
        /\ ~ Available(c)'
    BY <1>0, <2>1, RollbackFacts DEF Available
  <2>3. /\ pc' = pc
        /\ UNCHANGED <<jobs, confirmed, missed>>
        /\ submitted' \in {submitted, submitted \ {c}}
        /\ pending' \in {pending, pending \ {c}}
        /\ \/ autoReverted' = autoReverted
           \/ /\ autoReverted' = autoReverted \cup {c}
              /\ submitted' = submitted \ {c}
              /\ c \in submitted
    BY <1>0, <1>4 DEF ManualRollback, Fire, SchedInv
  <2>4. SchedInv'
    BY <1>0, <2>3 DEF SchedInv
  <2>5. ConfirmedIsKept'
    BY <1>0, <2>3 DEF ConfirmedIsKept
  <2>6. TentativeIsTracked'
    BY <1>0, <2>2, <2>3 DEF TentativeIsTracked, Available
  <2>. QED  BY <2>4, <2>5, <2>6
<1>5. ASSUME NEW c \in Calls, Due(c) \/ Miss(c)  PROVE Goal'
  BY <1>0, <1>5
     DEF Due, Miss, SchedInv, ConfirmedIsKept, TentativeIsTracked, Available
<1>6. ASSUME NEW c \in Calls, Confirm(c)  PROVE Goal'
  <2>1. c \in jobs => c \notin submitted \cup autoReverted
    BY <1>0 DEF SchedInv
  <2>. QED
    BY <1>0, <1>6, <2>1
       DEF Confirm, SchedInv, ConfirmedIsKept, TentativeIsTracked, Available
<1>7. ASSUME NEW c \in Calls, WriteStatus(c) \/ WriteStatusFails(c)  PROVE Goal'
  BY <1>0, <1>7 DEF WriteStatus, WriteStatusFails, Fault, SchedInv, ConfirmedIsKept,
     TentativeIsTracked, Available
<1>8. ASSUME NEW cell \in Sessions \X Keys, Decay(cell) \/ Evict(cell)  PROVE Goal'
  BY <1>0, <1>8 DEF Decay, Evict, SchedInv, ConfirmedIsKept, TentativeIsTracked,
     Available
<1>9. ASSUME Restart  PROVE Goal'
  <2>1. \A c \in Calls : pc[c] = "done" => pc'[c] = "done"
    BY <1>9 DEF Restart, Active
  <2>. QED  BY <1>0, <1>9, <2>1 DEF Restart, SchedInv, ConfirmedIsKept,
            TentativeIsTracked, Available
<1>. QED
  BY <1>1, <1>2, <1>3, <1>4, <1>5, <1>6, <1>7, <1>8, <1>9 DEF Next, Work, Run

\* A row is written while its call is persisted, and taken back after its record is.
LEMMA RowStep == ASSUME IInv, Next PROVE RowInv' /\ RowAgreesWhenSettled'
<1>. USE DEF control, memory, presets, table, scheduler, history
<1>0. /\ TypeOK /\ StageInv /\ RowInv
      /\ pc \in [Calls -> Stage]
      /\ records \in [Calls -> Record \cup {None}]
      /\ rows \in [Calls -> {"absent", "available", "rolled_back"}]
      /\ statusWrites \subseteq Calls
      /\ \A c \in Calls : Available(c) \/ records[c] = None \/ records[c].status = "rolled_back"
  BY DEF IInv, TypeOK, Available, Record
<1>11. RowInv' => RowAgreesWhenSettled'
  BY DEF RowInv, RowAgreesWhenSettled
<1>1. ASSUME NEW c \in Calls, \/ Begin(c) \/ Grant(c) \/ LockTimeout(c)
                              \/ RollUp(c) \/ Commit(c) \/ Schedule(c)
      PROVE  RowInv'
  <2>1. /\ UNCHANGED <<records, rows, statusWrites, faulty, unmatched>>
        /\ \A d \in Calls \ {c} : pc'[d] = pc[d]
        /\ \/ pc'[c] = "done" /\ records[c] = None
           \/ /\ pc'[c] \in {"waiting", "holding"}
              /\ pc[c] \in {"idle", "waiting"}
           \/ /\ pc'[c] \in {"committing", "committed", "done"}
              /\ pc[c] \in {"persisted", "committing", "committed"}
    BY <1>0, <1>1 DEF StageInv, Begin, Grant, LockTimeout, RollUp, Commit, Schedule
  <2>. QED  BY <1>0, <2>1 DEF RowInv, Available
<1>2. ASSUME NEW c \in Calls, PersistFails(c) \/ CommitFails(c)  PROVE RowInv'
  <2>1. /\ UNCHANGED <<records, rows, statusWrites, unmatched>>
        /\ faulty' = faulty \cup {c}
        /\ pc'[c] \in {"persisted", "committed"}
        /\ \A d \in Calls \ {c} : pc'[d] = pc[d]
    BY <1>0, <1>2 DEF PersistFails, CommitFails, Fault
  <2>. QED  BY <1>0, <2>1 DEF RowInv, Available
<1>3. ASSUME NEW c \in Calls, NEW delta \in Deltas, Apply(c, delta)  PROVE RowInv'
  <2>1. /\ \A d \in Calls \ {c} : records'[d] = records[d]
        /\ records'[c] # None
        /\ records'[c].status = "available"
    BY <1>0, <1>3, ApplyRecord
  <2>2. /\ pc[c] = "holding"
        /\ pc' = [pc EXCEPT ![c] = "persisting"]
        /\ UNCHANGED <<rows, statusWrites, faulty, unmatched>>
    BY <1>3 DEF Apply
  <2>3. records[c] = None /\ rows[c] = "absent"
    BY <1>0, <2>2 DEF StageInv, RowInv
  <2>. QED  BY <1>0, <2>1, <2>2, <2>3 DEF RowInv, Available
<1>4. ASSUME NEW c \in Calls, Persist(c)  PROVE RowInv'
  <2>1. /\ UNCHANGED <<records, statusWrites, faulty, unmatched>>
        /\ pc[c] = "persisting"
        /\ pc' = [pc EXCEPT ![c] = "persisted"]
        /\ rows' = [rows EXCEPT ![c] = "available"]
    BY <1>4 DEF Persist
  <2>. QED  BY <1>0, <2>1 DEF RowInv, Available
<1>5. ASSUME NEW c \in Calls, ManualRollback(c) \/ Fire(c)  PROVE RowInv'
  <2>1. RollbackEffect(c)
    BY <1>5 DEF ManualRollback, Fire
  <2>2. UNCHANGED <<pc, rows, faulty, unmatched>>
    BY <1>5 DEF ManualRollback, Fire
  <2>3. CASE ~ Available(c)
    <3>1. UNCHANGED <<records, statusWrites>>
      BY <1>0, <2>1, <2>3, RollbackFacts
    <3>. QED  BY <1>0, <2>2, <3>1 DEF RowInv, Available
  <2>4. CASE Available(c)
    <3>1. /\ \A d \in Calls \ {c} : records'[d] = records[d]
          /\ records'[c] # None
          /\ records'[c].status = "rolled_back"
          /\ statusWrites' = statusWrites \cup {c}
      BY <1>0, <2>1, <2>4, RollbackFacts DEF Available
    <3>2. records[c] # None
      BY <2>4 DEF Available
    <3>. QED  BY <1>0, <2>2, <3>1, <3>2 DEF RowInv, Available
  <2>. QED  BY <2>3, <2>4
<1>6. ASSUME NEW c \in Calls, WriteStatus(c)  PROVE RowInv'
  <2>1. /\ UNCHANGED <<pc, records, faulty>>
        /\ c \in statusWrites
        /\ statusWrites' = statusWrites \ {c}
        /\ \/ rows[c] = "absent" /\ rows' = rows /\ unmatched' = unmatched \cup {c}
           \/ /\ rows[c] # "absent" /\ unmatched' = unmatched
              /\ rows' = [rows EXCEPT ![c] = "rolled_back"]
    BY <1>0, <1>6 DEF WriteStatus
  <2>2. records[c] # None /\ records[c].status = "rolled_back" /\ ~ Available(c)
    BY <1>0, <2>1 DEF RowInv
  <2>3. pc[c] = "persisting" => rows[c] = "absent"
    BY <1>0 DEF RowInv
  <2>. QED  BY <1>0, <2>1, <2>2, <2>3 DEF RowInv, Available
<1>7. ASSUME NEW c \in Calls, WriteStatusFails(c)  PROVE RowInv'
  BY <1>0, <1>7 DEF WriteStatusFails, Fault, RowInv, Available
<1>8. ASSUME NEW c \in Calls, Due(c) \/ Miss(c) \/ Confirm(c)  PROVE RowInv'
  BY <1>0, <1>8 DEF Due, Miss, Confirm, RowInv, Available
<1>9. ASSUME NEW cell \in Sessions \X Keys, Decay(cell) \/ Evict(cell)  PROVE RowInv'
  BY <1>0, <1>9 DEF Decay, Evict, RowInv, Available
<1>10. ASSUME Restart  PROVE RowInv'
  <2>1. /\ statusWrites' = {} /\ rows' = rows
        /\ \A c \in Calls : /\ records'[c] = None
                            /\ pc'[c] \in {pc[c], "lost"}
                            /\ pc'[c] # "persisting"
    BY <1>10 DEF Restart, Active
  <2>. QED  BY <1>0, <2>1 DEF RowInv, Available
<1>. QED
  BY <1>1, <1>2, <1>3, <1>4, <1>5, <1>6, <1>7, <1>8, <1>9, <1>10, <1>11
     DEF Next, Work, Run

-----------------------------------------------------------------------------
(***************************************************************************)
(* The invariant.                                                          *)
(***************************************************************************)

\* A process starts with nothing under way.
LEMMA InitInv == Init => IInv
<1>. SUFFICES ASSUME Init PROVE IInv
  OBVIOUS
<1>1. TypeOK
  <2>1. /\ presetDb \in [Keys -> Weight \cup {None}]
        /\ preset \in [Keys -> Weight \cup {None}]
    BY InputAssumption DEF Init
  <2>. QED  BY <2>1, BoundAssumption DEF Init, TypeOK, Stage
<1>2. LockConsistent
  <2>1. ToSet(<<>>) = {} /\ IsInjective(<<>>)
    BY DEF ToSet, IsInjective
  <2>2. NoOne \notin Calls
    BY CallAssumption DEF NoOne
  <2>. QED  BY <2>1, <2>2 DEF Init, LockConsistent
<1>3. StageInv /\ SerialInv /\ SingleApply
  BY DEF Init, StageInv, SerialInv, SingleApply, Applying, Active
<1>4. SchedInv /\ ConfirmedIsKept /\ TentativeIsTracked
  BY DEF Init, SchedInv, ConfirmedIsKept, TentativeIsTracked
<1>5. RowInv /\ RowAgreesWhenSettled
  BY DEF Init, RowInv, RowAgreesWhenSettled
<1>. QED  BY <1>1, <1>2, <1>3, <1>4, <1>5 DEF IInv

\* Every step keeps the invariant.
LEMMA NextInv == IInv /\ [Next]_vars => IInv'
<1>1. ASSUME IInv, Next  PROVE IInv'
  BY <1>1, TypeStep, LockStep, StageStep, SerialStep, SingleStep, SchedStep, RowStep
     DEF IInv
<1>2. ASSUME IInv, UNCHANGED vars  PROVE IInv'
  <2>. USE DEF vars, control, memory, presets, table, scheduler, history
  <2>1. TypeOK' /\ LockConsistent'
    BY <1>2 DEF IInv, TypeOK, LockConsistent
  <2>2. StageInv' /\ SerialInv' /\ SingleApply'
    BY <1>2 DEF IInv, StageInv, SerialInv, SingleApply, Active, Available, Slot
  <2>3. SchedInv' /\ ConfirmedIsKept' /\ TentativeIsTracked'
    BY <1>2 DEF IInv, SchedInv, ConfirmedIsKept, TentativeIsTracked, Available
  <2>4. RowInv' /\ RowAgreesWhenSettled'
    BY <1>2 DEF IInv, RowInv, RowAgreesWhenSettled, Available
  <2>. QED  BY <2>1, <2>2, <2>3, <2>4 DEF IInv
<1>. QED  BY <1>1, <1>2

-----------------------------------------------------------------------------
(***************************************************************************)
(* The theorems.                                                           *)
(***************************************************************************)

\* The invariant holds of the service throughout.
THEOREM Invariant == Spec => []IInv
  BY InitInv, NextInv, PTL DEF Spec

\* Every weight, live, global, persisted or remembered, stays between the clamp's
\* bounds, through faults, rollbacks, decay and restarts.
THEOREM TypeCorrect == Spec => []TypeOK
<1>1. IInv => TypeOK
  BY DEF IInv
<1>. QED  BY <1>1, Invariant, PTL

\* The locks and their queues never disagree with where the calls are.
THEOREM LocksConsistent == Spec => []LockConsistent
<1>1. IInv => LockConsistent
  BY DEF IInv
<1>. QED  BY <1>1, Invariant, PTL

\* The safety half of CallsFinish: no timeout and no restart leaves calls queued for a
\* lock that nobody will hand on.
THEOREM NoWakeUpIsLost == Spec => []NobodyIsStranded
<1>1. IInv => NobodyIsStranded
  <2>. SUFFICES ASSUME IInv, NEW k \in Keys, queue[k] # <<>>
                PROVE  \/ \E c \in Calls : pc[c] = "holding" /\ lock[k] = c
                       \/ /\ lock[k] = NoOne
                          /\ pc[Head(queue[k])] = "waiting" /\ KeyOf[Head(queue[k])] = k
    BY DEF NobodyIsStranded
  <2>1. /\ queue[k] \in Seq(Calls) /\ IsInjective(queue[k])
        /\ lock[k] \in Calls \cup {NoOne}
    BY DEF IInv, TypeOK, LockConsistent
  <2>2. Head(queue[k]) \in ToSet(queue[k])
    BY <2>1, TailDistinct
  <2>3. pc[Head(queue[k])] = "waiting" /\ KeyOf[Head(queue[k])] = k
    BY <2>2 DEF IInv, LockConsistent
  <2>4. lock[k] \in Calls => pc[lock[k]] = "holding"
    BY DEF IInv, LockConsistent
  <2>. QED  BY <2>1, <2>3, <2>4
<1>. QED  BY <1>1, Invariant, PTL

\* A target is mutated once per trace, though the registry is read before the wait
\* for the lock and written after it.
THEOREM OneMutationPerSlot == Spec => []SingleApply
<1>1. IInv => SingleApply
  BY DEF IInv
<1>. QED  BY <1>1, Invariant, PTL

\* No row says rolled back before its record does; and a returned call's row says
\* what its record says, once the status write is through, unless a database error
\* or a rollback ahead of the INSERT came between.
THEOREM RowsAgree == Spec => []RowAgreesWhenSettled
<1>1. IInv => RowAgreesWhenSettled
  BY DEF IInv
<1>. QED  BY <1>1, Invariant, PTL

\* What confirm() answered True for is never taken back by the scheduler.
THEOREM ConfirmedStays == Spec => []ConfirmedIsKept
<1>1. IInv => ConfirmedIsKept
  BY DEF IInv
<1>. QED  BY <1>1, Invariant, PTL

\* No tentative mutation is forgotten, except by a missed job or a restart.
THEOREM TentativeTracked == Spec => []TentativeIsTracked
<1>1. IInv => TentativeIsTracked
  BY DEF IInv
<1>. QED  BY <1>1, Invariant, PTL

-----------------------------------------------------------------------------
(***************************************************************************)
(* The service implements MutationLedger: an application, a rollback that  *)
(* finds its record available, a confirmation of a tentative mutation and  *)
(* a restart are the ledger's steps, and every other step is none.         *)
(***************************************************************************)

Entries == [c \in Calls |-> LedgerEntry(c)]

\* The ledger changes only with the records, the confirmations, and the rows of
\* calls without a record.
LEMMA EntriesSame ==
    ASSUME UNCHANGED <<records, confirmed>>,
           \A c \in Calls : records[c] = None => rows'[c] = rows[c]
    PROVE  Entries' = Entries
  BY DEF Entries, LedgerEntry, Available

\* An application is the ledger's (apply_proposals).
LEMMA ApplyRefines ==
    ASSUME IInv, NEW c \in Calls, NEW delta \in Deltas, Apply(c, delta)
    PROVE  Ledger!Apply(c)
<1>0. TypeOK /\ StageInv /\ SchedInv /\ RowInv
  BY DEF IInv
<1>1. /\ \A d \in Calls \ {c} : records'[d] = records[d]
      /\ records'[c] # None
      /\ records'[c].status = "available"
  BY <1>0, ApplyRecord
<1>2. /\ confirmed' = confirmed /\ rows' = rows
      /\ pc[c] = "holding" /\ rows[c] = "absent"
  BY <1>0 DEF Apply, history, table, RowInv
<1>3. c \notin confirmed
  BY <1>0, <1>2 DEF SchedInv
<1>4. \A d \in Calls : Slot(d) = Slot(c) => records[d] = None
  BY <1>0, <1>2 DEF StageInv
<1>5. /\ \A d \in Calls : Slot(d) = Slot(c) => LedgerEntry(d) \in Ledger!Gone
      /\ LedgerEntry(c) = "none"
  BY <1>2, <1>4 DEF LedgerEntry, Ledger!Gone
<1>6. LedgerEntry(c)' = "tentative"
  BY <1>1, <1>2, <1>3 DEF LedgerEntry, Available
<1>7. \A d \in Calls \ {c} : LedgerEntry(d)' = LedgerEntry(d)
  BY <1>1, <1>2 DEF LedgerEntry, Available
<1>8. [d \in Calls |-> LedgerEntry(d)]'
        = [[d \in Calls |-> LedgerEntry(d)] EXCEPT ![c] = "tentative"]
  BY <1>6, <1>7
<1>. QED  BY <1>5, <1>8 DEF Ledger!Apply

\* A rollback is the ledger's when it finds the record available, and none when it
\* does not (rollback, by hand or by _fire).
LEMMA RollbackRefines ==
    ASSUME IInv, NEW c \in Calls, RollbackEffect(c), UNCHANGED <<confirmed, rows>>
    PROVE  Ledger!Revert(c) \/ Entries' = Entries
<1>0. TypeOK
  BY DEF IInv
<1>1. CASE ~ Available(c)
  <2>1. records' = records
    BY <1>0, <1>1, RollbackFacts
  <2>. QED  BY <2>1, EntriesSame
<1>2. CASE Available(c)
  <2>1. /\ \A d \in Calls \ {c} : records'[d] = records[d]
        /\ records'[c] # None
        /\ records'[c].status = "rolled_back"
    BY <1>0, <1>2, RollbackFacts DEF Available
  <2>2. LedgerEntry(c) \in {"tentative", "kept"}
    BY <1>2 DEF LedgerEntry, Available
  <2>3. LedgerEntry(c)' = "reverted"
    BY <2>1 DEF LedgerEntry, Available
  <2>4. \A d \in Calls \ {c} : LedgerEntry(d)' = LedgerEntry(d)
    BY <2>1 DEF LedgerEntry, Available
  <2>5. [d \in Calls |-> LedgerEntry(d)]'
          = [[d \in Calls |-> LedgerEntry(d)] EXCEPT ![c] = "reverted"]
    BY <2>3, <2>4
  <2>. QED  BY <2>2, <2>5 DEF Ledger!Revert
<1>. QED  BY <1>1, <1>2

\* A confirmation keeps a tentative mutation or says nothing (confirm).
LEMMA ConfirmRefines ==
    ASSUME IInv, NEW c \in Calls, Confirm(c)
    PROVE  Ledger!Keep(c) \/ Entries' = Entries
<1>1. records' = records /\ rows' = rows
  BY DEF Confirm, memory, table
<1>2. CASE c \notin jobs
  <2>1. confirmed' = confirmed
    BY <1>2 DEF Confirm
  <2>. QED  BY <1>1, <2>1, EntriesSame
<1>3. CASE c \in jobs
  <2>1. confirmed' = confirmed \cup {c} /\ c \notin confirmed
    BY <1>3 DEF Confirm, IInv, ConfirmedIsKept
  <2>2. \A d \in Calls \ {c} : LedgerEntry(d)' = LedgerEntry(d)
    BY <1>1, <2>1 DEF LedgerEntry, Available
  <2>3. CASE Available(c)
    <3>1. LedgerEntry(c) = "tentative" /\ LedgerEntry(c)' = "kept"
      BY <1>1, <2>1, <2>3 DEF LedgerEntry, Available
    <3>2. [d \in Calls |-> LedgerEntry(d)]'
            = [[d \in Calls |-> LedgerEntry(d)] EXCEPT ![c] = "kept"]
      BY <2>2, <3>1
    <3>. QED  BY <3>1, <3>2 DEF Ledger!Keep
  <2>4. CASE ~ Available(c)
    <3>1. LedgerEntry(c)' = LedgerEntry(c)
      BY <1>1, <2>4 DEF LedgerEntry, Available
    <3>. QED  BY <2>2, <3>1 DEF Entries
  <2>. QED  BY <2>3, <2>4
<1>. QED  BY <1>2, <1>3

\* Every step of the service is a step of the ledger or none.
LEMMA StepRefines ==
    ASSUME IInv, [Next]_vars
    PROVE  [Ledger!LedgerNext]_Entries
<1>. USE DEF vars, control, memory, presets, table, scheduler, history
<1>0. StageInv /\ RowInv /\ rows \in [Calls -> {"absent", "available", "rolled_back"}]
  BY DEF IInv, TypeOK
<1>1. ASSUME NEW c \in Calls, NEW delta \in Deltas, Apply(c, delta)
      PROVE  Ledger!LedgerNext
  BY <1>1, ApplyRefines DEF Ledger!LedgerNext
<1>2. ASSUME NEW c \in Calls, ManualRollback(c) \/ Fire(c)
      PROVE  Ledger!LedgerNext \/ Entries' = Entries
  <2>1. RollbackEffect(c) /\ UNCHANGED <<confirmed, rows>>
    BY <1>2 DEF ManualRollback, Fire
  <2>. QED  BY <2>1, RollbackRefines DEF Ledger!LedgerNext
<1>3. ASSUME NEW c \in Calls, Confirm(c)
      PROVE  Ledger!LedgerNext \/ Entries' = Entries
  BY <1>3, ConfirmRefines DEF Ledger!LedgerNext
<1>4. ASSUME Restart  PROVE Ledger!LedgerNext
  <2>1. \A d \in Calls : records'[d] = None /\ rows'[d] = rows[d]
    BY <1>4 DEF Restart
  <2>2. \A d \in Calls : LedgerEntry(d)' \in Ledger!Gone
    BY <2>1 DEF LedgerEntry, Ledger!Gone
  <2>3. \A d \in Calls : LedgerEntry(d) \in Ledger!Gone => LedgerEntry(d)' = LedgerEntry(d)
    BY <2>1 DEF LedgerEntry, Ledger!Gone
  <2>4. Ledger!End
    BY <2>2, <2>3 DEF Ledger!End
  <2>. QED  BY <2>4 DEF Ledger!LedgerNext
<1>5. ASSUME NEW c \in Calls,
             \/ Begin(c) \/ Grant(c) \/ LockTimeout(c) \/ Persist(c) \/ PersistFails(c)
             \/ RollUp(c) \/ Commit(c) \/ CommitFails(c) \/ Schedule(c)
             \/ WriteStatus(c) \/ WriteStatusFails(c) \/ Due(c) \/ Miss(c)
      PROVE  Entries' = Entries
  <2>1. UNCHANGED <<records, confirmed>>
    BY <1>5 DEF Begin, Grant, LockTimeout, Persist, PersistFails, RollUp, Commit,
       CommitFails, Schedule, WriteStatus, WriteStatusFails, Fault, Due, Miss
  <2>2. \A d \in Calls : records[d] = None => rows'[d] = rows[d]
    <3>1. CASE Persist(c)
      BY <1>0, <3>1 DEF Persist, StageInv, Applying
    <3>2. CASE WriteStatus(c)
      BY <1>0, <3>2 DEF WriteStatus, RowInv
    <3>3. CASE ~ Persist(c) /\ ~ WriteStatus(c)
      BY <1>5, <3>3 DEF Begin, Grant, LockTimeout, PersistFails, RollUp, Commit,
         CommitFails, Schedule, WriteStatusFails, Due, Miss
    <3>. QED  BY <3>1, <3>2, <3>3
  <2>. QED  BY <2>1, <2>2, EntriesSame
<1>6. ASSUME NEW cell \in Sessions \X Keys, Decay(cell) \/ Evict(cell)
      PROVE  Entries' = Entries
  BY <1>6, EntriesSame DEF Decay, Evict
<1>7. ASSUME UNCHANGED vars  PROVE Entries' = Entries
  BY <1>7, EntriesSame
<1>. QED
  BY <1>1, <1>2, <1>3, <1>4, <1>5, <1>6, <1>7 DEF Next, Work, Run

\* The service is an implementation of the ledger: whatever happens to locks, tables
\* and timers, a mutation is applied once per trace and target and ends reverted or
\* kept, and what a restart leaves of it never becomes a mutation again.
THEOREM Refinement == Spec => ImplementsLedger
<1>1. Init => Ledger!LedgerInit
  BY DEF Init, LedgerEntry, Ledger!LedgerInit
<1>2. IInv /\ [Next]_vars => [Ledger!LedgerNext]_Entries
  BY StepRefines
<1>. QED
  BY <1>1, <1>2, Invariant, PTL DEF Spec, Entries, ImplementsLedger, Ledger!LedgerSpec
=============================================================================
