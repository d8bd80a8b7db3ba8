-------------------------- MODULE Learning_proofs ---------------------------
(***************************************************************************)
(* Proofs about Learning for every set of tasks, cells and keys, every     *)
(* window, every start and every similarity: what a run is worth, that     *)
(* exactly the grounded successes raise a cell, and that no run lowers one.*)
(***************************************************************************)
EXTENDS Learning, SequenceTheorems, TLAPS

-----------------------------------------------------------------------------
(***************************************************************************)
(* Snapshots and rewards.                                                  *)
(***************************************************************************)

\* What holds of a snapshot that _build_snapshot made of a run: only the context
\* agent reports errors and timeouts, and only a context that was ok a similarity.
Seen(s) ==
    /\ s \in Snapshot
    /\ ~ (s.error_occurred /\ s.timeout_occurred)
    /\ s.generator_ok <=> s.clean_finish
    /\ s.context_ok => ~ s.error_occurred /\ ~ s.timeout_occurred
    /\ s.similarity > 0 => s.context_ok

\* The wrapper's snapshots are of that form.
LEMMA SnapshotSeen ==
    \A r \in SwarmResult : Possible(r) => Seen(BuildSnapshot(r))
<1>. SUFFICES ASSUME NEW r \in SwarmResult, Possible(r)
              PROVE  Seen(BuildSnapshot(r))
  OBVIOUS
<1>1. /\ r.context \in ContextStatus /\ r.planner \in AgentStatus
      /\ r.finish \in {"stop", "length", "error"}
      /\ r.similarity \in Similarities \cup {0} /\ r.fast \in BOOLEAN
  BY DEF SwarmResult
<1>2. /\ "error" \in Statuses(r) <=> r.context = "error"
      /\ "timeout" \in Statuses(r) <=> r.context = "timeout"
      /\ GeneratorStatus(r) = "ok" <=> r.finish = "stop"
  BY <1>1 DEF Statuses, GeneratorStatus, AgentStatus, ContextStatus
<1>3. BuildSnapshot(r) \in Snapshot
  BY <1>1 DEF BuildSnapshot, Snapshot
<1>. QED
  BY <1>1, <1>2, <1>3 DEF Seen, BuildSnapshot, Possible, ContextStatus

Heuristic(s) ==
    Proposal([source |-> "heuristic", prediction_error |-> Actual(s) - 500,
              confidence |-> Confidence(s)])

Relevance(x) == Least(160, (8 * x) \div 25)

\* The relevance term of the outcome: at most .16, and as the similarity gives.
LEMMA RelevanceBounds ==
    \A x \in 0 .. 1000 :
        /\ Relevance(x) \in 0 .. 160
        /\ x >= 313 <=> Relevance(x) >= 100
        /\ x >= 157 <=> Relevance(x) >= 50
        /\ x = 0 => Relevance(x) = 0
  BY DEF Relevance, Least

\* What HeuristicOutcomeSource answers: its bounds, and when the error is large
\* and the confidence high enough to qualify.
LEMMA Outcome ==
    ASSUME NEW s, Seen(s)
    PROVE  /\ Actual(s) \in 250 .. 910
           /\ Confidence(s) \in {300, 350, 400, 450, 500, 550, 600}
           /\ Actual(s) >= 800 /\ Confidence(s) >= 500 <=> Grounded(s)
           /\ Grounded(s) => Confidence(s) \in {550, 600}
<1>. DEFINE rel == Relevance(s.similarity)
<1>1. /\ s.error_occurred \in BOOLEAN /\ s.timeout_occurred \in BOOLEAN
      /\ s.planner_ok \in BOOLEAN /\ s.generator_ok \in BOOLEAN
      /\ s.context_ok \in BOOLEAN /\ s.clean_finish \in BOOLEAN
      /\ s.fast \in BOOLEAN /\ s.similarity \in 0 .. 1000
  <2>1. s \in Snapshot
    BY DEF Seen
  <2>2. Similarities \cup {0} \subseteq 0 .. 1000
    BY LearningAssumption
  <2>. QED  BY <2>1, <2>2 DEF Snapshot
<1>2. /\ rel \in 0 .. 160
      /\ s.similarity >= 313 <=> rel >= 100
      /\ s.similarity >= 157 <=> rel >= 50
      /\ s.similarity = 0 => rel = 0
  BY <1>1, RelevanceBounds
<1>3. Actual(s) = 500 - If(s.error_occurred, 250) - If(s.timeout_occurred, 250)
                  + If(s.fast /\ ~ s.error_occurred /\ ~ s.timeout_occurred, 50)
                  + If(s.planner_ok, 40) + If(s.generator_ok, 40) + If(s.context_ok, 40)
                  + If(s.clean_finish, 80) + rel
  BY DEF Actual, Relevance
<1>. HIDE DEF rel
<1>4. Actual(s) \in 250 .. 910
  <2>1. /\ If(s.planner_ok, 40) \in {0, 40} /\ If(s.generator_ok, 40) \in {0, 40}
        /\ If(s.context_ok, 40) \in {0, 40} /\ If(s.clean_finish, 80) \in {0, 80}
        /\ If(s.fast /\ ~ s.error_occurred /\ ~ s.timeout_occurred, 50) \in {0, 50}
        /\ If(s.error_occurred, 250) \in {0, 250} /\ If(s.timeout_occurred, 250) \in {0, 250}
        /\ If(s.error_occurred, 250) = 0 \/ If(s.timeout_occurred, 250) = 0
    BY <1>1 DEF If, Seen
  <2>. QED  BY <1>2, <1>3, <2>1
<1>. DEFINE sure == 300 + If(AllOk(s), 150) + If(s.clean_finish, 100)
                    + If(s.similarity >= 300, 50)
                    + If(s.error_occurred, 150) + If(s.timeout_occurred, 150)
<1>a. /\ If(AllOk(s), 150) \in {0, 150} /\ If(s.clean_finish, 100) \in {0, 100}
      /\ If(s.similarity >= 300, 50) \in {0, 50}
      /\ If(s.error_occurred, 150) \in {0, 150} /\ If(s.timeout_occurred, 150) \in {0, 150}
      /\ If(s.error_occurred, 150) = 0 \/ If(s.timeout_occurred, 150) = 0
      /\ If(s.error_occurred, 150) = 150 \/ If(s.timeout_occurred, 150) = 150 => ~ AllOk(s)
      /\ ~ AllOk(s) => If(AllOk(s), 150) = 0
      /\ Grounded(s) => If(AllOk(s), 150) = 150 /\ If(s.clean_finish, 100) = 100
  BY <1>1 DEF If, Seen, AllOk, Grounded
<1>b. Confidence(s) = Least(600, sure)
  BY DEF Confidence
<1>5. Confidence(s) \in {300, 350, 400, 450, 500, 550, 600}
  BY <1>a, <1>b DEF Least
<1>6. ASSUME Grounded(s)  PROVE Actual(s) >= 800 /\ Confidence(s) \in {550, 600}
  <2>1. Actual(s) >= 800
    BY <1>1, <1>2, <1>3, <1>6 DEF Grounded, AllOk, If
  <2>2. Confidence(s) \in {550, 600}
    BY <1>1, <1>6, <1>a, <1>b DEF Least, If
  <2>. QED  BY <2>1, <2>2
<1>7. ASSUME Actual(s) >= 800, Confidence(s) >= 500  PROVE Grounded(s)
  <2>1. s.clean_finish /\ s.generator_ok /\ s.context_ok
    BY <1>1, <1>2, <1>3, <1>7 DEF Seen, If
  <2>2. s.planner_ok
    <3>1. ~ s.error_occurred /\ ~ s.timeout_occurred
      BY <2>1 DEF Seen
    <3>2. Confidence(s) = Least(600, 300 + If(AllOk(s), 150) + If(s.clean_finish, 100)
                                     + If(s.similarity >= 300, 50) + 0 + 0)
      BY <3>1, <1>b DEF If
    <3>3. AllOk(s)
      BY <1>7, <1>a, <3>2 DEF Least
    <3>. QED  BY <3>3 DEF AllOk
  <2>3. s.similarity >= (IF s.fast THEN 157 ELSE 313)
    BY <1>1, <1>2, <1>3, <1>7, <2>1, <2>2 DEF Seen, If
  <2>. QED  BY <2>1, <2>2, <2>3 DEF Grounded, AllOk, Seen
<1>. QED  BY <1>4, <1>5, <1>6, <1>7

\* The proposal a run leads to is worth at most .0246, and it qualifies exactly
\* for a grounded success.
LEMMA Worth ==
    ASSUME NEW s, Seen(s)
    PROVE  /\ Heuristic(s).delta \in -MaxDelta .. MaxDelta
           /\ Qualifies(Heuristic(s)) <=> Grounded(s)
           /\ Grounded(s) => Heuristic(s).delta \in 1 .. 246
<1>. DEFINE pe == Actual(s) - 500
            conf == Confidence(s)
<1>1. /\ pe \in -250 .. 410
      /\ conf \in {300, 350, 400, 450, 500, 550, 600}
      /\ pe >= 300 /\ conf >= 500 <=> Grounded(s)
      /\ Grounded(s) => conf \in {550, 600}
  BY Outcome
<1>2. /\ Heuristic(s).prediction_error = pe /\ Heuristic(s).confidence = conf
      /\ Heuristic(s).delta = ToDelta((pe * conf * 1000) \div 1000000)
  BY DEF Heuristic, Proposal, MaxDelta
<1>. HIDE DEF pe, conf
<1>3. pe * conf * 1000 \in Int
  BY <1>1
<1>4. Heuristic(s).delta \in -MaxDelta .. MaxDelta
  BY <1>2, <1>3 DEF ToDelta, MaxDelta
<1>5. ASSUME Grounded(s)  PROVE Heuristic(s).delta \in 1 .. 246
  <2>1. CASE conf = 550
    BY <1>1, <1>2, <1>5, <2>1 DEF ToDelta, MaxDelta
  <2>2. CASE conf = 600
    BY <1>1, <1>2, <1>5, <2>2 DEF ToDelta, MaxDelta
  <2>. QED  BY <1>1, <1>5, <2>1, <2>2
<1>6. Qualifies(Heuristic(s)) <=> Grounded(s)
  BY <1>1, <1>2, <1>5 DEF Qualifies
<1>. QED  BY <1>4, <1>5, <1>6

\* The service's choice: the heuristic proposal of a grounded success, else none;
\* the mock is more confident, but never qualifies.
LEMMA Choice ==
    ASSUME NEW s, Seen(s)
    PROVE  Winner(s) = IF Grounded(s) THEN {Heuristic(s)} ELSE {}
<1>. DEFINE mock == Proposal([source |-> "mock", prediction_error |-> 0, confidence |-> 1000])
<1>1. {Proposal(r) : r \in Rewards(s)} = {mock, Heuristic(s)}
  BY DEF Rewards, Heuristic
<1>2. ~ Qualifies(mock)
  BY DEF Qualifies, Proposal
<1>3. Qualifies(Heuristic(s)) <=> Grounded(s)
  BY Worth
<1>4. Heuristic(s).confidence \in Int
  BY Outcome DEF Heuristic, Proposal
<1>. DEFINE good == {p \in {mock, Heuristic(s)} : Qualifies(p)}
<1>5. good = IF Grounded(s) THEN {Heuristic(s)} ELSE {}
  BY <1>2, <1>3
<1>6. Winner(s) = {p \in good : \A q \in good : q.confidence <= p.confidence}
  BY <1>1 DEF Winner, MostConfident
<1>. HIDE DEF good
<1>. QED  BY <1>4, <1>5, <1>6

-----------------------------------------------------------------------------
(***************************************************************************)
(* The inductive invariant.                                                *)
(***************************************************************************)
TaskInv ==
    \A t \in Tasks : task[t] # None =>
        /\ Seen(task[t].seen)
        /\ task[t].delta >= 0
        /\ task[t].stage # "learned" => task[t].delta = 0

IInv == TypeOK /\ TaskInv /\ LearnsExactlyFromSuccess /\ EarnsItsBand /\ CounterCountsRaises

\* The scale of the code's weights.
LEMMA Scale ==
    /\ WMin = 1000 /\ Seed = 3000 /\ WMax = 10000
    /\ \A w : w \in Weight <=> w \in Int /\ WMin <= w /\ w <= WMax
<1>1. WMin = 1000 /\ Seed = 3000 /\ WMax = 10000
  BY LearningAssumption
<1>2. WMin \in Int /\ WMax \in Int
  BY WeightAssumption
<1>3. \A w : w \in Weight <=> w \in Int /\ WMin <= w /\ w <= WMax
  BY <1>2 DEF Weight
<1>. QED  BY <1>1, <1>3

\* A pending task is a record, of a cell and a snapshot.
LEMMA TaskRecord ==
    ASSUME TypeOK, NEW t \in Tasks, task[t] # None
    PROVE  /\ task[t] \in Task
           /\ task[t].cell \in Cells
           /\ task[t].stage \in {"finished", "learned", "gave_up"}
           /\ task[t].delta \in -1000 .. 1000
<1>1. task[t] \in Task
  BY DEF TypeOK
<1>. QED  BY <1>1 DEF Task, MaxDelta

\* What the mutator reads of a cell is a weight.
LEMMA CurrentWeight ==
    ASSUME NEW w \in Weight \cup {None}
    PROVE  Seeded(w) \in Weight
  BY Scale DEF Seeded

\* What the mutator reads of a cell, in ten-thousandths.
LEMMA CurrentBounds ==
    ASSUME TypeOK, NEW c \in Cells
    PROVE  /\ Current(c) \in Int /\ WMin <= Current(c) /\ Current(c) <= WMax
           /\ Seeded(start[c]) \in Int
<1>1. weight[c] \in Weight \cup {None} /\ start[c] \in Weight \cup {None}
  BY DEF TypeOK
<1>2. Seeded(weight[c]) \in Weight /\ Seeded(start[c]) \in Weight
  BY <1>1, CurrentWeight
<1>. DEFINE a == Seeded(weight[c])
            b == Seeded(start[c])
<1>. HIDE DEF a, b
<1>3. a \in Int /\ WMin <= a /\ a <= WMax /\ b \in Int
  BY <1>2, Scale DEF a, b
<1>. QED  BY <1>3 DEF Current, a, b

\* What a success adds to a weight under the clamp.
LEMMA Applied ==
    ASSUME NEW old \in Int, WMin <= old, old <= WMax,
           NEW d \in Int, 1 <= d, d <= 246
    PROVE  /\ Clamp(old + d) \in Int
           /\ old <= Clamp(old + d) /\ Clamp(old + d) <= old + 246
           /\ Clamp(old + d) <= WMax
           /\ Clamp(old + d) = old <=> old = WMax
<1>1. WMin \in Int /\ WMax \in Int
  BY WeightAssumption
<1>2. ~ old + d < WMin
  BY <1>1
<1>3. CASE old + d > WMax
  <2>1. Clamp(old + d) = WMax
    BY <1>2, <1>3 DEF Clamp
  <2>. QED  BY <1>1, <1>3, <2>1
<1>4. CASE ~ old + d > WMax
  <2>1. Clamp(old + d) = old + d
    BY <1>2, <1>4 DEF Clamp
  <2>. QED  BY <1>1, <1>4, <2>1
<1>. QED  BY <1>3, <1>4

\* record keeps a window of successes; a mutation that moved nothing is ignored.
LEMMA RecordedSuccesses ==
    ASSUME NEW seq \in Seq({1, -1}), Len(seq) <= Window,
           \A i \in DOMAIN seq : seq[i] = 1,
           NEW delta \in Nat
    PROVE  /\ Recorded(seq, delta) \in Seq({1, -1})
           /\ \A i \in DOMAIN Recorded(seq, delta) : Recorded(seq, delta)[i] = 1
           /\ Len(Recorded(seq, delta)) = IF delta = 0 THEN Len(seq)
                                          ELSE Least(Window, Len(seq) + 1)
<1>1. CASE delta = 0
  BY <1>1 DEF Recorded
<1>2. CASE delta > 0
  <2>. DEFINE longer == Append(seq, 1)
  <2>1. /\ longer \in Seq({1, -1}) /\ Len(longer) = Len(seq) + 1
        /\ DOMAIN longer = 1 .. Len(seq) + 1
        /\ \A i \in 1 .. Len(seq) + 1 : longer[i] = 1
    BY AppendProperties
  <2>2. Recorded(seq, delta) = IF Len(longer) > Window THEN Tail(longer) ELSE longer
    BY <1>2 DEF Recorded
  <2>. HIDE DEF longer
  <2>3. CASE Len(longer) > Window
    <3>1. /\ Tail(longer) \in Seq({1, -1}) /\ Len(Tail(longer)) = Len(seq)
          /\ DOMAIN Tail(longer) = 1 .. Len(seq)
          /\ \A i \in 1 .. Len(seq) : Tail(longer)[i] = longer[i + 1]
      BY <2>1
    <3>2. Len(seq) = Window /\ Window \in Nat
      BY <2>1, <2>3, LearningAssumption
    <3>. QED  BY <1>2, <2>1, <2>2, <2>3, <3>1, <3>2 DEF Least
  <2>4. CASE ~ Len(longer) > Window
    <3>1. Window \in Nat
      BY LearningAssumption
    <3>. QED  BY <1>2, <2>1, <2>2, <2>4, <3>1 DEF Least
  <2>. QED  BY <2>3, <2>4
<1>. QED  BY <1>1, <1>2

\* Nothing is pending, learned or tallied at the start.
LEMMA InitInv == Init => IInv
<1>. SUFFICES ASSUME Init PROVE IInv
  OBVIOUS
<1>1. TypeOK
  BY LearningAssumption DEF Init, TypeOK
<1>2. TaskInv /\ LearnsExactlyFromSuccess
  BY DEF Init, TaskInv, LearnsExactlyFromSuccess, Learned
<1>3. EarnsItsBand
  <2>. SUFFICES ASSUME NEW c \in Cells
                PROVE  Current(c) <= Seeded(start[c]) + 246 * raises[c]
    BY DEF EarnsItsBand
  <2>. DEFINE now == Current(c)
              first == Seeded(start[c])
              n == raises[c]
  <2>1. now \in Int /\ first = now /\ n = 0
    BY <1>1, CurrentBounds DEF Init, Current
  <2>. HIDE DEF now, first, n
  <2>2. now <= first + 246 * n
    BY <2>1
  <2>. QED  BY <2>2 DEF now, first, n
<1>4. CounterCountsRaises
  BY LearningAssumption DEF Init, CounterCountsRaises, Least
<1>. QED  BY <1>1, <1>2, <1>3, <1>4 DEF IInv

\* Weights, counters and other tasks as they were: the task's own record decides.
LEMMA TaskStep ==
    ASSUME IInv, NEW t \in Tasks, NEW new \in Task \cup {None},
           task' = [task EXCEPT ![t] = new],
           new # None => /\ Seen(new.seen)
                         /\ new.stage # "learned" => new.delta = 0
                         /\ new.stage = "learned" =>
                               new.delta = 0 /\ ~ Grounded(new.seen),
           UNCHANGED <<weight, start, raises>>
    PROVE  TaskInv' /\ LearnsExactlyFromSuccess' /\ EarnsItsBand'
<1>1. \A u \in Tasks : task'[u] = IF u = t THEN new ELSE task[u]
  BY DEF IInv, TypeOK
<1>2. TaskInv'
  BY <1>1 DEF IInv, TaskInv
<1>3. LearnsExactlyFromSuccess'
  <2>. SUFFICES ASSUME NEW u \in Tasks, Learned(u)'
                PROVE  /\ task'[u].delta > 0 => Grounded(task'[u].seen)
                       /\ Grounded(task'[u].seen)
                             => task'[u].delta > 0 \/ weight'[task'[u].cell] = WMax
    BY DEF LearnsExactlyFromSuccess
  <2>1. CASE u = t
    BY <1>1, <2>1 DEF Learned
  <2>2. CASE u # t
    BY <1>1, <2>2 DEF IInv, LearnsExactlyFromSuccess, Learned
  <2>. QED  BY <2>1, <2>2
<1>4. EarnsItsBand'
  BY DEF IInv, EarnsItsBand, Current
<1>. QED  BY <1>2, <1>3, <1>4

\* A run's task is created.
LEMMA FinishInv == ASSUME IInv, NEW t \in Tasks, Finish(t) PROVE IInv'
<1>. PICK c \in Cells, result \in {r \in SwarmResult : Possible(r)} :
        task' = [task EXCEPT ![t] = [cell |-> c, seen |-> BuildSnapshot(result),
                                     stage |-> "finished", delta |-> 0]]
  BY DEF Finish
<1>. DEFINE new == [cell |-> c, seen |-> BuildSnapshot(result),
                    stage |-> "finished", delta |-> 0]
<1>1. Seen(new.seen)
  BY SnapshotSeen
<1>2. new \in Task /\ new.stage = "finished" /\ new.delta = 0
  BY <1>1 DEF Task, Seen, MaxDelta, Finish
<1>. HIDE DEF new
<1>3. TaskInv' /\ LearnsExactlyFromSuccess' /\ EarnsItsBand'
  <2>1. task' = [task EXCEPT ![t] = new]
    BY DEF new
  <2>. QED  BY <1>1, <1>2, <2>1, TaskStep DEF Finish
<1>4. TypeOK'
  BY <1>2, LearningAssumption DEF IInv, TypeOK, Finish, new
<1>5. CounterCountsRaises'
  BY DEF IInv, CounterCountsRaises, Finish
<1>. QED  BY <1>3, <1>4, <1>5 DEF IInv

\* A run that was no grounded success teaches nothing.
LEMMA LearnNothingInv == ASSUME IInv, NEW t \in Tasks, LearnNothing(t) PROVE IInv'
<1>. DEFINE new == [task[t] EXCEPT !.stage = "learned"]
<1>1. /\ task[t] \in Task /\ Seen(task[t].seen) /\ task[t].delta = 0
      /\ Winner(task[t].seen) = {}
  BY TaskRecord DEF LearnNothing, IInv, TaskInv
<1>2. ~ Grounded(task[t].seen)
  BY <1>1, Choice
<1>3. /\ new \in Task /\ new.seen = task[t].seen /\ new.delta = 0
      /\ new.stage = "learned"
  BY <1>1 DEF Task
<1>4. task' = [task EXCEPT ![t] = new]
  BY DEF LearnNothing
<1>. HIDE DEF new
<1>5. TaskInv' /\ LearnsExactlyFromSuccess' /\ EarnsItsBand'
  BY <1>1, <1>2, <1>3, <1>4, TaskStep DEF LearnNothing
<1>6. TypeOK'
  BY <1>3, <1>4 DEF IInv, TypeOK, LearnNothing
<1>7. CounterCountsRaises'
  BY DEF IInv, CounterCountsRaises, LearnNothing
<1>. QED  BY <1>5, <1>6, <1>7 DEF IInv

\* A task that was refused the lock, or met a failing store, leaves no record.
LEMMA GiveUpInv == ASSUME IInv, NEW t \in Tasks, GiveUp(t) PROVE IInv'
<1>. DEFINE new == [task[t] EXCEPT !.stage = "gave_up"]
<1>1. task[t] \in Task /\ Seen(task[t].seen) /\ task[t].delta = 0
  BY TaskRecord DEF GiveUp, IInv, TaskInv
<1>2. /\ new \in Task /\ new.seen = task[t].seen /\ new.delta = 0
      /\ new.stage = "gave_up"
  BY <1>1 DEF Task
<1>3. task' = [task EXCEPT ![t] = new]
  BY DEF GiveUp
<1>. HIDE DEF new
<1>4. TaskInv' /\ LearnsExactlyFromSuccess' /\ EarnsItsBand'
  BY <1>1, <1>2, <1>3, TaskStep DEF GiveUp
<1>5. TypeOK'
  BY <1>2, <1>3 DEF IInv, TypeOK, GiveUp
<1>6. CounterCountsRaises'
  BY DEF IInv, CounterCountsRaises, GiveUp
<1>. QED  BY <1>4, <1>5, <1>6 DEF IInv

\* The counter is told of the task's mutation, and the task ends.
LEMMA TallyInv == ASSUME IInv, NEW t \in Tasks, Tally(t) PROVE IInv'
<1>. DEFINE k == KeyOf[task[t].cell]
            delta == task[t].delta
<1>1. task[t] \in Task /\ k \in Keys
  BY TaskRecord, LearningAssumption DEF Tally, IInv
<1>2. delta \in Nat
  <2>1. delta \in Int
    <3>1. delta \in -1000 .. 1000
      BY TaskRecord DEF Tally, IInv
    <3>. HIDE DEF delta
    <3>. QED  BY <3>1
  <2>2. CASE task[t].stage = "learned"
    BY <2>1, <2>2 DEF Tally, IInv, TaskInv
  <2>3. CASE task[t].stage = "gave_up"
    BY <2>3 DEF Tally, IInv, TaskInv
  <2>. QED  BY <2>2, <2>3 DEF Tally
<1>3. task' = [task EXCEPT ![t] = None]
  BY DEF Tally
<1>4. TaskInv' /\ LearnsExactlyFromSuccess' /\ EarnsItsBand'
  BY <1>3, TaskStep DEF Tally
<1>5. /\ signs' = [signs EXCEPT ![k] = Recorded(@, delta)]
      /\ tallied' = [tallied EXCEPT ![k] = @ + If(delta > 0, 1)]
  BY DEF Tally
<1>. HIDE DEF delta, k
<1>6. /\ signs \in [Keys -> Seq({1, -1})] /\ tallied \in [Keys -> Nat]
      /\ Window \in Nat \ {0}
      /\ \A j \in Keys : /\ Len(signs[j]) = Least(Window, tallied[j])
                       /\ \A i \in DOMAIN signs[j] : signs[j][i] = 1
  BY LearningAssumption DEF IInv, TypeOK, CounterCountsRaises
<1>7. /\ Len(signs[k]) <= Window
      /\ \A i \in DOMAIN signs[k] : signs[k][i] = 1
      /\ signs[k] \in Seq({1, -1}) /\ tallied[k] \in Nat
  BY <1>1, <1>6 DEF Least
<1>8. /\ Recorded(signs[k], delta) \in Seq({1, -1})
      /\ \A i \in DOMAIN Recorded(signs[k], delta) : Recorded(signs[k], delta)[i] = 1
      /\ Len(Recorded(signs[k], delta)) = IF delta = 0 THEN Len(signs[k])
                                          ELSE Least(Window, Len(signs[k]) + 1)
  BY <1>2, <1>7, RecordedSuccesses
<1>9. Len(Recorded(signs[k], delta)) = Least(Window, tallied[k] + If(delta > 0, 1))
  BY <1>1, <1>2, <1>6, <1>7, <1>8 DEF Least, If
<1>10. /\ signs'[k] = Recorded(signs[k], delta)
       /\ tallied'[k] = tallied[k] + If(delta > 0, 1)
       /\ \A j \in Keys \ {k} : signs'[j] = signs[j] /\ tallied'[j] = tallied[j]
  BY <1>1, <1>5, <1>6
<1>11. CounterCountsRaises'
  BY <1>6, <1>8, <1>9, <1>10 DEF CounterCountsRaises
<1>12. tallied[k] + If(delta > 0, 1) \in Nat
  BY <1>7 DEF If
<1>13. signs' \in [Keys -> Seq({1, -1})] /\ tallied' \in [Keys -> Nat]
  BY <1>1, <1>5, <1>6, <1>8, <1>12
<1>14. TypeOK'
  BY <1>3, <1>13 DEF IInv, TypeOK, Tally
<1>. QED  BY <1>4, <1>11, <1>14 DEF IInv

\* What the winner does to its cell: a grounded success, worth 1 to 246, below the
\* ceiling.
LEMMA LearnEffect ==
    ASSUME IInv, NEW t \in Tasks, Learn(t)
    PROVE  LET c == task[t].cell
               old == Current(c)
           IN  /\ Grounded(task[t].seen)
               /\ \E applied \in Int :
                     /\ 0 <= applied /\ applied <= 246
                     /\ old + applied <= WMax
                     /\ applied = 0 <=> old = WMax
                     /\ weight' = [weight EXCEPT ![c] = old + applied]
                     /\ task' = [task EXCEPT ![t].stage = "learned", ![t].delta = applied]
                     /\ raises' = [raises EXCEPT ![c] = IF applied > 0 THEN @ + 1 ELSE @]
<1>. DEFINE c == task[t].cell
            old == Current(c)
<1>1. /\ task[t] \in Task /\ c \in Cells /\ Seen(task[t].seen)
  BY TaskRecord DEF Learn, IInv, TaskInv
<1>2. PICK p \in Winner(task[t].seen) :
        /\ weight' = [weight EXCEPT ![c] = old + (Clamp(old + p.delta) - old)]
        /\ task' = [task EXCEPT ![t].stage = "learned",
                                ![t].delta = Clamp(old + p.delta) - old]
        /\ raises' = [raises EXCEPT ![c] = IF Clamp(old + p.delta) - old > 0
                                         THEN @ + 1 ELSE @]
  BY DEF Learn
<1>3. Grounded(task[t].seen) /\ p.delta \in 1 .. 246
  BY <1>1, Choice, Worth
<1>4. old \in Int /\ WMin <= old /\ old <= WMax
  BY <1>1, CurrentBounds DEF IInv
<1>. DEFINE applied == Clamp(old + p.delta) - old
<1>. HIDE DEF old
<1>5. /\ applied \in Int /\ 0 <= applied /\ applied <= 246
      /\ old + applied <= WMax
      /\ applied = 0 <=> old = WMax
  <2>. DEFINE d == p.delta
              sum == Clamp(old + d)
  <2>1. d \in Int /\ 1 <= d /\ d <= 246
    <3>1. d \in 1 .. 246
      BY <1>3
    <3>. HIDE DEF d
    <3>. QED  BY <3>1
  <2>. HIDE DEF d
  <2>2. /\ sum \in Int /\ old <= sum /\ sum <= old + 246 /\ sum <= WMax
        /\ sum = old <=> old = WMax
    BY <1>4, <2>1, Applied
  <2>. HIDE DEF sum
  <2>3. /\ sum - old \in Int /\ 0 <= sum - old /\ sum - old <= 246
        /\ old + (sum - old) = sum
        /\ sum - old = 0 <=> sum = old
    BY <1>4, <2>2
  <2>4. applied = sum - old
    BY DEF sum, d
  <2>. HIDE DEF applied
  <2>. QED  BY <2>2, <2>3, <2>4
<1>6. /\ weight' = [weight EXCEPT ![c] = old + applied]
      /\ task' = [task EXCEPT ![t].stage = "learned", ![t].delta = applied]
      /\ raises' = [raises EXCEPT ![c] = IF applied > 0 THEN @ + 1 ELSE @]
  BY <1>2 DEF applied
<1>. HIDE DEF applied
<1>. QED  BY <1>3, <1>5, <1>6 DEF old

\* The winner is applied.
LEMMA LearnInv == ASSUME IInv, NEW t \in Tasks, Learn(t) PROVE IInv'
<1>. DEFINE c == task[t].cell
            old == Current(c)
<1>1. /\ task[t] \in Task /\ c \in Cells /\ Seen(task[t].seen)
  BY TaskRecord DEF Learn, IInv, TaskInv
<1>2. PICK applied \in Int :
        /\ 0 <= applied /\ applied <= 246
        /\ old + applied <= WMax
        /\ applied = 0 <=> old = WMax
        /\ weight' = [weight EXCEPT ![c] = old + applied]
        /\ task' = [task EXCEPT ![t].stage = "learned", ![t].delta = applied]
        /\ raises' = [raises EXCEPT ![c] = IF applied > 0 THEN @ + 1 ELSE @]
  BY LearnEffect
<1>3. Grounded(task[t].seen)
  BY LearnEffect
<1>4. old \in Int /\ WMin <= old /\ old <= WMax
  BY <1>1, CurrentBounds DEF IInv
<1>. DEFINE new == [task[t] EXCEPT !.stage = "learned", !.delta = applied]
<1>. HIDE DEF old
<1>5. /\ applied \in Int /\ 0 <= applied /\ applied <= 246
      /\ old + applied <= WMax
      /\ applied = 0 <=> old = WMax
  BY <1>2
<1>b. old + applied \in Weight
  <2>1. WMin \in Int /\ WMax \in Int
    BY WeightAssumption
  <2>2. old + applied \in Int /\ WMin <= old + applied
    BY <1>4, <1>5, <2>1
  <2>. QED  BY <1>5, <2>2, Scale
<1>6. /\ new \in Task /\ new.cell = c /\ new.stage = "learned"
      /\ new.delta = applied /\ new.seen = task[t].seen
  <2>1. applied \in -MaxDelta .. MaxDelta
    BY <1>5 DEF MaxDelta
  <2>2. new \in Task
    BY <1>1, <2>1 DEF Task
  <2>. QED  BY <1>1, <2>2 DEF Task
<1>. HIDE DEF c
<1>7. /\ weight' = [weight EXCEPT ![c] = old + applied]
      /\ task' = [task EXCEPT ![t] = new]
      /\ raises' = [raises EXCEPT ![c] = IF applied > 0 THEN @ + 1 ELSE @]
  BY <1>2
<1>. HIDE DEF new
<1>8. /\ task \in [Tasks -> Task \cup {None}]
      /\ weight \in [Cells -> Weight \cup {None}]
      /\ start \in [Cells -> Weight \cup {None}]
      /\ raises \in [Cells -> Nat]
  BY DEF IInv, TypeOK
<1>9. /\ task' \in [Tasks -> Task \cup {None}]
      /\ weight' \in [Cells -> Weight \cup {None}]
      /\ raises' \in [Cells -> Nat]
  <2>1. \A m \in Nat : m + 1 \in Nat
    OBVIOUS
  <2>. QED  BY <1>1, <1>b, <1>6, <1>7, <1>8, <2>1
<1>10. TypeOK'
  BY <1>9 DEF IInv, TypeOK, Learn
<1>11. TaskInv'
  <2>. SUFFICES ASSUME NEW u \in Tasks, task'[u] # None
                PROVE  /\ Seen(task'[u].seen)
                       /\ task'[u].delta >= 0
                       /\ task'[u].stage # "learned" => task'[u].delta = 0
    BY DEF TaskInv
  <2>1. task'[u] = IF u = t THEN new ELSE task[u]
    BY <1>7, <1>8
  <2>. QED  BY <1>1, <1>5, <1>6, <2>1 DEF IInv, TaskInv
<1>12. weight'[c] = old + applied
  BY <1>1, <1>7, <1>8
<1>13. \A u \in Tasks : Learned(u) /\ weight[task[u].cell] = WMax
                       => weight'[task[u].cell] = WMax
  <2>. SUFFICES ASSUME NEW u \in Tasks, Learned(u), weight[task[u].cell] = WMax
                PROVE  weight'[task[u].cell] = WMax
    OBVIOUS
  <2>1. task[u].cell \in Cells
    BY TaskRecord DEF IInv, Learned
  <2>2. CASE task[u].cell = c
    <3>1. old = WMax
      BY <2>2, WeightAssumption, NoneAssumption DEF Current, Seeded, old
    <3>. QED  BY <1>4, <1>5, <1>12, <2>2, <3>1
  <2>3. CASE task[u].cell # c
    BY <1>7, <1>8, <2>1, <2>3
  <2>. QED  BY <2>2, <2>3
<1>14. LearnsExactlyFromSuccess'
  <2>. SUFFICES ASSUME NEW u \in Tasks, Learned(u)'
                PROVE  /\ task'[u].delta > 0 => Grounded(task'[u].seen)
                       /\ Grounded(task'[u].seen)
                             => task'[u].delta > 0 \/ weight'[task'[u].cell] = WMax
    BY DEF LearnsExactlyFromSuccess
  <2>1. CASE u = t
    <3>1. task'[u] = new
      BY <1>7, <1>8, <2>1
    <3>2. applied = 0 => weight'[c] = WMax
      BY <1>4, <1>5, <1>12
    <3>3. applied > 0 \/ applied = 0
      BY <1>5
    <3>. QED  BY <1>3, <1>5, <1>6, <3>1, <3>2, <3>3
  <2>2. CASE u # t
    <3>1. task'[u] = task[u] /\ Learned(u)
      BY <1>7, <1>8, <2>2 DEF Learned
    <3>. QED  BY <1>13, <3>1 DEF IInv, LearnsExactlyFromSuccess
  <2>. QED  BY <2>1, <2>2
<1>15. EarnsItsBand'
  <2>. SUFFICES ASSUME NEW d \in Cells
                PROVE  Seeded(weight'[d]) <= Seeded(start[d]) + 246 * raises'[d]
    BY DEF EarnsItsBand, Current, Learn
  <2>1. CASE d # c
    <3>1. weight'[d] = weight[d] /\ raises'[d] = raises[d]
      BY <1>7, <1>8, <2>1
    <3>. QED  BY <3>1 DEF IInv, EarnsItsBand, Current
  <2>2. CASE d = c
    <3>. DEFINE first == Seeded(start[c])
                n == raises[c]
                m == raises'[c]
    <3>1. first \in Int /\ n \in Nat
      BY <1>1, <1>8, CurrentBounds DEF IInv
    <3>2. old <= first + 246 * n
      BY <1>1 DEF IInv, EarnsItsBand, old
    <3>3. m = IF applied > 0 THEN n + 1 ELSE n
      BY <1>1, <1>7, <1>8
    <3>4. Seeded(weight'[c]) = old + applied
      BY <1>b, <1>12, NoneAssumption, WeightAssumption DEF Seeded, Weight
    <3>. HIDE DEF first, n, m
    <3>5. old + applied <= first + 246 * m
      <4>1. CASE applied > 0
        <5>1. m = n + 1 /\ 246 * (n + 1) = 246 * n + 246
          BY <3>1, <3>3, <4>1
        <5>. QED  BY <1>4, <1>5, <3>1, <3>2, <5>1
      <4>2. CASE ~ applied > 0
        BY <1>4, <1>5, <3>1, <3>2, <3>3, <4>2
      <4>. QED  BY <4>1, <4>2
    <3>. QED  BY <2>2, <3>4, <3>5 DEF first, m
  <2>. QED  BY <2>1, <2>2
<1>16. CounterCountsRaises'
  BY DEF IInv, CounterCountsRaises, Learn
<1>. QED  BY <1>10, <1>11, <1>14, <1>15, <1>16 DEF IInv

-----------------------------------------------------------------------------
(***************************************************************************)
(* The theorems.                                                           *)
(***************************************************************************)
\* What the steps preserve, together (the background learning tasks).
THEOREM Invariance == Spec => []IInv
<1>1. Init => IInv
  BY InitInv
<1>2. IInv /\ [Next]_vars => IInv'
  <2>. SUFFICES ASSUME IInv, [Next]_vars  PROVE IInv'
    OBVIOUS
  <2>1. CASE UNCHANGED vars
    BY <2>1 DEF vars, IInv, TypeOK, TaskInv, LearnsExactlyFromSuccess, Learned,
                EarnsItsBand, Current, CounterCountsRaises
  <2>2. ASSUME NEW t \in Tasks,
               Finish(t) \/ LearnNothing(t) \/ Learn(t) \/ GiveUp(t) \/ Tally(t)
        PROVE  IInv'
    BY <2>2, FinishInv, LearnNothingInv, LearnInv, GiveUpInv, TallyInv
  <2>. QED  BY <2>1, <2>2 DEF Next, Idle
<1>. QED  BY <1>1, <1>2, PTL DEF Spec

\* Tasks, weights, signs and tallies keep their types.
THEOREM TypeCorrect == Spec => []TypeOK
<1>1. IInv => TypeOK
  BY DEF IInv
<1>. QED  BY <1>1, Invariance, PTL

\* A learning task raises its cell exactly for a grounded clean success.
THEOREM LearnsFromSuccess == Spec => []LearnsExactlyFromSuccess
<1>1. IInv => LearnsExactlyFromSuccess
  BY DEF IInv
<1>. QED  BY <1>1, Invariance, PTL

\* Learning takes a cell no higher than .0246 for each raise.
THEOREM BandsAreEarned == Spec => []EarnsItsBand
<1>1. IInv => EarnsItsBand
  BY DEF IInv
<1>. QED  BY <1>1, Invariance, PTL

\* A learning task never lowers a cell and raises it by a small step: what Teach of
\* QueryPipeline takes for granted, and what documents deny (FailuresDemote).
THEOREM LearningOnlyRaises == Spec => OnlyRaises
<1>1. IInv /\ [Next]_vars
        => [\A c \in Cells :
               weight'[c] # weight[c] =>
                   Current(c) < weight'[c] /\ weight'[c] <= Current(c) + 246]_vars
  <2>. SUFFICES ASSUME IInv, [Next]_vars, NEW c \in Cells, weight'[c] # weight[c]
                PROVE  Current(c) < weight'[c] /\ weight'[c] <= Current(c) + 246
    OBVIOUS
  <2>1. PICK t \in Tasks : Learn(t)
    BY DEF Next, Finish, LearnNothing, GiveUp, Tally, Idle, vars
  <2>. DEFINE old == Current(task[t].cell)
  <2>2. PICK applied \in Int :
          /\ 0 <= applied /\ applied <= 246
          /\ applied = 0 <=> old = WMax
          /\ weight' = [weight EXCEPT ![task[t].cell] = old + applied]
    BY <2>1, LearnEffect
  <2>3. /\ weight \in [Cells -> Weight \cup {None}]
        /\ c = task[t].cell /\ weight'[c] = old + applied
    BY <2>2 DEF IInv, TypeOK
  <2>4. old \in Int
    BY <2>3, CurrentBounds DEF IInv
  <2>5. applied # 0
    <3>1. CASE old = WMax
      <4>1. weight[c] = WMax
        BY <2>3, <3>1, WeightAssumption DEF Current, Seeded
      <4>. HIDE DEF old
      <4>2. WMax + 0 = WMax
        BY WeightAssumption
      <4>. QED  BY <2>2, <2>3, <3>1, <4>1, <4>2
    <3>2. CASE old # WMax
      BY <2>2, <3>2
    <3>. QED  BY <3>1, <3>2
  <2>6. Current(c) = old
    BY <2>3
  <2>. HIDE DEF old
  <2>. QED  BY <2>2, <2>3, <2>4, <2>5, <2>6
<1>. QED  BY <1>1, Invariance, PTL DEF Spec, OnlyRaises

\* The recent counter holds the latest successes and nothing else.
THEOREM CounterIsTrue == Spec => []CounterCountsRaises
<1>1. IInv => CounterCountsRaises
  BY DEF IInv
<1>. QED  BY <1>1, Invariance, PTL
=============================================================================
