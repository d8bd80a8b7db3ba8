----------------------------- MODULE Swarm_proofs -----------------------------
(***************************************************************************)
(* Proofs about LockManager for every set of callers, keys and traces, and *)
(* about Swarm for every set of requests and other callers: it uses        *)
(* the lock manager by its rules, type correctness, what an ended request  *)
(* leaves behind, which hint and context reach the generator, when a       *)
(* request may be cut short, and that the swarm implements Supervision.    *)
(***************************************************************************)
EXTENDS Swarm, QueueLemmas

(***************************************************************************)
(* The lock manager, for every set of callers, keys and traces.  The       *)
(* lemmas are about single steps, because steps of the swarm use them.     *)
(***************************************************************************)
LockInv == LockTypeOK /\ LockConsistent

\* The initial locks are free and nobody waits.
LEMMA LockInitInv == ASSUME LockInit PROVE LockInv
<1>1. LockTypeOK
  BY KeyAssumption DEF LockInit, LockTypeOK, CallerState
<1>2. \A k \in Keys : ToSet(queue[k]) = {} /\ IsInjective(queue[k])
  BY DEF LockInit, ToSet, IsInjective
<1>3. LockConsistent
  BY <1>2 DEF LockInit, LockConsistent
<1>. QED  BY <1>1, <1>3 DEF LockInv

\* A caller that joins or leaves the queue of its key.
LEMMA QueueStep ==
    ASSUME LockInv, NEW c \in Callers,
           \/ /\ at[c] = "idle"
              /\ Move(c, "waiting")
              /\ queue' = [queue EXCEPT ![KeyOf[c]] = Append(@, c)]
           \/ /\ at[c] = "waiting"
              /\ \E s \in CallerState \ {"waiting"} : Move(c, s)
              /\ Dequeue(c)
    PROVE  /\ queue' \in [Keys -> Seq(Callers)]
           /\ \A k \in Keys :
                /\ ToSet(queue'[k]) = {d \in Callers : at'[d] = "waiting" /\ KeyOf[d] = k}
                /\ IsInjective(queue'[k])
<1>. DEFINE key == KeyOf[c]
            q == queue[key]
            Waiting(k) == {d \in Callers : at[d] = "waiting" /\ KeyOf[d] = k}
            WaitingNow(k) == {d \in Callers : at'[d] = "waiting" /\ KeyOf[d] = k}
<1>1. /\ key \in Keys
      /\ queue \in [Keys -> Seq(Callers)] /\ at \in [Callers -> CallerState]
      /\ q \in Seq(Callers) /\ IsInjective(q) /\ ToSet(q) = Waiting(key)
      /\ \A k \in Keys : ToSet(queue[k]) = Waiting(k) /\ IsInjective(queue[k])
  BY KeyAssumption DEF LockInv, LockTypeOK, LockConsistent
<1>2. \A k \in Keys : k # key => WaitingNow(k) = Waiting(k) /\ queue'[k] = queue[k]
  BY <1>1 DEF Move, Dequeue
<1>3. CASE at[c] = "idle" /\ Move(c, "waiting")
           /\ queue' = [queue EXCEPT ![KeyOf[c]] = Append(@, c)]
  <2>1. c \notin ToSet(q)  BY <1>1, <1>3
  <2>2. /\ Append(q, c) \in Seq(Callers)
        /\ IsInjective(Append(q, c))
        /\ ToSet(Append(q, c)) = ToSet(q) \cup {c}
    BY <1>1, <2>1, AppendDistinct
  <2>3. queue'[key] = Append(q, c) /\ queue' \in [Keys -> Seq(Callers)]
    BY <1>1, <1>3, <2>2
  <2>4. WaitingNow(key) = Waiting(key) \cup {c}
    BY <1>1, <1>3 DEF Move
  <2>5. ToSet(queue'[key]) = WaitingNow(key) /\ IsInjective(queue'[key])
    BY <1>1, <2>2, <2>3, <2>4
  <2>. QED  BY <1>1, <1>2, <2>3, <2>5
<1>4. CASE at[c] = "waiting" /\ (\E s \in CallerState \ {"waiting"} : Move(c, s))
           /\ Dequeue(c)
  <2>1. /\ RemoveFirst(q, c) \in Seq(Callers)
        /\ IsInjective(RemoveFirst(q, c))
        /\ ToSet(RemoveFirst(q, c)) = ToSet(q) \ {c}
    BY <1>1, RemoveDistinct
  <2>2. queue'[key] = RemoveFirst(q, c) /\ queue' \in [Keys -> Seq(Callers)]
    BY <1>1, <1>4, <2>1 DEF Dequeue
  <2>3. WaitingNow(key) = Waiting(key) \ {c}
    BY <1>1, <1>4 DEF Move
  <2>4. ToSet(queue'[key]) = WaitingNow(key) /\ IsInjective(queue'[key])
    BY <1>1, <2>1, <2>2, <2>3
  <2>. QED  BY <1>1, <1>2, <2>2, <2>4
<1>. QED  BY <1>3, <1>4 DEF CallerState

\* Nobody joins or leaves a queue.
LEMMA QueueQuiet ==
    ASSUME LockInv, UNCHANGED queue,
           \A c \in Callers : at'[c] = "waiting" <=> at[c] = "waiting"
    PROVE  /\ queue' \in [Keys -> Seq(Callers)]
           /\ \A k \in Keys :
                /\ ToSet(queue'[k]) = {d \in Callers : at'[d] = "waiting" /\ KeyOf[d] = k}
                /\ IsInjective(queue'[k])
  BY DEF LockInv, LockTypeOK, LockConsistent

\* Every step of the lock manager keeps locks, queues and states in agreement.
LEMMA LockStepInv == ASSUME LockInv, [LockNext]_lockVars PROVE LockInv'
<1>. DEFINE QueueOK ==
              /\ queue \in [Keys -> Seq(Callers)]
              /\ \A k \in Keys :
                   /\ ToSet(queue[k]) = {d \in Callers : at[d] = "waiting" /\ KeyOf[d] = k}
                   /\ IsInjective(queue[k])
            HeldOK ==
              /\ at \in [Callers -> CallerState]
              /\ locked \in [Keys -> BOOLEAN]
              /\ states = {k \in Keys : locked[k]}
              /\ \A k \in Keys :
                   locked[k] <=> \E c \in Callers : at[c] = "inside" /\ KeyOf[c] = k
              /\ \A c, d \in Callers :
                   at[c] = "inside" /\ at[d] = "inside" /\ KeyOf[c] = KeyOf[d] => c = d
<1>1. LockInv => HeldOK /\ forcePushed \subseteq Traces
  BY DEF LockInv, LockTypeOK, LockConsistent
<1>2. (QueueOK /\ HeldOK /\ forcePushed \subseteq Traces)' => LockInv'
  BY DEF LockInv, LockTypeOK, LockConsistent
<1>3. ASSUME NEW c \in Callers, Refuse(c) PROVE QueueOK' /\ HeldOK'
  BY <1>1, <1>3, QueueQuiet DEF Refuse, Move, CallerState
<1>4. ASSUME NEW c \in Callers, Ask(c) PROVE QueueOK' /\ HeldOK'
  <2>1. QueueOK'  BY <1>4, QueueStep DEF Ask
  <2>2. HeldOK'  BY <1>1, <1>4 DEF Ask, Move, CallerState
  <2>. QED  BY <2>1, <2>2
<1>5. ASSUME NEW c \in Callers, Grant(c) PROVE QueueOK' /\ HeldOK'
  <2>1. QueueOK'  BY <1>5, QueueStep DEF Grant, CanEnter, CallerState
  <2>2. /\ KeyOf[c] \in Keys /\ ~ locked[KeyOf[c]]
        /\ at' = [at EXCEPT ![c] = "inside"]
        /\ locked' = [locked EXCEPT ![KeyOf[c]] = TRUE]
        /\ states' = states \cup {KeyOf[c]}
    BY <1>5, KeyAssumption DEF Grant, CanEnter, Move, StateKey
  <2>3. HeldOK'  BY <1>1, <2>2 DEF CallerState
  <2>. QED  BY <2>1, <2>3
<1>6. ASSUME NEW c \in Callers, Leave(c) PROVE QueueOK' /\ HeldOK'
  <2>1. PICK s \in {"released", "cancelled"} : Move(c, s)
    BY <1>6 DEF Leave
  <2>2. /\ KeyOf[c] \in Keys /\ at[c] = "inside"
        /\ at' = [at EXCEPT ![c] = s]
        /\ locked' = [locked EXCEPT ![KeyOf[c]] = FALSE]
        /\ states' = states \ {KeyOf[c]}
        /\ queue' = queue
    BY <1>6, <2>1, KeyAssumption DEF Leave, Move, StateKey
  <2>3. HeldOK'
    <3>1. at' \in [Callers -> CallerState] /\ locked' \in [Keys -> BOOLEAN]
      BY <1>1, <2>1, <2>2 DEF CallerState
    <3>2. states' = {k \in Keys : locked'[k]}
      BY <1>1, <2>2
    <3>3. \A d \in Callers : at'[d] = "inside" <=> at[d] = "inside" /\ d # c
      BY <1>1, <2>1, <2>2
    <3>4. ASSUME NEW k \in Keys
          PROVE  locked'[k] <=> \E d \in Callers : at'[d] = "inside" /\ KeyOf[d] = k
      BY <1>1, <2>2, <3>3
    <3>. QED  BY <1>1, <3>1, <3>2, <3>3, <3>4
  <2>4. QueueOK'  BY <1>1, <2>1, <2>2, QueueQuiet
  <2>. QED  BY <2>3, <2>4
<1>7. ASSUME NEW c \in Callers, NEW s \in CallerState \ {"waiting", "inside"},
             at[c] = "waiting", Move(c, s), Dequeue(c), UNCHANGED <<locked, states>>
      PROVE  QueueOK' /\ HeldOK'
  <2>1. QueueOK'  BY <1>7, QueueStep
  <2>2. HeldOK'  BY <1>1, <1>7 DEF Move
  <2>. QED  BY <2>1, <2>2
<1>8. ASSUME NEW c \in Callers, CallerStep(c)
      PROVE  QueueOK' /\ HeldOK' /\ UNCHANGED forcePushed
  <2>1. PassThrough(c) \/ TimeOut(c) \/ CancelWait(c) => QueueOK' /\ HeldOK'
    BY <1>7 DEF PassThrough, TimeOut, CancelWait, GiveUp, CanEnter, CallerState
  <2>2. UNCHANGED forcePushed
    BY <1>8 DEF CallerStep, Refuse, Ask, Grant, Leave, PassThrough, TimeOut, CancelWait, GiveUp
  <2>. QED  BY <1>3, <1>4, <1>5, <1>6, <1>8, <2>1, <2>2 DEF CallerStep
<1>9. ASSUME NEW t \in Traces, MarkForcePushed(t) \/ ClearForcePush(t)
      PROVE  QueueOK' /\ HeldOK' /\ (forcePushed \subseteq Traces)'
  BY <1>1, <1>9, QueueQuiet DEF MarkForcePushed, ClearForcePush
<1>10. ASSUME UNCHANGED lockVars PROVE QueueOK' /\ HeldOK' /\ UNCHANGED forcePushed
  BY <1>1, <1>10, QueueQuiet DEF lockVars
<1>. QED  BY <1>1, <1>2, <1>8, <1>9, <1>10 DEF LockNext

LEMMA LockInvariant == LockSpec => []LockInv
  BY LockInitInv, LockStepInv, PTL DEF LockSpec

\* Type correctness of the lock manager.
THEOREM LockTypeCorrect == LockSpec => []LockTypeOK
<1>1. LockInv => LockTypeOK  BY DEF LockInv
<1>. QED  BY <1>1, LockInvariant, PTL

\* Mutual exclusion, and no lock or queue entry outlives its caller.
THEOREM LocksConsistent == LockSpec => []LockConsistent
<1>1. LockInv => LockConsistent  BY DEF LockInv
<1>. QED  BY <1>1, LockInvariant, PTL

\* A step of the lock manager lets nobody past a caller who asked before.
LEMMA StepsInOrder ==
    ASSUME LockInv, [LockNext]_lockVars, NEW c \in Callers, NEW d \in Callers, AheadOf(c, d)
    PROVE  /\ at'[d] \notin {"inside", "released"}
           /\ at'[c] = "waiting" /\ at'[d] = "waiting" => AheadOf(c, d)'
<1>. DEFINE k == KeyOf[d]
            q == queue[k]
<1>1. /\ k \in Keys /\ q \in Seq(Callers) /\ IsInjective(q)
      /\ ToSet(q) = {e \in Callers : at[e] = "waiting" /\ KeyOf[e] = k}
      /\ queue \in [Keys -> Seq(Callers)] /\ at \in [Callers -> CallerState]
  BY KeyAssumption DEF LockInv, LockTypeOK, LockConsistent
<1>2. Before(q, c, d)
  BY DEF AheadOf, Before
<1>3. Head(q) # d
  BY <1>1, <1>2, FirstIsFirst
<1>4. /\ at[c] = "waiting" /\ KeyOf[c] = k
      /\ at[d] = "waiting"
  <2>1. c \in ToSet(q) /\ d \in ToSet(q)
    BY <1>1, <1>2, Elements DEF Before
  <2>. QED  BY <1>1, <2>1
<1>5. AheadOf(c, d)' <=> Before(queue'[k], c, d)
  BY DEF AheadOf, Before
<1>. HIDE DEF q
<1>6. ASSUME queue'[k] = q, at'[d] = "waiting"  PROVE AheadOf(c, d)'
  BY <1>2, <1>5, <1>6
<1>7. ASSUME NEW e \in Callers, Ask(e)
      PROVE  at'[d] = "waiting" /\ AheadOf(c, d)'
  <2>1. at'[d] = "waiting"
    BY <1>1, <1>4, <1>7 DEF Ask, Move
  <2>2. queue'[k] = q \/ queue'[k] = Append(q, e)
    BY <1>1, <1>7 DEF Ask, q
  <2>3. Before(Append(q, e), c, d)
    BY <1>1, <1>2, OrderKept
  <2>4. Before(queue'[k], c, d)
    BY <1>2, <2>2, <2>3
  <2>. QED  BY <1>5, <2>1, <2>4
<1>8. ASSUME NEW e \in Callers, at[e] = "waiting", Dequeue(e),
             NEW s \in CallerState \ {"waiting"}, Move(e, s),
             s \in {"inside", "released"} => Head(queue[KeyOf[e]]) = e
      PROVE  /\ at'[d] \notin {"inside", "released"}
             /\ at'[c] = "waiting" /\ at'[d] = "waiting" => AheadOf(c, d)'
  <2>1. at' = [at EXCEPT ![e] = s]
    BY <1>8 DEF Move
  <2>2. queue'[k] = IF KeyOf[e] = k THEN RemoveFirst(q, e) ELSE q
    BY <1>1, <1>8 DEF Dequeue, q
  <2>3. at'[d] \notin {"inside", "released"}
    BY <1>1, <1>3, <1>4, <1>8, <2>1 DEF q
  <2>4. ASSUME at'[c] = "waiting", at'[d] = "waiting"
        PROVE  AheadOf(c, d)'
    <3>1. e # c /\ e # d
      BY <1>1, <2>1, <2>4
    <3>2. Before(RemoveFirst(q, e), c, d)
      BY <1>1, <1>2, <3>1, OrderKept
    <3>3. Before(queue'[k], c, d)
      BY <1>2, <2>2, <3>2
    <3>. QED  BY <1>5, <3>3
  <2>. QED  BY <2>3, <2>4
<1>9. ASSUME NEW e \in Callers, Grant(e) \/ PassThrough(e) \/ TimeOut(e) \/ CancelWait(e)
      PROVE  /\ at'[d] \notin {"inside", "released"}
             /\ at'[c] = "waiting" /\ at'[d] = "waiting" => AheadOf(c, d)'
  <2>1. /\ at[e] = "waiting" /\ Dequeue(e)
        /\ \E s \in CallerState \ {"waiting"} :
              /\ Move(e, s)
              /\ s \in {"inside", "released"} => Head(queue[KeyOf[e]]) = e
    BY <1>9 DEF Grant, PassThrough, TimeOut, CancelWait, GiveUp, CanEnter, CallerState
  <2>. QED  BY <1>8, <2>1
<1>10. ASSUME NEW e \in Callers, Refuse(e) \/ Leave(e)
       PROVE  at'[d] = "waiting" /\ queue' = queue
  BY <1>1, <1>4, <1>10 DEF Refuse, Leave, Move
<1>11. ASSUME UNCHANGED <<at, queue>>
       PROVE  at'[d] = "waiting" /\ queue' = queue
  BY <1>4, <1>11
<1>. QED
  BY <1>6, <1>7, <1>9, <1>10, <1>11
     DEF LockNext, CallerStep, MarkForcePushed, ClearForcePush, lockVars, q

\* First come, first served, also past callers that give up or are cancelled.
THEOREM FirstComeFirstServed == LockSpec => NobodyOvertakes
<1>1. LockInv /\ [LockNext]_lockVars
        => [\A c, d \in Callers :
               AheadOf(c, d) =>
                   /\ at'[d] \notin {"inside", "released"}
                   /\ at'[c] = "waiting" /\ at'[d] = "waiting" => AheadOf(c, d)']_lockVars
  BY StepsInOrder
<1>. QED  BY <1>1, LockInvariant, PTL DEF LockSpec, NobodyOvertakes

\* The safety half of WaitersGetThrough: a queue always has someone to move it on.
THEOREM NoWakeUpIsLost == LockSpec => []NobodyIsStranded
<1>1. LockInv => NobodyIsStranded
  <2>. SUFFICES ASSUME LockInv, NEW k \in Keys, queue[k] # <<>>, ~ locked[k]
                PROVE  CanEnter(Head(queue[k]))
    BY DEF LockInv, LockConsistent, NobodyIsStranded
  <2>1. queue[k] \in Seq(Callers) /\ IsInjective(queue[k])
    BY DEF LockInv, LockTypeOK, LockConsistent
  <2>2. Head(queue[k]) \in ToSet(queue[k])
    BY <2>1, TailDistinct
  <2>3. at[Head(queue[k])] = "waiting" /\ KeyOf[Head(queue[k])] = k
    BY <2>2 DEF LockInv, LockConsistent
  <2>. QED  BY <2>3 DEF CanEnter
<1>. QED  BY <1>1, LockInvariant, PTL

(***************************************************************************)
(* The swarm.                                                              *)
(***************************************************************************)
SwarmTypeOK ==
    /\ stage \in [Requests -> Stage]
    /\ pfc \in [Requests -> {"none", "cancelled"} \cup Live \cup PfcResult]
    /\ ctx \in [Requests -> {"none", "cancelled"} \cup Live \cup CtxResult]
    /\ late \in [Requests -> {"none", "waiting", "done"}]
    /\ hint \subseteq Requests
    /\ written \subseteq Requests
    /\ asked \subseteq Requests

\* What is true of one request at each of its stages.
Local(r) ==
    /\ stage[r] = "idle" => pfc[r] = "none" /\ ctx[r] = "none"
    /\ stage[r] \in {"idle", "hint"} => late[r] = "none" /\ r \notin hint
    /\ stage[r] = "hint" => pfc[r] \in {"running"} \cup PfcResult
    /\ stage[r] \in {"idle", "hint", "join", "cleanup"} => at[r] = "idle"
    /\ stage[r] \in {"idle", "hint", "join", "lock"} => r \notin written
    /\ stage[r] = "lock" => at[r] = "waiting" /\ ctx[r] \in Injectable
    /\ stage[r] \in {"generate"} \cup Ended => at[r] # "waiting" /\ ctx[r] \notin Live
    /\ stage[r] \in {"join", "lock", "generate"} \cup Ended =>
          (pfc[r] \in Live => late[r] = "waiting")
    /\ stage[r] \in {"generate", "answered"} => (r \in written <=> ctx[r] \in Injectable)
    /\ ctx[r] \in {"cancelling", "cancelled"} => r \in asked
    /\ stage[r] = "cleanup" => r \in asked
    /\ stage[r] = "cancelled" => r \in asked \/ at[r] = "cancelled"
    /\ r \in hint => pfc[r] = "ok" /\ late[r] = "none"

LocalInv == \A r \in Requests : Local(r)

IInv == LockInv /\ SwarmTypeOK /\ LocalInv

\* The lock manager's variables change as one of its steps.
LEMMA LockUse == Next => [LockNext]_lockVars
<1>1. ASSUME NEW r \in Requests, RequestStep(r) PROVE [LockNext]_lockVars
  <2>1. r \in Callers  BY RequestAssumption
  <2>2. Execute(r) \/ PfcEnds(r) \/ CtxEnds(r) \/ LateEnds(r) \/ Generate(r) \/ CleanupResumes(r)
          => UNCHANGED lockVars
    BY DEF Execute, PfcEnds, CtxEnds, LateEnds, Generate, CleanupResumes
  <2>3. HintArrives(r) \/ HintTimesOut(r) \/ JoinEnds(r)
          => UNCHANGED lockVars \/ Ask(r) \/ Refuse(r)
    BY DEF HintArrives, HintTimesOut, JoinEnds, JoinOrWrite, WriteOrSkip
  <2>4. WriteLocked(r) \/ WriteUnlocked(r) => PassThrough(r) \/ TimeOut(r)
    BY DEF WriteLocked, WriteUnlocked
  <2>5. Cancel(r) => UNCHANGED lockVars \/ CancelWait(r)
    BY DEF Cancel, CancelHint, CancelJoin, CancelLock, CancelGenerate, CancelLost
  <2>. QED
    BY <1>1, <2>1, <2>2, <2>3, <2>4, <2>5 DEF RequestStep, Progress, LockNext, CallerStep
<1>2. ASSUME NEW c \in Callers \ Requests, OtherCaller(c) PROVE LockNext
  BY <1>2 DEF OtherCaller, LockNext
<1>3. ASSUME NEW t \in Traces, ForcePush(t) \/ Clear(t) PROVE LockNext
  BY <1>3 DEF ForcePush, Clear, LockNext
<1>. QED  BY <1>1, <1>2, <1>3 DEF Next

\* What the step of a request leaves alone: the other requests.
Elsewhere(r) ==
    \A q \in Requests \ {r} :
        /\ at'[q] = at[q] /\ stage'[q] = stage[q]
        /\ pfc'[q] = pfc[q] /\ ctx'[q] = ctx[q] /\ late'[q] = late[q]
        /\ q \in hint' <=> q \in hint
        /\ q \in written' <=> q \in written
        /\ q \in asked' <=> q \in asked

LEMMA StartAndTasks ==
    ASSUME IInv, NEW r \in Requests,
           Execute(r) \/ PfcEnds(r) \/ CtxEnds(r) \/ LateEnds(r)
    PROVE  SwarmTypeOK' /\ Local(r)' /\ Elsewhere(r)
<1>. USE DEF SwarmTypeOK, Local, Elsewhere, Stage, Ended, Live, PfcResult, CtxResult, Injectable,
             lockVars, tasks, outcome, Goto
<1>0. SwarmTypeOK /\ Local(r)  BY DEF IInv, LocalInv
<1>1. CASE Execute(r)  BY <1>0, <1>1 DEF Execute
<1>2. CASE PfcEnds(r)  BY <1>0, <1>2 DEF PfcEnds
<1>3. CASE CtxEnds(r)  BY <1>0, <1>3 DEF CtxEnds
<1>4. CASE LateEnds(r)  BY <1>0, <1>4 DEF LateEnds
<1>. QED  BY <1>1, <1>2, <1>3, <1>4

LEMMA WaitsEnd ==
    ASSUME IInv, NEW r \in Requests, Progress(r)
    PROVE  SwarmTypeOK' /\ Local(r)' /\ Elsewhere(r)
<1>. USE DEF SwarmTypeOK, Local, Elsewhere, Stage, Ended, Live, PfcResult, CtxResult, Injectable,
             lockVars, tasks, outcome, Goto
<1>0. SwarmTypeOK /\ Local(r)  BY DEF IInv, LocalInv
<1>1. r \in Callers /\ at \in [Callers -> CallerState] /\ Requests \subseteq Callers
  BY RequestAssumption DEF IInv, LockInv, LockTypeOK
<1>2. CASE HintArrives(r)
  BY <1>0, <1>1, <1>2 DEF HintArrives, JoinOrWrite, WriteOrSkip, Ask, Refuse, Move
<1>3. CASE HintTimesOut(r)
  BY <1>0, <1>1, <1>3 DEF HintTimesOut, JoinOrWrite, WriteOrSkip, Ask, Refuse, Move
<1>4. CASE JoinEnds(r)
  BY <1>0, <1>1, <1>4 DEF JoinEnds, Cleanup, WriteOrSkip, Ask, Refuse, Move
<1>5. CASE WriteLocked(r)
  BY <1>0, <1>1, <1>5 DEF WriteLocked, Write, PassThrough, Move
<1>6. CASE WriteUnlocked(r)
  BY <1>0, <1>1, <1>6 DEF WriteUnlocked, Write, TimeOut, GiveUp, Move
<1>7. CASE Generate(r)  BY <1>0, <1>7 DEF Generate
<1>8. CASE CleanupResumes(r)  BY <1>0, <1>8 DEF CleanupResumes, Cleanup
<1>. QED  BY <1>2, <1>3, <1>4, <1>5, <1>6, <1>7, <1>8 DEF Progress

LEMMA Cancelled ==
    ASSUME IInv, NEW r \in Requests, Cancel(r)
    PROVE  SwarmTypeOK' /\ Local(r)' /\ Elsewhere(r)
<1>. USE DEF SwarmTypeOK, Local, Elsewhere, Stage, Ended, Live, PfcResult, CtxResult, Injectable,
             lockVars, tasks, outcome, Goto
<1>0. SwarmTypeOK /\ Local(r)  BY DEF IInv, LocalInv
<1>1. r \in Callers /\ at \in [Callers -> CallerState] /\ Requests \subseteq Callers
  BY RequestAssumption DEF IInv, LockInv, LockTypeOK
<1>2. asked' = asked \cup {r} /\ UNCHANGED <<hint, written>>
  BY DEF Cancel
<1>3. CASE CancelHint(r)  BY <1>0, <1>2, <1>3 DEF CancelHint, Cleanup
<1>4. CASE CancelJoin(r)  BY <1>0, <1>2, <1>4 DEF CancelJoin, Cleanup
<1>5. CASE CancelLock(r)
  BY <1>0, <1>1, <1>2, <1>5 DEF CancelLock, CancelWait, GiveUp, Move
<1>6. CASE CancelGenerate(r)  BY <1>0, <1>2, <1>6 DEF CancelGenerate
<1>7. CASE CancelLost(r)  BY <1>0, <1>2, <1>7 DEF CancelLost
<1>. QED  BY <1>3, <1>4, <1>5, <1>6, <1>7 DEF Cancel

\* The step of a request keeps the invariant, of itself and of the others.
LEMMA RequestStepInv ==
    ASSUME IInv, NEW r \in Requests, RequestStep(r)
    PROVE  SwarmTypeOK' /\ LocalInv' /\ Local(r)' /\ Elsewhere(r)
<1>1. SwarmTypeOK' /\ Local(r)' /\ Elsewhere(r)
  BY StartAndTasks, WaitsEnd, Cancelled DEF RequestStep
<1>2. ASSUME NEW q \in Requests, q # r PROVE Local(q)'
  BY <1>1, <1>2 DEF IInv, LocalInv, Local, Elsewhere
<1>. QED  BY <1>1, <1>2 DEF LocalInv

\* Another caller, LC and a stuttering step do not touch the requests.
LEMMA OthersStepInv ==
    ASSUME IInv,
           \/ \E c \in Callers \ Requests : OtherCaller(c)
           \/ \E t \in Traces : ForcePush(t) \/ Clear(t)
           \/ UNCHANGED vars
    PROVE  /\ SwarmTypeOK' /\ LocalInv'
           /\ UNCHANGED swarmVars
           /\ \A r \in Requests : at'[r] = at[r]
<1>1. UNCHANGED swarmVars
  BY DEF OtherCaller, ForcePush, Clear, vars
<1>2. \A r \in Requests : at'[r] = at[r]
  <2>1. at \in [Callers -> CallerState] /\ Requests \subseteq Callers
    BY RequestAssumption DEF IInv, LockInv, LockTypeOK
  <2>2. ASSUME NEW c \in Callers \ Requests, OtherCaller(c)
        PROVE  \A r \in Requests : at'[r] = at[r]
    BY <2>1, <2>2 DEF OtherCaller, CallerStep, Refuse, Ask, Grant, Leave, PassThrough, TimeOut,
                      CancelWait, GiveUp, Move
  <2>. QED
    BY <2>2 DEF ForcePush, Clear, MarkForcePushed, ClearForcePush, vars, lockVars
<1>3. SwarmTypeOK'
  BY <1>1 DEF IInv, SwarmTypeOK, swarmVars, tasks, outcome
<1>4. LocalInv'
  BY <1>1, <1>2 DEF IInv, LocalInv, Local, swarmVars, tasks, outcome
<1>. QED  BY <1>1, <1>2, <1>3, <1>4

LEMMA InitInv == Init => IInv
<1>. SUFFICES ASSUME Init PROVE IInv  OBVIOUS
<1>1. LockInv  BY LockInitInv DEF Init
<1>2. SwarmTypeOK
  BY DEF Init, SwarmTypeOK, Stage
<1>3. at = [c \in Callers |-> "idle"] /\ Requests \subseteq Callers
  BY RequestAssumption DEF Init, LockInit
<1>4. LocalInv
  BY <1>3 DEF Init, LocalInv, Local, Ended, Live
<1>. QED  BY <1>1, <1>2, <1>4 DEF IInv

LEMMA StepInv == IInv /\ [Next]_vars => IInv'
<1>. SUFFICES ASSUME IInv, [Next]_vars PROVE IInv'  OBVIOUS
<1>1. LockInv'
  BY LockUse, LockStepInv DEF IInv, vars
<1>2. SwarmTypeOK' /\ LocalInv'
  BY RequestStepInv, OthersStepInv DEF Next
<1>. QED  BY <1>1, <1>2 DEF IInv

LEMMA Invariant == Spec => []IInv
  BY InitInv, StepInv, PTL DEF Spec

\* The swarm uses the lock manager by its rules, so what is proved of the one holds in
\* the other.
THEOREM UsesLockManager == Spec => LockSpec
<1>1. Init => LockInit  BY DEF Init
<1>2. [Next]_vars => [LockNext]_lockVars  BY LockUse DEF vars
<1>. QED  BY <1>1, <1>2, PTL DEF Spec, LockSpec

\* So the writes of the swarm's requests reach their context in the order they asked,
\* and a cancelled, timed out or force-pushed request strands nobody behind it.
COROLLARY RequestsQueueInOrder == Spec => NobodyOvertakes /\ []NobodyIsStranded
  BY UsesLockManager, FirstComeFirstServed, NoWakeUpIsLost, PTL

\* Type correctness of the swarm.
THEOREM TypeCorrect == Spec => []TypeOK
<1>1. IInv => TypeOK  BY DEF IInv, LockInv, SwarmTypeOK, TypeOK
<1>. QED  BY <1>1, Invariant, PTL

\* An ended request leaves no task without an owner, and no place in a queue.
THEOREM NothingIsLeft == Spec => []NothingLeftBehind
<1>1. IInv => NothingLeftBehind
  BY DEF IInv, LocalInv, Local, NothingLeftBehind, Ended
<1>. QED  BY <1>1, Invariant, PTL

\* No late PFC answer reaches the planner.
THEOREM HintsAreTimely == Spec => []HintIsTimely
<1>1. IInv => HintIsTimely
  BY DEF IInv, LocalInv, Local, HintIsTimely, SwarmTypeOK
<1>. QED  BY <1>1, Invariant, PTL

\* What the retrieval found is in the TaskContext when the generator runs.
THEOREM ContextArrives == Spec => []ContextReachesGenerator
<1>1. IInv => ContextReachesGenerator
  BY DEF IInv, LocalInv, Local, ContextReachesGenerator
<1>. QED  BY <1>1, Invariant, PTL

\* Only a cancellation or a force push cuts a request short.
THEOREM FailuresHaveFallbacks == Spec => []FailuresFallBack
<1>1. IInv => FailuresFallBack
  BY DEF IInv, LocalInv, Local, FailuresFallBack
<1>. QED  BY <1>1, Invariant, PTL

-----------------------------------------------------------------------------
(***************************************************************************)
(* The refinement.                                                         *)
(***************************************************************************)

PfcOwner(r) == OwnerOf(<<r, "pfc">>)
CtxOwner(r) == OwnerOf(<<r, "context">>)

\* Owners read off the variables of one request.
LEMMA Owners ==
    ASSUME NEW r \in Requests
    PROVE  /\ PfcOwner(r) = IF pfc[r] \notin Live THEN "none"
                            ELSE IF late[r] = "waiting" THEN "handler" ELSE "request"
           /\ CtxOwner(r) = IF ctx[r] \notin Live THEN "none" ELSE "request"
           /\ PfcOwner(r)' = IF pfc'[r] \notin Live THEN "none"
                             ELSE IF late'[r] = "waiting" THEN "handler" ELSE "request"
           /\ CtxOwner(r)' = IF ctx'[r] \notin Live THEN "none" ELSE "request"
  BY DEF PfcOwner, CtxOwner, OwnerOf, Alive

\* What a step of a request does to its phase and its two owners.
Starts(r) ==
    /\ PhaseOf(r) = "idle" /\ PhaseOf(r)' = "running"
    /\ PfcOwner(r) = "none" /\ PfcOwner(r)' \in {"none", "request"}
    /\ CtxOwner(r) = "none" /\ CtxOwner(r)' \in {"none", "request"}

Keeps(r) == PhaseOf(r)' = PhaseOf(r) /\ PfcOwner(r)' = PfcOwner(r) /\ CtxOwner(r)' = CtxOwner(r)

PfcFinishes(r) ==
    /\ PhaseOf(r)' = PhaseOf(r) /\ CtxOwner(r)' = CtxOwner(r)
    /\ PfcOwner(r) # "none" /\ PfcOwner(r)' = "none"

CtxFinishes(r) ==
    /\ PhaseOf(r)' = PhaseOf(r) /\ PfcOwner(r)' = PfcOwner(r)
    /\ CtxOwner(r) # "none" /\ CtxOwner(r)' = "none"

HandsOver(r) ==
    /\ PhaseOf(r) = "running" /\ PhaseOf(r)' = "running"
    /\ PfcOwner(r) = "request" /\ PfcOwner(r)' = "handler"
    /\ CtxOwner(r)' = CtxOwner(r)

Ends(r) ==
    /\ PhaseOf(r) = "running" /\ PhaseOf(r)' = "ended"
    /\ PfcOwner(r)' = IF PfcOwner(r) = "request" THEN "handler" ELSE PfcOwner(r)
    /\ CtxOwner(r) # "request" /\ CtxOwner(r)' = CtxOwner(r)

Change(r) ==
    Starts(r) \/ Keeps(r) \/ PfcFinishes(r) \/ CtxFinishes(r) \/ HandsOver(r) \/ Ends(r)

LEMMA RequestChange ==
    ASSUME IInv, NEW r \in Requests, RequestStep(r)
    PROVE  Change(r)
<1>. USE DEF SwarmTypeOK, Local, Stage, Ended, Live, PfcResult, CtxResult, Injectable,
             lockVars, tasks, outcome, Goto, PhaseOf,
             Change, Starts, Keeps, PfcFinishes, CtxFinishes, HandsOver, Ends
<1>0. SwarmTypeOK /\ Local(r)  BY DEF IInv, LocalInv
<1>1. CASE Execute(r)  BY <1>0, <1>1, Owners DEF Execute
<1>2. CASE PfcEnds(r)  BY <1>0, <1>2, Owners DEF PfcEnds
<1>3. CASE CtxEnds(r)  BY <1>0, <1>3, Owners DEF CtxEnds
<1>4. CASE LateEnds(r)  BY <1>0, <1>4, Owners DEF LateEnds
<1>5. CASE HintArrives(r)  BY <1>0, <1>5, Owners DEF HintArrives, JoinOrWrite, WriteOrSkip
<1>6. CASE HintTimesOut(r)  BY <1>0, <1>6, Owners DEF HintTimesOut, JoinOrWrite, WriteOrSkip
<1>7. CASE JoinEnds(r)  BY <1>0, <1>7, Owners DEF JoinEnds, Cleanup, WriteOrSkip
<1>8. CASE WriteLocked(r) \/ WriteUnlocked(r)
  BY <1>0, <1>8, Owners DEF WriteLocked, WriteUnlocked, Write
<1>9. CASE Generate(r)  BY <1>0, <1>9, Owners DEF Generate
<1>10. CASE CleanupResumes(r)  BY <1>0, <1>10, Owners DEF CleanupResumes, Cleanup
<1>11. CASE CancelHint(r)  BY <1>0, <1>11, Owners DEF CancelHint, Cleanup
<1>12. CASE CancelJoin(r)  BY <1>0, <1>12, Owners DEF CancelJoin, Cleanup
<1>13. CASE CancelLock(r)  BY <1>0, <1>13, Owners DEF CancelLock
<1>14. CASE CancelGenerate(r)  BY <1>0, <1>14, Owners DEF CancelGenerate
<1>15. CASE CancelLost(r)  BY <1>0, <1>15, Owners DEF CancelLost
<1>. QED
  BY <1>1, <1>2, <1>3, <1>4, <1>5, <1>6, <1>7, <1>8, <1>9, <1>10, <1>11, <1>12, <1>13, <1>14, <1>15
     DEF RequestStep, Progress, Cancel

TreeVars == <<[r \in Requests |-> PhaseOf(r)], [w \in Work |-> OwnerOf(w)]>>

\* A change of one request alone is a step of the abstract specification.
LEMMA ChangeRefines ==
    ASSUME IInv, NEW r \in Requests, Change(r), Elsewhere(r)
    PROVE  [Tree!SupervisionNext]_TreeVars
<1>. DEFINE ph == [q \in Requests |-> PhaseOf(q)]
            ow == [w \in Work |-> OwnerOf(w)]
            pw == <<r, "pfc">>
            cw == <<r, "context">>
<1>1. /\ pw \in Work /\ cw \in Work /\ pw # cw
      /\ pw[1] = r /\ cw[1] = r
      /\ \A w \in Work : w[1] = r => w = pw \/ w = cw
      /\ \A w \in Work : w[1] \in Requests
  BY DEF Work
<1>2. \A q \in Requests : q # r => PhaseOf(q)' = PhaseOf(q)
  BY DEF Elsewhere, PhaseOf
<1>3. \A w \in Work : w[1] # r => OwnerOf(w)' = OwnerOf(w)
  BY DEF Elsewhere, OwnerOf, Alive, Work
<1>4. ow'[pw] = PfcOwner(r)' /\ ow'[cw] = CtxOwner(r)' /\ ow[pw] = PfcOwner(r) /\ ow[cw] = CtxOwner(r)
  BY <1>1 DEF PfcOwner, CtxOwner
<1>. HIDE DEF pw, cw
<1>5. ASSUME NEW o, NEW cs \in SUBSET {pw, cw},
             \A w \in {pw, cw} : ow'[w] = IF w \in cs THEN o ELSE ow[w]
      PROVE  Tree!Give(cs, o)
  <2>1. ASSUME NEW w \in Work PROVE OwnerOf(w)' = IF w \in cs THEN o ELSE OwnerOf(w)
    BY <1>1, <1>3, <1>5, <2>1
  <2>. QED  BY <2>1 DEF Tree!Give
<1>6. CASE Starts(r)
  <2>. DEFINE cs == {w \in {pw, cw} : ow'[w] = "request"}
  <2>1. ph[r] = "idle" /\ ph' = [ph EXCEPT ![r] = "running"]
    BY <1>2, <1>6 DEF Starts
  <2>2. Tree!Give(cs, "request")
    BY <1>4, <1>5, <1>6 DEF Starts
  <2>3. cs \in SUBSET {w \in Work : w[1] = r}
    BY <1>1
  <2>4. Tree!Start(r)
    BY <2>1, <2>2, <2>3 DEF Tree!Start
  <2>. QED  BY <2>4 DEF Tree!SupervisionNext
<1>7. CASE Keeps(r)
  <2>1. ph' = ph
    BY <1>2, <1>7 DEF Keeps
  <2>2. \A w \in Work : OwnerOf(w)' = OwnerOf(w)
    BY <1>1, <1>3, <1>4, <1>7 DEF Keeps
  <2>. QED  BY <2>1, <2>2 DEF TreeVars
<1>8. CASE PfcFinishes(r)
  <2>1. ph' = ph
    BY <1>2, <1>8 DEF PfcFinishes
  <2>2. Tree!Give({pw}, "none")
    BY <1>1, <1>4, <1>5, <1>8 DEF PfcFinishes
  <2>3. ow[pw] # "none"
    BY <1>4, <1>8 DEF PfcFinishes
  <2>. QED  BY <1>1, <2>1, <2>2, <2>3 DEF Tree!Finish, Tree!SupervisionNext
<1>9. CASE CtxFinishes(r)
  <2>1. ph' = ph
    BY <1>2, <1>9 DEF CtxFinishes
  <2>2. Tree!Give({cw}, "none")
    BY <1>1, <1>4, <1>5, <1>9 DEF CtxFinishes
  <2>3. ow[cw] # "none"
    BY <1>4, <1>9 DEF CtxFinishes
  <2>. QED  BY <1>1, <2>1, <2>2, <2>3 DEF Tree!Finish, Tree!SupervisionNext
<1>10. CASE HandsOver(r)
  <2>1. ph' = ph /\ ph[r] = "running"
    BY <1>2, <1>10 DEF HandsOver
  <2>2. Tree!Give({pw}, "handler")
    BY <1>1, <1>4, <1>5, <1>10 DEF HandsOver
  <2>3. ow[pw] = "request"
    BY <1>4, <1>10 DEF HandsOver
  <2>4. pw \in Requests \X {"pfc"}
    BY DEF pw
  <2>. QED  BY <1>1, <2>1, <2>2, <2>3, <2>4 DEF Tree!HandOver, Tree!SupervisionNext
<1>11. CASE Ends(r)
  <2>. DEFINE cs == {w \in Work : w[1] = r /\ ow[w] = "request"}
  <2>1. ph[r] = "running" /\ ph' = [ph EXCEPT ![r] = "ended"]
    BY <1>2, <1>11 DEF Ends
  <2>2. cs \in SUBSET {pw, cw} /\ cw \notin cs
    BY <1>1, <1>4, <1>11 DEF Ends
  <2>3. Tree!Give(cs, "handler")
    BY <1>1, <1>4, <1>5, <1>11, <2>2 DEF Ends
  <2>4. cs \subseteq Requests \X {"pfc"}
    BY <2>2 DEF pw
  <2>5. Tree!End(r)
    BY <2>1, <2>3, <2>4 DEF Tree!End, Tree!Owned
  <2>. QED  BY <2>5 DEF Tree!SupervisionNext
<1>. QED  BY <1>6, <1>7, <1>8, <1>9, <1>10, <1>11 DEF Change

LEMMA InitRefines == Init => Tree!SupervisionInit
  BY DEF Init, Tree!SupervisionInit, PhaseOf, OwnerOf, Alive, Live, Work

LEMMA StepRefines ==
    IInv /\ [Next]_vars =>
      [Tree!SupervisionNext]_TreeVars
<1>. SUFFICES ASSUME IInv, [Next]_vars
              PROVE  [Tree!SupervisionNext]_TreeVars
  OBVIOUS
<1>1. ASSUME NEW r \in Requests, RequestStep(r)
      PROVE  [Tree!SupervisionNext]_TreeVars
  BY <1>1, RequestStepInv, RequestChange, ChangeRefines
<1>2. ASSUME UNCHANGED swarmVars
      PROVE  UNCHANGED TreeVars
  <2>1. \A q \in Requests : PhaseOf(q)' = PhaseOf(q)
    BY <1>2 DEF swarmVars, PhaseOf
  <2>2. \A w \in Work : OwnerOf(w)' = OwnerOf(w)
    BY <1>2 DEF swarmVars, tasks, OwnerOf, Alive
  <2>. QED  BY <2>1, <2>2 DEF TreeVars
<1>. QED  BY <1>1, <1>2, OthersStepInv DEF Next

\* The swarm implements Supervision: at every point where it can be cancelled, timed
\* out or pushed, each of its tasks has an owner.
THEOREM Refinement == Spec => ImplementsSupervision
<1>1. Init => Tree!SupervisionInit  BY InitRefines
<1>2. IInv /\ [Next]_vars =>
        [Tree!SupervisionNext]_TreeVars
  BY StepRefines
<1>. QED
  BY <1>1, <1>2, Invariant, PTL DEF Spec, TreeVars, ImplementsSupervision, Tree!SupervisionSpec
=============================================================================
