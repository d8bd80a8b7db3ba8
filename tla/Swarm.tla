-------------------------------- MODULE Swarm --------------------------------
(***************************************************************************)
(* AsyncSwarm: one `execute` per request, with its context and PFC tasks,  *)
(* the handler of a late PFC, and the write of the context under the PLC.  *)
(*                                                                         *)
(* An action is the code between two places where the request's task gives *)
(* up the loop: the bounded wait for PFC, the join of the context, the     *)
(* wait for the field lock, the generator, and each await of the cleanup.  *)
(* The planner, inject_context and log_event never suspend, so they have   *)
(* no step of their own.  LC's force push and whoever cancels a request    *)
(* act between any two steps.                                              *)
(***************************************************************************)
EXTENDS LockManager

CONSTANTS
    Requests,     \* the callers of the lock manager that are swarm requests
    WithPfc       \* those whose swarm has a PFC injected

ASSUME RequestAssumption == Requests \subseteq Callers /\ WithPfc \subseteq Requests

VARIABLES
    stage,        \* what each request waits for
    pfc, ctx,     \* its two tasks
    late,         \* the handler of a PFC that missed the bound (_background_tasks)
    hint,         \* the requests whose planner got a PFC decision
    written,      \* the requests whose context_agent_result is set
    asked         \* history: the requests somebody cancelled

tasks == <<pfc, ctx, late>>
outcome == <<hint, written, asked>>
swarmVars == <<stage, tasks, outcome>>
vars == <<lockVars, swarmVars>>

Ended == {"answered", "cancelled"}
Stage == {"idle", "hint", "join", "lock", "generate", "cleanup"} \cup Ended

Live == {"running", "cancelling"}
PfcResult == {"ok", "error"}
CtxResult == {"found", "failed", "timeout"}

\* Among the results of a context task only a ContextAgentResult is injected.
Injectable == {"found"}

TypeOK ==
    /\ LockTypeOK
    /\ stage \in [Requests -> Stage]
    /\ pfc \in [Requests -> {"none", "cancelled"} \cup Live \cup PfcResult]
    /\ ctx \in [Requests -> {"none", "cancelled"} \cup Live \cup CtxResult]
    /\ late \in [Requests -> {"none", "waiting", "done"}]
    /\ hint \subseteq Requests
    /\ written \subseteq Requests
    /\ asked \subseteq Requests

Init ==
    /\ LockInit
    /\ stage = [r \in Requests |-> "idle"]
    /\ pfc = [r \in Requests |-> "none"]
    /\ ctx = [r \in Requests |-> "none"]
    /\ late = [r \in Requests |-> "none"]
    /\ hint = {}
    /\ written = {}
    /\ asked = {}

Goto(r, s) == stage' = [stage EXCEPT ![r] = s]

-----------------------------------------------------------------------------
\* The tasks themselves (external: PFC, the context agent and the vector store).
\* A cancelled task can still end with the result it had.

PfcEnds(r) ==
    /\ \E how \in PfcResult \cup {"cancelled"} :
        /\ \/ pfc[r] = "running" /\ how # "cancelled"
           \/ pfc[r] = "cancelling"
        /\ pfc' = [pfc EXCEPT ![r] = how]
    /\ UNCHANGED <<lockVars, stage, ctx, late, outcome>>

\* wait_for bounds the retrieval.
CtxEnds(r) ==
    /\ \E how \in CtxResult \cup {"cancelled"} :
        /\ \/ ctx[r] = "running" /\ how # "cancelled"
           \/ ctx[r] = "cancelling" /\ how # "timeout"
        /\ ctx' = [ctx EXCEPT ![r] = how]
    /\ UNCHANGED <<lockVars, stage, pfc, late, outcome>>

\* A slip: the handler passes the late decision on.
LateEndsApplied(r) ==
    /\ late[r] = "waiting"
    /\ pfc[r] \notin Live
    /\ late' = [late EXCEPT ![r] = "done"]
    /\ hint' = IF pfc[r] = "ok" THEN hint \cup {r} ELSE hint
    /\ UNCHANGED <<lockVars, stage, pfc, ctx, written, asked>>

\* _handle_late_pfc: only logs.
LateEnds(r) ==
    /\ late[r] = "waiting"
    /\ pfc[r] \notin Live
    /\ late' = [late EXCEPT ![r] = "done"]
    /\ UNCHANGED <<lockVars, stage, pfc, ctx, outcome>>

-----------------------------------------------------------------------------
\* A lightweight route has no context task.
Execute(r) ==
    /\ stage[r] = "idle"
    /\ \E c \in {"none", "running"} :
        /\ ctx' = [ctx EXCEPT ![r] = c]
        /\ \/ /\ r \in WithPfc
              /\ pfc' = [pfc EXCEPT ![r] = "running"]
              /\ Goto(r, "hint")
           \/ /\ r \notin WithPfc
              /\ Goto(r, IF c = "none" THEN "generate" ELSE "join")
              /\ UNCHANGED pfc
    /\ UNCHANGED <<lockVars, late, outcome>>

\* What follows the context: its result, if there is one, is written under the lock.
WriteOrSkip(r) ==
    \/ /\ ctx[r] \notin Injectable
       /\ Goto(r, "generate")
       /\ UNCHANGED lockVars
    \/ /\ ctx[r] \in Injectable
       /\ Ask(r)
       /\ Goto(r, "lock")
    \/ /\ ctx[r] \in Injectable
       /\ Refuse(r)
       /\ Goto(r, "cancelled")

\* The planner has run; the context is awaited unless it is there already.
JoinOrWrite(r) ==
    \/ /\ ctx[r] \in Live
       /\ Goto(r, "join")
       /\ UNCHANGED lockVars
    \/ /\ ctx[r] \notin Live
       /\ WriteOrSkip(r)

HintArrives(r) ==
    /\ stage[r] = "hint"
    /\ pfc[r] \in PfcResult
    /\ hint' = IF pfc[r] = "ok" THEN hint \cup {r} ELSE hint
    /\ JoinOrWrite(r)
    /\ UNCHANGED <<tasks, written, asked>>

\* A slip: the timeout abandons the shielded PFC.
HintTimesOutUnhandled(r) ==
    /\ stage[r] = "hint"
    /\ pfc[r] \in Live
    /\ JoinOrWrite(r)
    /\ UNCHANGED <<tasks, outcome>>

\* The shield lets PFC run on, and a handler takes it over.
HintTimesOut(r) ==
    /\ stage[r] = "hint"
    /\ pfc[r] \in Live
    /\ late' = [late EXCEPT ![r] = "waiting"]
    /\ JoinOrWrite(r)
    /\ UNCHANGED <<pfc, ctx, outcome>>

\* A slip: the tasks are awaited without being cancelled.
CleanupByWaiting(r) ==
    /\ Goto(r, IF pfc[r] \in Live \/ ctx[r] \in Live THEN "cleanup" ELSE "cancelled")
    /\ UNCHANGED <<pfc, ctx>>

\* A slip: only the context task is cleaned up.
CleanupContext(r) ==
    /\ IF ctx[r] \in Live
       THEN ctx' = [ctx EXCEPT ![r] = "cancelling"] /\ Goto(r, "cleanup")
       ELSE UNCHANGED ctx /\ Goto(r, "cancelled")
    /\ UNCHANGED pfc

\* _cleanup_tasks, from where it stands: cancel and await one task after the other,
\* then re-raise.  A second cancellation meanwhile only cancels that task again.
Cleanup(r) ==
    \/ /\ pfc[r] \in Live
       /\ pfc' = [pfc EXCEPT ![r] = "cancelling"]
       /\ Goto(r, "cleanup")
       /\ UNCHANGED ctx
    \/ /\ pfc[r] \notin Live
       /\ ctx[r] \in Live
       /\ ctx' = [ctx EXCEPT ![r] = "cancelling"]
       /\ Goto(r, "cleanup")
       /\ UNCHANGED pfc
    \/ /\ pfc[r] \notin Live
       /\ ctx[r] \notin Live
       /\ Goto(r, "cancelled")
       /\ UNCHANGED <<pfc, ctx>>

CleanupResumes(r) ==
    /\ stage[r] = "cleanup"
    /\ "cancelling" \notin {pfc[r], ctx[r]}
    /\ Cleanup(r)
    /\ UNCHANGED <<lockVars, late, outcome>>

\* A slip: a failed retrieval is taken for a cancelled one.
JoinEndsStrictly(r) ==
    /\ stage[r] = "join"
    /\ ctx[r] \notin Live
    /\ IF ctx[r] \notin Injectable
       THEN Cleanup(r) /\ UNCHANGED lockVars
       ELSE WriteOrSkip(r) /\ UNCHANGED <<pfc, ctx>>
    /\ UNCHANGED <<late, outcome>>

\* gather without a PFC re-raises for a cancelled request whatever its tasks returned;
\* `await context_task` raises only what the task ended with.
JoinEnds(r) ==
    /\ stage[r] = "join"
    /\ ctx[r] \notin Live
    /\ IF ctx[r] = "cancelled" \/ r \in asked \ WithPfc
       THEN Cleanup(r) /\ UNCHANGED lockVars
       ELSE WriteOrSkip(r) /\ UNCHANGED <<pfc, ctx>>
    /\ UNCHANGED <<late, outcome>>

\* A slip: the result is filed under the lock's key.
WriteByKey(r) ==
    /\ Goto(r, "generate")
    /\ written' = written \cup {KeyOf[r]}
    /\ UNCHANGED <<tasks, hint, asked>>

Write(r) ==
    /\ Goto(r, "generate")
    /\ written' = written \cup {r}
    /\ UNCHANGED <<tasks, hint, asked>>

WriteLocked(r) == stage[r] = "lock" /\ PassThrough(r) /\ Write(r)

\* A slip: without the lock the result is dropped.
WriteDropped(r) ==
    /\ stage[r] = "lock"
    /\ TimeOut(r)
    /\ Goto(r, "generate")
    /\ UNCHANGED <<tasks, outcome>>

\* LockTimeoutError: the result is written all the same, without the lock.
WriteUnlocked(r) == stage[r] = "lock" /\ TimeOut(r) /\ Write(r)

\* The generator answers, or turns its error into a fallback answer.
Generate(r) ==
    /\ stage[r] = "generate"
    /\ Goto(r, "answered")
    /\ UNCHANGED <<lockVars, tasks, outcome>>

-----------------------------------------------------------------------------
\* The request's task is cancelled where it is suspended.

CancelHint(r) ==
    /\ stage[r] = "hint"
    /\ Cleanup(r)
    /\ UNCHANGED <<lockVars, late>>

CancelJoin(r) ==
    /\ stage[r] = "join"
    /\ \/ /\ ctx[r] \in Live
          /\ ctx' = [ctx EXCEPT ![r] = "cancelling"]
          /\ UNCHANGED <<stage, pfc>>
       \/ /\ ctx[r] \notin Live
          /\ Cleanup(r)
    /\ UNCHANGED <<lockVars, late>>

CancelLock(r) ==
    /\ stage[r] = "lock"
    /\ CancelWait(r)
    /\ Goto(r, "cancelled")
    /\ UNCHANGED tasks

CancelGenerate(r) ==
    /\ stage[r] = "generate"
    /\ Goto(r, "cancelled")
    /\ UNCHANGED <<lockVars, tasks>>

\* Up to Python 3.11 wait_for returns the result, and not the cancellation, if what
\* it waits for is done when the cancellation comes.
CancelLost(r) ==
    /\ \/ stage[r] = "hint" /\ pfc[r] \notin Live
       \/ stage[r] = "lock" /\ CanEnter(r)
    /\ UNCHANGED <<lockVars, stage, tasks>>

Cancel(r) ==
    /\ \/ CancelHint(r) \/ CancelJoin(r) \/ CancelLock(r) \/ CancelGenerate(r)
       \/ CancelLost(r)
    /\ asked' = asked \cup {r}
    /\ UNCHANGED <<hint, written>>

\* The manager's other callers, and LC.force_push.
OtherCaller(c) == c \in Callers \ Requests /\ CallerStep(c) /\ UNCHANGED swarmVars

ForcePush(t) == MarkForcePushed(t) /\ UNCHANGED swarmVars
Clear(t) == ClearForcePush(t) /\ UNCHANGED swarmVars

-----------------------------------------------------------------------------
\* What the loop owes a request: its own steps and the end of a task it bounds or has
\* cancelled.  A PFC may run for ever, and so may another holder of the lock.
Progress(r) ==
    \/ HintArrives(r) \/ HintTimesOut(r) \/ JoinEnds(r)
    \/ WriteLocked(r) \/ WriteUnlocked(r) \/ Generate(r) \/ CleanupResumes(r)

CancelledPfcEnds(r) == pfc[r] = "cancelling" /\ PfcEnds(r)

RequestStep(r) ==
    \/ Execute(r) \/ Progress(r) \/ Cancel(r)
    \/ PfcEnds(r) \/ CtxEnds(r) \/ LateEnds(r)

Next ==
    \/ \E r \in Requests : RequestStep(r)
    \/ \E c \in Callers \ Requests : OtherCaller(c)
    \/ \E t \in Traces : ForcePush(t) \/ Clear(t)

Spec == Init /\ [][Next]_vars

Fairness ==
    \A r \in Requests :
        WF_vars(Progress(r)) /\ WF_vars(CtxEnds(r)) /\ WF_vars(CancelledPfcEnds(r))

FairSpec == Spec /\ Fairness

-----------------------------------------------------------------------------
\* An ended request has no task left but a PFC that a handler owns, and does not wait
\* for the lock: whichever of PFC, context, timeout, cancellation and force push came first.
NothingLeftBehind ==
    \A r \in Requests : stage[r] \in Ended =>
        /\ ctx[r] \notin Live
        /\ pfc[r] \in Live => late[r] = "waiting"
        /\ at[r] # "waiting"

\* The planner's decision came within the bound: no late answer counts, and a hint
\* never comes from a PFC that failed or was cancelled.
HintIsTimely == \A r \in hint : pfc[r] = "ok" /\ late[r] = "none"

\* The generator sees a context in the TaskContext exactly if the retrieval found one,
\* with or without the lock.
ContextReachesGenerator ==
    \A r \in Requests : stage[r] \in {"generate", "answered"} =>
        (r \in written <=> ctx[r] \in Injectable)

\* A request that nobody cancelled and nobody pushed is not cut short: a failure or
\* timeout of PFC, context or lock has a fallback.
FailuresFallBack ==
    \A r \in Requests : stage[r] \in {"cleanup", "cancelled"} =>
        r \in asked \/ at[r] = "cancelled"

\* A request ends, also if PFC hangs or another holder keeps the lock for ever.
RequestsEnd ==
    \A r \in Requests : stage[r] # "idle" ~> stage[r] \in Ended

-----------------------------------------------------------------------------
(***************************************************************************)
(* The swarm implements Supervision.                                       *)
(***************************************************************************)

Work == Requests \X {"pfc", "context"}

Alive(w) == (IF w[2] = "pfc" THEN pfc[w[1]] ELSE ctx[w[1]]) \in Live

PhaseOf(r) ==
    IF stage[r] = "idle" THEN "idle"
    ELSE IF stage[r] \in Ended THEN "ended" ELSE "running"

OwnerOf(w) ==
    IF ~ Alive(w) THEN "none"
    ELSE IF w[2] = "pfc" /\ late[w[1]] = "waiting" THEN "handler" ELSE "request"

Tree == INSTANCE Supervision
          WITH Parents <- Requests,
               Children <- Work,
               Detachable <- Requests \X {"pfc"},
               phase <- [r \in Requests |-> PhaseOf(r)],
               owner <- [w \in Work |-> OwnerOf(w)]

\* Every step keeps the ownership of the request's tasks in order, at every point where
\* it can be cancelled.
ImplementsSupervision == Tree!SupervisionSpec
=============================================================================
