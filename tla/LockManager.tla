----------------------------- MODULE LockManager -----------------------------
(***************************************************************************)
(* LockManager and the PLC that names its regions: a lock per trace and    *)
(* field, a time budget for each wait, and the mark with which LC tears a  *)
(* trace down.                                                             *)
(*                                                                         *)
(* A caller is one `async with acquire(...)`.  It tests the mark, then     *)
(* waits (wait_for runs the wait in a task of its own, so even a free lock *)
(* is not taken in the step that asked), then runs its body and releases.  *)
(***************************************************************************)
EXTENDS Naturals, SequencesExt

CONSTANTS
    Callers,
    Traces, Keys,       \* a key is a trace and a field
    TraceOf,            \* the trace of a key
    KeyOf               \* the key each caller asks for

ASSUME KeyAssumption ==
    /\ TraceOf \in [Keys -> Traces]
    /\ KeyOf \in [Callers -> Keys]

VARIABLES
    at,           \* where each caller is
    locked,       \* asyncio.Lock._locked, per key; no key: an unlocked lock
    queue,        \* the waiters of a lock, first come first served
    states,       \* _states: the keys that have a LockState
    forcePushed   \* _force_pushed

lockVars == <<at, locked, queue, states, forcePushed>>

CallerState == {"idle", "waiting", "inside", "released", "timedOut", "cancelled"}

LockTypeOK ==
    /\ at \in [Callers -> CallerState]
    /\ locked \in [Keys -> BOOLEAN]
    /\ queue \in [Keys -> Seq(Callers)]
    /\ states \subseteq Keys
    /\ forcePushed \subseteq Traces

LockInit ==
    /\ at = [c \in Callers |-> "idle"]
    /\ locked = [k \in Keys |-> FALSE]
    /\ queue = [k \in Keys |-> <<>>]
    /\ states = {}
    /\ forcePushed = {}

Move(c, s) == at' = [at EXCEPT ![c] = s]

Pushed(c) == TraceOf[KeyOf[c]] \in forcePushed

\* The lock is free and c is next: its wait can end with the lock.
CanEnter(c) ==
    /\ at[c] = "waiting"
    /\ ~ locked[KeyOf[c]]
    /\ Head(queue[KeyOf[c]]) = c

Dequeue(c) == queue' = [queue EXCEPT ![KeyOf[c]] = RemoveFirst(@, c)]

\* lock_key
StateKey(c) == KeyOf[c]

-----------------------------------------------------------------------------
\* acquire() of a trace that is being torn down raises CancelledError.
Refuse(c) ==
    /\ at[c] = "idle"
    /\ Pushed(c)
    /\ Move(c, "cancelled")
    /\ UNCHANGED <<locked, queue, states, forcePushed>>

Ask(c) ==
    /\ at[c] = "idle"
    /\ ~ Pushed(c)
    /\ Move(c, "waiting")
    /\ queue' = [queue EXCEPT ![KeyOf[c]] = Append(@, c)]
    /\ UNCHANGED <<locked, states, forcePushed>>

Grant(c) ==
    /\ CanEnter(c)
    /\ Move(c, "inside")
    /\ locked' = [locked EXCEPT ![KeyOf[c]] = TRUE]
    /\ states' = states \cup {StateKey(c)}
    /\ Dequeue(c)
    /\ UNCHANGED forcePushed

\* A slip: a body that is cancelled keeps the lock.
LeaveOnReturn(c) ==
    /\ at[c] = "inside"
    /\ \E s \in {"released", "cancelled"} :
        /\ Move(c, s)
        /\ locked' = [locked EXCEPT ![KeyOf[c]] = (s = "cancelled")]
    /\ states' = states \ {StateKey(c)}
    /\ UNCHANGED <<queue, forcePushed>>

\* The finally clause, whatever ends the body.
Leave(c) ==
    /\ at[c] = "inside"
    /\ \E s \in {"released", "cancelled"} : Move(c, s)
    /\ locked' = [locked EXCEPT ![KeyOf[c]] = FALSE]
    /\ states' = states \ {StateKey(c)}
    /\ UNCHANGED <<queue, forcePushed>>

\* A body that never suspends: taken and released in one step.
PassThrough(c) ==
    /\ CanEnter(c)
    /\ Move(c, "released")
    /\ Dequeue(c)
    /\ UNCHANGED <<locked, states, forcePushed>>

\* A slip: a waiter that gives up stays in the queue.
GiveUpQueued(c, s) ==
    /\ at[c] = "waiting"
    /\ Move(c, s)
    /\ UNCHANGED <<locked, queue, states, forcePushed>>

\* A caller whose wait is cut short.
GiveUp(c, s) ==
    /\ at[c] = "waiting"
    /\ Move(c, s)
    /\ Dequeue(c)
    /\ UNCHANGED <<locked, states, forcePushed>>

\* The budget runs out while another caller is ahead; LockTimeoutError.
TimeOut(c) ==
    /\ ~ CanEnter(c)
    /\ GiveUp(c, "timedOut")

CancelWait(c) == GiveUp(c, "cancelled")

MarkForcePushed(t) ==
    /\ t \notin forcePushed
    /\ forcePushed' = forcePushed \cup {t}
    /\ UNCHANGED <<at, locked, queue, states>>

ClearForcePush(t) ==
    /\ t \in forcePushed
    /\ forcePushed' = forcePushed \ {t}
    /\ UNCHANGED <<at, locked, queue, states>>

CallerStep(c) ==
    \/ Refuse(c) \/ Ask(c)
    \/ Grant(c) \/ Leave(c) \/ PassThrough(c)
    \/ TimeOut(c) \/ CancelWait(c)

LockNext ==
    \/ \E c \in Callers : CallerStep(c)
    \/ \E t \in Traces : MarkForcePushed(t) \/ ClearForcePush(t)

\* A body ends, and a free lock goes to its next waiter.  Nobody relies on a
\* timeout.
LockFairness ==
    \A c \in Callers : WF_lockVars(Leave(c)) /\ WF_lockVars(Grant(c) \/ PassThrough(c))

LockSpec == LockInit /\ [][LockNext]_lockVars

-----------------------------------------------------------------------------
\* A lock is taken exactly while one caller is inside its region, and then has its
\* LockState; its queue holds the callers that wait for it, each once.
LockConsistent ==
    /\ \A k \in Keys :
        /\ locked[k] <=> \E c \in Callers : at[c] = "inside" /\ KeyOf[c] = k
        /\ ToSet(queue[k]) = {c \in Callers : at[c] = "waiting" /\ KeyOf[c] = k}
        /\ IsInjective(queue[k])
    /\ \A c, d \in Callers :
        at[c] = "inside" /\ at[d] = "inside" /\ KeyOf[c] = KeyOf[d] => c = d
    /\ states = {k \in Keys : locked[k]}

\* c asked for the lock of d before d did, and both wait.
AheadOf(c, d) ==
    LET waiters == queue[KeyOf[d]] IN
    \E i, j \in 1 .. Len(waiters) : i < j /\ waiters[i] = c /\ waiters[j] = d

\* A lock is first come first served: nobody gets in past a caller who asked before
\* and still waits, and no give-up or cancellation reorders the others.
NobodyOvertakes ==
    [][\A c, d \in Callers :
          AheadOf(c, d) =>
              /\ at'[d] \notin {"inside", "released"}
              /\ at'[c] = "waiting" /\ at'[d] = "waiting" => AheadOf(c, d)']_lockVars

\* No wake-up is lost: where callers wait, one is inside whose end will wake the
\* next, or the first of them can enter.
NobodyIsStranded ==
    \A k \in Keys :
        queue[k] # <<>> =>
            \/ \E c \in Callers : at[c] = "inside" /\ KeyOf[c] = k
            \/ CanEnter(Head(queue[k]))

\* Every wait ends, whatever the callers ahead did: returned, were cancelled inside or
\* in the queue, or gave up.  This needs that bodies end, and no timeout.
WaitersGetThrough ==
    LockFairness => \A c \in Callers : at[c] = "waiting" ~> at[c] # "waiting"
=============================================================================
