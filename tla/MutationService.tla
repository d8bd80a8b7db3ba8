-------------------------- MODULE MutationService --------------------------
(***************************************************************************)
(* RPEMutationService with the difficulty mutator, the stores it writes    *)
(* and the rollback scheduler: how a learned weight change is applied,     *)
(* persisted, rolled up into the preset, and taken back.                   *)
(*                                                                         *)
(* Everything runs on one event loop, so an action is the code between two *)
(* places where a task really gives the loop up: the wait for the key's    *)
(* lock and the database round trips.  The in-memory stores are coroutines *)
(* that never suspend.  A call of apply_proposals is one (trace, target)   *)
(* group with its winner already chosen; the groups of one call are        *)
(* successive calls of the same trace.                                     *)
(***************************************************************************)
EXTENDS Bands, SequencesExt, FiniteSets

CONSTANTS
    Calls,          \* calls of apply_proposals, each with its rollback_id
    Traces, Sessions, Keys,
    TraceOf, SessionOf, KeyOf,  \* what each call is about
    Deltas,         \* the deltas a winning proposal may ask for
    StartPresets,   \* persisted presets a process may start from
    MaxFaults,      \* bound on database errors
    MaxRestarts,    \* bound on process restarts
    MaxErosions     \* bound on decay steps and evictions of cells

ASSUME CallAssumption ==
    /\ TraceOf \in [Calls -> Traces]
    /\ SessionOf \in [Calls -> Sessions]
    /\ KeyOf \in [Calls -> Keys]
    /\ None \notin Calls

ASSUME InputAssumption ==
    /\ Deltas \subseteq Int \ {0}
    /\ StartPresets \subseteq Weight \cup {None}

ASSUME BoundAssumption == {MaxFaults, MaxRestarts, MaxErosions} \subseteq Nat

VARIABLES
    pc,           \* where each call is
    lock,         \* _key_locks: who holds the lock of a key
    queue,        \* its waiters, first come first served
    applied,      \* _applied_in_trace
    records,      \* _records, None when absent
    weights,      \* PresettedDifficultyStore._weights, None when absent
    preset,       \* DifficultyPresetStore._cache
    presetDb,     \* table rpe_difficulty_weights
    ema,          \* the preset value a call carries to its commit
    rows,         \* rollback_status in table rpe_mutation_records
    statusWrites, \* rollbacks whose UPDATE is under way
    jobs,         \* jobs of the scheduler, waiting for their time
    submitted,    \* jobs handed to the executor
    pending,      \* RollbackScheduler._pending
    confirmed,    \* history: confirm() returned True
    autoReverted, \* history: _fire took the mutation back
    missed,       \* history: the executor skipped a job past its grace time
    faulty,       \* history: calls that met a database error
    unmatched,    \* history: rollbacks whose UPDATE found no row
    restarts, erosions  \* counters for the bounds

control == <<pc, lock, queue>>
memory == <<applied, records, weights>>
presets == <<preset, presetDb, ema>>
table == <<rows, statusWrites>>
scheduler == <<jobs, submitted, pending>>
history == <<confirmed, autoReverted, missed, faulty, unmatched, restarts, erosions>>
vars == <<control, memory, presets, table, scheduler, history>>

Stage == {"idle", "waiting", "holding", "persisting", "persisted", "committing",
          "committed", "done", "lost"}
Record == [prev : Weight, new : Weight, status : {"available", "rolled_back"}]
NoOne == None

ASSUME RecordAssumption == None \notin Record

Slot(c) == <<TraceOf[c], KeyOf[c]>>

TypeOK ==
    /\ pc \in [Calls -> Stage]
    /\ lock \in [Keys -> Calls \cup {NoOne}]
    /\ queue \in [Keys -> Seq(Calls)]
    /\ applied \subseteq Traces \X Keys
    /\ records \in [Calls -> Record \cup {None}]
    /\ weights \in [Sessions \X Keys -> Weight \cup {None}]
    /\ preset \in [Keys -> Weight \cup {None}]
    /\ presetDb \in [Keys -> Weight \cup {None}]
    /\ ema \in [Calls -> Weight \cup {None}]
    /\ rows \in [Calls -> {"absent", "available", "rolled_back"}]
    /\ statusWrites \cup jobs \cup submitted \cup pending \subseteq Calls
    /\ confirmed \cup autoReverted \cup missed \cup faulty \cup unmatched \subseteq Calls
    /\ restarts \in 0 .. MaxRestarts
    /\ erosions \in 0 .. MaxErosions

Init ==
    /\ pc = [c \in Calls |-> "idle"]
    /\ lock = [k \in Keys |-> NoOne]
    /\ queue = [k \in Keys |-> <<>>]
    /\ applied = {}
    /\ records = [c \in Calls |-> None]
    /\ weights = [cell \in Sessions \X Keys |-> None]
    /\ presetDb \in [Keys -> StartPresets]
    /\ preset = presetDb
    /\ ema = [c \in Calls |-> None]
    /\ rows = [c \in Calls |-> "absent"]
    /\ statusWrites = {}
    /\ jobs = {} /\ submitted = {} /\ pending = {}
    /\ confirmed = {} /\ autoReverted = {} /\ missed = {} /\ faulty = {} /\ unmatched = {}
    /\ restarts = 0 /\ erosions = 0

CellOf(c) == <<SessionOf[c], KeyOf[c]>>

\* read_weight: the session's value, else the global preset, else None.
Read(cell) == IF weights[cell] # None THEN weights[cell] ELSE preset[cell[2]]

-----------------------------------------------------------------------------
(***************************************************************************)
(* apply_proposals.                                                        *)
(***************************************************************************)

Active(c) == pc[c] \notin {"idle", "done", "lost"}

\* The callers' discipline: one background task per trace, one call at a time.
MayStart(c) == \A d \in Calls : TraceOf[d] = TraceOf[c] => ~ Active(d)

\* A slip: the registry is not read.
BeginUnchecked(c) ==
    /\ pc[c] = "idle"
    /\ MayStart(c)
    /\ pc' = [pc EXCEPT ![c] = "waiting"]
    /\ queue' = [queue EXCEPT ![KeyOf[c]] = Append(@, c)]
    /\ UNCHANGED <<lock, memory, presets, table, scheduler, history>>

\* The registry is read here, before the wait for the lock.
Begin(c) ==
    /\ pc[c] = "idle"
    /\ MayStart(c)
    /\ IF Slot(c) \in applied
       THEN /\ pc' = [pc EXCEPT ![c] = "done"]
            /\ UNCHANGED queue
       ELSE /\ pc' = [pc EXCEPT ![c] = "waiting"]
            /\ queue' = [queue EXCEPT ![KeyOf[c]] = Append(@, c)]
    /\ UNCHANGED <<lock, memory, presets, table, scheduler, history>>

\* asyncio.Lock wakes its waiters in order.
Grant(c) ==
    /\ pc[c] = "waiting"
    /\ lock[KeyOf[c]] = NoOne
    /\ Head(queue[KeyOf[c]]) = c
    /\ lock' = [lock EXCEPT ![KeyOf[c]] = c]
    /\ queue' = [queue EXCEPT ![KeyOf[c]] = Tail(@)]
    /\ pc' = [pc EXCEPT ![c] = "holding"]
    /\ UNCHANGED <<memory, presets, table, scheduler, history>>

\* A slip: a call that gives up keeps its place in the queue.
LockTimeoutKeepsPlace(c) ==
    /\ pc[c] = "waiting"
    /\ pc' = [pc EXCEPT ![c] = "done"]
    /\ UNCHANGED <<lock, queue, memory, presets, table, scheduler, history>>

\* lock_timeout_ms passes first.
LockTimeout(c) ==
    /\ pc[c] = "waiting"
    /\ queue' = [queue EXCEPT ![KeyOf[c]] = RemoveFirst(@, c)]
    /\ pc' = [pc EXCEPT ![c] = "done"]
    /\ UNCHANGED <<lock, memory, presets, table, scheduler, history>>

\* A slip: the lock is not released.
ApplyKeepsLock(c, delta) ==
    LET prev == IF Read(CellOf(c)) = None THEN Seed ELSE Read(CellOf(c))
        new == Clamp(prev + delta)
    IN
    /\ pc[c] = "holding"
    /\ weights' = [weights EXCEPT ![CellOf(c)] = new]
    /\ applied' = applied \cup {Slot(c)}
    /\ records' = [records EXCEPT ![c] =
                     [prev |-> prev, new |-> new, status |-> "available"]]
    /\ pc' = [pc EXCEPT ![c] = "persisting"]
    /\ UNCHANGED <<lock, queue, presets, table, scheduler, history>>

\* Under the lock: read, clamp, write, release; then the registry and the record.
Apply(c, delta) ==
    LET prev == IF Read(CellOf(c)) = None THEN Seed ELSE Read(CellOf(c))
        new == Clamp(prev + delta)
    IN
    /\ pc[c] = "holding"
    /\ weights' = [weights EXCEPT ![CellOf(c)] = new]
    /\ lock' = [lock EXCEPT ![KeyOf[c]] = NoOne]
    /\ applied' = applied \cup {Slot(c)}
    /\ records' = [records EXCEPT ![c] =
                     [prev |-> prev, new |-> new, status |-> "available"]]
    /\ pc' = [pc EXCEPT ![c] = "persisting"]
    /\ UNCHANGED <<queue, presets, table, scheduler, history>>

\* A database error of c, as long as the bound allows one more.
Fault(c) ==
    /\ Cardinality(faulty) < MaxFaults
    /\ faulty' = faulty \cup {c}
    /\ UNCHANGED <<confirmed, autoReverted, missed, unmatched, restarts, erosions>>

\* The INSERT of record_store.persist; the row has the status of the record that
\* _apply_with_lock returned.
Persist(c) ==
    /\ pc[c] = "persisting"
    /\ rows' = [rows EXCEPT ![c] = "available"]
    /\ pc' = [pc EXCEPT ![c] = "persisted"]
    /\ UNCHANGED <<lock, queue, memory, presets, statusWrites, scheduler, history>>

\* _safe_persist swallows the error.
PersistFails(c) ==
    /\ pc[c] = "persisting"
    /\ Fault(c)
    /\ pc' = [pc EXCEPT ![c] = "persisted"]
    /\ UNCHANGED <<lock, queue, memory, presets, table, scheduler>>

\* update_ema up to its first real suspension: the cache is written.
RollUp(c) ==
    LET new == Ema(preset[KeyOf[c]], records[c].new) IN
    /\ pc[c] = "persisted"
    /\ preset' = [preset EXCEPT ![KeyOf[c]] = new]
    /\ ema' = [ema EXCEPT ![c] = new]
    /\ pc' = [pc EXCEPT ![c] = "committing"]
    /\ UNCHANGED <<lock, queue, memory, presetDb, table, scheduler, history>>

\* The UPSERT of update_ema.
Commit(c) ==
    /\ pc[c] = "committing"
    /\ presetDb' = [presetDb EXCEPT ![KeyOf[c]] = ema[c]]
    /\ pc' = [pc EXCEPT ![c] = "committed"]
    /\ UNCHANGED <<lock, queue, memory, preset, ema, table, scheduler, history>>

\* A slip: the error of the roll-up ends the call.
CommitErrorEscapes(c) ==
    /\ pc[c] = "committing"
    /\ Fault(c)
    /\ pc' = [pc EXCEPT ![c] = "done"]
    /\ UNCHANGED <<lock, queue, memory, presets, table, scheduler>>

\* _safe_roll_up swallows the error; the cache stays ahead.
CommitFails(c) ==
    /\ pc[c] = "committing"
    /\ Fault(c)
    /\ pc' = [pc EXCEPT ![c] = "committed"]
    /\ UNCHANGED <<lock, queue, memory, presets, table, scheduler>>

\* A slip: only what reached the table is scheduled.
ScheduleIfPersisted(c) ==
    /\ pc[c] = "committed"
    /\ jobs' = IF rows[c] = "absent" THEN jobs ELSE jobs \cup {c}
    /\ pending' = IF rows[c] = "absent" THEN pending ELSE pending \cup {c}
    /\ pc' = [pc EXCEPT ![c] = "done"]
    /\ UNCHANGED <<lock, queue, memory, presets, table, submitted, history>>

\* RollbackScheduler.schedule, and the call returns.
Schedule(c) ==
    /\ pc[c] = "committed"
    /\ jobs' = jobs \cup {c}
    /\ pending' = pending \cup {c}
    /\ pc' = [pc EXCEPT ![c] = "done"]
    /\ UNCHANGED <<lock, queue, memory, presets, table, submitted, history>>

-----------------------------------------------------------------------------
(***************************************************************************)
(* rollback, by hand or by the scheduler, and confirm.                     *)
(***************************************************************************)

Available(c) == records[c] # None /\ records[c].status = "available"

\* A slip: the table is not told.
RollbackEffectSilent(c) ==
    IF Available(c)
    THEN /\ weights' = [weights EXCEPT ![CellOf(c)] = records[c].prev]
         /\ records' = [records EXCEPT ![c].status = "rolled_back"]
         /\ UNCHANGED statusWrites
    ELSE UNCHANGED <<weights, records, statusWrites>>

\* A slip: the record goes with its rollback.
RollbackEffectDrops(c) ==
    IF Available(c)
    THEN /\ weights' = [weights EXCEPT ![CellOf(c)] = records[c].prev]
         /\ records' = [records EXCEPT ![c] = None]
         /\ statusWrites' = statusWrites \cup {c}
    ELSE UNCHANGED <<weights, records, statusWrites>>

\* rollback(): a record that is gone or already rolled back is left alone.  It
\* takes no lock and writes the value the record remembers.
RollbackEffect(c) ==
    IF Available(c)
    THEN /\ weights' = [weights EXCEPT ![CellOf(c)] = records[c].prev]
         /\ records' = [records EXCEPT ![c].status = "rolled_back"]
         /\ statusWrites' = statusWrites \cup {c}
    ELSE UNCHANGED <<weights, records, statusWrites>>

\* The id is the proposal's, known before apply_proposals returns: the record can
\* be taken back as soon as _records has it, before its row is inserted.
ManualRollback(c) ==
    /\ Available(c)
    /\ RollbackEffect(c)
    /\ UNCHANGED <<control, applied, presets, rows, scheduler, history>>

\* The UPDATE of update_status, which changes nothing when the row is absent.
WriteStatus(c) ==
    /\ c \in statusWrites
    /\ rows' = IF rows[c] = "absent" THEN rows
               ELSE [rows EXCEPT ![c] = "rolled_back"]
    /\ unmatched' = IF rows[c] = "absent" THEN unmatched \cup {c} ELSE unmatched
    /\ statusWrites' = statusWrites \ {c}
    /\ UNCHANGED <<control, memory, presets, scheduler>>
    /\ UNCHANGED <<confirmed, autoReverted, missed, faulty, restarts, erosions>>

WriteStatusFails(c) ==
    /\ c \in statusWrites
    /\ Fault(c)
    /\ statusWrites' = statusWrites \ {c}
    /\ UNCHANGED <<control, memory, presets, rows, scheduler>>

\* The scheduler's timer: the job leaves the store for the executor.
Due(c) ==
    /\ c \in jobs
    /\ jobs' = jobs \ {c}
    /\ submitted' = submitted \cup {c}
    /\ UNCHANGED <<control, memory, presets, table, pending, history>>

\* The executor runs _fire.
Fire(c) ==
    /\ c \in submitted
    /\ submitted' = submitted \ {c}
    /\ pending' = pending \ {c}
    /\ RollbackEffect(c)
    /\ autoReverted' = IF Available(c) THEN autoReverted \cup {c} ELSE autoReverted
    /\ UNCHANGED <<control, applied, presets, rows, jobs>>
    /\ UNCHANGED <<confirmed, missed, faulty, unmatched, restarts, erosions>>

\* The loop was late by more than the grace time: the executor drops the job and
\* _fire never runs.
Miss(c) ==
    /\ c \in submitted
    /\ submitted' = submitted \ {c}
    /\ missed' = missed \cup {c}
    /\ UNCHANGED <<control, memory, presets, table, jobs, pending>>
    /\ UNCHANGED <<confirmed, autoReverted, faulty, unmatched, restarts, erosions>>

\* A slip: whatever is pending counts as confirmed.
ConfirmAnyPending(c) ==
    /\ c \in pending
    /\ pending' = pending \ {c}
    /\ jobs' = jobs \ {c}
    /\ confirmed' = confirmed \cup {c}
    /\ UNCHANGED <<control, memory, presets, table, submitted>>
    /\ UNCHANGED <<autoReverted, missed, faulty, unmatched, restarts, erosions>>

\* confirm(): the id leaves the pending set in any case; True, and the job gone,
\* only if the scheduler still had it.
Confirm(c) ==
    /\ c \in pending
    /\ pending' = pending \ {c}
    /\ jobs' = jobs \ {c}
    /\ confirmed' = IF c \in jobs THEN confirmed \cup {c} ELSE confirmed
    /\ UNCHANGED <<control, memory, presets, table, submitted>>
    /\ UNCHANGED <<autoReverted, missed, faulty, unmatched, restarts, erosions>>

-----------------------------------------------------------------------------
(***************************************************************************)
(* What else touches the state.                                            *)
(***************************************************************************)

\* An idle request: decay writes the session's weight only.
Decay(cell) ==
    /\ erosions < MaxErosions
    /\ Read(cell) # None
    /\ Decayed(Read(cell), 1) < Read(cell)
    /\ weights' = [weights EXCEPT ![cell] = Decayed(Read(cell), 1)]
    /\ erosions' = erosions + 1
    /\ UNCHANGED <<control, applied, records, presets, table, scheduler>>
    /\ UNCHANGED <<confirmed, autoReverted, missed, faulty, unmatched, restarts>>

\* The cell store is an LRU over the cells of all sessions; those not modelled
\* here can push any cell out of it.
Evict(cell) ==
    /\ erosions < MaxErosions
    /\ weights[cell] # None
    /\ weights' = [weights EXCEPT ![cell] = None]
    /\ erosions' = erosions + 1
    /\ UNCHANGED <<control, applied, records, presets, table, scheduler>>
    /\ UNCHANGED <<confirmed, autoReverted, missed, faulty, unmatched, restarts>>

\* The process ends anywhere and starts again: load_all, and nothing else.
Restart ==
    /\ restarts < MaxRestarts
    /\ restarts' = restarts + 1
    /\ pc' = [c \in Calls |-> IF Active(c) THEN "lost" ELSE pc[c]]
    /\ lock' = [k \in Keys |-> NoOne]
    /\ queue' = [k \in Keys |-> <<>>]
    /\ applied' = {}
    /\ records' = [c \in Calls |-> None]
    /\ weights' = [cell \in Sessions \X Keys |-> None]
    /\ preset' = presetDb
    /\ ema' = [c \in Calls |-> None]
    /\ statusWrites' = {}
    /\ jobs' = {} /\ submitted' = {} /\ pending' = {}
    /\ UNCHANGED <<presetDb, rows>>
    /\ UNCHANGED <<confirmed, autoReverted, missed, faulty, unmatched, erosions>>

\* The steps of a call that the event loop and the database bring about.
Work(c) ==
    \/ Grant(c)
    \/ \E delta \in Deltas : Apply(c, delta)
    \/ Persist(c) \/ PersistFails(c)
    \/ RollUp(c)
    \/ Commit(c) \/ CommitFails(c)
    \/ Schedule(c)

Run(c) == Fire(c) \/ Miss(c)

Next ==
    \/ \E c \in Calls :
          \/ Begin(c) \/ LockTimeout(c) \/ Work(c)
          \/ ManualRollback(c) \/ WriteStatus(c) \/ WriteStatusFails(c)
          \/ Due(c) \/ Run(c) \/ Confirm(c)
    \/ \E cell \in Sessions \X Keys : Decay(cell) \/ Evict(cell)
    \/ Restart

Spec == Init /\ [][Next]_vars

\* The loop runs what is ready, the scheduler's timer expires, and the executor
\* starts what it was given.  No call counts on its lock timing out.
Fairness ==
    \A c \in Calls : WF_vars(Work(c)) /\ WF_vars(Due(c)) /\ WF_vars(Run(c))

FairSpec == Spec /\ Fairness

-----------------------------------------------------------------------------
(***************************************************************************)
(* Properties.                                                             *)
(***************************************************************************)

\* A key's lock is held exactly by the call in its critical section, and its
\* queue holds exactly the calls that wait for it, each once: neither a timeout
\* nor a restart leaves a lock or a queue entry behind.
LockConsistent ==
    /\ \A k \in Keys, c \in Calls :
          lock[k] = c <=> (pc[c] = "holding" /\ KeyOf[c] = k)
    /\ \A k \in Keys :
          /\ ToSet(queue[k]) = {c \in Calls : pc[c] = "waiting" /\ KeyOf[c] = k}
          /\ IsInjective(queue[k])

\* No wake-up is lost: where calls wait, one is in the critical section, whose end
\* wakes the next, or the first of them can have the lock.
NobodyIsStranded ==
    \A k \in Keys :
        queue[k] # <<>> =>
            \/ \E c \in Calls : pc[c] = "holding" /\ lock[k] = c
            \/ /\ lock[k] = NoOne
               /\ pc[Head(queue[k])] = "waiting" /\ KeyOf[Head(queue[k])] = k

\* One mutation per (trace, target), even though the registry is read before the
\* wait for the lock and written after it.
SingleApply ==
    \A c, d \in Calls :
        /\ records[c] # None /\ records[d] # None
        /\ Slot(c) = Slot(d)
        => c = d

\* The row never calls a mutation rolled back that can still be rolled back.  A
\* returned call whose database steps all succeeded has a row, and once its status
\* write is through, and found the row, the row says what the record says.
RowAgreesWhenSettled ==
    \A c \in Calls :
        /\ rows[c] = "rolled_back" => ~ Available(c)
        /\ /\ pc[c] = "done" /\ records[c] # None
           /\ c \notin statusWrites \cup faulty \cup unmatched
           => rows[c] = records[c].status

\* A mutation confirm() answered True for is never taken back by the scheduler,
\* and the scheduler has forgotten it.
ConfirmedIsKept ==
    confirmed \cap (autoReverted \cup jobs \cup submitted \cup pending) = {}

\* A tentative mutation of a returned call, confirmed or not, is in the hands of
\* the scheduler until it is taken back; only a missed job loses it.
TentativeIsTracked ==
    \A c \in Calls :
        /\ pc[c] = "done" /\ Available(c)
        => c \in jobs \cup submitted \cup missed \cup confirmed

\* A call that waits for the lock gets through without its timeout.
CallsFinish ==
    \A c \in Calls : pc[c] = "waiting" ~> pc[c] \in {"done", "lost"}

\* Revert unless confirmed: a tentative mutation is taken back or confirmed, unless
\* the job is missed or the process ends.
TentativeResolves ==
    \A c \in Calls : Available(c) ~> ~ Available(c) \/ c \in confirmed \cup missed

-----------------------------------------------------------------------------
(***************************************************************************)
(* The service implements MutationLedger.                                  *)
(***************************************************************************)

LedgerEntry(c) ==
    IF records[c] = None
    THEN IF rows[c] = "absent" THEN "none" ELSE "row_only"
    ELSE IF ~ Available(c) THEN "reverted"
    ELSE IF c \in confirmed THEN "kept" ELSE "tentative"

Ledger == INSTANCE MutationLedger
            WITH Mutations <- Calls,
                 SlotOf <- [c \in Calls |-> Slot(c)],
                 ledger <- [c \in Calls |-> LedgerEntry(c)]

\* Every step of the service is one of the ledger's or none: within a process a
\* mutation is applied once per trace and target and reverts at most once, and
\* what the end of the process leaves of it never becomes a mutation again.
ImplementsLedger == Ledger!LedgerSpec

(***************************************************************************)
(* What the repository says of the service and the code does not do.       *)
(***************************************************************************)

Settled ==
    /\ \A c \in Calls : ~ Active(c)
    /\ statusWrites = {}

\* rollback_scheduler.py: until a confirmation policy is wired every mutation
\* auto-reverts.  When the scheduler has taken all of them back, each session reads what it read
\* before any of them: the seed, or nothing.
AllRevertedRestores ==
    Settled /\ (\A c \in Calls : records[c] # None => c \in autoReverted)
        => \A cell \in Sessions \X Keys : weights[cell] \in {None, Seed}

\* record_store.py: a row is "the durable basis for rollback"; rollback_scheduler.py:
\* "the persisted record (B3a) keeps previous_value for a post-restart manual rollback".
\* Once no call and no status write is under way, what the table calls available can be
\* taken back, but for database errors.  A restart breaks it, as rollback() knows only the
\* records in memory; so does, without one, a rollback that comes before the INSERT.
RowsCanBeUndone ==
    Settled => \A c \in Calls \ faulty : rows[c] = "available" => Available(c)
=============================================================================
