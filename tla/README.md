# A verification development for CORTEX

TLA+ modules, TLC configurations and TLAPS proofs about the CORTEX cognitive
runtime (`src/`, Python, FastAPI on one asyncio event loop).  The modules are
translated from the source; `PROJECT.json` maps every definition to its lines.

## 1. The system

A query goes through ingress (sanitizing, caches), a semantic evaluation that gives
it a category and a difficulty 1..5, a routing section that picks a *band*
(lightweight, standard, full pipeline), a swarm of agents that answers it, and
background tasks that learn from the answer.  What is learned is a weight per
(session, category, difficulty) *cell*, and the weight moves the band of later
requests.  Everything runs on one event loop; what persists is SQLite.

| component | state it keeps | operations | talks to | hard behaviour | what makes it correct |
|---|---|---|---|---|---|
| skip router, route override (`routing/skip_router.py`, `rpe_route_override.py`) | none | `route`, `apply` | reads the cell store | thresholds at .4 and .7, edge bands | one band up or down at most, none for an unlearned cell |
| routing ratchet (`routing_ratchet.py`) | floor per session and cell, LRU of sessions | `apply`, `lower_floor`, `decay_release` | called by the routed section and by decay | eviction, long request sequences | bands fall only by forgetting; floors stay near the baseline |
| step decay (`routing_decay.py`) | step counter and last use per session and cell, LRU of sessions | `step` | cell store, ratchet | two LRUs that must agree | every floor has the stamp that can release it |
| cell store and preset (`rpe/preset_store.py`, `difficulty_store.py`) | weights (LRU), global preset cache, SQLite table | `read_weight`, `write_weight`, `update_ema`, `load_all` | mutator, decay, override | cache ahead of commit, commit order, restart | weights in bounds |
| mutation service (`rpe/service.py`) | registry per trace and target, records, a lock per target | `apply_proposals`, `rollback`, `confirm_mutation` | mutator, record store, preset, scheduler | check before wait, use after; lock timeouts; swallowed database errors | one mutation per trace and target; a row says what its record says |
| rollback scheduler (`rpe/rollback_scheduler.py`) | pending ids, apscheduler jobs | `schedule`, `confirm`, `_fire` | service | timeout racing a confirmation, missed jobs, restart | tentative mutations end reverted or confirmed |
| record store (`rpe/record_store.py`) | SQLite rows | `persist`, `update_status`, `delete_older_than` | service, cleaner | separate commits | as above |
| RPE pipeline, learner, calculators (`rpe/pipeline.py`, ...) | background tasks, recent counter | `execute`, `_rpe_background`, `learn` | swarm, service | tasks outlive their request | only successes teach, and by little |
| query pipeline (`api/routes.py`) | request-local | `handle_query` | everything | early exits, labels stamped at three places, weights that move meanwhile | every request answered unless the caches fail, in reach of its baseline, truly labelled |
| async swarm (`execution/swarm.py`) | tasks of a request, late handlers | `execute` | planner, context, PFC, generator, PLC | timeouts, shield, cancellation | no task leaks; every failure has a fallback |
| lock manager, PLC (`core/lock_manager.py`, `maintenance/plc.py`) | field locks, force-push marks | `acquire`, `mark_force_pushed` | swarm, LC | mark against a waiter, timeouts | locks are released; marked traces stop |
| PFC, cue classifier, continuation detector (`routing/pfc.py`, ...) | none of note | `infer_hint`, `detect` | goal stack | late answers | decision ladder |
| basal ganglia (`basal_ganglia/`) | none | `advise`, policies | routes | five signals, each of which may be missing | rescues hard requests, leaves floors alone |
| crossroad (`routing/crossroad.py`) | background tasks | `maybe_explore` | swarm, cell store | reads the weight after the swarm | one band from the answer, in a trace of its own |
| LC, glycine (`routing/lc.py`, `neuromodulators.py`) | request timestamps per session | `apply_snapshot`, guard | routes, lock manager | windows, lists that only grow | limits hold |
| goal memory, IFOM (`memory/`, `rpe/ifom_store.py`) | goal stack, entries with a TTL | add, evict, mask, mutate TTL | PFC, service | eviction at depth 7, partial failure | an active goal survives |
| synapse layer (`synapse/`) | weights per category | read, observe | LC | frozen in production | - |
| ingress caches, evaluator (`ingress/`, ...) | SQLite, Chroma | get, put | routes | files outlive the mode they were written in | never answers across namespaces |
| glymphatic cleaner (`maintenance/glymphatic.py`) | none | `run_cycle` | stores | deletes what may be in use | bounded, fail-open |
| slot registry, model tiers (`core/slot_registry.py`, ...) | slots loaded at start | lookup, status | swarm, `/health` | - | not modelled: a slot that cannot be called is a generator that fails |
| LLM clients, adapters, logging, schemas, `demo_backend` | - | - | - | I/O only | not modelled |

`PROJECT.json` lists the hazards with the line where each bites.

## 2. The modules

    Bands <- RoutingFloor (with Lru)          <- MCRoutingFloor, RoutingFloor_proofs
                 implements SessionFloors (abstract)
          <- MutationService                  <- MCMutationService, MutationService_proofs
                 implements MutationLedger (abstract)
          <- Learning                         <- MCLearning, Learning_proofs
          <- Decisions <- QueryPipeline       <- MCQueryPipeline, QueryPipeline_proofs
                               implements SessionFloors (abstract)
    LockManager <- Swarm                      <- MCSwarm, Swarm_proofs
                       implements Supervision (abstract)
    GoalMemory                                <- MCGoalMemory, GoalMemory_proofs
    Upkeep                                    <- MCUpkeep, Upkeep_proofs
    QueueLemmas: what the proofs about queues and LRUs share

An arrow points from the module that extends to the one it extends.

**`Bands`** is the arithmetic: clamp, EMA, decay, baseline, override, ratchet, release.
Weights are integers; the constants `WMin`, `Seed`, `DemoteBelow`, `PromoteAt`, `WMax`
are the code's 0.1, 0.3, 0.4, 0.7 and 1.0 in hundredths, and `WeightAssumption` keeps only
their order, so the proofs hold on any scale.  `Ema` divides integers where the code
rounds floats.

**`Lru`** is the `OrderedDict` idiom (`move_to_end`, `popitem(last=False)`).

**`RoutingFloor`** is what the session remembers about routing.  `Request(s, c)` is the
whole routed section `routing_decay.step`, `skip_router.route`, `rpe_route_override.apply`,
`routing_ratchet.apply`: none of the stores they use suspends, so no other task runs in
between and it is one step.  It writes the decayed weight, stamps the use (`RecordUse`),
releases the floor if the cell was forgotten, and stamps the band it answered
(`StampFloor`).  `Learn`, `RollUp` and `Rollback` are the background learner's writes, each
as one step here; `EvictCell` drops a cell of the LRU cell store; `Restart` starts a new
process, which loads the preset and nothing else.  `unlearned` counts answered requests
whose background task has not run, so learning never precedes its request.

**`SessionFloors`** is what routing promises a session: each request for a cell is answered within
one band of what its difficulty asks for, and no lower than the last one, except that a cell that was
lifted may come down one band at a time; one session's requests never move another's, and a session that
is dropped starts over.  The refinement mapping reads the floors (`RoutingFloor!Promise`), and weights, stamps,
presets and learning disappear behind it.  `QueryPipeline!Promise` maps the floors of its one session to the
same module, so the two models of routing are held to one promise.

**`MutationService`** is one level down: how such a write comes about.  An action is the code
between two places where a task really gives up the loop:

| action | code |
|---|---|
| `Begin` | the registry check of `apply_proposals`, and queueing for the key's lock |
| `Grant`, `LockTimeout` | the outcomes of `wait_for(lock.acquire(), timeout)` |
| `Apply` | the critical section (read, clamp, write), the release, the registry entry and the record: no suspension between them |
| `Persist`, `PersistFails` | `_safe_persist` |
| `RollUp`, `Commit`, `CommitFails` | `update_ema`: the cache before the database round trip, the table after it |
| `Schedule` | `RollbackScheduler.schedule`, and the call returns |
| `ManualRollback`, `Fire` | `rollback`, called by hand or by `_fire`; it takes no lock, and by hand it may come as soon as `_records` has the record, before the INSERT of its row |
| `WriteStatus`, `WriteStatusFails` | `_safe_update_status` |
| `Due`, `Miss` | apscheduler's timer and its misfire rule (external) |
| `Confirm` | `confirm_mutation` |
| `Decay`, `Evict`, `Restart` | what else touches the cells, and the end of the process |

A call stands for one (trace, target) group with its winner chosen; `MayStart` is the
callers' discipline that the code relies on without enforcing it: one background task per
trace, which calls `apply_proposals` one at a time (`pipeline.py`, `_rpe_background`; the
crossroad explorer uses a sub-trace).  The registry is read before the wait for the lock and
written after it, so two overlapping calls of one trace and target could both apply; nothing in the
repository makes such calls, and the guard keeps them out.  `SingleApply` is therefore not about
them: it says that one after the other, with waits, timeouts, database errors, rollbacks and
restarts between the read and the write, and with calls of other traces on the same lock, the
calls of a trace mutate a target once.

**`MutationLedger`** is what the service promises: within a process a mutation is tentative once
applied, ends reverted or kept, and a target is mutated once per trace.  The end of the process leaves
at most the row of a mutation (`row_only`), which never becomes a mutation again.
That documents want a rollback from such a row is a finding (`RowsCanBeUndone`), and no
part of what the ledger promises.  `MutationService!Ledger` is the refinement mapping: the entry
of a call is read off its record, its row and `confirmed`.

**`LockManager`** is the field locks.  A caller is one `async with acquire(...)`: `Refuse` and
`Ask` are its test of the force-push mark, `Grant`, `TimeOut` and `CancelWait` the
outcomes of `wait_for(lock.acquire(), timeout)`, `Leave` the `finally` clause, whether the body
returned or was cancelled.  `wait_for` runs the wait in a task of its own, so asking
and getting are two steps even for a free lock.  `PassThrough` is a body that never suspends, such
as the swarm's: it takes and releases the lock in one step.  A key is a trace and a
field, hence `TraceOf`.  `CanEnter` and the queue are asyncio's (first come, first
served); `TimeOut` requires that the caller could not get the lock, because `wait_for` prefers the
result if there is one.  PLC's three regions are keys of this module.

**`Swarm`** extends it: the swarm requests are callers of the lock manager, and the other callers
stand for anyone else who may hold a field lock.

| action | code |
|---|---|
| `Execute` | `execute` up to its first suspension: the context task (none on a lightweight route) and, if a PFC is injected, the PFC task |
| `PfcEnds`, `CtxEnds` | the two tasks; the retrieval is bounded by `wait_for`, the PFC only by whoever waits for it |
| `HintArrives`, `HintTimesOut` | `_await_pfc_bounded`, `_spawn_late_handler` and the planner |
| `LateEnds` | `_handle_late_pfc` |
| `JoinEnds` | `await context_task`, or the `gather` of the path without a PFC |
| `WriteOrSkip`, `WriteLocked`, `WriteUnlocked` | `_evaluate_context`, `_write_context_result` with the lock and, on `LockTimeoutError`, without |
| `Generate` | the generator's answer (an error is an answer too: it falls back) |
| `Cancel` | the request's task is cancelled, at each place where it can be suspended |
| `Cleanup`, `CleanupResumes` | `_cleanup_tasks`, which awaits each cancelled task |
| `ForcePush`, `Clear` | `LocusCoeruleus.force_push`, `clear_force_push` |

The planner, `inject_context` and `log_event` are coroutines that never suspend, so they
belong to the step around them.  Requests in `WithPfc` take `_execute_with_pfc`, the others
`_execute_phase4`, where `gather` re-raises a cancellation whatever the retrieval returned.  A
result with no documents is also a `ContextAgentResult` and is written, so `found` stands
for both.  `CancelLost` is Python up to 3.11 (the version `pyproject.toml` names as verified): there
`wait_for` returns the result, and not the cancellation, if what it waits for has just ended.
Later versions raise; the action is then one that never happens.  A `TimeoutError` raised by
the PFC itself is not distinguished from any other error of it: PFC is a ladder of heuristics
without timeouts.

**`Supervision`** is what the swarm promises about tasks: each is owned by its request until it
ends or a handler takes it over, and a request ends owning nothing that cannot be handed
over.  `Swarm!Tree` is the refinement mapping, from the states of the tasks and the request's stage.

**`Decisions`** is pure operators: the evaluator's difficulty and confidence, the signals of
the locus coeruleus, the cue classifier's hints and the PFC ladder, the basal ganglia's demand and
nearest level, the crossroad, what GABA lets pass and the planner's intents.  Keyword patterns are booleans or a choice among the cues they may find; similarities and
confidences are hundredths.

**`QueryPipeline`** is one session's `POST /query`, from Glycine to the answer:

| action | code |
|---|---|
| `Arrive` | sanitizer, Glycine's rate, loop and budget guards, the thalamus, the continuation detector and whether it bypasses the caches |
| `Expire` | Glycine's sliding window |
| `LookUp` | exact cache, then semantic cache (`Upkeep` has their contents); a read that raises is caught nowhere and ends in HTTP 500, which is `Failed("caches")` and not an answer |
| `Evaluate` | the evaluator's answer and everything up to the next suspension: LC, the weight's snapshot, decay, difficulty gate, skip router, override, ratchet, PFC's hint, the basal ganglia and the stamps of path and limit-break (`Stamped`); the goal that was detected may be gone when PFC looks for it |
| `Augment` | Tier-1.5: a trivial request next to a known one |
| `Respond` | what the swarm answered; the learning job and the crossroad's explore start here, by the weight of that moment |
| `EndExplore` | the explore's swarm ends and asks for a lesson of its own |
| `Teach` | a learning job's write (`Learning` has its detail) |
| `Change`, `ForgetFloors` | whatever else moves a cell (roll-up, rollback, eviction, decay by another cell's step); the session leaves the ratchet's LRU |
| `Recycle` | the request's place is used by the client's next one |

A request's background work shares only the cells and the floors with later ones, so this module
takes from `Swarm`, `Learning`, `RoutingFloor` and `GoalMemory` what they may answer, as choices.
Three of these seams are proved: the floors are those of `SessionFloors`, as in `RoutingFloor`; what decay
leaves is among what `Forgotten` allows (`DecayIsForgetting`); and `Teach` only raises because `Learning` only
raises (`LearningOnlyRaises`).  That the swarm's outcomes are among `Results` is not checked by machine.

**`Learning`** is what happens behind the answer.

| action or operator | code |
|---|---|
| `Finish` | `pipeline.execute`: the snapshot of the swarm's result, and the task |
| `Actual`, `Confidence`, `Rewards`, `Proposal` | the two reward sources, in ten thousandths |
| `Qualifies`, `Winner` | thresholds, then the most confident (`_select_winner`) |
| `LearnNothing`, `Learn`, `GiveUp` | the learner's outcomes: nothing qualified; clamped and written; the lock's timeout |
| `Tally` | the recent counter, which the advisor reads |

The weight a task reads is the one at its write: `MutationService` shows that nothing else of its trace
can come between.

**`GoalMemory`** is one context's goals and the TTL table they age by.

| action | code |
|---|---|
| `AddGoal` with `Evictable` | a full stack drops the worst by status, then by score |
| `Update`, `TouchGoal`, `RemoveGoal`, `SetActive`, `Focus` | the context's operations, and `active_goal` |
| `Cleanup` | expires what is overdue, removes it if it was completed; the TTL resolver may fail for any goal, which then keeps its base TTL |
| `Tick` | idle time, in steps where recency changes |
| `ApplyTtl`, `RollbackTtl` | `IFOMTTLMutator`: decide over all goals, clamp, write; restore |

**`Upkeep`** is what outlives a request.

| action or set | code |
|---|---|
| `ExactAnswers`, `SemanticAnswers` | what a request may be answered from either cache |
| `PutExact`, `PutSemantic` | writes under a full key; unresolved live answers are refused |
| `Persist`, `UpdateStatus` | a record's row and its later status |
| `StartCycle`, `ListAged`, `DeleteListed`, `CacheFails`, `CleanRows` | the cleaner's targets in order, each behind its own error boundary, and a batch at a time |
| `Shutdown`, `Restart(mode)` | the files stay; records in memory go |

The reads change nothing but a hit counter and so are sets, not steps.

History variables: `confirmed`, `autoReverted`, `missed`, `faulty`, `unmatched` (rollbacks whose
UPDATE found no row), the swarm's `asked`,
learning's `start`, `raises` and `tallied`, the goals' `gone`, `record`, `open` and `inOrder`.  Bounds:
`MaxRequests`, `MaxFaults`, `MaxRestarts`, `MaxErosions` (decay steps and evictions),
`MaxRuns`, `MaxChanges`, `MaxClock`, `MaxPuts`, `MaxRowFaults`, each in the guard of its action.
Definitions introduced by "A slip" are mistakes a change of the code could
make; each property is known to fail when one of them takes the place of the original.

## 3. Runs

| run | what it shows | instance |
|---|---|---|
| `floor` | `TypeOK`; `LrusAgree` (ratchet and decay evict together); `FallsOnlyByForgetting` (a band falls only in a request that forgot its cell, by one, not below the baseline); `ImplementsSessionFloors` | 2 sessions, room for 1, cells of difficulty 2 and 4, 2 mutations of +-.05, presets none and .69, 4 requests; 1,805,678 states |
| `service` | `TypeOK`, `LockConsistent`, `SingleApply`, `RowAgreesWhenSettled`, `ConfirmedIsKept`, `TentativeIsTracked`, `ImplementsLedger` | 3 calls on one target (2 of one trace), 1 database error, 1 restart, rollbacks at any time; 1,342,305 states |
| `service_live` | `CallsFinish`, `TentativeResolves` under fairness | 2 calls of two traces, 1 error, 1 restart, 1 decay step or eviction; 458,204 states |
| `swarm` | `TypeOK` and `LockConsistent` (the lock manager's), `NothingLeftBehind`, `HintIsTimely`, `ContextReachesGenerator`, `FailuresFallBack`, `ImplementsSupervision`, and under fairness `RequestsEnd` and `WaitersGetThrough` | 2 requests of two traces, one with a PFC and another caller on its lock; 208,800 states |
| `learning` | `TypeOK`; `LearnsExactlyFromSuccess` (a cell is raised exactly by a grounded clean success); `EarnsItsBand` (at most .0246 a raise); `CounterCountsRaises` | 3 runs, 2 tasks, 2 cells of one key, window 2, weights from none and .985; 328,818 states |
| `goals` | `TypeOK` (with the bound on depth); `FocusIsSticky` (a new goal takes the focus only by evicting its holder from a full stack of active goals); `CleanupSettles` (whatever the resolver fails on, what outlived both its configured and its learned time is ended, and nothing younger than either); `RollbacksRestoreTtl` (newest first, rollbacks restore the TTL) | 3 goals, depth 2, 2 TTL mutations, ages to 3; 167,000 states |
| `upkeep` | `AnswersStayInTheirNamespace`; `RowsGoOldestFirst`; `AgedRowsGo` under fairness | 2 prompts, 2 rows, clock to 3, age 1, batches of 1, one write, one failing row target, one restart; 595,000 states |
| `pipeline` | `TypeOK` (with Glycine's limits on rate and on repeats); `FloorIsEarned`; `RunsWithinReach`; `HardRunsFull`; `LabelsFitTheRun`; `RequestsAnswered` under fairness | one request at a time, 2 in all, 3 prompts, rate limit 2, loop threshold 2, 6 cells of which 2 move, once, among .10, .38 and .72; 244,960 states |
| `floor_hard`, `service_undo`, `service_restart`, `learning_demote` | violations, see below | 1 cell of difficulty 4 and 3 requests; 2 calls without errors; the same with 1 restart; as `learning` |

Why the bounds are enough.  A preset of .69 is one mutation from promotion, and an
unlearned cell's first mutation lands below demotion, on the seed.  In `floor` `DecayRate` is 35 hundredths, which
stands for 35 idle requests at once: a cell is forgotten within four requests, where the
code's rate of .01 would need dozens.  Four requests are enough for use, idle, release and re-use
of a cell, and for each of two sessions to evict the other twice.  Three calls are the least with two
on one slot and a third contending for the lock from another trace; one error and one restart can
fall between any two steps.  Requests of the swarm share nothing but the lock manager, and field locks are per
trace, so one request per path and one other holder of the lock meet every case; each task may
end in every way at every point, and each request may be cancelled as often as it is suspended.

In `learning` a start of .985 meets the upper clamp with the first raise, and three runs overflow a
window of two; every combination of the agents' outcomes is enumerated.  In `goals` the third goal
meets a full stack, and the second mutation can precede or follow the rollback of the first.  In
`upkeep` three ticks are enough for an entry to be fresh, at the limit and aged, while another one is
listed; one write is enough because a namespace is named by its mode, and the restart changes it.
In `pipeline` the weights lie on each side of every threshold they meet, one in each zone; a request's own past is
its floor and the session's window, which the first of two requests leaves to the second, and the weight changes
between any two of their steps.  Repeats and the rate limit are met by the second request and
by whoever comes after.  The proofs do not depend on any of these bounds,
and those about the lock manager hold for any number of callers on a field.

Symmetry is used over sessions and mutations in `floor`, over the two calls of one trace in `service`, over tasks and cells in `learning` and over
mutations in `goals`, runs that check no liveness.  Deadlock is not checked for the
service, the swarm and the pipeline: once every call, caller or request of the bounds has
returned, the system may stop.

Fairness (`MutationService!Fairness`): weak fairness of each call's own steps (`Work`), of
the scheduler's timer (`Due`) and of the executor (`Run`).  The loop runs ready tasks in
turn, SQLite calls return or raise, and apscheduler's timer fires; `Run` may fire or
miss.  There is no fairness on `LockTimeout`, `Confirm` or `Begin`: a call gets the lock
because holders release it, not because it gives up.

`LockManager!LockFairness`, the hypothesis of `WaitersGetThrough`: a body ends, and a free lock goes to its
first waiter.  Nothing is assumed of timeouts, so every wait ends because the lock is always
released and no place in the queue is left behind.

`Swarm!Fairness`: a request's own steps (`Progress`: the loop runs it when what it waits for has
ended or its bound has run out, and the generator's call returns or raises), the end of the retrieval
(`wait_for` bounds it), and the end of a PFC that was cancelled.  None for a running PFC, for
another holder of the lock, or for a cancellation: `RequestsEnd` holds although the first two may
take for ever.

`Upkeep!Fairness`: the interval job starts cycles again and again, and what a cycle awaits returns
or raises.  Neither target is assumed to succeed beyond the bound on row faults, and the semantic
cache may fail every time.

`QueryPipeline!Fairness`: a request's next step, and the end of its explore.  Each awaited call
returns or raises: the swarm because `RequestsEnd`, the others because they are bounded or local.
Of these errors only that of a cache read is not caught, and costs the client its answer.
Learning, expiry and changes of weights are not assumed to happen.

Where code and documentation disagree (`findings`):

- `HighDifficultyProtected`: a low preset demotes a session's first hard request and the
  ratchet makes the demoted band the floor.  With all its signals present the basal ganglia then promotes this
  run (`HardRunsFull`), but the floor stays.
- `AllRevertedRestores`: auto-reverts in order of application leave the first new value.
- `RowsCanBeUndone`: `rollback` knows the records in memory only, and nothing fills them from the table, so
  after a restart no persisted mutation can be taken back, while the preset it led to lives on.
  `rollback_scheduler.py:18-20`, `record_store.py:7-8` and `OVERTURE_VERSION_HISTORY.md:635-636` name the
  persisted record as the basis of a manual rollback after a restart.  With `MaxRestarts = 0` the property
  fails too: a rollback between the registration of a record and the INSERT of its row updates
  no row, which is no error, and the INSERT then writes "available" for good, although `service.py:234` says that
  the row reflects the new status.  `RowAgreesWhenSettled` names these rollbacks (`unmatched`)
  and says that within a process nothing else but a database error sets a row and its record at odds.
- `FailuresDemote`: a run in which nothing worked leaves its cell where it was.  At its worst it is worth a
  prediction error of -.25 with a confidence of .45, and the gates are .3 and .5: the wrapper's snapshot always
  has `response_source` "swarm", and no run has an error and a timeout at once.  `sources.py:87` and `:134-139`,
  `test_rpe_sources.py:282-291` (with a context the wrapper never builds) and
  `OVERTURE_VERSION_HISTORY.md:516-517` and `:580-582` say that failing cells are demoted.  `RoutingFloor` lets learning
  lower weights all the same, because the service's contract does.

`lock_manager.py:9` says that acquires which wait when their trace is force-pushed "expire via timeout".  In
the model, as in the code, such a caller gets the lock if it comes free before its timeout.  We
read the comment as saying that the mark does not reach a waiter and do not list it as a finding.

Other things a reader of the code might not expect, which the models contain and no document we know of denies:
roll-ups of one cell can commit in the other order, and the table then keeps the older value; a rollback of
the first mutation writes the seed into a cell that held nothing; under Python 3.11 a cancellation can be lost
in `wait_for`; a cache read that raises costs the client the answer, where failures of the detector, PFC, the basal
ganglia, the retrieval, the planner and the model all fall back.

## 4. Proofs

All for every value of the constants that the named assumptions allow.

`QueueLemmas` holds what appending to, taking from and touching a sequence without repetition does to
its elements and to their order.  Lemmas about the operators of `Bands` stand at the head of the
proofs that use them.

`RoutingFloor_proofs`: `TypeCorrect`, `LrusAlwaysAgree`, `FloorStaysNear`, `OnlyForgettingLowers`,
and `Refinement`: routing implements `SessionFloors`.  The inductive invariant adds to the checked
properties that no floor strays more than a band (`FloorWithinOneBand`) and that the LRU order
repeats no session, without which evicting its head would not remove the session.
`OnlyForgettingLowers` is an action property: only `Request` writes floors, it writes those of one
cell and of evicted sessions, and the band it answers is below the old floor only if the cell was
forgotten (`RouteBand`).  The refinement needs of a step no more than that, and that the session
being answered is not among those dropped for it (`AdmitDistinct`).

`MutationService_proofs`: `TypeCorrect`, `LocksConsistent`, `OneMutationPerSlot`,
`RowsAgree`, `ConfirmedStays`, `TentativeTracked`, `NoWakeUpIsLost`, and `Refinement`: the service implements
`MutationLedger`.  None of the checked properties is inductive alone.  `IInv` adds

- `StageInv`: what a call has left behind at each stage; in particular a call that waits or
  holds still finds its slot free, which makes the early check of the registry sound, and a call
  that applied keeps its record until the process ends, taken back or not;
- `SerialInv`: one active call per trace, which `StageInv` needs when another call applies;
- `SchedInv`: the scheduler knows only returned calls and holds a job in one place;
- `RowInv`: where the row is while a call returns; a rollback that overtook the INSERT is under way,
  failed or found no row; and a row is "rolled_back" only if its record cannot be rolled back any more.

`Swarm_proofs` begins with the lock manager: `LockTypeCorrect`, `LocksConsistent`, `FirstComeFirstServed`
and `NoWakeUpIsLost`, for any callers, traces and keys.  `LockConsistent` says of each lock who is inside and who
queues, and is inductive with the types.  From it follows that where callers wait, one is inside or the first can
enter, in this module and in the service: no wake-up is lost to a timeout, a cancellation or a restart, which is
the part of `WaitersGetThrough` and `CallsFinish` that needs no fairness.  `FirstComeFirstServed` is the other
part: an injective queue that is only appended to and taken from (`OrderKept`) never lets one caller past another.

The swarm's theorems are `UsesLockManager` (every behaviour of the swarm is one of the lock manager, so
its invariant carries over, and with it, in `RequestsQueueInOrder`, the order of its queues), `TypeCorrect`, `NothingIsLeft`, `HintsAreTimely`,
`ContextArrives`, `FailuresHaveFallbacks`, and `Refinement`: the swarm implements
`Supervision`.  The inductive part is `LocalInv`: what is true of one request at each stage,
such as that a late handler exists only beyond the bounded wait and that a cancelled
retrieval belongs to a request somebody cancelled.  It speaks of one request at a time because a step
of one leaves the others alone (`Elsewhere`), so the number of requests does not
matter.

`Learning_proofs`: `TypeCorrect`, `LearnsFromSuccess`, `BandsAreEarned`, `LearningOnlyRaises`,
`CounterIsTrue`, for any tasks, cells, windows and similarities.  The arithmetic comes first: what a
snapshot can look like (`Seen`), what each outcome is worth, and which proposal can qualify; only
the heuristic's proposal for a grounded clean success does, with a delta in 1 .. 246.  `LearningOnlyRaises` is the formal side of the finding
`FailuresDemote`: no task lowers a cell, for any similarity.  `TaskInv`
then carries the outcome from the snapshot to the write, which another task's write may precede.

`QueryPipeline_proofs`: `TypeCorrect`, `FloorsAreEarned`, `RunsStayWithinReach`,
`HardRequestsRunFull`, `LabelsAreTrue`, `DecayIsForgetting`, and
`Refinement`: the pipeline implements `SessionFloors` too, advice and explores included; for any
requests, prompts, evaluations, weights, retrievals and limits.  The limits of
Glycine's window are inductive with the types: an admission repeats its own prompt once more
and no other (`AdmissionCounts`), and what leaves the window repeats nothing more (`ExpiryCounts`).  `IInv` says of the
floor that it lies near the baseline and above it only when earned, and of a request in the swarm
that its context is `Sound` (near its baseline, below it only for a demoting weight, full once a
hard request was advised) and that its answer is `Labelled`; an explore lies `Behind` an answer, one
band from it.  The two arithmetic lemmas are `DemandBounds` (a demoted hard request's demand is at
least 2500 thousandths, which rounds to the full pipeline, and a trivial one's stays below) and
`NearestLevel`, which counts a tie for the heavier level as the code does.

`GoalMemory_proofs`: `TypeCorrect`, `FocusSticks`, `CleanupEnds`, `NewestFirstRestores`, for any
goals, depths, mutations and times.  The bound on depth is inductive with the types
(`AddKeepsBound`: what is evicted was present).  `FocusSticks` and `CleanupEnds` are action
properties that need only that; the latter splits on which of the two times is the longer
(`TwoTimes`).  `NewestFirstRestores` needs more: `HistoryInv` says that what is open of a type is
what was applied to it and not taken back, each once, and `ChainInv` that they form a chain for
every type whose rollbacks came in order: each found the value that the one before it wrote, the
first found the configured one, and the table has what the last wrote. A mutation lengthens the
chain (`ChainGrows`), the rollback of its last link shortens it (`ChainShrinks`), any other rollback
takes the type out of `inOrder`.  Without the chain the property says only what the newest mutation
left, and not what a rollback of it will find.

`Upkeep_proofs`: `NamespacesHold`, `OldestRowsGoFirst`, for any prompts, records, ages and batches.
`CacheInv` says that an exact entry is filed under the key of its own namespace
(`KeyNamesNamespace`: one key, one namespace) and that every entry's namespace could be written,
which rules out resolved and live ones whatever mode the process is in now.  `RowInv` says that rows
belong to tracked records, so that a late status write finds its row or nothing, that they are
finitely many, so that a batch has a size, and that the cleaner's time is never ahead of the clock,
so that what it takes for aged is.

Where an invariant had to be strengthened, TLC checked the strengthened one on a bounded instance
before it was proved. The theorems that no run states (`FirstComeFirstServed`, the two
`NoWakeUpIsLost`, `LearningOnlyRaises` and the pipeline's `Refinement`) were checked in the same
way, on the instances of the runs.

Assumptions: types of the parameters; `None` distinct from integers, calls and records;
`Requests` among the callers; the order of the weight constants, and for `Learning` and `QueryPipeline`
their values, since rewards and demand are arithmetic on them.  Nothing else is assumed.

Model-checked only: the liveness properties `CallsFinish`, `TentativeResolves`, `WaitersGetThrough`,
`RequestsEnd`, `RequestsAnswered` and `AgedRowsGo`, because liveness under fairness rests on
ENABLED, which is outside the prover; and the four violations.  Every invariant and every action
property that a run checks is also a theorem.

## 5. Not modelled

Code that never suspends is one step, by design of asyncio.  Abstracted: prompts, embeddings and
similarity scores (choices), log events, wall-clock time (timeouts are choices, ages are ticks), floats
(integers on a fixed scale; the basal ganglia's ties are exact here).  Left out:

- the slot registry and the model tiers: chosen once at start, never changed; a slot that is not ready or
  cannot be called is a generator that fails, which `Swarm` and `QueryPipeline` have as a choice;
- the synapse layer and `SynapseWeightMutator`: frozen by configuration, nothing in production writes it;
- the category selector: a pure choice of what a retrieval searches, and here a retrieval may find anything.
  `category_selector.py:36` says that a limit-break widens the search; by our reading of :48, and not by a
  run, it leaves out the request's own category when its weight is below .2 and another's is not;
- how centroids are built and embeddings computed: numeric code without states;
- requests without a session, which have no floor and no window of their own, and the
  context endpoints' wire formats;
- that lock objects, Glycine's records and goal contexts are never removed: with finitely many
  traces there is nothing to check;
- LLM clients, adapters, logging, schemas, `demo_backend` and the scripts: I/O, data classes and batch
  programs whose state nothing else reads.
