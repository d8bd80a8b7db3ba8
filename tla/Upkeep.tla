------------------------------- MODULE Upkeep -------------------------------
(***************************************************************************)
(* What outlives a request, and who cleans it up: the exact cache and the  *)
(* semantic cache with the namespaces of their keys, the rows of the RPE   *)
(* mutation records, the glymphatic cleaner that deletes aged entries of   *)
(* the last two, and the process that is shut down and started again,      *)
(* perhaps in another LLM mode, over the same files.                       *)
(*                                                                         *)
(* An answer carries the namespace it was produced in.  created_at and     *)
(* persisted_at are ticks of one wall clock.                               *)
(***************************************************************************)
EXTENDS Integers, FiniteSetsExt

CONSTANTS
    Prompts,
    Similarity,     \* of two prompts' embeddings, in hundredths
    Slots, Models,  \* resolved slot fingerprints and model ids
    UNRESOLVED,
    Written,        \* <<prompt, namespace>> callers ask to write
    Records,        \* rollback ids
    MaxAge,         \* max_age_s of both targets, in ticks
    BatchLimit,
    Enabled,        \* settings.glymphatic_enabled
    MaxClock, MaxPuts, MaxRowFaults, MaxRestarts, \* bounds of the model
    None

ModesAllowed == {"mock", "live"}
Namespaces ==
    [mode : ModesAllowed, slot : Slots \cup {UNRESOLVED},
     model : Models \cup {UNRESOLVED}]

ASSUME SimilarityAssumption ==
    /\ Similarity \in [Prompts \X Prompts -> 0 .. 100]
    /\ \A p \in Prompts : Similarity[p, p] = 100

ASSUME UpkeepAssumption ==
    /\ \A w \in Written : w[1] \in Prompts /\ w[2] \in Namespaces
    /\ UNRESOLVED \notin Slots \cup Models
    /\ None \notin {"available", "rolled_back", "lost"}
    /\ MaxAge \in Nat \ {0} /\ BatchLimit \in Nat \ {0}
    /\ Enabled \in BOOLEAN
    /\ {MaxClock, MaxPuts, MaxRowFaults, MaxRestarts} \subseteq Nat

VARIABLES
    clock,
    llmMode,    \* get_llm_mode() of this process
    up,         \* between the lifespan's start and its end
    exact,      \* table exact_cache: key -> namespace of the answer
    semantic,   \* collection: id -> [prompt, ns, created]
    rows,       \* table rpe_mutation_records: id -> [status, at]
    tracked,    \* the service's own status of each record
    cycle,      \* run_cycle: its stage, its now, the ids it listed
    puts, rowFaults, restarts

cacheVars == <<exact, semantic>>
rowVars == <<rows, tracked>>
vars == <<clock, llmMode, up, cacheVars, rowVars, cycle, puts,
          rowFaults, restarts>>

-----------------------------------------------------------------------------
(* Keys: one path builds them for reads and for writes. *)

Namespace(mode, slot, model) == [mode |-> mode, slot |-> slot, model |-> model]

CacheKey(p, ns) == <<p, ns.mode, ns.slot, ns.model>>

\* A slip: unresolved live answers are accepted.
WritableAlways(ns) == TRUE

Writable(ns) ==
    \/ ns.mode = "mock"
    \/ ns.slot # UNRESOLVED /\ ns.model # UNRESOLVED

\* Routes read before a tier is chosen, so slot and model are unresolved.
ReadNamespace == Namespace(llmMode, UNRESOLVED, UNRESOLVED)

-----------------------------------------------------------------------------
NoCycle == [stage |-> "idle", now |-> 0, ids |-> {}]

Init ==
    /\ clock = 0 /\ llmMode \in ModesAllowed /\ up = TRUE
    /\ exact = << >> /\ semantic = << >>
    /\ rows = << >> /\ tracked = [r \in Records |-> None]
    /\ cycle = NoCycle
    /\ puts = 0 /\ rowFaults = 0 /\ restarts = 0

Tick ==
    /\ clock < MaxClock
    /\ clock' = clock + 1
    /\ UNCHANGED <<llmMode, up, cacheVars, rowVars, cycle, puts,
                   rowFaults, restarts>>

\* An insert that replaces: the dict, the table and the collection alike.
Stored(f, key, value) ==
    [k \in DOMAIN f \cup {key} |-> IF k = key THEN value ELSE f[k]]

PutExact(p, ns) ==
    /\ up /\ puts < MaxPuts /\ Writable(ns)
    /\ exact' = Stored(exact, CacheKey(p, ns), ns)
    /\ puts' = puts + 1
    /\ UNCHANGED <<clock, llmMode, up, semantic, rowVars, cycle,
                   rowFaults, restarts>>

\* An upsert: the id names the namespace, the entry's age starts again.
PutSemantic(p, ns) ==
    /\ up /\ puts < MaxPuts /\ Writable(ns)
    /\ semantic' = Stored(semantic, CacheKey(p, ns),
                          [prompt |-> p, ns |-> ns, created |-> clock])
    /\ puts' = puts + 1
    /\ UNCHANGED <<clock, llmMode, up, exact, rowVars, cycle,
                   rowFaults, restarts>>

-----------------------------------------------------------------------------
(* Reads of a request: the exact key first, then the nearest entry of the  *)
(* namespace.  They change nothing but a hit counter, so what a request    *)
(* can be given is a set, not a step.                                      *)

InNamespace(ns) == {id \in DOMAIN semantic : semantic[id].ns = ns}

Nearest(p, ns) ==
    {id \in InNamespace(ns) : \A other \in InNamespace(ns) :
        Similarity[p, semantic[other].prompt]
          <= Similarity[p, semantic[id].prompt]}

ExactAnswers(p) ==
    {exact[key] : key \in {CacheKey(p, ReadNamespace)} \cap DOMAIN exact}

\* At .90 and above a tier-2 hit; the rest is kept for tier 1.5.
SemanticAnswers(p) ==
    IF ExactAnswers(p) # {} THEN {}
    ELSE {semantic[id].ns : id \in Nearest(p, ReadNamespace)}

-----------------------------------------------------------------------------
(* Rows.  The service keeps its record in memory whatever the store says,  *)
(* and never writes a row twice.                                           *)

Persist(r) ==
    /\ up /\ tracked[r] = None
    /\ tracked' = [tracked EXCEPT ![r] = "available"]
    /\ \/ /\ rows' = Stored(rows, r, [status |-> "available", at |-> clock])
          /\ UNCHANGED rowFaults
       \/ /\ rowFaults < MaxRowFaults
          /\ rowFaults' = rowFaults + 1
          /\ UNCHANGED rows
    /\ UNCHANGED <<clock, llmMode, up, cacheVars, cycle, puts, restarts>>

\* UPDATE ... WHERE rollback_id = r: nothing when there is no such row.
Updated(r, status) ==
    [q \in DOMAIN rows |->
       IF q = r THEN [rows[q] EXCEPT !.status = status] ELSE rows[q]]

\* A rollback: the record first, then its row.  A confirmation stays in memory.
UpdateStatus(r) ==
    /\ up /\ tracked[r] = "available"
    /\ tracked' = [tracked EXCEPT ![r] = "rolled_back"]
    /\ \/ rows' = Updated(r, "rolled_back") /\ UNCHANGED rowFaults
       \/ /\ rowFaults < MaxRowFaults
          /\ rowFaults' = rowFaults + 1
          /\ UNCHANGED rows
    /\ UNCHANGED <<clock, llmMode, up, cacheVars, cycle, puts, restarts>>

-----------------------------------------------------------------------------
(* The cleaner: one cycle at a time, the semantic cache and then the rows. *)
(* A target that fails is logged and the cycle goes on to the next.        *)

StartCycle ==
    /\ up /\ Enabled /\ cycle.stage = "idle"
    /\ cycle' = [stage |-> "semantic", now |-> clock, ids |-> {}]
    /\ UNCHANGED <<clock, llmMode, up, cacheVars, rowVars, puts,
                   rowFaults, restarts>>

Aged(created) == created < cycle.now - MaxAge

AgedEntries == {id \in DOMAIN semantic : Aged(semantic[id].created)}

AfterListing(ids) == IF ids = {} THEN "rows" ELSE "delete"

\* collection.get(where created_at < cutoff, limit): any of the aged, in no
\* promised order.  After close() there is nothing to list.
ListAged ==
    /\ cycle.stage = "semantic"
    /\ IF up
         THEN \E ids \in SUBSET AgedEntries :
                /\ Cardinality(ids)
                     = Min({BatchLimit, Cardinality(AgedEntries)})
                /\ cycle' =
                     [cycle EXCEPT !.stage = AfterListing(ids), !.ids = ids]
         ELSE cycle' = [cycle EXCEPT !.stage = "rows"]
    /\ UNCHANGED <<clock, llmMode, up, cacheVars, rowVars, puts,
                   rowFaults, restarts>>

\* collection.delete(ids) after another await: by id, whatever their age is
\* by now.
DeleteListed ==
    /\ cycle.stage = "delete"
    /\ semantic' = [id \in DOMAIN semantic \ cycle.ids |-> semantic[id]]
    /\ cycle' = [cycle EXCEPT !.stage = "rows", !.ids = {}]
    /\ UNCHANGED <<clock, llmMode, up, exact, rowVars, puts,
                   rowFaults, restarts>>

\* A slip: the first target's error ends the cycle.
CacheFailsClosed ==
    /\ cycle.stage \in {"semantic", "delete"}
    /\ cycle' = NoCycle
    /\ UNCHANGED <<clock, llmMode, up, cacheVars, rowVars, puts,
                   rowFaults, restarts>>

\* The collection, or the lock around it, raises: any number of times.
CacheFails ==
    /\ cycle.stage \in {"semantic", "delete"}
    /\ cycle' = [cycle EXCEPT !.stage = "rows", !.ids = {}]
    /\ UNCHANGED <<clock, llmMode, up, cacheVars, rowVars, puts,
                   rowFaults, restarts>>

AgedRows == {r \in DOMAIN rows : Aged(rows[r].at)}

\* A slip: the batch is taken in the table's order.
BatchesUnordered ==
    {b \in SUBSET AgedRows : Cardinality(b) = Min({BatchLimit, Cardinality(AgedRows)})}

\* ORDER BY persisted_at LIMIT batch_limit; ties are taken in any order.
Batches ==
    {b \in SUBSET AgedRows :
        /\ Cardinality(b) = Min({BatchLimit, Cardinality(AgedRows)})
        /\ \A r \in b, q \in AgedRows \ b : rows[r].at <= rows[q].at}

CleanRows ==
    /\ cycle.stage = "rows"
    /\ \/ /\ \E b \in Batches : rows' = [r \in DOMAIN rows \ b |-> rows[r]]
          /\ UNCHANGED rowFaults
       \/ /\ rowFaults < MaxRowFaults
          /\ rowFaults' = rowFaults + 1
          /\ UNCHANGED rows
    /\ cycle' = NoCycle
    /\ UNCHANGED <<clock, llmMode, up, cacheVars, tracked, puts, restarts>>

-----------------------------------------------------------------------------
(* shutdown() waits for no job and close() drops the collection; a cycle   *)
(* under way may still take steps until the process is gone.               *)

Shutdown ==
    /\ up /\ restarts < MaxRestarts
    /\ up' = FALSE
    /\ UNCHANGED <<clock, llmMode, cacheVars, rowVars, cycle, puts,
                   rowFaults, restarts>>

\* No record is loaded back, so those in memory are gone for good.
Restart(mode) ==
    /\ ~up
    /\ up' = TRUE /\ llmMode' = mode
    /\ restarts' = restarts + 1
    /\ cycle' = NoCycle
    /\ tracked' = [r \in Records |->
                     IF tracked[r] = None THEN None ELSE "lost"]
    /\ UNCHANGED <<clock, cacheVars, rows, puts, rowFaults>>

CycleStep == ListAged \/ DeleteListed \/ CacheFails \/ CleanRows

Next ==
    \/ Tick
    \/ \E w \in Written : PutExact(w[1], w[2]) \/ PutSemantic(w[1], w[2])
    \/ \E r \in Records : Persist(r) \/ UpdateStatus(r)
    \/ StartCycle
    \/ CycleStep
    \/ Shutdown
    \/ \E mode \in ModesAllowed : Restart(mode)

\* The interval job fires again and again, and what it awaits comes back
\* with a result or with an error.
Fairness == WF_vars(StartCycle) /\ WF_vars(CycleStep)

Spec == Init /\ [][Next]_vars /\ Fairness

-----------------------------------------------------------------------------
(* No request is answered from a cache, by tier 1, 2 or 1.5, with an       *)
(* answer of another mode or of a resolved slot, and a live request never  *)
(* at all, although the files outlive changes of the mode.                 *)
AnswersStayInTheirNamespace ==
    \A p \in Prompts : \A from \in ExactAnswers(p) \cup SemanticAnswers(p) :
        from = ReadNamespace /\ llmMode = "mock"

(* What the cleaner takes, it takes for its age and oldest first: a row    *)
(* that goes was aged when the cycle began and no older row is left, at    *)
(* most a batch goes at a time, and no row comes back once it has gone,    *)
(* however late its rollback or confirmation is.                           *)
RowsGoOldestFirst ==
    [][LET out == DOMAIN rows \ DOMAIN rows' IN
       /\ Cardinality(out) <= BatchLimit
       /\ \A r \in out : /\ rows[r].at + MaxAge < clock
                         /\ \A q \in DOMAIN rows' : rows[r].at <= rows'[q].at
       /\ \A r \in DOMAIN rows' \ DOMAIN rows : tracked[r] = None]_vars

(* An aged row is deleted in the end, even if the semantic cache fails in  *)
(* every cycle, unless the process is shut down.                           *)
AgedRowsGo ==
    \A r \in Records :
        (r \in DOMAIN rows /\ rows[r].at + MaxAge < clock)
            ~> (r \notin DOMAIN rows \/ ~up)
=============================================================================
