---------------------------- MODULE RoutingFloor ----------------------------
(***************************************************************************)
(* How a routed request gets its band, and how the session remembers it.   *)
(*                                                                         *)
(* Every request runs  decay.step -> skip_router -> override -> ratchet    *)
(* without giving up the event loop (none of the stores it reads awaits),  *)
(* so Request is one step.  The learner writes the same cells from         *)
(* background tasks, the roll-up moves what it wrote into the global       *)
(* preset, and the rollback scheduler takes mutations back; their own      *)
(* interleavings are the subject of MutationService, and here each of them *)
(* is one step.                                                            *)
(***************************************************************************)
EXTENDS Bands, Lru

CONSTANTS
    Sessions,       \* session ids
    Categories,     \* categories of the evaluator
    Difficulties,   \* difficulties requests come with
    MaxSessions,    \* MAX_SESSIONS of the ratchet and of decay
    Mutations,      \* identities of learning mutations (rollback ids)
    Deltas,         \* weight changes a proposal may ask for
    StartPresets,   \* persisted presets a process may start from
    MaxRequests     \* bound on the requests of a behaviour

ASSUME RoutingAssumption ==
    /\ Difficulties \subseteq Difficulty
    /\ MaxSessions \in Nat \ {0}
    /\ MaxRequests \in Nat
    /\ Deltas \subseteq Int \ {0}
    /\ StartPresets \subseteq Weight \cup {None}

Cell == Categories \X Difficulties
BaselineOf(cell) == Baseline(cell[2])

VARIABLES
    weights,     \* PresettedDifficultyStore._weights, None when absent
    preset,      \* DifficultyPresetStore._cache
    mutation,    \* RPEMutationService._records, with the roll-up's progress
    unlearned,   \* RPEMutationPipelineWrapper._background_tasks, per cell
    floors,      \* RoutingRatchet._floors: the band it returned last for a cell
    floorOrder,  \* its sessions, least recently used first
    step,        \* RoutingDecay._sessions[s]["step"]
    last,        \* RoutingDecay._sessions[s]["last_used"], 0 when absent
    decayOrder,  \* its sessions, least recently used first
    requests     \* requests so far, for the bound only

learning == <<weights, preset, mutation, unlearned>>
decay == <<step, last, decayOrder, requests>>
ratchet == <<floors, floorOrder>>
vars == <<learning, decay, ratchet>>

MutationRecord == [session : Sessions, cell : Cell, prev : Weight, new : Weight,
                   rolledUp : BOOLEAN, reverted : BOOLEAN]

TypeOK ==
    /\ weights \in [Sessions -> [Cell -> Weight \cup {None}]]
    /\ preset \in [Cell -> Weight \cup {None}]
    /\ mutation \in [Mutations -> MutationRecord \cup {None}]
    /\ unlearned \in [Sessions -> [Cell -> Nat]]
    /\ floors \in [Sessions -> [Cell -> Band \cup {None}]]
    /\ floorOrder \in Seq(Sessions)
    /\ step \in [Sessions -> Nat]
    /\ last \in [Sessions -> [Cell -> Nat]]
    /\ decayOrder \in Seq(Sessions)
    /\ requests \in 0 .. MaxRequests

NoCells(x) == [c \in Cell |-> x]

Init ==
    /\ weights = [s \in Sessions |-> NoCells(None)]
    /\ preset \in [Cell -> StartPresets]
    /\ mutation = [m \in Mutations |-> None]
    /\ unlearned = [s \in Sessions |-> NoCells(0)]
    /\ floors = [s \in Sessions |-> NoCells(None)]
    /\ floorOrder = <<>>
    /\ step = [s \in Sessions |-> 0]
    /\ last = [s \in Sessions |-> NoCells(0)]
    /\ decayOrder = <<>>
    /\ requests = 0

\* read_weight: the session's value, else the global preset, else None.
Read(s, c) == IF weights[s][c] # None THEN weights[s][c] ELSE preset[c]

-----------------------------------------------------------------------------
(***************************************************************************)
(* A routed request of session s for cell c.                               *)
(***************************************************************************)

\* Requests of the session since the cell was last used, both ends excluded.
Idle(s, c) == IF last[s][c] = 0 THEN 0 ELSE step[s] - last[s][c]

Decays(s, c) == Idle(s, c) > 0 /\ Read(s, c) # None

WeightAfterDecay(s, c) ==
    IF Decays(s, c) THEN Decayed(Read(s, c), Idle(s, c)) ELSE Read(s, c)

\* Decay has forgotten the cell, so the ratchet lets its floor go.
Forgets(s, c) == Decays(s, c) /\ WeightAfterDecay(s, c) < DemoteBelow

FloorAfterDecay(s, c) ==
    IF Forgets(s, c) THEN Released(floors[s][c], BaselineOf(c)) ELSE floors[s][c]

Route(s, c) ==
    Ratcheted(Override(BaselineOf(c), WeightAfterDecay(s, c)), FloorAfterDecay(s, c))

\* f with x at the cell c of session s, and with init for the evicted sessions.
Stamp(f, evicted, init, s, c, x) ==
    [t \in Sessions |-> IF t \in evicted THEN init
                        ELSE IF t = s THEN [f[t] EXCEPT ![c] = x] ELSE f[t]]

RecordUse(s, c) ==
    LET evicted == Victims(decayOrder, s, MaxSessions) IN
    /\ step' = [t \in Sessions |-> IF t \in evicted THEN 0
                                   ELSE IF t = s THEN step[t] + 1 ELSE step[t]]
    /\ last' = Stamp(last, evicted, NoCells(0), s, c, step[s] + 1)
    /\ decayOrder' = Admit(decayOrder, s, MaxSessions)

\* A slip: the ratchet keeps one session more than decay does.
StampFloorOneMore(s, c) ==
    LET evicted == Victims(floorOrder, s, MaxSessions + 1) IN
    /\ floors' = Stamp(floors, evicted, NoCells(None), s, c, Route(s, c))
    /\ floorOrder' = Admit(floorOrder, s, MaxSessions + 1)

StampFloor(s, c) ==
    LET evicted == Victims(floorOrder, s, MaxSessions) IN
    /\ floors' = Stamp(floors, evicted, NoCells(None), s, c, Route(s, c))
    /\ floorOrder' = Admit(floorOrder, s, MaxSessions)

Request(s, c) ==
    /\ requests < MaxRequests
    /\ requests' = requests + 1
    /\ weights' = IF Decays(s, c) /\ WeightAfterDecay(s, c) < Read(s, c)
                  THEN [weights EXCEPT ![s][c] = WeightAfterDecay(s, c)]
                  ELSE weights
    /\ RecordUse(s, c)
    /\ StampFloor(s, c)
    /\ unlearned' = [unlearned EXCEPT ![s][c] = @ + 1]
    /\ UNCHANGED <<preset, mutation>>

-----------------------------------------------------------------------------
(***************************************************************************)
(* The learner's side.                                                     *)
(***************************************************************************)

\* The background task of an answered request applies its one mutation to the
\* cell; the seed stands for a cell nobody learned.  A task that proposes nothing
\* that qualifies changes no state and is not modelled.
Learn(m, s, c, delta) ==
    LET prev == IF Read(s, c) = None THEN Seed ELSE Read(s, c)
        new == Clamp(prev + delta)
    IN
    /\ mutation[m] = None
    /\ unlearned[s][c] > 0
    /\ unlearned' = [unlearned EXCEPT ![s][c] = @ - 1]
    /\ weights' = [weights EXCEPT ![s][c] = new]
    /\ mutation' = [mutation EXCEPT ![m] =
                      [session |-> s, cell |-> c, prev |-> prev, new |-> new,
                       rolledUp |-> FALSE, reverted |-> FALSE]]
    /\ UNCHANGED <<preset, decay, ratchet>>

\* _safe_roll_up into the preset's cache.
RollUp(m) ==
    /\ mutation[m] # None
    /\ ~ mutation[m].rolledUp
    /\ preset' = [preset EXCEPT ![mutation[m].cell] = Ema(@, mutation[m].new)]
    /\ mutation' = [mutation EXCEPT ![m].rolledUp = TRUE]
    /\ UNCHANGED <<weights, unlearned, decay, ratchet>>

\* rollback of an available record, by hand or by the timeout.
Rollback(m) ==
    /\ mutation[m] # None
    /\ ~ mutation[m].reverted
    /\ weights' = [weights EXCEPT ![mutation[m].session][mutation[m].cell] =
                     mutation[m].prev]
    /\ mutation' = [mutation EXCEPT ![m].reverted = TRUE]
    /\ UNCHANGED <<preset, unlearned, decay, ratchet>>

\* The cell store is an LRU over the cells of all sessions; the sessions not
\* modelled here can push any cell out of it.
EvictCell(s, c) ==
    /\ weights[s][c] # None
    /\ weights' = [weights EXCEPT ![s][c] = None]
    /\ UNCHANGED <<preset, mutation, unlearned, decay, ratchet>>

\* A new process: only the persisted preset comes back (load_all).
Restart ==
    /\ weights' = [s \in Sessions |-> NoCells(None)]
    /\ mutation' = [m \in Mutations |-> None]
    /\ unlearned' = [s \in Sessions |-> NoCells(0)]
    /\ floors' = [s \in Sessions |-> NoCells(None)]
    /\ floorOrder' = <<>>
    /\ step' = [s \in Sessions |-> 0]
    /\ last' = [s \in Sessions |-> NoCells(0)]
    /\ decayOrder' = <<>>
    /\ UNCHANGED <<preset, requests>>

Next ==
    \/ \E s \in Sessions, c \in Cell : Request(s, c) \/ EvictCell(s, c)
    \/ \E m \in Mutations, s \in Sessions, c \in Cell, d \in Deltas : Learn(m, s, c, d)
    \/ \E m \in Mutations : RollUp(m) \/ Rollback(m)
    \/ Restart

Spec == Init /\ [][Next]_vars

-----------------------------------------------------------------------------
(***************************************************************************)
(* Properties.                                                             *)
(***************************************************************************)

Tracked(s) == s \in ToSet(floorOrder)

\* The ratchet and decay keep two LRUs over the sessions, each with its own
\* bound and its own touch.  They hold the same sessions in the same order, and a
\* cell has a floor exactly when decay has stamped its use: a floor that decay
\* does not know could never be released, a stamp without a floor would release
\* nothing.
LrusAgree ==
    /\ decayOrder = floorOrder
    /\ \A s \in Sessions, c \in Cell :
          /\ (last[s][c] # 0) <=> (floors[s][c] # None)
          /\ floors[s][c] # None => Tracked(s)
    /\ \A s \in Sessions : ~ Tracked(s) => step[s] = 0

\* However learning, decay, roll-ups and rollbacks interleave, the ratchet never
\* carries a cell further than one band from what its difficulty asks for, up or
\* down: the override moves one band and nothing accumulates in the floor.
FloorWithinOneBand ==
    \A s \in Sessions, c \in Cell :
        floors[s][c] # None =>
            floors[s][c] \in BaselineOf(c) - 1 .. BaselineOf(c) + 1

\* The band of a cell falls only in a request whose decay step forgot the cell,
\* by one band, and then not below the baseline; neither rollbacks, evictions of
\* the cell nor what other sessions learned can take it down within a session.
FallsOnlyByForgetting ==
    [][\A s \in Sessions, c \in Cell :
          /\ floors[s][c] # None /\ floors'[s][c] # None
          /\ floors'[s][c] < floors[s][c]
          => /\ Forgets(s, c)
             /\ floors'[s][c] = floors[s][c] - 1
             /\ floors'[s][c] >= BaselineOf(c)]_vars

(***************************************************************************)
(* Routing implements SessionFloors.                                       *)
(***************************************************************************)

Promise == INSTANCE SessionFloors
             WITH Cells <- Cell, Base <- BaselineOf, bands <- floors

\* Whatever learning, roll-ups, rollbacks, evictions and restarts do in between, each
\* session sees its cells answered near what their difficulty asks for and no lower
\* than before but by forgetting, and one session's requests never move another's.
ImplementsSessionFloors == Promise!FloorsSpec

(***************************************************************************)
(* What the repository says of routing and the code does not do.           *)
(***************************************************************************)

\* routing_ratchet.py: difficulty 4 and 5 are structurally protected from leaking
\* to a shortcut.
HighDifficultyProtected ==
    \A s \in Sessions, c \in Cell :
        c[2] >= 4 /\ floors[s][c] # None => floors[s][c] = FullPipeline
=============================================================================
