---------------------------- MODULE QueryPipeline ----------------------------
(***************************************************************************)
(* POST /query of one session, from the sanitizer to the answer.           *)
(*                                                                         *)
(* A request gives up the event loop only where it leaves the loop: the    *)
(* caches and the evaluator run in threads, Tier-1.5 and the swarm call    *)
(* the model.  What lies between two of those is one step, all of routing  *)
(* included; the learner, the explores, rollbacks and other requests run   *)
(* in between.  What happens inside a swarm is the subject of Swarm, what  *)
(* the learner computes that of Learning, how idle requests add up that of *)
(* RoutingFloor, and which goal has the focus that of GoalMemory: here     *)
(* each is a choice among what those modules allow.                        *)
(***************************************************************************)
EXTENDS Decisions, Sequences

CONSTANTS
    Requests,       \* slots for requests in flight
    Prompts,        \* prompts, as the loop guard tells them apart
    RateMax,        \* rate_max_requests of Glycine
    LoopThreshold,  \* loop_threshold of Glycine
    Categories,     \* categories that occur
    Difficulties,   \* difficulties that occur
    Evaluations,    \* what the evaluator may answer
    Goals,          \* categories of active goals, None for one without
    Matches,        \* best matches among the active goals
    Weights,        \* learned weights that occur
    Retrievals,     \* sets of similarities that a search may return
    MaxRequests,    \* bound on the requests that reach the caches or the evaluator
    Moving,         \* cells that other sessions and rollbacks change
    MaxChanges      \* bound on the changes of learned cells

ASSUME PipelineAssumption ==
    /\ RateMax \in Nat \ {0} /\ LoopThreshold \in Nat \ {0}
    /\ 2 \in Difficulties /\ Difficulties \subseteq Difficulty
    /\ Evaluations \subseteq [difficulty : Difficulties, category : Categories,
                              confidence : Percent, similarity : -100 .. 100]
    /\ Goals \subseteq Categories \cup {None}
    /\ Matches \subseteq [score : Percent, category : Goals]
    /\ Weights \subseteq Weight
    /\ MaxRequests \in Nat /\ MaxChanges \in Nat
    /\ <<WMin, Seed, DemoteBelow, PromoteAt, WMax>> = <<10, 30, 40, 70, 100>>

Cell == Categories \X Difficulties
BaselineOf(cell) == Baseline(cell[2])

VARIABLES
    recent,    \* Glycine: prompts of the session's admitted requests in the window
    request,   \* each request: where it is, and its TaskContext or its answer
    explore,   \* background explore of each request, None when there is none
    weight,    \* learned cells: the difficulty store over the preset
    floor,     \* the ratchet's floors
    raised,    \* categories the recent counter holds raises of
    jobs,      \* learning tasks in flight per cell
    promoted,  \* history: cells whose weight has been at PromoteAt or above
    requests,  \* requests that reached the caches or the evaluator, for the bound only
    changes    \* changes of cells so far, for the bound only

cells == <<weight, raised, promoted, changes>>
vars == <<recent, request, explore, floor, jobs, requests, cells>>

\* TaskContext, the weight it was routed on, and whether the basal ganglia ran.
Context == [cell : Cell, tier : Tier, ne : BOOLEAN, epinephrine : BOOLEAN,
            seen : Weight, path : Band, advised : BOOLEAN]

\* What a swarm run came to.
Result == [context : BOOLEAN, review : BOOLEAN, sharpened : BOOLEAN, generated : BOOLEAN]

Early == {"sanitizer", "fallback", "thalamus", "exact_cache", "semantic_cache",
          "tier_1_5"}

At(stage) == [at |-> stage]
Failed(stage) == [at |-> "failed", during |-> stage]
Answered(source) == [at |-> "done", source |-> source]
Evaluating(bypass, goal, near) ==
    [at |-> "evaluating", bypass |-> bypass, goal |-> goal, near |-> near]
InSwarm(ctx) == [at |-> "swarm", ctx |-> ctx]
Served(ctx, result) ==
    [at |-> "done", source |-> "swarm", cell |-> ctx.cell, path |-> ctx.path, result |-> result]

Request ==
    {At(stage) : stage \in {"idle", "caches", "tier15"}}
    \cup {Failed(stage) : stage \in {"caches", "tier15"}}
    \cup {Answered(source) : source \in Early}
    \cup [at : {"evaluating"}, bypass : BOOLEAN, goal : Goals \cup {None}, near : BOOLEAN]
    \cup [at : {"swarm"}, ctx : Context]
    \cup [at : {"done"}, source : {"swarm"}, cell : Cell, path : Band, result : Result]

Repeats(p) == Cardinality({i \in DOMAIN recent : recent[i] = p})

\* With the two limits of Glycine on what a session's window holds.
TypeOK ==
    /\ recent \in Seq(Prompts) /\ Len(recent) <= RateMax
    /\ \A p \in Prompts : Repeats(p) < LoopThreshold
    /\ request \in [Requests -> Request]
    /\ explore \in [Requests -> Context \cup {None}]
    /\ weight \in [Cell -> Weight \cup {None}]
    /\ floor \in [Cell -> Band \cup {None}]
    /\ raised \subseteq Categories
    /\ jobs \in [Cell -> Nat]
    /\ promoted \subseteq Cell
    /\ requests \in 0 .. MaxRequests /\ changes \in 0 .. MaxChanges

Init ==
    /\ recent = <<>>
    /\ request = [r \in Requests |-> At("idle")]
    /\ explore = [r \in Requests |-> None]
    /\ weight = [c \in Cell |-> None]
    /\ floor = [c \in Cell |-> None]
    /\ raised = {}
    /\ jobs = [c \in Cell |-> 0]
    /\ promoted = {}
    /\ requests = 0 /\ changes = 0

Goto(r, x) == request' = [request EXCEPT ![r] = x]

-----------------------------------------------------------------------------
(***************************************************************************)
(* The way in.                                                             *)
(***************************************************************************)

\* A slip: a limit is only noticed once it is passed.
AdmitsOneMore(p) == Len(recent) <= RateMax /\ Repeats(p) + 1 <= LoopThreshold

\* Glycine.check_pre_flight for a prompt within the token budget; only what
\* passes is recorded.
Admits(p) == Len(recent) < RateMax /\ Repeats(p) + 1 < LoopThreshold

\* The sanitizer found something, or the prompt is over Glycine's token budget.
Blocked(r) == \E source \in {"sanitizer", "fallback"} : Goto(r, Answered(source))

\* A detector that fails lets the request take the normal way.
Continues(r) == \E goal \in Goals : Goto(r, Evaluating(TRUE, goal, FALSE))

\* A greeting or a sum is answered at once.
ShortCircuits(r) == Goto(r, Answered("thalamus"))

\* Past Glycine: a continuation of the goal in focus goes around the caches.
Enter(r) ==
    \/ ShortCircuits(r) /\ UNCHANGED requests
    \/ /\ requests < MaxRequests /\ requests' = requests + 1
       /\ Continues(r) \/ Goto(r, At("caches"))

Arrive(r) ==
    /\ request[r].at = "idle"
    /\ \/ Blocked(r) /\ UNCHANGED <<recent, requests>>
       \/ \E p \in Prompts :
             IF Admits(p) THEN Enter(r) /\ recent' = Append(recent, p)
             ELSE Goto(r, Answered("fallback")) /\ UNCHANGED <<recent, requests>>
    /\ UNCHANGED <<explore, floor, jobs, cells>>

\* The oldest admission leaves the sliding window.
Expire ==
    /\ recent # <<>>
    /\ recent' = Tail(recent)
    /\ UNCHANGED <<request, explore, floor, jobs, requests, cells>>

\* Exact cache, then the nearest semantic entry, kept for Tier-1.5 when it is
\* near but no hit.  A read of either that raises is caught nowhere: the client gets
\* an internal server error.
LookUp(r) ==
    /\ request[r].at = "caches"
    /\ \/ \E source \in {"exact_cache", "semantic_cache"} : Goto(r, Answered(source))
       \/ Goto(r, Failed("caches"))
       \/ \E near \in BOOLEAN : Goto(r, Evaluating(FALSE, None, near))
    /\ UNCHANGED <<recent, explore, floor, jobs, requests, cells>>

-----------------------------------------------------------------------------
(***************************************************************************)
(* From the evaluator's answer to the start of the swarm.                  *)
(***************************************************************************)

\* The cell of a request; a continuation is at least of difficulty 2 and takes
\* the category of its goal.
CellOf(q, ev) ==
    IF ~ q.bypass THEN <<ev.category, ev.difficulty>>
    ELSE <<IF q.goal = None THEN ev.category ELSE q.goal,
           IF ev.difficulty < 2 THEN 2 ELSE ev.difficulty>>

\* should_activate, never asked on the way around the caches.
Augments(q, ev) == ~ q.bypass /\ ev.difficulty = 1 /\ q.near

\* What the decay step may leave of a cell, given idle requests since its use.
Forgotten(w) ==
    IF w = None THEN {None} ELSE {x \in Weights : x < w \/ (x = w /\ w = WMin)}

FloorAfterDecay(c, idle, left) ==
    IF idle /\ left # None /\ left < DemoteBelow
    THEN Released(floor[c], BaselineOf(c)) ELSE floor[c]

RoutedBand(c, idle, left) ==
    Ratcheted(Override(BaselineOf(c), left), FloorAfterDecay(c, idle, left))

\* A slip: the new path without its label.
StampedPathOnly(ctx, band) == [ctx EXCEPT !.path = band]

\* The final path with the limit-break it stands for (8.1, 8.2, explores).
Stamped(ctx, band) ==
    [ctx EXCEPT !.path = band, !.epinephrine = band = FullPipeline]

\* The snapshot's weight of the request's category: the seed that nothing writes,
\* unless the gate lays a learned cell over it.
Overlaid(left) == IF left = None THEN Seed ELSE left

\* LC's context with the snapshot's weight of the cell; epinephrine's own signal
\* stands until the path is stamped.
Allocated(c, ev, left) ==
    [cell |-> c, tier |-> SelectedTier(ev.difficulty), ne |-> NeBoost(ev.difficulty),
     epinephrine |-> Epinephrine(ev.category, ev.similarity),
     seen |-> Overlaid(left),
     path |-> BaselineOf(c), advised |-> FALSE]

\* The PFC run of the routes sees the goals, which may have gone since a continuation
\* was detected; it may fail, which is no decision.
Hints(q, ev) ==
    {None} \cup {InferHint(cue, top, m, ev) :
                     cue \in IF q.bypass THEN {"continuation"} ELSE Cues,
                     top \in Goals \cup {NoGoal}, m \in Matches}

\* A slip: what the basal ganglia promotes becomes the session's floor.
FloorAfterPromotionKept(band, promotion) == promotion

\* The ratchet stamps the floor before the basal ganglia runs.
FloorAfterPromotion(band, promotion) == band

Advice(ctx, hint) ==
    LevelBand(SelectedLevel(
        Demand(ctx.cell[2], ctx.ne,
               IF ctx.cell[1] \in raised THEN RpeShift(1, 0) ELSE RpeShift(0, 0),
               ctx.seen, hint)))

\* _basal_ganglia_apply: promote only.
Advised(ctx, hint) ==
    LET known == [ctx EXCEPT !.advised = TRUE] IN
    IF Advice(ctx, hint) > ctx.path THEN Stamped(known, Advice(ctx, hint)) ELSE known

\* Snapshot, decay, gate, skip router, override, ratchet, PFC and basal ganglia;
\* the last two may fail, which changes nothing.
Route(r, c, ev, idle, left, hint, advise) ==
    LET band == RoutedBand(c, idle, left)
        ctx == Stamped(Allocated(c, ev, left), band)
        final == IF advise THEN Advised(ctx, hint) ELSE ctx
    IN  /\ Goto(r, InSwarm(final))
        /\ floor' = [floor EXCEPT ![c] = FloorAfterPromotion(band, final.path)]
        /\ weight' = [weight EXCEPT ![c] = left]

Evaluate(r) ==
    /\ request[r].at = "evaluating"
    /\ \E ev \in Evaluations :
          LET q == request[r]
              c == CellOf(q, ev)
          IN  IF Augments(q, ev) THEN Goto(r, At("tier15")) /\ UNCHANGED <<floor, weight>>
              ELSE \E idle \in BOOLEAN :
                      \E left \in IF idle THEN Forgotten(weight[c]) ELSE {weight[c]} :
                         \E hint \in Hints(q, ev), advise \in BOOLEAN :
                            Route(r, c, ev, idle, left, hint, advise)
    /\ UNCHANGED <<recent, explore, jobs, requests, raised, promoted, changes>>

\* A slip: the error of a failing model escapes.
AugmentEscapes(r) ==
    /\ request[r].at = "tier15"
    /\ Goto(r, Answered("tier_1_5")) \/ Goto(r, Failed("tier15"))
    /\ UNCHANGED <<recent, explore, floor, jobs, requests, cells>>

\* Tier-1.5 falls back to the cached answer when the model fails.
Augment(r) ==
    /\ request[r].at = "tier15"
    /\ Goto(r, Answered("tier_1_5"))
    /\ UNCHANGED <<recent, explore, floor, jobs, requests, cells>>

-----------------------------------------------------------------------------
(***************************************************************************)
(* The swarm, the crossroad, and what is learned behind the answer.        *)
(***************************************************************************)

\* The swarm asks PFC without goals: only creation, category and nothing remain.
SwarmHints(c) ==
    LET ev == Evaluation(c[2], c[1], 50, 0)
    IN  {None} \cup {InferHint(cue, NoGoal, Match(0, None), ev) : cue \in Cues}

\* Intents the planner may come to; its failure plans for the general one.
PlannedIntents(c) ==
    {General} \cup {PlanIntent(hint, keyword, c[1]) :
                       hint \in SwarmHints(c), keyword \in Intents}

\* Retrieval is skipped on the lightweight band, and may fail or time out.
ContextOutcomes(ctx) ==
    IF ctx.path = Lightweight THEN {FALSE}
    ELSE {FALSE} \cup {Unmasked(s) # {} : s \in Retrievals}

\* A run's context, plan and text; the generator turns a failure into a result.
Results(ctx) ==
    {[context |-> context, review |-> context /\ RequiresContext(intent),
      sharpened |-> generated /\ NeApplied(ctx.ne, ctx.tier), generated |-> generated] :
        context \in ContextOutcomes(ctx), intent \in PlannedIntents(ctx.cell),
        generated \in BOOLEAN}

Learns(c) == jobs' = [jobs EXCEPT ![c] = @ + 1]

\* A slip: only the limit-break closes the crossroad.
ExploresUnderNe(ctx) ==
    IF ctx.epinephrine \/ ExploreBand(ctx.path, weight[ctx.cell]) = None
    THEN {None}
    ELSE {None, Stamped(ctx, ExploreBand(ctx.path, weight[ctx.cell]))}

\* maybe_explore reads the cell again, after the swarm; a roll decides, at odds
\* that an uncertain PFC raises.
Explores(ctx) ==
    IF ctx.epinephrine \/ ctx.ne \/ ExploreBand(ctx.path, weight[ctx.cell]) = None
    THEN {None}
    ELSE {None, Stamped(ctx, ExploreBand(ctx.path, weight[ctx.cell]))}

\* The swarm's result is the answer; behind it go the learning task and, at a
\* crossroad, the explore.
Respond(r) ==
    /\ request[r].at = "swarm"
    /\ LET ctx == request[r].ctx IN
          /\ \E result \in Results(ctx) : Goto(r, Served(ctx, result))
          /\ \E x \in Explores(ctx) : explore' = [explore EXCEPT ![r] = x]
          /\ Learns(ctx.cell)
    /\ UNCHANGED <<recent, floor, requests, cells>>

\* The explore's swarm ends; its own trace lets it teach the same cell again.
EndExplore(r) ==
    /\ explore[r] # None
    /\ Learns(explore[r].cell)
    /\ explore' = [explore EXCEPT ![r] = None]
    /\ UNCHANGED <<recent, request, floor, requests, cells>>

\* What a learning task may make of a weight: production only raises.
Raises(w) == {x \in Weights : x > (IF w = None THEN Seed ELSE w)}

SetWeight(c, w) ==
    /\ changes < MaxChanges /\ changes' = changes + 1
    /\ weight' = [weight EXCEPT ![c] = w]
    /\ promoted' = promoted \cup {x \in {c} : w # None /\ w >= PromoteAt}

Teach(c) ==
    /\ jobs[c] > 0
    /\ jobs' = [jobs EXCEPT ![c] = @ - 1]
    /\ \/ UNCHANGED cells
       \/ \E w \in Raises(weight[c]) : SetWeight(c, w) /\ raised' = raised \cup {c[1]}
    /\ UNCHANGED <<recent, request, explore, floor, requests>>

\* A rollback, an eviction, or another session's roll-up into the preset.
Change(c) ==
    /\ c \in Moving /\ \E w \in Weights \cup {None} : SetWeight(c, w)
    /\ UNCHANGED <<recent, request, explore, floor, jobs, requests, raised>>

\* The session leaves the ratchet's LRU.
ForgetFloors ==
    /\ floor' = [c \in Cell |-> None]
    /\ UNCHANGED <<recent, request, explore, jobs, requests, cells>>

\* The client's next request; one explore per slot keeps the model small.
Recycle(r) ==
    /\ request[r].at \in {"done", "failed"} /\ explore[r] = None
    /\ Goto(r, At("idle"))
    /\ UNCHANGED <<recent, explore, floor, jobs, requests, cells>>

Advance(r) == LookUp(r) \/ Evaluate(r) \/ Augment(r) \/ Respond(r)

Next ==
    \/ \E r \in Requests : Arrive(r) \/ Advance(r) \/ EndExplore(r) \/ Recycle(r)
    \/ \E c \in Cell : Teach(c) \/ Change(c)
    \/ Expire \/ ForgetFloors

Spec == Init /\ [][Next]_vars

\* The event loop runs what is ready, and the model's calls have timeouts.
Fairness == \A r \in Requests : WF_vars(Advance(r)) /\ WF_vars(EndExplore(r))

FairSpec == Spec /\ Fairness

-----------------------------------------------------------------------------
(***************************************************************************)
(* Properties.                                                             *)
(***************************************************************************)
Routed(r) == request[r].at = "swarm"

\* What the basal ganglia promotes and what a crossroad explores is for one
\* request: a floor above the baseline is always one that a learned weight
\* earned, however advice, explores, learning and rollbacks interleave.
FloorIsEarned ==
    \A c \in Cell : floor[c] # None /\ floor[c] > BaselineOf(c) => c \in promoted

\* Override, floor, advice and explore each move a band, on weights read at
\* different times; together they never run a request more than one band from
\* what its difficulty asks for, below it only on a weight under the demotion
\* threshold, and an explore next to the band that answered.
RunsWithinReach ==
    \A r \in Requests :
        /\ Routed(r) =>
              LET ctx == request[r].ctx IN
              /\ ctx.path \in BaselineOf(ctx.cell) - 1 .. BaselineOf(ctx.cell) + 1
              /\ ctx.path < BaselineOf(ctx.cell) => ctx.seen < DemoteBelow
        /\ explore[r] # None =>
              /\ explore[r].path \in {request[r].path - 1, request[r].path + 1}
              /\ explore[r].cell[2] < 4

\* A hard request that the basal ganglia has seen runs the full pipeline, also
\* when a forgotten weight demoted it, a floor below the baseline kept it there,
\* the cell is known to succeed and PFC is certain.
HardRunsFull ==
    \A r \in Requests :
        Routed(r) /\ request[r].ctx.advised /\ request[r].ctx.cell[2] >= 4
        => request[r].ctx.path = FullPipeline

\* The labels a run carries agree with the run, whichever step moved it last:
\* limit-break with the full pipeline, sharpened parameters with every text
\* generated for a hard request, context only above the lightweight band.
LabelsFitTheRun ==
    \A r \in Requests :
        /\ Routed(r) => (request[r].ctx.epinephrine <=> request[r].ctx.path = FullPipeline)
        /\ explore[r] # None => (explore[r].epinephrine <=> explore[r].path = FullPipeline)
        /\ request[r].at = "done" /\ request[r].source = "swarm" =>
              /\ request[r].result.generated =>
                    (request[r].result.sharpened <=> request[r].cell[2] >= 4)
              /\ request[r].result.context => request[r].path > Lightweight

\* Every request that entered is answered, though the detector, PFC, the basal
\* ganglia, retrieval, the planner and the model may fail each time; only a read of
\* the caches that fails costs the client its answer.
RequestsAnswered ==
    \A r \in Requests :
        request[r].at \in {"caches", "evaluating", "tier15", "swarm"}
            ~> request[r].at = "done" \/ request[r] = Failed("caches")

(***************************************************************************)
(* Routing inside the pipeline implements SessionFloors, as it does alone  *)
(* in RoutingFloor: here with the requests, the advice and the explores    *)
(* around it, and for the one session that is modelled.                    *)
(***************************************************************************)

Promise == INSTANCE SessionFloors
             WITH Sessions <- {"session"}, Cells <- Cell,
                  Base <- BaselineOf,
                  bands <- [s \in {"session"} |-> floor]

\* Neither what the basal ganglia promotes nor an explore nor a learner between two
\* requests makes a session's band jump, or fall but by forgetting.
ImplementsSessionFloors == Promise!FloorsSpec
=============================================================================
