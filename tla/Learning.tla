------------------------------ MODULE Learning ------------------------------
(***************************************************************************)
(* From the outcome of a swarm run to a learned weight: the wrapper builds *)
(* a snapshot and owes the request a background task, the task asks every  *)
(* reward source, turns each decision into a proposal, lets the service    *)
(* pick at most one, and tallies the sign of what was applied.             *)
(*                                                                         *)
(* Rewards, confidences and similarities are in thousandths, weights in    *)
(* ten-thousandths.  What the service does under its locks is              *)
(* MutationService; here an application is one step that succeeds or gives *)
(* up.                                                                     *)
(***************************************************************************)
EXTENDS Bands, Sequences

CONSTANTS
    Tasks,          \* background tasks that may be pending at once
    Cells,          \* (session, category, difficulty)
    Keys, KeyOf,    \* (session, category), and the key of each cell
    StartWeights,   \* what a cell may hold when the process starts
    Similarities,   \* mean similarities, in thousandths, of unmasked context
    Window,         \* signs the recent counter keeps
    MaxRuns         \* bound on the runs of a behaviour

ASSUME LearningAssumption ==
    /\ KeyOf \in [Cells -> Keys]
    /\ StartWeights \subseteq Weight \cup {None}
    /\ Similarities \subseteq 1 .. 1000
    /\ Window \in Nat \ {0}
    /\ MaxRuns \in Nat
    /\ <<WMin, Seed, DemoteBelow, PromoteAt, WMax>> = <<1000, 3000, 4000, 7000, 10000>>

VARIABLES
    task,     \* RPEMutationPipelineWrapper._background_tasks, None when free
    weight,   \* what read_weight answers for a cell
    signs,    \* RPERecentCounter._signs
    start,    \* history: the weights the process started with
    raises,   \* history: mutations that raised a cell
    tallied,  \* history: raises the counter has been told of
    runs      \* runs so far, for the bound

vars == <<task, weight, signs, start, raises, tallied, runs>>

-----------------------------------------------------------------------------
(***************************************************************************)
(* What the wrapper sees of a run.  The planner and the generator report a *)
(* failure of theirs as "fallback"; only the context agent can report an   *)
(* error or a timeout.                                                     *)
(***************************************************************************)
ContextStatus == {"ok", "empty", "error", "timeout", "skipped"}
AgentStatus == {"ok", "fallback"}

SwarmResult == [context : ContextStatus, planner : AgentStatus,
                finish : {"stop", "length", "error"},
                similarity : Similarities \cup {0}, fast : BOOLEAN]

\* Only a context that was used has a similarity; 0 is also what the source makes of
\* a negative one, and the mean when everything was masked and the gaba fallback used.
Possible(result) == result.similarity > 0 => result.context = "ok"

GeneratorStatus(result) == IF result.finish = "stop" THEN "ok" ELSE "fallback"

Statuses(result) == {result.context, result.planner, GeneratorStatus(result)}

Snapshot == [error_occurred : BOOLEAN, timeout_occurred : BOOLEAN,
             planner_ok : BOOLEAN, generator_ok : BOOLEAN, context_ok : BOOLEAN,
             clean_finish : BOOLEAN, similarity : Similarities \cup {0},
             fast : BOOLEAN]

\* response_source is always "swarm"; a finish of "stop" has no fallback candidate.
BuildSnapshot(result) ==
    [error_occurred |-> "error" \in Statuses(result),
     timeout_occurred |-> "timeout" \in Statuses(result),
     planner_ok |-> result.planner = "ok",
     generator_ok |-> GeneratorStatus(result) = "ok",
     context_ok |-> result.context = "ok",
     clean_finish |-> result.finish = "stop",
     similarity |-> result.similarity,
     fast |-> result.fast]

-----------------------------------------------------------------------------
(***************************************************************************)
(* The reward sources.                                                     *)
(***************************************************************************)
If(condition, points) == IF condition THEN points ELSE 0
Least(a, b) == IF a <= b THEN a ELSE b
AllOk(s) == s.planner_ok /\ s.generator_ok /\ s.context_ok

Actual(s) ==
      500 - If(s.error_occurred, 250) - If(s.timeout_occurred, 250)
    + If(s.fast /\ ~ s.error_occurred /\ ~ s.timeout_occurred, 50)
    + If(s.planner_ok, 40) + If(s.generator_ok, 40) + If(s.context_ok, 40)
    + If(s.clean_finish, 80) + Least(160, (8 * s.similarity) \div 25)

Confidence(s) ==
    Least(600, 300 + If(AllOk(s), 150) + If(s.clean_finish, 100)
                   + If(s.similarity >= 300, 50)
                   + If(s.error_occurred, 150) + If(s.timeout_occurred, 150))

\* The mock expects .5 and sees .5; the heuristic's baseline is .5 too.
Rewards(s) ==
    {[source |-> "mock", prediction_error |-> 0, confidence |-> 1000],
     [source |-> "heuristic", prediction_error |-> Actual(s) - 500,
      confidence |-> Confidence(s)]}

-----------------------------------------------------------------------------
(***************************************************************************)
(* Proposals and the choice among them.                                    *)
(***************************************************************************)
MaxDelta == 1000
ToDelta(x) == IF x > MaxDelta THEN MaxDelta ELSE IF x < -MaxDelta THEN -MaxDelta ELSE x

\* A slip: the proposal leaves out the confidence.
ProposalUnweighted(r) ==
    [source |-> r.source, prediction_error |-> r.prediction_error,
     confidence |-> r.confidence,
     delta |-> ToDelta((r.prediction_error * MaxDelta) \div 1000)]

Proposal(r) ==
    [source |-> r.source, prediction_error |-> r.prediction_error,
     confidence |-> r.confidence,
     delta |-> ToDelta((r.prediction_error * r.confidence * MaxDelta) \div 1000000)]

Qualifies(p) ==
    /\ p.confidence >= 500
    /\ p.prediction_error >= 300 \/ p.prediction_error <= -300
    /\ p.delta # 0

\* The most confident wins, so of two the mock; confidences are never equal.
MostConfident(proposals) ==
    {p \in proposals : \A q \in proposals : q.confidence <= p.confidence}

\* A slip: the winner is selected before the thresholds are asked.
WinnerFirst(s) ==
    {p \in MostConfident({Proposal(r) : r \in Rewards(s)}) : Qualifies(p)}

\* At most one proposal for the cell survives.
Winner(s) == MostConfident({p \in {Proposal(r) : r \in Rewards(s)} : Qualifies(p)})

-----------------------------------------------------------------------------
Task == [cell : Cells, seen : Snapshot, stage : {"finished", "learned", "gave_up"},
         delta : -MaxDelta .. MaxDelta]

TypeOK ==
    /\ task \in [Tasks -> Task \cup {None}]
    /\ {weight, start} \subseteq [Cells -> Weight \cup {None}]
    /\ signs \in [Keys -> Seq({1, -1})]
    /\ raises \in [Cells -> Nat]
    /\ tallied \in [Keys -> Nat]
    /\ runs \in 0 .. MaxRuns

Init ==
    /\ task = [t \in Tasks |-> None]
    /\ weight \in [Cells -> StartWeights]
    /\ start = weight
    /\ signs = [k \in Keys |-> <<>>]
    /\ raises = [c \in Cells |-> 0]
    /\ tallied = [k \in Keys |-> 0]
    /\ runs = 0

\* execute: the swarm answered, and the background task is created.
Finish(t) ==
    /\ task[t] = None
    /\ runs < MaxRuns
    /\ \E c \in Cells, result \in {r \in SwarmResult : Possible(r)} :
        task' = [task EXCEPT ![t] = [cell |-> c, seen |-> BuildSnapshot(result),
                                     stage |-> "finished", delta |-> 0]]
    /\ runs' = runs + 1
    /\ UNCHANGED <<weight, signs, start, raises, tallied>>

Seeded(w) == IF w = None THEN Seed ELSE w
Current(c) == Seeded(weight[c])

\* learn: no proposal qualifies, and nothing is written.
LearnNothing(t) ==
    /\ task[t] # None /\ task[t].stage = "finished"
    /\ Winner(task[t].seen) = {}
    /\ task' = [task EXCEPT ![t].stage = "learned"]
    /\ UNCHANGED <<weight, signs, start, raises, tallied, runs>>

\* learn: the winner is applied to the cell as it is under the lock.
Learn(t) ==
    /\ task[t] # None /\ task[t].stage = "finished"
    /\ \E p \in Winner(task[t].seen) :
        LET c == task[t].cell
            applied == Clamp(Current(c) + p.delta) - Current(c)
        IN /\ weight' = [weight EXCEPT ![c] = Current(c) + applied]
           /\ task' = [task EXCEPT ![t].stage = "learned", ![t].delta = applied]
           /\ raises' = [raises EXCEPT ![c] = IF applied > 0 THEN @ + 1 ELSE @]
    /\ UNCHANGED <<signs, start, tallied, runs>>

\* The lock is not had in time, or the store fails: no record is returned.
GiveUp(t) ==
    /\ task[t] # None /\ task[t].stage = "finished"
    /\ Winner(task[t].seen) # {}
    /\ task' = [task EXCEPT ![t].stage = "gave_up"]
    /\ UNCHANGED <<weight, signs, start, raises, tallied, runs>>

\* A slip: a mutation that moved nothing is counted as a failure.
RecordedWithZero(seq, delta) ==
    LET longer == Append(seq, IF delta > 0 THEN 1 ELSE -1)
    IN IF Len(longer) > Window THEN Tail(longer) ELSE longer

\* RPERecentCounter.record: zero is ignored, and the oldest sign falls out.
Recorded(seq, delta) ==
    LET longer == Append(seq, IF delta > 0 THEN 1 ELSE -1)
    IN IF delta = 0 THEN seq ELSE IF Len(longer) > Window THEN Tail(longer) ELSE longer

Tally(t) ==
    /\ task[t] # None /\ task[t].stage \in {"learned", "gave_up"}
    /\ LET k == KeyOf[task[t].cell]
       IN /\ signs' = [signs EXCEPT ![k] = Recorded(@, task[t].delta)]
          /\ tallied' = [tallied EXCEPT ![k] = @ + If(task[t].delta > 0, 1)]
    /\ task' = [task EXCEPT ![t] = None]
    /\ UNCHANGED <<weight, start, raises, runs>>

Idle == (\A t \in Tasks : task[t] = None) /\ runs = MaxRuns /\ UNCHANGED vars

Next ==
    \/ \E t \in Tasks : Finish(t) \/ LearnNothing(t) \/ Learn(t) \/ GiveUp(t) \/ Tally(t)
    \/ Idle

Spec == Init /\ [][Next]_vars

-----------------------------------------------------------------------------
(***************************************************************************)
(* Properties.                                                             *)
(***************************************************************************)
Learned(t) == task[t] # None /\ task[t].stage = "learned"

\* What the reward policy calls a well-grounded clean success.
Grounded(s) ==
    /\ AllOk(s) /\ s.clean_finish
    /\ ~ s.error_occurred /\ ~ s.timeout_occurred
    /\ s.similarity >= (IF s.fast THEN 157 ELSE 313)

\* A cell is raised exactly by a well-grounded clean success, unless it is at the
\* ceiling: the confident mock never shadows the heuristic, and no partial or
\* failed run counts as a success.
LearnsExactlyFromSuccess ==
    \A t \in Tasks : Learned(t) =>
        /\ task[t].delta > 0 => Grounded(task[t].seen)
        /\ Grounded(task[t].seen) => task[t].delta > 0 \/ weight[task[t].cell] = WMax

\* A band is earned: learning takes a cell no higher than .0246 for each raise, so
\* from the seed at least five leave the demoting zone and seventeen promote.
EarnsItsBand ==
    \A c \in Cells : Current(c) <= Seeded(start[c]) + 246 * raises[c]

\* What QueryPipeline counts on from a learning task, and what FailuresDemote says the
\* documents deny: a cell that it moves it raises, by at most .0246, above the seed
\* when nothing was learned, whatever other tasks did to the cell since the run.
OnlyRaises ==
    [][\A c \in Cells :
          weight'[c] # weight[c] =>
              Current(c) < weight'[c] /\ weight'[c] <= Current(c) + 246]_vars

\* The successes that the recent counter tells the advisor of are the raises it was
\* told of, up to the window.  That it tells of nothing else rests on failures not
\* lowering a cell, which documents deny: see FailuresDemote.
CounterCountsRaises ==
    \A k \in Keys :
        /\ Len(signs[k]) = Least(Window, tallied[k])
        /\ \A i \in DOMAIN signs[k] : signs[k][i] = 1

(***************************************************************************)
(* What the repository says of learning and the wrapper's runs never do.   *)
(***************************************************************************)

\* Nothing of the run worked, and the context agent reported why.
ClearFailure(s) ==
    /\ s.error_occurred \/ s.timeout_occurred
    /\ ~ s.planner_ok /\ ~ s.generator_ok

\* test_rpe_sources.py: "a clear failure now corroborates confidence past the gate";
\* OVERTURE_VERSION_HISTORY.md: only failing cells demote, down to the floor.  A task
\* that learned from a clear failure has lowered its cell, or the cell is at the floor.
FailuresDemote ==
    \A t \in Tasks :
        Learned(t) /\ ClearFailure(task[t].seen) =>
            task[t].delta < 0 \/ Current(task[t].cell) = WMin
=============================================================================
