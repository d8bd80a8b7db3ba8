----------------------------- MODULE Decisions ------------------------------
(***************************************************************************)
(* What the organs of the query pipeline decide, as operators: the         *)
(* evaluator's difficulty, the locus coeruleus, the prefrontal ladder, the *)
(* basal ganglia, the crossroad, and the agents of the swarm.  Weights,    *)
(* confidences, similarities and scores are in hundredths.                 *)
(***************************************************************************)
EXTENDS Bands, FiniteSets

CONSTANT NoGoal     \* no active goal, as opposed to a goal without category

General == "general"
Category == {"coding", "game_design", "math_logic", "writing",
             "data_analysis", "system_design", General}
HighCompute == {"coding", "math_logic", "data_analysis", "system_design"}

Percent == 0 .. 100
Capped(x) == IF x > 100 THEN 100 ELSE x

-----------------------------------------------------------------------------
(***************************************************************************)
(* Semantic evaluator: keywords and length give the difficulty, a centroid *)
(* the category; without centroids, the keyword classifier answers.        *)
(***************************************************************************)
ComputeDifficulty(hard, medium, words) ==
    IF hard THEN IF words > 60 THEN 5 ELSE 4
    ELSE IF medium \/ words > 20
         THEN IF (medium /\ words > 20) \/ words > 40 THEN 3 ELSE 2
         ELSE 1

\* The nearest centroid's cosine mapped from [-1, 1] to [0, 1].
CentroidConfidence(similarity) ==
    IF similarity < -100 THEN 0 ELSE Capped((similarity + 100) \div 2)

KeywordConfidence(category, hits) ==
    IF category = General \/ hits = 0 THEN 30 ELSE Capped(20 * hits)

Evaluation(difficulty, category, confidence, similarity) ==
    [difficulty |-> difficulty, category |-> category,
     confidence |-> confidence, similarity |-> similarity]

-----------------------------------------------------------------------------
(***************************************************************************)
(* Locus coeruleus and neuromodulators.                                    *)
(***************************************************************************)
LIGHTWEIGHT_TIER == 1
STANDARD_TIER == 3
Tier == 1 .. 5

SelectedTier(difficulty) == difficulty
NeBoost(difficulty) == difficulty >= 4

\* Epinephrine.decide: a signal only; routing stamps its own at 8.1.
Epinephrine(category, similarity) == category \in HighCompute /\ similarity >= 40

\* Norepinephrine.modify_params: the parameters are sharpened, or a mismatch.
NeApplied(ne, tier) == ne /\ tier >= STANDARD_TIER

-----------------------------------------------------------------------------
(***************************************************************************)
(* Prefrontal cortex: the ladder of cues.  The caller passes no goal       *)
(* embeddings, so the embedding step never matches.                        *)
(***************************************************************************)
Cues == {"completion", "goal_creation", "continuation", "correction", "bootstrap", "none"}

Hint(cue, confidence, category) ==
    [cue |-> cue, confidence |-> confidence, category |-> category]

Match(score, category) == [score |-> score, category |-> category]

\* Step 5 on: the best-scored active goal, else the category, else nothing.
WeakHint(top, match, ev) ==
    IF top # NoGoal /\ match.score >= 50
    THEN Hint("active_match", Capped(match.score), match.category)
    ELSE IF ev.category # General
         THEN Hint("category_fallback", Capped((ev.confidence * 6) \div 10), None)
         ELSE Hint("general_fallback", 10, None)

InferHint(cue, top, match, ev) ==
    CASE cue = "completion" /\ top # NoGoal   -> Hint("completion", 90, top)
      [] cue = "goal_creation" ->
            Hint("goal_creation", 80, IF ev.category = General THEN None ELSE ev.category)
      [] cue = "continuation" /\ top # NoGoal -> Hint("continuation", 85, top)
      [] cue = "correction" /\ top # NoGoal   -> Hint("correction", 75, top)
      [] OTHER -> WeakHint(top, match, ev)

-----------------------------------------------------------------------------
(***************************************************************************)
(* Basal ganglia: the compute a request demands, in 1/3000, and the        *)
(* candidate whose level is nearest.  A missing signal shifts nothing.     *)
(***************************************************************************)
Levels == {0, 1000, 2000, 3000}

Anchor(difficulty) == 1000 * (Baseline(difficulty) + 1)

RpeShift(positive, negative) ==
    IF positive + negative = 0 THEN 0
    ELSE (900 * negative) \div (positive + negative) - 450

\* A slip: norepinephrine adds nothing.
DemandWithoutNe(difficulty, ne, rpe, seen, hint) ==
    LET d == Anchor(difficulty) + rpe + (450 - 9 * seen)
             + (IF hint = None THEN 0 ELSE 300 - 6 * hint.confidence)
    IN  IF d < 0 THEN 0 ELSE IF d > 3000 THEN 3000 ELSE d

Demand(difficulty, ne, rpe, seen, hint) ==
    LET d == Anchor(difficulty)
             + (IF ne THEN 600 ELSE 0)
             + rpe
             + (450 - 9 * seen)
             + (IF hint = None THEN 0 ELSE 300 - 6 * hint.confidence)
    IN  IF d < 0 THEN 0 ELSE IF d > 3000 THEN 3000 ELSE d

Distance(a, b) == IF a < b THEN b - a ELSE a - b

\* The heaviest of the nearest levels, as the tie-breaker orders them.
SelectedLevel(demand) ==
    CHOOSE l \in Levels : \A k \in Levels :
        \/ Distance(l, demand) < Distance(k, demand)
        \/ Distance(l, demand) = Distance(k, demand) /\ k <= l

\* route_path_for_candidate_type: the two lightest candidates share a band.
LevelBand(level) ==
    CASE level = 3000 -> FullPipeline
      [] level = 2000 -> Standard
      [] OTHER        -> Lightweight

-----------------------------------------------------------------------------
(***************************************************************************)
(* Crossroad: the band next to the one taken when the weight is within     *)
(* 0.05 of a threshold.                                                    *)
(***************************************************************************)
ExploreBand(path, weight) ==
    CASE weight = None -> None
      [] weight # None /\ Distance(weight, DemoteBelow) <= 5 /\ path > Lightweight -> path - 1
      [] weight # None /\ Distance(weight, PromoteAt) <= 5 /\ path < FullPipeline  -> path + 1
      [] OTHER -> None

-----------------------------------------------------------------------------
(***************************************************************************)
(* Context agent: what GABA lets pass.                                     *)
(***************************************************************************)
\* GABAFilter.filter: the similar ones, and never nothing of something.
Unmasked(similarities) ==
    LET near == {s \in similarities : s >= 50}
    IN  IF near = {} THEN {s \in similarities : \A t \in similarities : t <= s} ELSE near

-----------------------------------------------------------------------------
(***************************************************************************)
(* Planner.                                                                *)
(***************************************************************************)
Intents == {"code_generation", "analysis", "creative", "answer", General}

IntentOf(category) ==
    CASE category = "coding" -> "code_generation"
      [] category \in {"math_logic", "data_analysis", "system_design"} -> "analysis"
      [] category \in {"writing", "game_design"} -> "creative"
      [] OTHER -> General

\* keyword: what the patterns find in the query, General for nothing.
ClassifyIntent(keyword, category) ==
    IF keyword # General THEN keyword
    ELSE IF category = None THEN General ELSE IntentOf(category)

StrongCues == {"completion", "goal_creation", "continuation", "correction"}

\* The cue matrix: a strong cue, or a sure match, plans by its goal.
PlansByGoal(hint) ==
    hint # None /\ \/ hint.cue \in StrongCues
                   \/ hint.cue = "active_match" /\ hint.confidence >= 70

PlanIntent(hint, keyword, category) ==
    CASE PlansByGoal(hint) /\ hint.cue = "completion" -> "answer"
      [] PlansByGoal(hint) /\ hint.cue # "completion" /\ hint.category # None ->
            IntentOf(hint.category)
      [] OTHER -> ClassifyIntent(keyword, category)

RequiresContext(intent) == intent \in {"code_generation", "analysis"}
=============================================================================
