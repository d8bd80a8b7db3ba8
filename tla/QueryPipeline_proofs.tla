------------------------ MODULE QueryPipeline_proofs ------------------------
(***************************************************************************)
(* Proofs about QueryPipeline for every set of requests, prompts, cells,   *)
(* evaluations, goals and weights: types and the limits of the loop guard, *)
(* that floors are earned, that no request runs far from its baseline,     *)
(* that an advised hard request runs the full pipeline, and what the       *)
(* labels of a run mean.                                                   *)
(***************************************************************************)
EXTENDS QueryPipeline, SequenceTheorems, FiniteSetTheorems, TLAPS

\* The ratchet answers the higher of the band and the floor.
LEMMA RatchetedBand ==
    ASSUME NEW band \in Band, NEW low \in Band \cup {None}
    PROVE  /\ Ratcheted(band, low) \in Band
           /\ low = None => Ratcheted(band, low) = band
           /\ low # None => /\ Ratcheted(band, low) >= low
                              /\ Ratcheted(band, low) >= band
                              /\ Ratcheted(band, low) \in {band, low}
  BY NoneAssumption
     DEF Ratcheted, BandIndex, Band, Lightweight, Standard, FullPipeline

\* The release takes one band away and stops at the baseline.
LEMMA ReleasedBand ==
    ASSUME NEW low \in Band \cup {None}, NEW base \in Band
    PROVE  /\ Released(low, base) \in Band \cup {None}
           /\ Released(low, base) = None <=> low = None
           /\ low # None => /\ Released(low, base) >= base
                              /\ Released(low, base) >= low - 1
                              /\ Released(low, base) \in {base, low - 1}
  BY NoneAssumption DEF Released, Band, Lightweight, Standard, FullPipeline

-----------------------------------------------------------------------------
(***************************************************************************)
(* What the organs answer.                                                 *)
(***************************************************************************)
LEMMA Scale ==
    /\ WMin = 10 /\ Seed = 30 /\ DemoteBelow = 40 /\ PromoteAt = 70 /\ WMax = 100
    /\ \A w : w \in Weight <=> w \in Int /\ 10 <= w /\ w <= 100
<1>1. WMin = 10 /\ Seed = 30 /\ DemoteBelow = 40 /\ PromoteAt = 70 /\ WMax = 100
  BY PipelineAssumption
<1>2. \A w : w \in Weight <=> w \in Int /\ WMin <= w /\ w <= WMax
  BY WeightAssumption DEF Weight
<1>. QED  BY <1>1, <1>2

\* The level that is selected, for a demand in the range of the levels.
LEMMA NearestLevel ==
    ASSUME NEW d \in Int, 0 <= d, d <= 3000
    PROVE  /\ d >= 2500 => LevelBand(SelectedLevel(d)) = FullPipeline
           /\ d < 2500 => LevelBand(SelectedLevel(d)) < FullPipeline
           /\ LevelBand(SelectedLevel(d)) \in Band
<1>. DEFINE Near(l) == \A k \in Levels :
                \/ Distance(l, d) < Distance(k, d)
                \/ Distance(l, d) = Distance(k, d) /\ k <= l
<1>1. \A l \in Levels : Distance(l, d) = IF l < d THEN d - l ELSE l - d
  BY DEF Distance
<1>2. \E l \in Levels : Near(l)
  <2>1. CASE d < 500
    <3>1. Near(0)
      BY <1>1, <2>1 DEF Levels
    <3>. QED  BY <3>1 DEF Levels
  <2>2. CASE d >= 500 /\ d < 1500
    <3>1. Near(1000)
      BY <1>1, <2>2 DEF Levels
    <3>. QED  BY <3>1 DEF Levels
  <2>3. CASE d >= 1500 /\ d < 2500
    <3>1. Near(2000)
      BY <1>1, <2>3 DEF Levels
    <3>. QED  BY <3>1 DEF Levels
  <2>4. CASE d >= 2500
    <3>1. Near(3000)
      BY <1>1, <2>4 DEF Levels
    <3>. QED  BY <3>1 DEF Levels
  <2>. QED  BY <2>1, <2>2, <2>3, <2>4
<1>3. SelectedLevel(d) = CHOOSE l \in Levels : Near(l)
  BY DEF SelectedLevel
<1>. DEFINE chosen == SelectedLevel(d)
<1>4. chosen \in Levels /\ Near(chosen)
  BY <1>2, <1>3
<1>. HIDE DEF chosen
<1>5. d >= 2500 <=> chosen = 3000
  BY <1>1, <1>4 DEF Levels
<1>6. /\ chosen = 3000 => LevelBand(chosen) = FullPipeline
      /\ chosen # 3000 => LevelBand(chosen) \in {Lightweight, Standard}
  BY <1>4 DEF LevelBand, Levels
<1>. QED
  BY <1>5, <1>6 DEF chosen, Band, Lightweight, Standard, FullPipeline

\* A hint of PFC has a confidence, in hundredths.
HintOK(hint) == hint = None \/ (hint # None /\ hint.confidence \in Percent)

LEMMA HintConfidence ==
    ASSUME NEW cue, NEW top, NEW m \in Matches, NEW ev \in Evaluations
    PROVE  InferHint(cue, top, m, ev).confidence \in Percent
<1>1. m.score \in Percent /\ ev.confidence \in Percent
  BY PipelineAssumption
<1>2. (ev.confidence * 6) \div 10 \in Int /\ (ev.confidence * 6) \div 10 >= 0
  BY <1>1 DEF Percent
<1>3. Capped(m.score) \in Percent /\ Capped((ev.confidence * 6) \div 10) \in Percent
  BY <1>1, <1>2 DEF Capped, Percent
<1>4. WeakHint(top, m, ev).confidence \in Percent
  BY <1>3 DEF WeakHint, Hint, Percent
<1>. QED  BY <1>4 DEF InferHint, Hint, Percent

\* The demand of a hard request that was demoted is next to the full pipeline,
\* and that of a trivial one never is (_basal_ganglia_apply).
LEMMA DemandBounds ==
    ASSUME NEW difficulty \in Difficulty, NEW ne \in BOOLEAN, NEW rpe \in {0, -450},
           NEW seen \in Weight, NEW hint, HintOK(hint)
    PROVE  LET d == Demand(difficulty, ne, rpe, seen, hint) IN
           /\ d \in Int /\ 0 <= d /\ d <= 3000
           /\ difficulty >= 4 /\ ne /\ seen < 40 => d >= 2500
           /\ difficulty = 1 /\ ~ ne => d < 2500
<1>. DEFINE certain == IF hint = None THEN 0 ELSE 300 - 6 * hint.confidence
            anchor == Anchor(difficulty)
            boost == IF ne THEN 600 ELSE 0
            sum == anchor + boost + rpe + (450 - 9 * seen) + certain
<1>1. certain \in Int /\ -300 <= certain /\ certain <= 300
  <2>1. CASE hint = None
    BY <2>1
  <2>2. CASE hint # None
    <3>. DEFINE x == hint.confidence
    <3>1. x \in Int /\ 0 <= x /\ x <= 100
      <4>1. x \in 0 .. 100
        BY <2>2 DEF HintOK, Percent
      <4>. HIDE DEF x
      <4>. QED  BY <4>1
    <3>2. certain = 300 - 6 * x
      BY <2>2
    <3>. HIDE DEF x, certain
    <3>. QED  BY <3>1, <3>2
  <2>. QED  BY <2>1, <2>2
<1>2. /\ anchor \in {1000, 2000, 3000}
      /\ difficulty >= 4 => anchor = 3000
      /\ difficulty = 1 => anchor = 1000
  BY DEF Anchor, Baseline, Lightweight, Standard, FullPipeline, Difficulty
<1>3. boost \in {0, 600} /\ (ne <=> boost = 600)
  OBVIOUS
<1>4. seen \in Int /\ 10 <= seen /\ seen <= 100
  BY Scale
<1>5. Demand(difficulty, ne, rpe, seen, hint)
        = IF sum < 0 THEN 0 ELSE IF sum > 3000 THEN 3000 ELSE sum
  BY DEF Demand
<1>. DEFINE d == Demand(difficulty, ne, rpe, seen, hint)
<1>. HIDE DEF certain, anchor, boost, d
<1>6. sum \in Int
  BY <1>1, <1>2, <1>3, <1>4
<1>7. difficulty >= 4 /\ ne /\ seen < 40 => sum >= 2500
  BY <1>1, <1>2, <1>3, <1>4
<1>8. difficulty = 1 /\ ~ ne => sum < 2500
  BY <1>1, <1>2, <1>3, <1>4
<1>. HIDE DEF sum
<1>9. /\ d \in Int /\ 0 <= d /\ d <= 3000
      /\ sum >= 2500 => d >= 2500
      /\ sum < 2500 => d < 2500
  BY <1>5, <1>6 DEF d
<1>. QED  BY <1>7, <1>8, <1>9 DEF d

-----------------------------------------------------------------------------
(***************************************************************************)
(* Requests and contexts.                                                  *)
(***************************************************************************)

\* What a request is, by where it is.
LEMMA RequestKinds ==
    /\ \A stage \in {"idle", "caches", "tier15"} :
          At(stage) \in Request /\ At(stage).at = stage
    /\ Failed("caches") \in Request /\ Failed("caches").at = "failed"
    /\ \A source \in Early :
          /\ Answered(source) \in Request
          /\ Answered(source).at = "done" /\ Answered(source).source # "swarm"
    /\ \A bypass \in BOOLEAN, goal \in Goals \cup {None}, near \in BOOLEAN :
          /\ Evaluating(bypass, goal, near) \in Request
          /\ Evaluating(bypass, goal, near).at = "evaluating"
    /\ \A ctx \in Context : InSwarm(ctx) \in Request
    /\ \A ctx \in Context, result \in Result : Served(ctx, result) \in Request
  BY DEF Request, At, Failed, Answered, Early, Evaluating, InSwarm, Served, Context

LEMMA RequestParts ==
    ASSUME NEW x \in Request
    PROVE  /\ x.at \in {"idle", "caches", "evaluating", "tier15", "swarm", "done",
                      "failed"}
           /\ x.at = "evaluating" => x.bypass \in BOOLEAN /\ x.goal \in Goals \cup {None}
           /\ x.at = "swarm" => x.ctx \in Context
<1>1. CASE \E stage \in {"idle", "caches", "tier15"} : x = At(stage)
  BY <1>1 DEF At
<1>2. CASE \E source \in Early : x = Answered(source)
  BY <1>2 DEF Answered
<1>3. CASE x \in [at : {"evaluating"}, bypass : BOOLEAN, goal : Goals \cup {None},
                   near : BOOLEAN]
  BY <1>3
<1>4. CASE x \in [at : {"swarm"}, ctx : Context]
  BY <1>4
<1>5. CASE x \in [at : {"done"}, source : {"swarm"}, cell : Cell, path : Band,
                   result : Result]
  BY <1>5
<1>6. CASE \E stage \in {"caches", "tier15"} : x = Failed(stage)
  BY <1>6 DEF Failed
<1>. QED  BY <1>1, <1>2, <1>3, <1>4, <1>5, <1>6 DEF Request

LEMMA CellParts ==
    ASSUME NEW c \in Cell
    PROVE  /\ c[1] \in Categories /\ c[2] \in Difficulty
           /\ BaselineOf(c) \in Band
           /\ c[2] >= 4 <=> BaselineOf(c) = FullPipeline
           /\ c[2] = 1 <=> BaselineOf(c) = Lightweight
<1>1. c[1] \in Categories /\ c[2] \in Difficulty
  BY PipelineAssumption DEF Cell
<1>. QED
  BY <1>1 DEF BaselineOf, Baseline, Band, Lightweight, Standard, FullPipeline, Difficulty

\* The cell a request is routed by, next to the evaluation that allocated it.
LEMMA CellOfRequest ==
    ASSUME NEW q \in Request, q.at = "evaluating", NEW ev \in Evaluations
    PROVE  /\ CellOf(q, ev) \in Cell
           /\ CellOf(q, ev)[2] >= 4 <=> ev.difficulty >= 4
           /\ ev.difficulty \in Difficulty
<1>1. /\ ev.category \in Categories /\ ev.difficulty \in Difficulties
      /\ Difficulties \subseteq Difficulty /\ 2 \in Difficulties
      /\ Goals \subseteq Categories \cup {None}
  BY PipelineAssumption
<1>2. q.bypass \in BOOLEAN /\ q.goal \in Goals \cup {None}
  BY RequestParts
<1>. DEFINE cat == IF ~ q.bypass \/ q.goal = None THEN ev.category ELSE q.goal
            hard == IF q.bypass /\ ev.difficulty < 2 THEN 2 ELSE ev.difficulty
<1>3. CellOf(q, ev) = <<cat, hard>>
  BY <1>2 DEF CellOf
<1>4. cat \in Categories /\ hard \in Difficulties
  BY <1>1, <1>2
<1>5. hard >= 4 <=> ev.difficulty >= 4
  <2>. DEFINE n == ev.difficulty
  <2>1. n \in Int
    <3>1. n \in Difficulty
      BY <1>1
    <3>. HIDE DEF n
    <3>. QED  BY <3>1 DEF Difficulty
  <2>2. hard = n \/ (hard = 2 /\ n < 2)
    OBVIOUS
  <2>. HIDE DEF n, hard
  <2>3. hard >= 4 <=> n >= 4
    BY <2>1, <2>2
  <2>. QED  BY <2>3 DEF n
<1>. HIDE DEF cat, hard
<1>. QED  BY <1>1, <1>3, <1>4, <1>5 DEF Cell

\* What every context that reached a swarm satisfies, and a step does not undo.
Sound(ctx) ==
    /\ ctx.ne <=> ctx.cell[2] >= 4
    /\ ctx.ne => ctx.tier >= STANDARD_TIER
    /\ ~ ctx.ne => ~ NeApplied(ctx.ne, ctx.tier)
    /\ BaselineOf(ctx.cell) - 1 <= ctx.path /\ ctx.path <= BaselineOf(ctx.cell) + 1
    /\ ctx.path < BaselineOf(ctx.cell) => ctx.seen < DemoteBelow
    /\ ctx.advised /\ ctx.cell[2] >= 4 => ctx.path = FullPipeline
    /\ ctx.epinephrine <=> ctx.path = FullPipeline

\* The advice for a sound context, in terms of its difficulty.
LEMMA AdviceBounds ==
    ASSUME NEW ctx \in Context, Sound(ctx), NEW hint, HintOK(hint)
    PROVE  /\ Advice(ctx, hint) \in Band
           /\ ctx.cell[2] >= 4 /\ ctx.seen < DemoteBelow => Advice(ctx, hint) = FullPipeline
           /\ ctx.cell[2] = 1 => Advice(ctx, hint) < FullPipeline
<1>1. /\ ctx.cell \in Cell /\ ctx.ne \in BOOLEAN /\ ctx.seen \in Weight
      /\ ctx.cell[2] \in Difficulty
      /\ ctx.ne <=> ctx.cell[2] >= 4
  BY CellParts DEF Context, Sound
<1>. DEFINE rpe == IF ctx.cell[1] \in raised THEN RpeShift(1, 0) ELSE RpeShift(0, 0)
            d == Demand(ctx.cell[2], ctx.ne, rpe, ctx.seen, hint)
<1>2. rpe \in {0, -450}
  BY DEF RpeShift
<1>3. Advice(ctx, hint) = LevelBand(SelectedLevel(d))
  BY DEF Advice
<1>. HIDE DEF rpe
<1>4. /\ d \in Int /\ 0 <= d /\ d <= 3000
      /\ ctx.cell[2] >= 4 /\ ctx.ne /\ ctx.seen < 40 => d >= 2500
      /\ ctx.cell[2] = 1 /\ ~ ctx.ne => d < 2500
  BY <1>1, <1>2, DemandBounds
<1>. HIDE DEF d
<1>5. /\ d >= 2500 => LevelBand(SelectedLevel(d)) = FullPipeline
      /\ d < 2500 => LevelBand(SelectedLevel(d)) < FullPipeline
      /\ LevelBand(SelectedLevel(d)) \in Band
  BY <1>4, NearestLevel
<1>6. ctx.cell[2] = 1 => ~ ctx.ne
  BY <1>1
<1>. QED  BY <1>1, <1>3, <1>4, <1>5, <1>6, Scale

\* The advice is taken only upwards, and leaves a sound, advised context.
LEMMA AdvisedSound ==
    ASSUME NEW ctx \in Context, Sound(ctx), NEW hint, HintOK(hint)
    PROVE  Advised(ctx, hint) \in Context /\ Sound(Advised(ctx, hint))
<1>. DEFINE a == Advice(ctx, hint)
            base == BaselineOf(ctx.cell)
            new == Advised(ctx, hint)
<1>1. /\ a \in Band
      /\ ctx.cell[2] >= 4 /\ ctx.seen < DemoteBelow => a = FullPipeline
      /\ ctx.cell[2] = 1 => a < FullPipeline
  BY AdviceBounds
<1>2. /\ ctx.cell \in Cell /\ ctx.path \in Band /\ ctx.cell[2] \in Difficulty
      /\ base \in Band
      /\ ctx.cell[2] >= 4 <=> base = FullPipeline
      /\ ctx.cell[2] = 1 <=> base = Lightweight
  BY CellParts DEF Context
<1>3. /\ new.cell = ctx.cell /\ new.ne = ctx.ne /\ new.tier = ctx.tier
      /\ new.seen = ctx.seen /\ new.advised = TRUE
      /\ new.path = IF a > ctx.path THEN a ELSE ctx.path
      /\ new.epinephrine = IF a > ctx.path THEN a = FullPipeline ELSE ctx.epinephrine
      /\ new \in Context
  BY <1>1 DEF Context, Advised, Stamped
<1>. HIDE DEF a, base, new
<1>4. base - 1 <= new.path /\ new.path <= base + 1
  BY <1>1, <1>2, <1>3 DEF Sound, base, Band, Lightweight, Standard, FullPipeline
<1>5. new.path < base => new.seen < DemoteBelow
  BY <1>1, <1>2, <1>3 DEF Sound, base, Band, Lightweight, Standard, FullPipeline
<1>6. new.cell[2] >= 4 => new.path = FullPipeline
  BY <1>1, <1>2, <1>3 DEF Sound, base, Band, Lightweight, Standard, FullPipeline
<1>7. new.epinephrine <=> new.path = FullPipeline
  BY <1>3 DEF Sound
<1>. QED  BY <1>3, <1>4, <1>5, <1>6, <1>7 DEF Sound, base, new

-----------------------------------------------------------------------------
(***************************************************************************)
(* The inductive invariant.                                                *)
(***************************************************************************)

\* A cell at the promotion threshold has a history of it.
HistoryInv ==
    \A c \in Cell : weight[c] # None /\ weight[c] >= PromoteAt => c \in promoted

\* A floor is at most one band above its baseline, and only where it was earned.
FloorInv ==
    \A c \in Cell : floor[c] # None =>
        /\ floor[c] <= BaselineOf(c) + 1
        /\ floor[c] > BaselineOf(c) => c \in promoted

\* What is running is sound, what answered is labelled, and an explore belongs to
\* the answer it runs behind.
Labelled(x) ==
    x.at = "done" /\ x.source = "swarm" =>
        /\ x.result.generated => (x.result.sharpened <=> x.cell[2] >= 4)
        /\ x.result.context => x.path > Lightweight

Behind(e, x) ==
    /\ x.at = "done"
    /\ e.path = x.path - 1 \/ e.path = x.path + 1
    /\ e.cell[2] < 4
    /\ e.epinephrine <=> e.path = FullPipeline

RequestInv ==
    \A r \in Requests :
        /\ request[r].at = "swarm" => Sound(request[r].ctx)
        /\ Labelled(request[r])
        /\ explore[r] # None => Behind(explore[r], request[r])

IInv == TypeOK /\ HistoryInv /\ FloorInv /\ RequestInv

LEMMA InitInv == Init => IInv
<1>. SUFFICES ASSUME Init PROVE IInv
  OBVIOUS
<1>1. \A p \in Prompts : Repeats(p) < LoopThreshold
  <2>1. \A p \in Prompts : {i \in DOMAIN recent : recent[i] = p} = {}
    BY DEF Init
  <2>2. Cardinality({}) = 0 /\ LoopThreshold \in Nat \ {0}
    BY FS_EmptySet, PipelineAssumption
  <2>3. \A p \in Prompts : Repeats(p) = 0
    BY <2>1, <2>2 DEF Repeats
  <2>. QED  BY <2>2, <2>3
<1>2. TypeOK
  BY <1>1, RequestKinds, PipelineAssumption DEF Init, TypeOK
<1>3. RequestInv
  BY RequestKinds DEF Init, RequestInv, Labelled
<1>. QED  BY <1>2, <1>3 DEF Init, IInv, HistoryInv, FloorInv

\* A step that moves one request which has no explore behind it.
LEMMA MoveInv ==
    ASSUME IInv, NEW r \in Requests, NEW x \in Request,
           request' = [request EXCEPT ![r] = x],
           request[r].at # "done",
           x.at = "swarm" => Sound(x.ctx), Labelled(x), UNCHANGED explore
    PROVE  RequestInv' /\ request' \in [Requests -> Request]
<1>1. /\ request \in [Requests -> Request]
      /\ \A s \in Requests : request'[s] = IF s = r THEN x ELSE request[s]
  BY DEF IInv, TypeOK
<1>2. explore[r] = None
  BY DEF IInv, RequestInv, Behind
<1>3. RequestInv'
  <2>. SUFFICES ASSUME NEW s \in Requests
                PROVE  /\ request'[s].at = "swarm" => Sound(request'[s].ctx)
                       /\ Labelled(request'[s])
                       /\ explore'[s] # None => Behind(explore'[s], request'[s])
    BY DEF RequestInv
  <2>1. CASE s = r
    BY <1>1, <1>2, <2>1
  <2>2. CASE s # r
    BY <1>1, <2>2 DEF IInv, RequestInv
  <2>. QED  BY <2>1, <2>2
<1>. QED  BY <1>1, <1>3

\* The window as it was.
LEMMA WindowKept ==
    ASSUME TypeOK, UNCHANGED recent
    PROVE  \A p \in Prompts : Repeats(p)' < LoopThreshold
  BY DEF TypeOK, Repeats

\* Cells and floors as they were.
LEMMA CellsKept ==
    ASSUME IInv, UNCHANGED <<weight, floor, promoted>>
    PROVE  HistoryInv' /\ FloorInv'
  BY DEF IInv, HistoryInv, FloorInv

-----------------------------------------------------------------------------
(***************************************************************************)
(* The way in preserves it.                                                *)
(***************************************************************************)

\* How often a prompt is in a window.
Times(s, p) == Cardinality({i \in DOMAIN s : s[i] = p})

\* An admission adds one to what the window holds of its prompt, and nothing to
\* what it holds of another.
LEMMA AdmissionCounts ==
    ASSUME NEW s \in Seq(Prompts), NEW p \in Prompts, NEW x \in Prompts
    PROVE  /\ Times(s, x) \in Nat
           /\ Times(Append(s, p), x) = Times(s, x) + (IF x = p THEN 1 ELSE 0)
<1>. DEFINE n == Len(s)
            t == Append(s, p)
            old == {i \in DOMAIN s : s[i] = x}
            new == {i \in DOMAIN t : t[i] = x}
<1>1. /\ n \in Nat /\ DOMAIN s = 1 .. n
      /\ DOMAIN t = 1 .. n + 1
      /\ \A i \in 1 .. n : t[i] = s[i]
      /\ t[n + 1] = p
  <2>1. t \in Seq(Prompts) /\ Len(t) = n + 1
    BY AppendProperties
  <2>. QED  BY <2>1, AppendProperties
<1>. HIDE DEF n, t
<1>2. IsFiniteSet(old) /\ Cardinality(old) \in Nat
  <2>1. IsFiniteSet(1 .. n)
    BY <1>1, FS_Interval
  <2>2. old \subseteq 1 .. n
    BY <1>1
  <2>. HIDE DEF old
  <2>3. IsFiniteSet(old)
    BY <2>1, <2>2, FS_Subset
  <2>. QED  BY <2>3, FS_CardinalityType
<1>3. n + 1 \notin old
  BY <1>1
<1>4. new = IF x = p THEN old \cup {n + 1} ELSE old
  BY <1>1
<1>. HIDE DEF old, new
<1>5. Cardinality(new) = Cardinality(old) + (IF x = p THEN 1 ELSE 0)
  <2>1. CASE x = p
    <3>1. Cardinality(old \cup {n + 1}) = Cardinality(old) + 1
      BY <1>2, <1>3, FS_AddElement
    <3>. QED  BY <1>4, <2>1, <3>1
  <2>2. CASE x # p
    BY <1>2, <1>4, <2>2
  <2>. QED  BY <2>1, <2>2
<1>. QED  BY <1>2, <1>5 DEF Times, old, new, t

\* What leaves the window is counted no more, and nothing is counted twice.
LEMMA ExpiryCounts ==
    ASSUME NEW s \in Seq(Prompts), s # <<>>, NEW x \in Prompts
    PROVE  /\ Times(s, x) \in Nat /\ Times(Tail(s), x) \in Nat
           /\ Times(Tail(s), x) <= Times(s, x)
<1>. DEFINE n == Len(s)
            t == Tail(s)
            old == {i \in DOMAIN s : s[i] = x}
            new == {i \in DOMAIN t : t[i] = x}
<1>1. /\ n \in Nat /\ n > 0 /\ DOMAIN s = 1 .. n
      /\ DOMAIN t = 1 .. n - 1
      /\ \A i \in 1 .. n - 1 : t[i] = s[i + 1]
  <2>1. t \in Seq(Prompts) /\ Len(t) = n - 1 /\ \A i \in 1 .. Len(t) : t[i] = s[i + 1]
    BY HeadTailProperties
  <2>2. n \in Nat /\ n > 0
    BY EmptySeq
  <2>. QED  BY <2>1, <2>2
<1>. HIDE DEF n, t
<1>2. IsFiniteSet(old)
  <2>1. IsFiniteSet(1 .. n)
    BY <1>1, FS_Interval
  <2>2. old \subseteq 1 .. n
    BY <1>1
  <2>. HIDE DEF old
  <2>. QED  BY <2>1, <2>2, FS_Subset
<1>3. [i \in new |-> i + 1] \in Injection(new, old)
  <2>. DEFINE f == [i \in new |-> i + 1]
  <2>1. \A i \in new : i \in Int /\ i + 1 \in old
    BY <1>1
  <2>. HIDE DEF new, old
  <2>2. f \in [new -> old]
    BY <2>1
  <2>3. \A i, j \in new : f[i] = f[j] => i = j
    BY <2>1
  <2>. HIDE DEF f
  <2>4. f \in Injection(new, old)
    BY <2>2, <2>3 DEF Injection, IsInjective
  <2>. QED  BY <2>4 DEF f
<1>. HIDE DEF old, new
<1>4. IsFiniteSet(new) /\ Cardinality(new) <= Cardinality(old)
  BY <1>2, <1>3, FS_Injection
<1>5. Cardinality(old) \in Nat /\ Cardinality(new) \in Nat
  BY <1>2, <1>4, FS_CardinalityType
<1>. QED  BY <1>4, <1>5 DEF Times, old, new, t

LEMMA EnterKinds ==
    ASSUME NEW r \in Requests, Enter(r), requests \in 0 .. MaxRequests
    PROVE  /\ \E x \in Request :
                 /\ x.at \in {"done", "caches", "evaluating"} /\ Labelled(x)
                 /\ request' = [request EXCEPT ![r] = x]
           /\ requests' \in 0 .. MaxRequests
<1>0. MaxRequests \in Nat
  BY PipelineAssumption
<1>1. CASE ShortCircuits(r) /\ UNCHANGED requests
  <2>1. "thalamus" \in Early
    BY DEF Early
  <2>2. Answered("thalamus") \in Request /\ Labelled(Answered("thalamus"))
    BY <2>1, RequestKinds DEF Labelled
  <2>. QED  BY <1>1, <2>1, <2>2, RequestKinds DEF ShortCircuits, Goto
<1>2. CASE /\ requests < MaxRequests /\ requests' = requests + 1
           /\ Continues(r) \/ Goto(r, At("caches"))
  <2>1. requests' \in 0 .. MaxRequests
    BY <1>0, <1>2
  <2>2. CASE Continues(r)
    <3>1. PICK goal \in Goals : Goto(r, Evaluating(TRUE, goal, FALSE))
      BY <2>2 DEF Continues
    <3>2. /\ Evaluating(TRUE, goal, FALSE) \in Request
          /\ Evaluating(TRUE, goal, FALSE).at = "evaluating"
      BY RequestKinds
    <3>. QED  BY <2>1, <3>1, <3>2 DEF Goto, Labelled
  <2>3. CASE Goto(r, At("caches"))
    BY <2>1, <2>3, RequestKinds DEF Goto, Labelled
  <2>. QED  BY <1>2, <2>2, <2>3
<1>. QED  BY <1>1, <1>2 DEF Enter

LEMMA ArriveInv == ASSUME IInv, NEW r \in Requests, Arrive(r) PROVE IInv'
<1>1. /\ recent \in Seq(Prompts) /\ Len(recent) <= RateMax
      /\ \A x \in Prompts : Repeats(x) < LoopThreshold
      /\ LoopThreshold \in Nat
      /\ requests \in 0 .. MaxRequests /\ RateMax \in Nat
      /\ request[r].at = "idle"
  BY PipelineAssumption DEF IInv, TypeOK, Arrive
<1>. DEFINE Moved == \E x \in Request :
                /\ x.at \in {"done", "caches", "evaluating"} /\ Labelled(x)
                /\ request' = [request EXCEPT ![r] = x]
            Counted == /\ requests' \in 0 .. MaxRequests
                       /\ recent' \in Seq(Prompts) /\ Len(recent') <= RateMax
                       /\ \A x \in Prompts : Repeats(x)' < LoopThreshold
<1>2. Moved /\ Counted
  <2>1. ASSUME NEW source \in {"sanitizer", "fallback"}, Goto(r, Answered(source)),
               UNCHANGED <<recent, requests>>
        PROVE  Moved /\ Counted
    <3>1. source \in Early
      BY DEF Early
    <3>2. \A x \in Prompts : Repeats(x)' < LoopThreshold
      BY <1>1, <2>1 DEF Repeats
    <3>. QED  BY <1>1, <2>1, <3>1, <3>2, RequestKinds DEF Goto, Labelled
  <2>2. ASSUME NEW p \in Prompts, Admits(p), Enter(r), recent' = Append(recent, p)
        PROVE  Moved /\ Counted
    <3>1. recent' \in Seq(Prompts) /\ Len(recent') = Len(recent) + 1
      BY <1>1, <2>2, AppendProperties
    <3>2. Len(recent) < RateMax /\ Len(recent) \in Nat
      BY <1>1, <2>2 DEF Admits
    <3>3. Len(recent') <= RateMax
      BY <1>1, <3>1, <3>2
    <3>4. ASSUME NEW x \in Prompts  PROVE Repeats(x)' < LoopThreshold
      <4>1. Repeats(x) < LoopThreshold /\ (x = p => Repeats(x) + 1 < LoopThreshold)
        BY <1>1, <2>2 DEF Admits
      <4>2. /\ Repeats(x) \in Nat
            /\ Repeats(x)' = Repeats(x) + (IF x = p THEN 1 ELSE 0)
        <5>1. /\ Times(recent, x) \in Nat
              /\ Times(recent', x) = Times(recent, x) + (IF x = p THEN 1 ELSE 0)
          BY <1>1, <2>2, AdmissionCounts
        <5>. QED  BY <5>1 DEF Repeats, Times
      <4>. QED  BY <1>1, <4>1, <4>2
    <3>. QED  BY <1>1, <2>2, <3>1, <3>3, <3>4, EnterKinds
  <2>. QED  BY <2>1, <2>2 DEF Arrive, Blocked
<1>3. RequestInv' /\ request' \in [Requests -> Request]
  BY <1>1, <1>2, MoveInv DEF Arrive
<1>4. HistoryInv' /\ FloorInv'
  BY CellsKept DEF Arrive, cells
<1>5. TypeOK'
  BY <1>2, <1>3 DEF IInv, TypeOK, Arrive, cells
<1>. QED  BY <1>3, <1>4, <1>5 DEF IInv

LEMMA ExpireInv == ASSUME IInv, Expire PROVE IInv'
<1>1. /\ recent' \in Seq(Prompts) /\ Len(recent') <= RateMax
      /\ \A x \in Prompts : Repeats(x)' < LoopThreshold
  <2>1. /\ recent \in Seq(Prompts) /\ recent # <<>> /\ recent' = Tail(recent)
        /\ Len(recent) <= RateMax /\ RateMax \in Nat /\ LoopThreshold \in Nat
    BY PipelineAssumption DEF IInv, TypeOK, Expire
  <2>2. ASSUME NEW x \in Prompts  PROVE Repeats(x)' < LoopThreshold
    <3>1. Repeats(x) < LoopThreshold
      BY DEF IInv, TypeOK
    <3>2. Repeats(x) \in Nat /\ Repeats(x)' \in Nat /\ Repeats(x)' <= Repeats(x)
      BY <2>1, ExpiryCounts DEF Repeats, Times
    <3>. QED  BY <2>1, <3>1, <3>2
  <2>3. recent' \in Seq(Prompts) /\ Len(recent') <= RateMax
    BY <2>1, HeadTailProperties
  <2>. QED  BY <2>2, <2>3
<1>2. HistoryInv' /\ FloorInv' /\ RequestInv'
  BY CellsKept DEF IInv, RequestInv, Expire, cells
<1>3. TypeOK'
  BY <1>1 DEF IInv, TypeOK, Expire, cells
<1>. QED  BY <1>2, <1>3 DEF IInv

LEMMA LookUpInv == ASSUME IInv, NEW r \in Requests, LookUp(r) PROVE IInv'
<1>. DEFINE Moved == \E x \in Request :
                /\ x.at \in {"done", "failed", "evaluating"} /\ Labelled(x)
                /\ request' = [request EXCEPT ![r] = x]
<1>1. Moved
  <2>1. ASSUME NEW source \in {"exact_cache", "semantic_cache"},
               Goto(r, Answered(source))
        PROVE  Moved
    <3>1. source \in Early
      BY DEF Early
    <3>. QED  BY <2>1, <3>1, RequestKinds DEF Goto, Labelled
  <2>2. ASSUME NEW near \in BOOLEAN, Goto(r, Evaluating(FALSE, None, near))
        PROVE  Moved
    BY <2>2, RequestKinds DEF Goto, Labelled
  <2>3. CASE Goto(r, Failed("caches"))
    BY <2>3, RequestKinds DEF Goto, Labelled
  <2>. QED  BY <2>1, <2>2, <2>3 DEF LookUp
<1>2. RequestInv' /\ request' \in [Requests -> Request]
  BY <1>1, MoveInv DEF LookUp
<1>3. HistoryInv' /\ FloorInv'
  BY CellsKept DEF LookUp, cells
<1>4. TypeOK'
  BY WindowKept, <1>2 DEF IInv, TypeOK, LookUp, cells
<1>. QED  BY <1>2, <1>3, <1>4 DEF IInv

LEMMA AugmentInv == ASSUME IInv, NEW r \in Requests, Augment(r) PROVE IInv'
<1>1. "tier_1_5" \in Early
  BY DEF Early
<1>2. RequestInv' /\ request' \in [Requests -> Request]
  <2>. DEFINE x == Answered("tier_1_5")
  <2>1. x \in Request /\ x.at = "done" /\ x.source # "swarm"
    BY <1>1, RequestKinds
  <2>2. request' = [request EXCEPT ![r] = x] /\ request[r].at # "done" /\ UNCHANGED explore
    BY DEF Augment, Goto
  <2>. HIDE DEF x
  <2>. QED  BY <2>1, <2>2, MoveInv DEF Labelled
<1>3. HistoryInv' /\ FloorInv'
  BY CellsKept DEF Augment, cells
<1>4. TypeOK'
  BY WindowKept, <1>2 DEF IInv, TypeOK, Augment, cells
<1>. QED  BY <1>2, <1>3, <1>4 DEF IInv

-----------------------------------------------------------------------------
(***************************************************************************)
(* Routing preserves it.                                                   *)
(***************************************************************************)

\* The hints of a request that is evaluated.
LEMMA HintsOK ==
    ASSUME NEW q, NEW ev \in Evaluations, NEW hint \in Hints(q, ev)
    PROVE  HintOK(hint)
<1>1. CASE hint = None
  BY <1>1 DEF HintOK
<1>2. CASE hint # None
  <2>1. \E cue, top : \E m \in Matches : hint = InferHint(cue, top, m, ev)
    BY <1>2 DEF Hints
  <2>. QED  BY <1>2, <2>1, HintConfidence DEF HintOK
<1>. QED  BY <1>1, <1>2

\* What decay leaves of a cell: a weight, no heavier than before.
LEMMA LeftOK ==
    ASSUME IInv, NEW c \in Cell, NEW idle \in BOOLEAN,
           NEW left \in IF idle THEN Forgotten(weight[c]) ELSE {weight[c]}
    PROVE  /\ left \in Weight \cup {None}
           /\ left # None /\ left >= PromoteAt => c \in promoted
<1>1. /\ weight[c] \in Weight \cup {None}
      /\ weight[c] # None /\ weight[c] >= PromoteAt => c \in promoted
  BY DEF IInv, TypeOK, HistoryInv
<1>2. CASE left = weight[c]
  BY <1>1, <1>2
<1>3. CASE left # weight[c]
  <2>1. left \in Weights /\ weight[c] # None /\ left < weight[c]
    BY <1>3 DEF Forgotten
  <2>2. left \in Weight /\ weight[c] \in Weight
    BY <1>1, <2>1, PipelineAssumption
  <2>3. left \in Int /\ weight[c] \in Int /\ PromoteAt \in Int
    BY <2>2, Scale
  <2>. QED  BY <1>1, <2>1, <2>2, <2>3
<1>. QED  BY <1>2, <1>3

\* The routed band: next to the baseline, below it only for a light weight, and
\* above it only for a cell that earned it.
LEMMA RoutedBandOK ==
    ASSUME IInv, NEW c \in Cell, NEW idle \in BOOLEAN, NEW left \in Weight \cup {None},
           left # None /\ left >= PromoteAt => c \in promoted
    PROVE  LET band == RoutedBand(c, idle, left)
               base == BaselineOf(c)
           IN  /\ band \in Band
               /\ base - 1 <= band /\ band <= base + 1
               /\ band < base => left # None /\ left < DemoteBelow
               /\ band > base => c \in promoted
<1>. DEFINE base == BaselineOf(c)
            over == Override(base, left)
            kept == FloorAfterDecay(c, idle, left)
            band == Ratcheted(over, kept)
<1>1. base \in Band
  BY CellParts
<1>. HIDE DEF base
<1>2. /\ over \in Band
      /\ base - 1 <= over /\ over <= base + 1
      /\ over < base => left # None /\ left < DemoteBelow
      /\ over > base => left # None /\ left >= PromoteAt
  BY <1>1, Scale, NoneAssumption
     DEF Override, Band, Lightweight, Standard, FullPipeline
<1>3. /\ floor[c] \in Band \cup {None}
      /\ floor[c] # None => /\ floor[c] <= base + 1
                            /\ floor[c] > base => c \in promoted
  BY DEF IInv, TypeOK, FloorInv, base
<1>4. /\ kept \in Band \cup {None}
      /\ kept # None => /\ kept <= base + 1
                        /\ kept > base => c \in promoted
  <2>1. CASE kept = floor[c]
    BY <1>3, <2>1
  <2>2. CASE kept # floor[c]
    <3>1. kept = Released(floor[c], base)
      BY <2>2 DEF FloorAfterDecay, base
    <3>2. /\ kept \in Band \cup {None}
          /\ kept # None => floor[c] # None /\ kept \in {base, floor[c] - 1}
      BY <1>1, <1>3, <3>1, ReleasedBand
    <3>. QED
      BY <1>1, <1>3, <3>2, NoneAssumption DEF Band, Lightweight, Standard, FullPipeline
  <2>. QED  BY <2>1, <2>2
<1>. HIDE DEF over, kept
<1>5. /\ band \in Band
      /\ kept = None => band = over
      /\ kept # None => band >= over /\ band \in {over, kept}
  BY <1>2, <1>4, RatchetedBand
<1>. HIDE DEF band
<1>6. over \in Int /\ base \in Int /\ band \in Int
  BY <1>1, <1>2, <1>5 DEF Band, Lightweight, Standard, FullPipeline
<1>7. /\ base - 1 <= band /\ band <= base + 1
      /\ band < base => left # None /\ left < DemoteBelow
      /\ band > base => c \in promoted
  <2>1. CASE band = over
    BY <1>2, <2>1
  <2>2. CASE band # over
    BY <1>2, <1>4, <1>5, <1>6, <2>2
  <2>. QED  BY <2>1, <2>2
<1>8. band = RoutedBand(c, idle, left)
  BY DEF RoutedBand, band, over, kept, base
<1>. QED  BY <1>5, <1>7, <1>8 DEF base

\* The context routing builds, before the basal ganglia.
LEMMA RoutedSound ==
    ASSUME NEW q \in Request, q.at = "evaluating", NEW ev \in Evaluations,
           NEW left \in Weight \cup {None}, NEW band \in Band,
           BaselineOf(CellOf(q, ev)) - 1 <= band, band <= BaselineOf(CellOf(q, ev)) + 1,
           band < BaselineOf(CellOf(q, ev)) => left # None /\ left < DemoteBelow
    PROVE  LET ctx == Stamped(Allocated(CellOf(q, ev), ev, left), band) IN
           /\ ctx \in Context /\ Sound(ctx)
           /\ ctx.cell = CellOf(q, ev) /\ ctx.path = band
<1>. DEFINE c == CellOf(q, ev)
            ctx == Stamped(Allocated(c, ev, left), band)
<1>1. /\ c \in Cell /\ ev.difficulty \in Difficulty
      /\ c[2] >= 4 <=> ev.difficulty >= 4
  BY CellOfRequest
<1>. HIDE DEF c
<1>2. /\ ctx.cell = c /\ ctx.tier = ev.difficulty /\ ctx.path = band
      /\ ctx.ne <=> ev.difficulty >= 4
      /\ ctx.seen = Overlaid(left)
      /\ ctx.epinephrine <=> band = FullPipeline
      /\ ctx.advised = FALSE
  BY DEF Stamped, Allocated, SelectedTier, NeBoost
<1>3. ctx \in Context
  <2>1. ev.difficulty \in Tier
    BY <1>1 DEF Difficulty, Tier
  <2>2. Seed \in Weight
    BY Scale
  <2>3. NeBoost(ev.difficulty) \in BOOLEAN /\ BaselineOf(c) \in Band
    BY <1>1, CellParts DEF NeBoost
  <2>4. Overlaid(left) \in Weight
    BY <2>2 DEF Overlaid
  <2>. QED  BY <1>1, <2>1, <2>3, <2>4 DEF Context, Stamped, Allocated, SelectedTier
<1>. HIDE DEF ctx
<1>4. ctx.ne => ctx.tier >= STANDARD_TIER
  BY <1>1, <1>2 DEF Difficulty, STANDARD_TIER
<1>5. Sound(ctx)
  BY <1>1, <1>2, <1>4 DEF Sound, NeApplied, Overlaid, c
<1>. QED  BY <1>2, <1>3, <1>5 DEF ctx, c

LEMMA EvaluateInv == ASSUME IInv, NEW r \in Requests, Evaluate(r) PROVE IInv'
<1>. DEFINE q == request[r]
<1>1. q \in Request /\ q.at = "evaluating"
  BY DEF IInv, TypeOK, Evaluate
<1>2. UNCHANGED <<recent, explore, jobs, requests, raised, promoted, changes>>
  BY DEF Evaluate
<1>3. PICK ev \in Evaluations :
        \/ Goto(r, At("tier15")) /\ UNCHANGED <<floor, weight>>
        \/ \E idle \in BOOLEAN :
              \E left \in IF idle THEN Forgotten(weight[CellOf(q, ev)])
                          ELSE {weight[CellOf(q, ev)]} :
                 \E hint \in Hints(q, ev), advise \in BOOLEAN :
                    Route(r, CellOf(q, ev), ev, idle, left, hint, advise)
  BY DEF Evaluate
<1>. DEFINE c == CellOf(q, ev)
<1>4. CASE Goto(r, At("tier15")) /\ UNCHANGED <<floor, weight>>
  <2>1. At("tier15") \in Request /\ At("tier15").at = "tier15"
    BY RequestKinds
  <2>2. RequestInv' /\ request' \in [Requests -> Request]
    BY <1>1, <1>2, <1>4, <2>1, MoveInv DEF Goto, Labelled
  <2>3. HistoryInv' /\ FloorInv'
    BY <1>2, <1>4, CellsKept
  <2>4. TypeOK'
    BY WindowKept, <1>2, <1>4, <2>2 DEF IInv, TypeOK
  <2>. QED  BY <2>2, <2>3, <2>4 DEF IInv
<1>5. ASSUME NEW idle \in BOOLEAN,
             NEW left \in IF idle THEN Forgotten(weight[c]) ELSE {weight[c]},
             NEW hint \in Hints(q, ev), NEW advise \in BOOLEAN,
             Route(r, c, ev, idle, left, hint, advise)
      PROVE  IInv'
  <2>. DEFINE band == RoutedBand(c, idle, left)
              base == BaselineOf(c)
              ctx == Stamped(Allocated(c, ev, left), band)
              final == IF advise THEN Advised(ctx, hint) ELSE ctx
  <2>1. c \in Cell
    BY <1>1, CellOfRequest
  <2>2. /\ left \in Weight \cup {None}
        /\ left # None /\ left >= PromoteAt => c \in promoted
    BY <1>5, <2>1, LeftOK
  <2>3. /\ band \in Band
        /\ base - 1 <= band /\ band <= base + 1
        /\ band < base => left # None /\ left < DemoteBelow
        /\ band > base => c \in promoted
    BY <2>1, <2>2, RoutedBandOK
  <2>4. ctx \in Context /\ Sound(ctx)
    <3>. HIDE DEF band, q
    <3>. QED  BY <1>1, <2>2, <2>3, RoutedSound
  <2>5. /\ request' = [request EXCEPT ![r] = InSwarm(final)]
        /\ floor' = [floor EXCEPT ![c] = band]
        /\ weight' = [weight EXCEPT ![c] = left]
    BY <1>5 DEF Route, Goto, FloorAfterPromotion
  <2>. HIDE DEF ctx, c, q, band
  <2>6. final \in Context /\ Sound(final)
    BY <2>4, HintsOK, AdvisedSound
  <2>. HIDE DEF final
  <2>7. RequestInv' /\ request' \in [Requests -> Request]
    <3>1. /\ InSwarm(final) \in Request /\ InSwarm(final).at = "swarm"
          /\ InSwarm(final).ctx = final
      BY <2>6, RequestKinds DEF InSwarm
    <3>. QED  BY <1>1, <1>2, <2>5, <2>6, <3>1, MoveInv DEF q, Labelled
  <2>8. HistoryInv'
    BY <1>2, <2>1, <2>2, <2>5 DEF IInv, TypeOK, HistoryInv
  <2>9. FloorInv'
    BY <1>2, <2>1, <2>3, <2>5 DEF IInv, TypeOK, FloorInv
  <2>10. TypeOK'
    BY WindowKept, <1>2, <2>1, <2>2, <2>3, <2>5, <2>7 DEF IInv, TypeOK
  <2>. QED  BY <2>7, <2>8, <2>9, <2>10 DEF IInv
<1>. QED  BY <1>3, <1>4, <1>5

-----------------------------------------------------------------------------
(***************************************************************************)
(* The answer and what follows it preserve it.                             *)
(***************************************************************************)

\* A run's result says truly whether its parameters were sharpened.
LEMMA ResultsOK ==
    ASSUME NEW ctx \in Context, Sound(ctx), NEW result \in Results(ctx)
    PROVE  Served(ctx, result) \in Request /\ Labelled(Served(ctx, result))
<1>1. PICK context \in ContextOutcomes(ctx), intent \in PlannedIntents(ctx.cell),
           generated \in BOOLEAN :
        result = [context |-> context, review |-> context /\ RequiresContext(intent),
                  sharpened |-> generated /\ NeApplied(ctx.ne, ctx.tier),
                  generated |-> generated]
  BY DEF Results
<1>2. /\ context \in BOOLEAN
      /\ context => ctx.path # Lightweight
  BY DEF ContextOutcomes
<1>4. /\ ctx.path \in Band /\ ctx.cell \in Cell /\ ctx.ne \in BOOLEAN
      /\ NeApplied(ctx.ne, ctx.tier) <=> ctx.cell[2] >= 4
  BY DEF Context, Sound, NeApplied
<1>5. result \in Result
  BY <1>1, <1>2 DEF Result, NeApplied, RequiresContext
<1>6. Served(ctx, result) \in Request
  BY <1>5, RequestKinds
<1>7. result.generated => (result.sharpened <=> ctx.cell[2] >= 4)
  BY <1>1, <1>4
<1>8. result.context => ctx.path > Lightweight
  BY <1>1, <1>2, <1>4 DEF Band, Lightweight, Standard, FullPipeline
<1>. QED  BY <1>6, <1>7, <1>8 DEF Labelled, Served

\* An explore is the run one band away.
LEMMA ExploresOK ==
    ASSUME NEW ctx \in Context, Sound(ctx), NEW result, NEW x \in Explores(ctx)
    PROVE  /\ x \in Context \cup {None}
           /\ x # None => Behind(x, Served(ctx, result))
<1>. SUFFICES ASSUME x # None
              PROVE  x \in Context /\ Behind(x, Served(ctx, result))
  BY DEF Explores
<1>. DEFINE band == ExploreBand(ctx.path, weight[ctx.cell])
<1>1. /\ band # None /\ ~ ctx.ne /\ x = Stamped(ctx, band)
  BY DEF Explores
<1>2. ctx.path \in Band /\ ctx.cell \in Cell /\ ctx.cell[2] \in Difficulty
  BY CellParts DEF Context
<1>3. /\ band = ctx.path - 1 \/ band = ctx.path + 1
      /\ band \in Band
  BY <1>1, <1>2 DEF ExploreBand, Band, Lightweight, Standard, FullPipeline
<1>. HIDE DEF band
<1>4. ctx.cell[2] < 4
  BY <1>1, <1>2 DEF Sound, Difficulty
<1>5. /\ x \in Context /\ x.path = band /\ x.cell = ctx.cell
      /\ x.epinephrine <=> band = FullPipeline
  BY <1>1, <1>3 DEF Stamped, Context
<1>6. Served(ctx, result).at = "done" /\ Served(ctx, result).path = ctx.path
  BY DEF Served
<1>. QED  BY <1>3, <1>4, <1>5, <1>6 DEF Behind

\* One more learning task for a cell.
LEMMA LearnsOK ==
    ASSUME TypeOK, NEW c \in Cell, Learns(c)
    PROVE  jobs' \in [Cell -> Nat]
<1>1. jobs \in [Cell -> Nat] /\ jobs' = [jobs EXCEPT ![c] = @ + 1]
  BY DEF TypeOK, Learns
<1>2. \A n \in Nat : n + 1 \in Nat
  OBVIOUS
<1>. QED  BY <1>1, <1>2

LEMMA RespondInv == ASSUME IInv, NEW r \in Requests, Respond(r) PROVE IInv'
<1>. DEFINE ctx == request[r].ctx
<1>1. request[r] \in Request /\ request[r].at = "swarm"
  BY DEF IInv, TypeOK, Respond
<1>2. ctx \in Context /\ Sound(ctx) /\ ctx.cell \in Cell
  BY <1>1, RequestParts DEF IInv, RequestInv, Context
<1>. HIDE DEF ctx
<1>3. PICK result \in Results(ctx) : request' = [request EXCEPT ![r] = Served(ctx, result)]
  BY DEF Respond, Goto, ctx
<1>4. PICK x \in Explores(ctx) : explore' = [explore EXCEPT ![r] = x]
  BY DEF Respond, ctx
<1>5. Served(ctx, result) \in Request /\ Labelled(Served(ctx, result))
  BY <1>2, ResultsOK
<1>6. /\ x \in Context \cup {None}
      /\ x # None => Behind(x, Served(ctx, result))
  BY <1>2, ExploresOK
<1>7. Served(ctx, result).at = "done"
  BY DEF Served
<1>. DEFINE served == Served(ctx, result)
<1>. HIDE DEF served
<1>8. /\ \A s \in Requests : request'[s] = IF s = r THEN served ELSE request[s]
      /\ \A s \in Requests : explore'[s] = IF s = r THEN x ELSE explore[s]
      /\ request' \in [Requests -> Request]
      /\ explore' \in [Requests -> Context \cup {None}]
  BY <1>3, <1>4, <1>5, <1>6 DEF IInv, TypeOK, served
<1>9. RequestInv'
  <2>. SUFFICES ASSUME NEW s \in Requests
                PROVE  /\ request'[s].at = "swarm" => Sound(request'[s].ctx)
                       /\ Labelled(request'[s])
                       /\ explore'[s] # None => Behind(explore'[s], request'[s])
    BY DEF RequestInv
  <2>1. CASE s = r
    BY <1>5, <1>6, <1>7, <1>8, <2>1 DEF served
  <2>2. CASE s # r
    BY <1>8, <2>2 DEF IInv, RequestInv
  <2>. QED  BY <2>1, <2>2
<1>10. jobs' \in [Cell -> Nat]
  BY <1>2, LearnsOK DEF IInv, Respond, ctx
<1>11. HistoryInv' /\ FloorInv'
  BY CellsKept DEF Respond, cells
<1>12. TypeOK'
  BY WindowKept, <1>8, <1>10 DEF IInv, TypeOK, Respond, cells
<1>. QED  BY <1>9, <1>11, <1>12 DEF IInv

LEMMA EndExploreInv == ASSUME IInv, NEW r \in Requests, EndExplore(r) PROVE IInv'
<1>1. explore[r] \in Context /\ explore[r].cell \in Cell
  BY DEF IInv, TypeOK, EndExplore, Context
<1>2. jobs' \in [Cell -> Nat]
  BY <1>1, LearnsOK DEF IInv, EndExplore
<1>3. /\ explore' \in [Requests -> Context \cup {None}]
      /\ \A s \in Requests : explore'[s] = IF s = r THEN None ELSE explore[s]
  BY DEF IInv, TypeOK, EndExplore
<1>4. RequestInv'
  BY <1>3 DEF IInv, RequestInv, EndExplore
<1>5. HistoryInv' /\ FloorInv'
  BY CellsKept DEF EndExplore, cells
<1>6. TypeOK'
  BY WindowKept, <1>2, <1>3 DEF IInv, TypeOK, EndExplore, cells
<1>. QED  BY <1>4, <1>5, <1>6 DEF IInv

\* A cell is set to a weight: its history knows.
LEMMA SetWeightInv ==
    ASSUME IInv, NEW c \in Cell, NEW w \in Weight \cup {None}, SetWeight(c, w),
           UNCHANGED floor
    PROVE  /\ HistoryInv' /\ FloorInv'
           /\ weight' \in [Cell -> Weight \cup {None}] /\ promoted' \subseteq Cell
           /\ changes' \in 0 .. MaxChanges
<1>1. /\ weight' = [weight EXCEPT ![c] = w]
      /\ promoted' = promoted \cup {x \in {c} : w # None /\ w >= PromoteAt}
      /\ changes < MaxChanges /\ changes' = changes + 1
  BY DEF SetWeight
<1>2. weight \in [Cell -> Weight \cup {None}] /\ promoted \subseteq Cell
  BY DEF IInv, TypeOK
<1>3. HistoryInv'
  BY <1>1, <1>2 DEF IInv, HistoryInv
<1>4. FloorInv'
  BY <1>1 DEF IInv, FloorInv
<1>5. changes' \in 0 .. MaxChanges
  <2>1. changes \in 0 .. MaxChanges /\ MaxChanges \in Nat
    BY PipelineAssumption DEF IInv, TypeOK
  <2>. QED  BY <1>1, <2>1
<1>. QED  BY <1>1, <1>2, <1>3, <1>4, <1>5

LEMMA TeachInv == ASSUME IInv, NEW c \in Cell, Teach(c) PROVE IInv'
<1>1. jobs' \in [Cell -> Nat]
  <2>1. /\ jobs \in [Cell -> Nat] /\ jobs[c] > 0
        /\ jobs' = [jobs EXCEPT ![c] = @ - 1]
    BY DEF IInv, TypeOK, Teach
  <2>2. jobs[c] - 1 \in Nat
    BY <2>1
  <2>. QED  BY <2>1, <2>2
<1>2. UNCHANGED <<recent, request, explore, floor, requests>>
  BY DEF Teach
<1>3. RequestInv'
  BY <1>2 DEF IInv, RequestInv
<1>4. CASE UNCHANGED cells
  <2>1. HistoryInv' /\ FloorInv'
    BY <1>2, <1>4, CellsKept DEF cells
  <2>2. TypeOK'
    BY WindowKept, <1>1, <1>2, <1>4 DEF IInv, TypeOK, cells
  <2>. QED  BY <1>3, <2>1, <2>2 DEF IInv
<1>5. CASE \E w \in Raises(weight[c]) : SetWeight(c, w) /\ raised' = raised \cup {c[1]}
  <2>1. PICK w \in Weights : SetWeight(c, w) /\ raised' = raised \cup {c[1]}
    BY <1>5 DEF Raises
  <2>2. w \in Weight
    BY PipelineAssumption
  <2>3. /\ HistoryInv' /\ FloorInv'
        /\ weight' \in [Cell -> Weight \cup {None}] /\ promoted' \subseteq Cell
        /\ changes' \in 0 .. MaxChanges
    BY <1>2, <2>1, <2>2, SetWeightInv
  <2>4. raised' \subseteq Categories
    BY <2>1, CellParts DEF IInv, TypeOK
  <2>5. TypeOK'
    BY WindowKept, <1>1, <1>2, <2>3, <2>4 DEF IInv, TypeOK
  <2>. QED  BY <1>3, <2>3, <2>5 DEF IInv
<1>. QED  BY <1>4, <1>5 DEF Teach

LEMMA ChangeInv == ASSUME IInv, NEW c \in Cell, Change(c) PROVE IInv'
<1>1. PICK w \in Weights \cup {None} : SetWeight(c, w)
  BY DEF Change
<1>2. w \in Weight \cup {None}
  BY PipelineAssumption
<1>3. UNCHANGED <<recent, request, explore, floor, jobs, requests, raised>>
  BY DEF Change
<1>4. /\ HistoryInv' /\ FloorInv'
      /\ weight' \in [Cell -> Weight \cup {None}] /\ promoted' \subseteq Cell
      /\ changes' \in 0 .. MaxChanges
  BY <1>1, <1>2, <1>3, SetWeightInv
<1>5. RequestInv'
  BY <1>3 DEF IInv, RequestInv
<1>6. TypeOK'
  BY WindowKept, <1>3, <1>4 DEF IInv, TypeOK
<1>. QED  BY <1>4, <1>5, <1>6 DEF IInv

LEMMA ForgetFloorsInv == ASSUME IInv, ForgetFloors PROVE IInv'
<1>1. floor' = [c \in Cell |-> None]
  BY DEF ForgetFloors
<1>2. HistoryInv' /\ FloorInv' /\ RequestInv'
  BY <1>1 DEF IInv, HistoryInv, FloorInv, RequestInv, ForgetFloors, cells
<1>3. TypeOK'
  BY WindowKept, <1>1 DEF IInv, TypeOK, ForgetFloors, cells
<1>. QED  BY <1>2, <1>3 DEF IInv

LEMMA RecycleInv == ASSUME IInv, NEW r \in Requests, Recycle(r) PROVE IInv'
<1>1. /\ request \in [Requests -> Request] /\ explore[r] = None
      /\ request' = [request EXCEPT ![r] = At("idle")]
      /\ At("idle") \in Request /\ At("idle").at = "idle"
  BY RequestKinds DEF IInv, TypeOK, Recycle, Goto
<1>2. \A s \in Requests : request'[s] = IF s = r THEN At("idle") ELSE request[s]
  BY <1>1
<1>3. RequestInv'
  BY <1>1, <1>2 DEF IInv, RequestInv, Labelled, Recycle
<1>4. HistoryInv' /\ FloorInv'
  BY CellsKept DEF Recycle, cells
<1>5. TypeOK'
  BY WindowKept, <1>1 DEF IInv, TypeOK, Recycle, cells
<1>. QED  BY <1>3, <1>4, <1>5 DEF IInv

-----------------------------------------------------------------------------
(***************************************************************************)
(* The theorems.                                                           *)
(***************************************************************************)

\* What every step of the pipeline preserves.
THEOREM Invariance == Spec => []IInv
<1>1. Init => IInv
  BY InitInv
<1>2. IInv /\ [Next]_vars => IInv'
  <2>. SUFFICES ASSUME IInv, [Next]_vars  PROVE IInv'
    OBVIOUS
  <2>1. CASE UNCHANGED vars
    BY <2>1, WindowKept DEF vars, cells, IInv, TypeOK, HistoryInv, FloorInv, RequestInv
  <2>2. ASSUME NEW r \in Requests,
               Arrive(r) \/ Advance(r) \/ EndExplore(r) \/ Recycle(r)
        PROVE  IInv'
    BY <2>2, ArriveInv, LookUpInv, EvaluateInv, AugmentInv, RespondInv, EndExploreInv,
       RecycleInv DEF Advance
  <2>3. ASSUME NEW c \in Cell, Teach(c) \/ Change(c)
        PROVE  IInv'
    BY <2>3, TeachInv, ChangeInv
  <2>4. CASE Expire \/ ForgetFloors
    BY <2>4, ExpireInv, ForgetFloorsInv
  <2>. QED  BY <2>1, <2>2, <2>3, <2>4 DEF Next
<1>. QED  BY <1>1, <1>2, PTL DEF Spec

\* Requests, contexts, floors, weights and the session's window keep their types.
THEOREM TypeCorrect == Spec => []TypeOK
<1>1. IInv => TypeOK
  BY DEF IInv
<1>. QED  BY <1>1, Invariance, PTL

\* No advice and no explore ever becomes a session's floor (routes.py 8.2).
THEOREM FloorsAreEarned == Spec => []FloorIsEarned
<1>1. IInv => FloorIsEarned
  BY DEF IInv, FloorInv, FloorIsEarned
<1>. QED  BY <1>1, Invariance, PTL

\* Override, floor, advice and explore add up to one band.
THEOREM RunsStayWithinReach == Spec => []RunsWithinReach
<1>1. IInv => RunsWithinReach
  <2>. SUFFICES ASSUME IInv, NEW r \in Requests
                PROVE  /\ Routed(r) =>
                             LET ctx == request[r].ctx IN
                             /\ ctx.path \in BaselineOf(ctx.cell) - 1 .. BaselineOf(ctx.cell) + 1
                             /\ ctx.path < BaselineOf(ctx.cell) => ctx.seen < DemoteBelow
                       /\ explore[r] # None =>
                             /\ explore[r].path \in {request[r].path - 1, request[r].path + 1}
                             /\ explore[r].cell[2] < 4
    BY DEF RunsWithinReach
  <2>. DEFINE ctx == request[r].ctx
              base == BaselineOf(ctx.cell)
              path == ctx.path
  <2>1. ASSUME Routed(r)
        PROVE  path \in base - 1 .. base + 1 /\ (path < base => ctx.seen < DemoteBelow)
    <3>1. ctx \in Context /\ Sound(ctx)
      BY <2>1, RequestParts DEF Routed, IInv, TypeOK, RequestInv
    <3>2. path \in Int /\ base \in Int
      BY <3>1, CellParts DEF Context, Band, Lightweight, Standard, FullPipeline
    <3>3. base - 1 <= path /\ path <= base + 1 /\ (path < base => ctx.seen < DemoteBelow)
      BY <3>1 DEF Sound
    <3>. HIDE DEF ctx, base, path
    <3>4. path \in base - 1 .. base + 1
      BY <3>2, <3>3
    <3>. QED  BY <3>3, <3>4
  <2>. QED  BY <2>1 DEF IInv, RequestInv, Behind
<1>. QED  BY <1>1, Invariance, PTL

\* Once the basal ganglia has seen it, a hard request runs the full pipeline.
THEOREM HardRequestsRunFull == Spec => []HardRunsFull
<1>1. IInv => HardRunsFull
  BY DEF IInv, RequestInv, HardRunsFull, Routed, Sound
<1>. QED  BY <1>1, Invariance, PTL

\* Limit-break, sharpened parameters and context are what the labels say.
THEOREM LabelsAreTrue == Spec => []LabelsFitTheRun
<1>1. IInv => LabelsFitTheRun
  BY DEF IInv, RequestInv, LabelsFitTheRun, Routed, Sound, Labelled, Behind
<1>. QED  BY <1>1, Invariance, PTL

-----------------------------------------------------------------------------
(***************************************************************************)
(* What routing leaves open, it leaves open as widely as the decay does    *)
(* that RoutingFloor counts out.                                           *)
(***************************************************************************)

\* Any number of idle requests leaves a cell at what Forgotten allows.
THEOREM DecayIsForgetting ==
    ASSUME NEW w \in Weight, NEW idle \in Nat \ {0}, Decayed(w, idle) \in Weights
    PROVE  Decayed(w, idle) \in Forgotten(w)
<1>. DEFINE lost == DecayRate * idle
            left == Decayed(w, idle)
<1>1. lost \in Nat /\ lost > 0
  <2>1. DecayRate \in Nat \ {0}
    BY WeightAssumption
  <2>. QED  BY <2>1
<1>2. w \in Int /\ WMin \in Int /\ w >= WMin
  BY WeightAssumption DEF Weight
<1>3. left = IF w - lost < WMin THEN WMin ELSE w - lost
  BY DEF Decayed
<1>. HIDE DEF lost, left
<1>4. left < w \/ (left = w /\ w = WMin)
  BY <1>1, <1>2, <1>3
<1>5. w # None
  BY <1>2, NoneAssumption
<1>. QED  BY <1>4, <1>5 DEF Forgotten, left

-----------------------------------------------------------------------------
(***************************************************************************)
(* The refinement.                                                         *)
(***************************************************************************)

\* A request's band stays near its baseline, and falls below the last one only by
\* the release of a lifted cell.
LEMMA RoutedMayFollow ==
    ASSUME IInv, NEW c \in Cell, NEW idle \in BOOLEAN, NEW left \in Weight \cup {None},
           left # None /\ left >= PromoteAt => c \in promoted
    PROVE  Promise!MayFollow(c, floor[c], RoutedBand(c, idle, left))
<1>. DEFINE base == BaselineOf(c)
            old == floor[c]
            over == Override(base, left)
            released == Released(old, base)
            kept == FloorAfterDecay(c, idle, left)
            band == RoutedBand(c, idle, left)
<1>1. /\ base \in Band
      /\ old \in Band \cup {None} /\ (old # None => old <= base + 1)
      /\ band \in Band /\ base - 1 <= band /\ band <= base + 1
  BY CellParts, RoutedBandOK DEF IInv, TypeOK, FloorInv
<1>2. /\ over \in Band
      /\ left # None /\ left < DemoteBelow => over <= base
  BY <1>1, Scale, NoneAssumption
     DEF Override, Band, Lightweight, Standard, FullPipeline
<1>3. /\ released \in Band \cup {None}
      /\ old # None => /\ released # None /\ released >= base /\ released >= old - 1
                        /\ released \in {base, old - 1}
  BY <1>1, ReleasedBand
<1>4. \/ kept = old
      \/ kept = released /\ left # None /\ left < DemoteBelow
  BY DEF FloorAfterDecay
<1>5. kept # None => band >= kept /\ band \in {over, kept}
  BY <1>1, <1>2, <1>3, <1>4, RatchetedBand DEF RoutedBand
<1>. HIDE DEF base, old, over, released, kept, band
<1>6. old = None \/ (old # None /\ old <= band) \/ (old # None /\ old > base /\ band = old - 1)
  <2>. SUFFICES ASSUME old # None  PROVE old <= band \/ (old > base /\ band = old - 1)
    OBVIOUS
  <2>1. old \in Int /\ base \in Int /\ over \in Int /\ band \in Int
    BY <1>1, <1>2 DEF Band, Lightweight, Standard, FullPipeline
  <2>2. CASE kept = old
    BY <1>5, <2>1, <2>2
  <2>3. CASE kept = released /\ left # None /\ left < DemoteBelow
    BY <1>1, <1>2, <1>3, <1>5, <2>1, <2>3
  <2>. QED  BY <1>4, <2>2, <2>3
<1>. QED  BY <1>1, <1>6 DEF Promise!MayFollow, base, old, band

\* Every step answers the session, forgets it, or leaves its floors alone.
LEMMA StepRefines ==
    ASSUME IInv, [Next]_vars
    PROVE  [Promise!FloorsNext]_[s \in {"session"} |-> floor]
<1>1. CASE UNCHANGED floor
  BY <1>1
<1>2. ASSUME NEW r \in Requests, Evaluate(r), floor' # floor
      PROVE  Promise!FloorsNext
  <2>. DEFINE q == request[r]
  <2>1. q \in Request /\ q.at = "evaluating"
    BY <1>2 DEF IInv, TypeOK, Evaluate
  <2>2. PICK ev \in Evaluations, idle \in BOOLEAN :
          \E left \in IF idle THEN Forgotten(weight[CellOf(q, ev)])
                      ELSE {weight[CellOf(q, ev)]} :
             \E hint \in Hints(q, ev), advise \in BOOLEAN :
                Route(r, CellOf(q, ev), ev, idle, left, hint, advise)
    BY <1>2 DEF Evaluate
  <2>. DEFINE c == CellOf(q, ev)
  <2>3. c \in Cell
    BY <2>1, CellOfRequest
  <2>4. PICK left \in IF idle THEN Forgotten(weight[c]) ELSE {weight[c]} :
          floor' = [floor EXCEPT ![c] = RoutedBand(c, idle, left)]
    BY <2>2 DEF Route, FloorAfterPromotion
  <2>. HIDE DEF c, q
  <2>5. /\ left \in Weight \cup {None}
        /\ left # None /\ left >= PromoteAt => c \in promoted
    BY <2>3, LeftOK
  <2>. DEFINE band == RoutedBand(c, idle, left)
  <2>6. band \in Band /\ Promise!MayFollow(c, floor[c], band)
    BY <2>3, <2>5, RoutedBandOK, RoutedMayFollow
  <2>. HIDE DEF band
  <2>7. Promise!Answer("session")
    BY <2>3, <2>4, <2>6 DEF Promise!Answer, band
  <2>8. floor' \in [Cell -> Band \cup {None}]
    BY <2>4, <2>6 DEF IInv, TypeOK, band
  <2>. QED  BY <2>7, <2>8 DEF Promise!FloorsNext
<1>3. CASE ForgetFloors
  <2>1. floor' = Promise!Unknown
    BY <1>3 DEF ForgetFloors, Promise!Unknown
  <2>. QED  BY <2>1 DEF Promise!FloorsNext, Promise!KeepOrDrop, Promise!Unknown
<1>. QED
  BY <1>1, <1>2, <1>3
     DEF Next, Advance, Arrive, LookUp, Augment, Respond, EndExplore, Recycle, Teach, Change,
         Expire, vars

\* What routing promises a session holds in the whole pipeline.
THEOREM Refinement == Spec => ImplementsSessionFloors
<1>1. Init => Promise!FloorsInit
  BY DEF Init, Promise!FloorsInit, Promise!Unknown
<1>2. IInv /\ [Next]_vars => [Promise!FloorsNext]_[s \in {"session"} |-> floor]
  BY StepRefines
<1>. QED
  BY <1>1, <1>2, Invariance, PTL DEF Spec, ImplementsSessionFloors, Promise!FloorsSpec
=============================================================================
