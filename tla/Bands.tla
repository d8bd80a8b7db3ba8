------------------------------- MODULE Bands -------------------------------
(***************************************************************************)
(* Learned weights and route bands, the data that the learner, the preset, *)
(* decay, the route override and the ratchet all compute with.  Weights    *)
(* are integers on a scale that the constants fix: the code's 0.1, 0.3,    *)
(* 0.4, 0.7 and 1.0 are WMin, Seed, DemoteBelow, PromoteAt and WMax.       *)
(***************************************************************************)
EXTENDS Integers

CONSTANTS
    WMin, WMax,     \* clamp bounds of every learned weight
    Seed,           \* what the mutator reads for an unlearned cell
    DemoteBelow,    \* below this the override demotes and decay releases
    PromoteAt,      \* from this on the override promotes
    DecayRate,      \* weight forgotten per idle request
    None            \* Python's None

ASSUME WeightAssumption ==
    /\ {WMin, Seed, DemoteBelow, PromoteAt, WMax, DecayRate} \subseteq Nat \ {0}
    /\ WMin < Seed /\ Seed < DemoteBelow
    /\ DemoteBelow < PromoteAt /\ PromoteAt <= WMax

ASSUME NoneAssumption == None \notin Int

Weight == WMin .. WMax

\* A slip: no upper bound.
ClampBelow(w) == IF w < WMin THEN WMin ELSE w

\* A slip: no lower bound.
ClampAbove(w) == IF w > WMax THEN WMax ELSE w

Clamp(w) == IF w < WMin THEN WMin ELSE IF w > WMax THEN WMax ELSE w

\* update_ema with alpha = 0.3; the division stands for the float rounding.
Ema(prev, value) ==
    Clamp(IF prev = None THEN value ELSE (3 * value + 7 * prev) \div 10)

\* A slip to test the properties with: decay without its lower bound.
DecayedUnbounded(w, idle) == w - DecayRate * idle

\* RoutingDecay.step: what idle requests leave of a weight.
Decayed(w, idle) ==
    IF w - DecayRate * idle < WMin THEN WMin ELSE w - DecayRate * idle

(***************************************************************************)
(* Bands, ordered low to high as in _BANDS.                                *)
(***************************************************************************)
Lightweight == 0
Standard == 1
FullPipeline == 2
Band == {Lightweight, Standard, FullPipeline}

Difficulty == 1 .. 5

\* _DECISIONS of the skip router, and _baseline_band, which mirrors it.
Baseline(d) ==
    IF d >= 4 THEN FullPipeline ELSE IF d >= 2 THEN Standard ELSE Lightweight

\* A slip: a low weight sends the request to the lowest band at once.
OverrideToBottom(band, w) ==
    CASE w = None        -> band
      [] w # None /\ w < DemoteBelow -> Lightweight
      [] w # None /\ w >= PromoteAt  -> IF band = FullPipeline THEN band ELSE band + 1
      [] OTHER -> band

\* DifficultyRouteOverride.apply: one band down, one band up, or unchanged.
Override(band, w) ==
    CASE w = None        -> band
      [] w # None /\ w < DemoteBelow -> IF band = Lightweight THEN band ELSE band - 1
      [] w # None /\ w >= PromoteAt  -> IF band = FullPipeline THEN band ELSE band + 1
      [] OTHER -> band

\* RoutingRatchet._band_index: a missing floor counts as the lowest band.
BandIndex(floor) == IF floor = None THEN Lightweight ELSE floor

\* RoutingRatchet.apply: clamp up to the floor.
Ratcheted(band, floor) ==
    IF band < BandIndex(floor) THEN BandIndex(floor) ELSE band

\* A slip: the release forgets the baseline.
ReleasedPastBaseline(floor, baseline) ==
    IF floor \in {None, Lightweight} THEN floor ELSE floor - 1

\* RoutingRatchet.decay_release: one band down, not below the baseline.
Released(floor, baseline) ==
    IF floor = None THEN None
    ELSE IF floor - 1 < baseline THEN baseline ELSE floor - 1
=============================================================================
