--------------------------- MODULE ScoringEngine ---------------------------
(***************************************************************************)
(* The scorecard's pure calculation engine                                 *)
(* (app/modules/scorecard/engine.py): how a value compares with its        *)
(* target, which band that earns, and how the items of a plan roll up.     *)
(*                                                                         *)
(* Achievements and weights are percentages; ratings are in hundredths, so *)
(* that a weighted average of them keeps two decimals.  A scheme is        *)
(* [cap, zero, lower, policy, gate, order, bands]; a band is               *)
(* [rating, min, max], max = None meaning open-ended.                      *)
(***************************************************************************)
EXTENDS Amounts

EXCLUDED_STATES == {"not_applicable", "not_due", "not_reported"}

(* The measures whose achievement does not depend on the scheme.           *)
KriAchievement(actual, aim) ==
  IF aim.target = None THEN None
  ELSE IF actual <= aim.target THEN 100
  ELSE IF aim.upper # None /\ actual <= aim.upper THEN 50
  ELSE 0

RangeAchievement(actual, aim) ==
  LET width == IF aim.upper # aim.lower THEN aim.upper - aim.lower
               ELSE IF OrZero(aim.target) # 0 THEN Distance(aim.target, 0) ELSE 1
      distance == IF actual < aim.lower THEN aim.lower - actual ELSE actual - aim.upper
  IN IF aim.lower = None \/ aim.upper = None THEN None
     ELSE IF actual \in aim.lower..aim.upper THEN 100
     ELSE AtLeastZero((100 * (width - distance)) \div width)

MilestoneAchievement(actual, target) ==
  IF target = None THEN None
  ELSE IF target <= 0 THEN (IF actual >= 0 THEN 100 ELSE 0)
  ELSE AtLeastZero(AtMost(100 * actual, 100 * target) \div target)

(* Higher or lower is better: the quotient, not below zero, and capped.    *)
RatioAchievement(polarity, actual, target, scheme) ==
  LET met == IF polarity = "higher" THEN actual >= 0 ELSE actual <= 0
      inverse == IF actual <= 0 THEN scheme.cap ELSE (100 * target) \div actual
      raw == IF polarity = "higher" THEN (100 * actual) \div target
             ELSE IF scheme.lower = "ratio_inverse" THEN inverse
             ELSE (100 * (2 * target - actual)) \div target
  IN IF target = None \/ target < 0 THEN None
     ELSE IF target > 0 THEN AtMost(AtLeastZero(raw), scheme.cap)
     ELSE IF scheme.zero # "binary" THEN None
     ELSE IF met THEN 100 ELSE 0

(* The capped achievement of one measure; None when it cannot be scored.   *)
achievement(polarity, actual, aim, scheme) ==
  IF actual = None THEN None
  ELSE CASE polarity = "yes_no" -> IF actual >= 1 THEN 100 ELSE 0
         [] polarity = "kri" -> KriAchievement(actual, aim)
         [] polarity = "range" -> RangeAchievement(actual, aim)
         [] polarity = "milestone" -> MilestoneAchievement(actual, aim.target)
         [] polarity \in {"higher", "lower"} -> RatioAchievement(polarity, actual, aim.target, scheme)
         [] OTHER -> None
-----------------------------------------------------------------------------
(* Five contiguous bands from 0 that cover the cap, rated in one direction.*)
validate_bands_Overlapping(bands, cap) ==
  /\ Len(bands) = 5
  /\ \A i, j \in 1..5 : i # j => bands[i].rating # bands[j].rating
  /\ LET up == SetToSortSeq({bands[i] : i \in 1..5}, LAMBDA a, b : a.min < b.min)
     IN /\ Len(up) = 5
        /\ up[1].min = 0
        /\ \A i \in 1..4 : up[i].max # None /\ up[i].max >= up[i + 1].min
        /\ up[5].max = None \/ up[5].max > cap
validate_bands(bands, cap) ==
  /\ Len(bands) = 5
  /\ \A i, j \in 1..5 : i # j => bands[i].rating # bands[j].rating
  /\ LET up == SetToSortSeq({bands[i] : i \in 1..5}, LAMBDA a, b : a.min < b.min)
     IN /\ Len(up) = 5
        /\ up[1].min = 0
        /\ \A i \in 1..4 : up[i].max = up[i + 1].min /\ up[i].min < up[i].max
        /\ up[5].max = None \/ up[5].max > cap
        /\ \/ \A i \in 1..4 : up[i].rating < up[i + 1].rating
           \/ \A i \in 1..4 : up[i].rating > up[i + 1].rating

(* The first band that holds the achievement.                              *)
rate(capped, scheme) ==
  LET holds(i) == /\ capped >= scheme.bands[i].min
                  /\ scheme.bands[i].max = None \/ capped < scheme.bands[i].max
      Holding == {i \in DOMAIN scheme.bands : holds(i)}
  IN IF capped = None \/ Holding = {} THEN None ELSE scheme.bands[Min(Holding)].rating

(* The rating number nearest an average; of two as near, the higher.       *)
band_for_rating(rating, scheme) ==
  LET Ratings == {scheme.bands[i].rating : i \in DOMAIN scheme.bands}
  IN IF rating = None \/ Ratings = {} THEN None
     ELSE Max({r \in Ratings : \A s \in Ratings : Distance(r, rating) <= Distance(s, rating)})

WorstRating(scheme) ==
  LET Ratings == {scheme.bands[i].rating : i \in DOMAIN scheme.bands}
  IN IF scheme.order = "higher_is_better" THEN Min(Ratings) ELSE Max(Ratings)
-----------------------------------------------------------------------------
(* All weights set and adding up to 100, none set, or invalid.             *)
check_weights(weight) ==
  IF Known(weight) = {} THEN (IF DOMAIN weight = {} THEN "set" ELSE "equal")
  ELSE IF /\ Known(weight) = DOMAIN weight
          /\ Total(weight, DOMAIN weight) = 100
          /\ \A k \in DOMAIN weight : weight[k] >= 0
       THEN "set"
  ELSE "invalid"

Unscored(status) == [achievement |-> None, rating |-> None, status |-> status, coverage |-> None]

(* children: [key -> [weight, achievement, rating, state]].                *)
rollup(children, scheme) ==
  LET mode == check_weights([k \in DOMAIN children |-> children[k].weight])
      weight == [k \in DOMAIN children |->
                   IF mode = "set" THEN children[k].weight ELSE 100 \div Cardinality(DOMAIN children)]
      Counted == {k \in DOMAIN children : children[k].state \notin EXCLUDED_STATES}
      Scored == {k \in Counted : children[k].achievement # None /\ children[k].rating # None}
      total == Total(weight, Counted)
      covered == Total(weight, Scored)
      earned == Total([k \in Scored |-> weight[k] * children[k].achievement], Scored)
      rated == Total([k \in Scored |-> weight[k] * children[k].rating], Scored)
      asZero == scheme.policy = "count_as_zero"
      denom == IF asZero THEN total ELSE covered
      worst == IF asZero THEN (total - covered) * WorstRating(scheme) ELSE 0
  IN IF DOMAIN children = {} THEN Unscored("empty")
     ELSE IF mode = "invalid" THEN Unscored("invalid_weights")
     ELSE IF total = 0 THEN Unscored("empty")
     ELSE IF ~asZero /\ (100 * covered < scheme.gate * total \/ Scored = {}) THEN Unscored("incomplete")
     ELSE [achievement |-> earned \div denom, rating |-> (rated + worst) \div denom,
           status |-> IF Scored = Counted THEN "complete" ELSE "partial",
           coverage |-> (100 * covered) \div total]
-----------------------------------------------------------------------------
(* A plan is [node |-> [key -> [parent, weight]],                          *)
(* indicator |-> [key -> [node, weight, polarity, state, actual, aim]]];   *)
(* overrides: [key -> rating], for the items whose rating was overridden.  *)
Overridden(key, rating, overrides) == IF key \in DOMAIN overrides THEN overrides[key] ELSE rating

ScoredIndicator(key, i, scheme, overrides) ==
  LET a == IF i.state = "measured" THEN achievement(i.polarity, i.actual, i.aim, scheme) ELSE None
      r == rate(a, scheme)
  IN [weight |-> i.weight, achievement |-> a, rating |-> Overridden(key, r, overrides),
      state |-> IF i.state # "measured" THEN i.state ELSE IF r = None THEN "missing" ELSE "scored"]

(* A node whose every child is excluded is not due itself.                 *)
NodeState(r, rating, children) ==
  CASE r.achievement # None /\ rating # None -> "scored"
    [] r.status = "empty" /\ DOMAIN children # {}
         /\ \A k \in DOMAIN children : children[k].state \in EXCLUDED_STATES -> "not_due"
    [] OTHER -> "missing"

(* Every item of the plan, scored bottom up, and the plan itself (None).   *)
evaluate_tree(plan, scheme, overrides) ==
  LET Below(n) == {k \in DOMAIN plan.node : plan.node[k].parent = n}
      Measured(n) == {k \in DOMAIN plan.indicator : plan.indicator[k].node = n}
      scored[n \in DOMAIN plan.node \cup {None}] ==
        LET children == [k \in Below(n) \cup Measured(n) |->
                           IF k \in Below(n) THEN scored[k].as_child
                           ELSE ScoredIndicator(k, plan.indicator[k], scheme, overrides)]
            r == rollup(children, scheme)
            rating == Overridden(n, r.rating, overrides)
        IN [result |-> [r EXCEPT !.rating = rating],
            as_child |-> [weight |-> IF n = None THEN None ELSE plan.node[n].weight,
                          achievement |-> r.achievement, rating |-> rating,
                          state |-> NodeState(r, rating, children)]]
  IN [n \in DOMAIN plan.node \cup {None} |-> scored[n].result]
=============================================================================
