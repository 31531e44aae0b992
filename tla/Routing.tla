------------------------------ MODULE Routing ------------------------------
(***************************************************************************)
(* Confidence and routing: src/kgi/confidence/scorer.py and                *)
(* src/kgi/routing/policy.py, with the default thresholds of config.py.    *)
(* The inputs of the blend are percentages and counts; a score is in units *)
(* of 1/10000, the four decimals score_op rounds to.                       *)
(*                                                                         *)
(* A definition marked "Fault:" is no part of the model: it is the         *)
(* definition after it with a bug seeded.                                  *)
(***************************************************************************)
EXTENDS Integers

route_auto_approve == 9200
route_auto_reject == 3000
HIGH_DEGREE_REVIEW_THRESHOLD == 50

Percent == 0 .. 100
Targets == {"auto_approve", "review", "auto_reject"}

\* 0.35 extraction + 0.25 min(support / 3, 1) + 0.25 resolution + 0.15 validation,
\* in sixths of the unit so that the thirds of support stay whole, then rounded.
Score(extraction, support, resolution, validated) ==
    LET mentions == IF support < 3 THEN support ELSE 3
    IN  (210 * extraction + 5000 * mentions + 150 * resolution
            + (IF validated THEN 9000 ELSE 0) + 3) \div 6

\* Fault: the overrides come after the thresholds.
RouteByScore(kind, score, newType, semantic, degree) ==
    IF score >= route_auto_approve THEN "auto_approve"
    ELSE IF score < route_auto_reject THEN "auto_reject"
    ELSE "review"

\* The overrides: always human, regardless of the score.
Forced(kind, newType, semantic, degree) ==
    \/ newType
    \/ semantic
    \/ kind = "SplitNode"
    \/ kind = "MergeInto" /\ degree >= HIGH_DEGREE_REVIEW_THRESHOLD

Route(kind, score, newType, semantic, degree) ==
    IF Forced(kind, newType, semantic, degree) THEN "review"
    ELSE IF score >= route_auto_approve THEN "auto_approve"
    ELSE IF score < route_auto_reject THEN "auto_reject"
    ELSE "review"
=============================================================================
