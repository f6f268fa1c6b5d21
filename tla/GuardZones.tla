------------------------------ MODULE GuardZones ------------------------------
(***************************************************************************)
(* The decision of GuardPipeline (kuhaku/core/security/guard.py) over what *)
(* the two stages of its classifier say of a query.  A stage-1 score is    *)
(* "low", "middle" or "high": below low_threshold, between the thresholds, *)
(* at least high_threshold.                                                *)
(***************************************************************************)

Scores == {"low", "middle", "high"}

\* What stage 2 comes to: unsafe, safe (confident or not), or no model.
Judgements == {"unsafe", "safe", "unsure"}
NotRun == [ran |-> FALSE, degraded |-> FALSE, label |-> "none"]
Degraded == [ran |-> FALSE, degraded |-> TRUE, label |-> "none"]
Ran(label) == [ran |-> TRUE, degraded |-> FALSE, label |-> label]

\* Why stage 2 is asked: the score, or a random sample of the others.
Escalation(score, sampled) ==
    IF score # "low" THEN "threshold" ELSE IF sampled THEN "sampled" ELSE "none"

\* Mutant: a high score is rejected before stage 2 is looked at.
DecideZoneByScoreFirst(score, stage2) ==
    IF score = "high" \/ stage2.label = "unsafe" THEN "reject"
    ELSE IF score = "middle" \/ stage2.degraded \/ stage2.label = "unsure" THEN "restricted"
    ELSE "pass"

\* _decide_zone, most authoritative first.
DecideZone(score, stage2) ==
    IF stage2.degraded THEN "restricted"
    ELSE IF stage2.label = "unsafe" \/ score = "high" THEN "reject"
    ELSE IF stage2.label = "unsure" \/ score = "middle" THEN "restricted"
    ELSE "pass"

\* A sampled query is decided as if stage 2 had not been asked.
Zone(score, why, stage2) == DecideZone(score, IF why = "sampled" THEN NotRun ELSE stage2)

=============================================================================
