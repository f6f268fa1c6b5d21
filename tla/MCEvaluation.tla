---------------------------- MODULE MCEvaluation ----------------------------
(***************************************************************************)
(* A dataset of two questions, two runners with judges of their own, whose *)
(* two calls of run() may overlap, one crash.  The targets fail, answer    *)
(* with more ids than the metrics look at, or label what is relevant       *)
(* themselves; every metric scores the sample, or all but one fail on it.  *)
(***************************************************************************)
EXTENDS Evaluation, TLC

CONSTANTS a, b, d1, d2

\* A runner stands for its run id and for its judge as well.
MCOwn == [r \in Runners |-> r]
MCExpected == <<{d1}, {d1, d2}>>
MCGain == <<1000, 631, 500, 431>>

MCSamples == {BareSample,
              [ids |-> <<d2, d1>>, answered |-> TRUE, relevant |-> NoLabels],
              [ids |-> <<d2>>, answered |-> FALSE, relevant |-> {d1}]}
MCRaising == {{}, MetricNames \ {"hit_rate_at_k"}}

\* The two runners are interchangeable.
SymmetryRunners == Permutations({a, b})
=============================================================================
