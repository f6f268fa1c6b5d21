-------------------------- MODULE RetrievalMetrics --------------------------
(***************************************************************************)
(* The retrieval metrics of kuhaku/evaluation/metrics/functions.py, in     *)
(* thousandths.  ids is the ranked list a target returned -- one document  *)
(* id per retrieved chunk, so an id may repeat -- and expected the golden  *)
(* set.                                                                    *)
(***************************************************************************)
EXTENDS Integers, Sequences, FiniteSetsExt

One == 1000

CONSTANT Gain   \* 1000 / log2(rank + 1), rank by rank, as far as any k goes

ASSUME GainAssumption == Gain \in Seq(Nat) /\ Gain # << >> /\ Gain[1] = One

TopK(ids, k) == SubSeq(ids, 1, Min({k, Len(ids)}))

HitRanks(ids, expected) == {n \in DOMAIN ids : ids[n] \in expected}

RecallAtK(ids, expected, k) ==
    IF ids = << >> \/ expected = {} THEN 0
    ELSE (One * Cardinality({d \in expected : \E n \in DOMAIN TopK(ids, k) : ids[n] = d}))
         \div Cardinality(expected)

PrecisionAtK(ids, expected, k) ==
    IF ids = << >> \/ expected = {} THEN 0
    ELSE (One * Cardinality(HitRanks(TopK(ids, k), expected))) \div Len(TopK(ids, k))

\* The first hit, however far down.
MRR(ids, expected) ==
    IF HitRanks(ids, expected) = {} THEN 0 ELSE One \div Min(HitRanks(ids, expected))

HitRateAtK(ids, expected, k) == IF HitRanks(TopK(ids, k), expected) = {} THEN 0 ELSE One

\* The gains of some ranks together.
GainOf(ranks) ==
    LET upTo[n \in 0..Len(Gain)] ==
            IF n = 0 THEN 0 ELSE upTo[n - 1] + (IF n \in ranks THEN Gain[n] ELSE 0)
    IN  upTo[Len(Gain)]

NDCGAtK(ids, expected, k) ==
    IF ids = << >> \/ expected = {} THEN 0
    ELSE (One * GainOf(HitRanks(TopK(ids, k), expected)))
         \div GainOf(1..Min({Cardinality(expected), Len(TopK(ids, k))}))

=============================================================================
