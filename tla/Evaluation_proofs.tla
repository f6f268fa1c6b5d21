------------------------- MODULE Evaluation_proofs -------------------------
(***************************************************************************)
(* The properties of Evaluation for any runners, run ids, judges, datasets *)
(* and k, and of the functions it is built from.                           *)
(*                                                                         *)
(*   - The recursive functions.  What a function that is defined step by   *)
(*     step over 0..N is at each argument follows from StepByStep, an      *)
(*     induction over the naturals stated as a fact about sets (NatInduct);*)
(*     with it, the running totals of _average_metrics are the mean of     *)
(*     each metric over the rows that have it (AverageIsMean), and the     *)
(*     scores of a sample are fractions (ScoresAreFractions).              *)
(*   - The invariant.  Progress says which question a runner is at and     *)
(*     that its row is its own; OneRowEach that what the questions of a    *)
(*     runner alone at its run id scored is what is stored under the id,   *)
(*     and the row it is about to add, which needs that two runners at one *)
(*     id know it (TogetherIsShared); OneJudge where the judge of every    *)
(*     score came from; LatestIsLastSeen what the run ids noted in memory, *)
(*     in the middle of an add_result and after it, say of the order of    *)
(*     the rows.                                                           *)
(*   - The refinement.  Adding a row, however the store commits it, is the *)
(*     archive's Add, Summarize its Report, a crash of a store in memory   *)
(*     its Lose, which a durable store has no step for; every other step   *)
(*     leaves the archive as it is.                                        *)
(***************************************************************************)
EXTENDS Evaluation, TLAPS, WellFoundedInduction, FiniteSetTheorems

\* Induction over the naturals, as a fact about sets.
LEMMA NatInduct ==
    \A S : 0 \in S /\ (\A n \in Nat : n \in S => n + 1 \in S) => \A n \in Nat : n \in S
<1> SUFFICES ASSUME NEW S, 0 \in S, \A n \in Nat : n \in S => n + 1 \in S,
                    NEW N \in Nat, N \notin S
             PROVE  FALSE
  OBVIOUS
<1> DEFINE R == {ss \in Nat \X Nat : ss[1] < ss[2]}
           T == Nat \ S
<1>1. IsWellFoundedOn(R, Nat)
  BY NatLessThanWellFounded DEF OpToRel
<1>2. PICK n \in T : \A k \in T : ~(<<k, n>> \in R)
  <2>1. T \subseteq Nat /\ T # {}
    OBVIOUS
  <2> HIDE DEF R, T
  <2>2. QED
    BY <1>1, <2>1, WFMin
<1>3. n \in Nat /\ n # 0 /\ n - 1 \in Nat /\ n - 1 < n
  OBVIOUS
<1>4. n - 1 \notin T
  <2>1. <<n - 1, n>> \in R
    BY <1>3
  <2>2. QED
    BY <1>2, <2>1
<1>5. n - 1 \in S
  BY <1>3, <1>4
<1>6. (n - 1) + 1 = n
  BY <1>3
<1>7. n \in S
  BY <1>3, <1>5, <1>6
<1>8. QED
  BY <1>7

\* A function defined step by step over 0..N exists, and has the type of its
\* steps.
LEMMA StepByStep ==
    \A V : \A v : v \in V => \A N \in Nat : \A h \in [1..N -> [V -> V]] :
        \E f \in [0..N -> V] : f[0] = v /\ \A n \in 1..N : f[n] = h[n][f[n - 1]]
<1> SUFFICES ASSUME NEW V, NEW v, v \in V, NEW N \in Nat, NEW h \in [1..N -> [V -> V]]
             PROVE  \E f \in [0..N -> V] : f[0] = v /\ \A n \in 1..N : f[n] = h[n][f[n - 1]]
  OBVIOUS
<1> DEFINE Good(M, f) == f[0] = v /\ \A n \in 1..M : f[n] = h[n][f[n - 1]]
           S == {M \in Nat : M <= N => \E f \in [0..M -> V] : Good(M, f)}
<1>1. 0 \in S
  <2> DEFINE g == [n \in 0..0 |-> v]
  <2>1. g \in [0..0 -> V] /\ Good(0, g)
    OBVIOUS
  <2>2. QED
    BY <2>1
<1>2. \A M \in Nat : M \in S => M + 1 \in S
  <2> SUFFICES ASSUME NEW M \in Nat, M \in S, M + 1 <= N
               PROVE  \E f \in [0..(M + 1) -> V] : Good(M + 1, f)
    <3> HIDE DEF Good
    <3>1. QED
      OBVIOUS
  <2>1. PICK f \in [0..M -> V] : Good(M, f)
    <3> HIDE DEF Good
    <3>1. QED
      OBVIOUS
  <2> DEFINE g == [n \in 0..(M + 1) |-> IF n = M + 1 THEN h[n][f[M]] ELSE f[n]]
  <2>2. f[M] \in V /\ M + 1 \in 1..N
    OBVIOUS
  <2>3. h[M + 1][f[M]] \in V
    BY <2>2
  <2>4. g \in [0..(M + 1) -> V]
    BY <2>3
  <2>5. g[0] = v
    BY <2>1
  <2>6. ASSUME NEW n \in 1..(M + 1)
        PROVE  g[n] = h[n][g[n - 1]]
    <3>1. CASE n = M + 1
      <4>1. n - 1 = M /\ g[n - 1] = f[M]
        BY <3>1
      <4>2. QED
        BY <3>1, <4>1
    <3>2. CASE n # M + 1
      <4>1. n \in 1..M /\ n - 1 \in 0..M
        BY <3>2
      <4>2. g[n] = f[n] /\ g[n - 1] = f[n - 1]
        BY <3>2, <4>1
      <4>3. QED
        BY <2>1, <4>1, <4>2
    <3>3. QED
      BY <3>1, <3>2
  <2>7. QED
    <3> HIDE DEF g
    <3>1. QED
      BY <2>4, <2>5, <2>6
<1>3. N \in S
  <2> HIDE DEF S
  <2>1. QED
    BY <1>1, <1>2, NatInduct
<1>4. QED
  BY <1>3

\* What such a function is at each argument, if its steps keep to a type.
LEMMA StepsAreTyped ==
    \A V : \A N \in Nat : \A F :
        F = [n \in 0..N |-> F[n]] /\ F[0] \in V /\ (\A n \in 1..N : F[n - 1] \in V => F[n] \in V)
            => F \in [0..N -> V]
<1> SUFFICES ASSUME NEW V, NEW N \in Nat, NEW F, F = [n \in 0..N |-> F[n]], F[0] \in V,
                    \A n \in 1..N : F[n - 1] \in V => F[n] \in V
             PROVE  F \in [0..N -> V]
  OBVIOUS
<1> DEFINE S == {n \in Nat : n <= N => F[n] \in V}
<1>1. 0 \in S
  OBVIOUS
<1>2. \A n \in Nat : n \in S => n + 1 \in S
  <2> SUFFICES ASSUME NEW n \in Nat, n \in S, n + 1 <= N
               PROVE  F[n + 1] \in V
    OBVIOUS
  <2>1. F[n] \in V /\ n + 1 \in 1..N /\ (n + 1) - 1 = n
    OBVIOUS
  <2>2. QED
    BY <2>1
<1>3. \A n \in Nat : n \in S
  <2> HIDE DEF S
  <2>1. QED
    BY <1>1, <1>2, NatInduct
<1>4. \A n \in 0..N : F[n] \in V
  BY <1>3
<1>5. QED
  BY <1>4

\* The rows of one run, as far as each row.
LEMMA SelectedSteps ==
    \A rows \in Seq(Rows) : \A i \in RunIds :
        \E f \in [0..Len(rows) -> Seq(Metrics)] :
            /\ Selected(rows, i) = f[Len(rows)]
            /\ f[0] = << >>
            /\ \A n \in 1..Len(rows) :
                   f[n] = IF rows[n].run = i THEN Append(f[n - 1], rows[n].metrics) ELSE f[n - 1]
<1>0. SUFFICES ASSUME NEW rows, rows \in Seq(Rows), NEW i, i \in RunIds
             PROVE  \E f \in [0..Len(rows) -> Seq(Metrics)] :
                       /\ Selected(rows, i) = f[Len(rows)]
                       /\ f[0] = << >>
                       /\ \A n \in 1..Len(rows) :
                              f[n] = IF rows[n].run = i THEN Append(f[n - 1], rows[n].metrics) ELSE f[n - 1]
  OBVIOUS
<1> DEFINE N == Len(rows)
           V == Seq(Metrics)
           zero == << >>
           step(n, w) == IF rows[n].run = i THEN Append(w, rows[n].metrics) ELSE w
           body(f) == [n \in 0..N |-> IF n = 0 THEN zero ELSE step(n, f[n - 1])]
           h == [n \in 1..N |-> [w \in V |-> step(n, w)]]
           upTo == CHOOSE f : f = body(f)
<1>1. N \in Nat /\ \A n \in 1..N : rows[n] \in Rows /\ rows[n].metrics \in Metrics
  <2>1. N \in Nat /\ \A n \in 1..N : rows[n] \in Rows
    BY <1>0
  <2>2. \A w \in Rows : w.metrics \in Metrics
    BY DEF Rows
  <2>3. QED
    BY <2>1, <2>2
<1>2. \A n \in 1..N : \A w \in V : step(n, w) \in V
  <2>1. \A w \in V : \A e \in Metrics : Append(w, e) \in V
    OBVIOUS
  <2> HIDE DEF V, N
  <2>2. QED
    BY <1>1, <2>1
<1>3. zero \in V
  OBVIOUS
<1> HIDE DEF V, N, step, zero
<1>5. h \in [1..N -> [V -> V]] /\ \A n \in 1..N : \A w \in V : h[n][w] = step(n, w)
  BY <1>2
<1> HIDE DEF h
<1>6. PICK f \in [0..N -> V] : f[0] = zero /\ \A n \in 1..N : f[n] = h[n][f[n - 1]]
  <2>1. N \in Nat /\ h \in [1..N -> [V -> V]]
    BY <1>1, <1>5
  <2>2. QED
    BY <1>3, <2>1, StepByStep
<1>7. f = body(f)
  <2>1. \A n \in 0..N : n # 0 => n \in 1..N /\ n - 1 \in 0..N /\ f[n - 1] \in V
    BY <1>1
  <2>2. \A n \in 0..N : f[n] = IF n = 0 THEN zero ELSE step(n, f[n - 1])
    BY <1>5, <1>6, <2>1
  <2>3. QED
    BY <2>2
<1>8. upTo = body(upTo)
  <2> HIDE DEF body
  <2>1. QED
    BY <1>7
<1>9. Selected(rows, i) = upTo[N]
  BY DEF Selected, step, N, zero
<1> HIDE DEF upTo
<1>10. upTo = [n \in 0..N |-> IF n = 0 THEN zero ELSE step(n, upTo[n - 1])]
  BY <1>8
<1>11. upTo[0] = zero /\ \A n \in 1..N : upTo[n] = step(n, upTo[n - 1])
  BY <1>1, <1>10
<1>12. upTo \in [0..N -> V]
  <2>1. upTo = [n \in 0..N |-> upTo[n]]
    BY <1>10
  <2>2. \A n \in 1..N : upTo[n - 1] \in V => upTo[n] \in V
    BY <1>2, <1>11
  <2>3. QED
    BY <1>1, <1>3, <1>11, <2>1, <2>2, StepsAreTyped
<1>13. QED
  BY <1>9, <1>11, <1>12 DEF N, V, step, zero

\* The archive counts as the rest does.
LEMMA SameCardinality ==
    \A S : Archive!Cardinality(S) = Cardinality(S)
  BY DEF Cardinality, Archive!Cardinality

\* One more row counted in.
LEMMA CountTyped ==
    \A r \in Metrics : \A so \in Summaries : Count(r, so) \in Summaries
<1> SUFFICES ASSUME NEW r \in Metrics, NEW so \in Summaries
             PROVE  Count(r, so) \in Summaries
  OBVIOUS
<1> DEFINE Entry == [sum : Int, count : Nat]
<1>1. PICK R \in SUBSET MetricNames : r \in [R -> Int]
  BY DEF Metrics
<1>2. PICK S \in SUBSET MetricNames : so \in [S -> Entry]
  BY DEF Summaries
<1>3. \A e \in Entry : e.sum \in Int /\ e.count \in Nat
  OBVIOUS
<1>4. \A i \in Int, k \in Nat : [sum |-> i, count |-> k] \in Entry
  OBVIOUS
<1> HIDE DEF Entry
<1>5. \A m \in S \cup R :
        (IF m \notin R THEN so[m]
         ELSE IF m \notin S THEN [sum |-> r[m], count |-> 1]
         ELSE [sum |-> so[m].sum + r[m], count |-> so[m].count + 1]) \in Entry
  <2> TAKE m \in S \cup R
  <2>1. CASE m \notin R
    BY <1>2, <2>1
  <2>2. CASE m \in R /\ m \notin S
    BY <1>1, <1>4, <2>2
  <2>3. CASE m \in R /\ m \in S
    <3>1. so[m].sum \in Int /\ so[m].count \in Nat /\ r[m] \in Int
      BY <1>1, <1>2, <1>3, <2>3
    <3>2. so[m].sum + r[m] \in Int /\ so[m].count + 1 \in Nat
      BY <3>1
    <3>3. QED
      BY <1>4, <2>3, <3>2
  <2>4. QED
    BY <2>1, <2>2, <2>3
<1>6. Count(r, so) \in [S \cup R -> Entry]
  <2>1. DOMAIN r = R /\ DOMAIN so = S
    BY <1>1, <1>2
  <2>2. QED
    BY <1>5, <2>1 DEF Count
<1>7. S \cup R \in SUBSET MetricNames
  BY <1>1, <1>2
<1>8. QED
  BY <1>6, <1>7 DEF Summaries, Entry

\* The empty summary is one.
LEMMA NoSummaryTyped ==
    NoSummary \in Summaries
<1>1. NoSummary \in [{} -> [sum : Int, count : Nat]]
  BY DEF NoSummary
<1>2. {} \in SUBSET MetricNames
  OBVIOUS
<1>3. QED
  BY <1>1, <1>2 DEF Summaries

\* What a metric adds up to over the rows, as far as each row.
LEMMA TotalsSteps ==
    \A rows \in Seq(Metrics) : \A m \in MetricNames :
        \E f \in [0..Len(rows) -> Int] :
            /\ Archive!Totals(rows, m) =
                   [sum |-> f[Len(rows)],
                    count |-> Cardinality({n \in DOMAIN rows : m \in DOMAIN rows[n]})]
            /\ f[0] = 0
            /\ \A n \in 1..Len(rows) :
                   f[n] = f[n - 1] + (IF m \in DOMAIN rows[n] THEN rows[n][m] ELSE 0)
<1>0. SUFFICES ASSUME NEW rows, rows \in Seq(Metrics), NEW m, m \in MetricNames
               PROVE  \E f \in [0..Len(rows) -> Int] :
                         /\ Archive!Totals(rows, m) =
                                [sum |-> f[Len(rows)],
                                 count |-> Cardinality({n \in DOMAIN rows : m \in DOMAIN rows[n]})]
                         /\ f[0] = 0
                         /\ \A n \in 1..Len(rows) :
                                f[n] = f[n - 1] + (IF m \in DOMAIN rows[n] THEN rows[n][m] ELSE 0)
  OBVIOUS
<1> DEFINE N == Len(rows)
           V == Int
           zero == 0
           scored == {n \in DOMAIN rows : m \in DOMAIN rows[n]}
           step(n, w) == w + (IF n \in scored THEN rows[n][m] ELSE 0)
           body(f) == [n \in 0..N |-> IF n = 0 THEN zero ELSE step(n, f[n - 1])]
           h == [n \in 1..N |-> [w \in V |-> step(n, w)]]
           upTo == CHOOSE f : f = body(f)
<1>1. N \in Nat /\ DOMAIN rows = 1..N
      /\ \A n \in 1..N : m \in DOMAIN rows[n] => rows[n][m] \in Int
  <2>1. N \in Nat /\ DOMAIN rows = 1..N /\ \A n \in 1..N : rows[n] \in Metrics
    BY <1>0
  <2>2. \A w \in Metrics : m \in DOMAIN w => w[m] \in Int
    BY DEF Metrics
  <2>3. QED
    BY <2>1, <2>2
<1>2. \A n \in 1..N : \A w \in V : step(n, w) \in V
  BY <1>1
<1>3. zero \in V
  OBVIOUS
<1> HIDE DEF V, N, step, zero
<1>4. h \in [1..N -> [V -> V]] /\ \A n \in 1..N : \A w \in V : h[n][w] = step(n, w)
  BY <1>2
<1> HIDE DEF h
<1>5. PICK f \in [0..N -> V] : f[0] = zero /\ \A n \in 1..N : f[n] = h[n][f[n - 1]]
  <2>1. N \in Nat /\ h \in [1..N -> [V -> V]]
    BY <1>1, <1>4
  <2>2. QED
    BY <1>3, <2>1, StepByStep
<1>6. f = body(f)
  <2>1. \A n \in 0..N : n # 0 => n \in 1..N /\ n - 1 \in 0..N /\ f[n - 1] \in V
    BY <1>1
  <2>2. \A n \in 0..N : f[n] = IF n = 0 THEN zero ELSE step(n, f[n - 1])
    BY <1>4, <1>5, <2>1
  <2>3. QED
    BY <2>2
<1>7. upTo = body(upTo)
  <2> HIDE DEF body
  <2>1. QED
    BY <1>6
<1>8. Archive!Totals(rows, m) = [sum |-> upTo[N], count |-> Archive!Cardinality(scored)]
  BY DEF Archive!Totals, step, N, zero, scored
<1> HIDE DEF upTo
<1>9. upTo = [n \in 0..N |-> IF n = 0 THEN zero ELSE step(n, upTo[n - 1])]
  BY <1>7
<1>10. upTo[0] = zero /\ \A n \in 1..N : upTo[n] = step(n, upTo[n - 1])
  BY <1>1, <1>9
<1>11. upTo \in [0..N -> V]
  <2>1. upTo = [n \in 0..N |-> upTo[n]]
    BY <1>9
  <2>2. \A n \in 1..N : upTo[n - 1] \in V => upTo[n] \in V
    BY <1>2, <1>10
  <2>3. QED
    BY <1>1, <1>3, <1>10, <2>1, <2>2, StepsAreTyped
<1>12. \A n \in 1..N : n \in scored <=> m \in DOMAIN rows[n]
  BY <1>1
<1>13. \A n \in 1..N : upTo[n] = upTo[n - 1] + (IF m \in DOMAIN rows[n] THEN rows[n][m] ELSE 0)
  BY <1>10, <1>12 DEF step
<1> HIDE DEF scored
<1>14. Archive!Totals(rows, m) = [sum |-> upTo[N], count |-> Cardinality(scored)]
  BY <1>8, SameCardinality
<1>15. QED
  BY <1>10, <1>11, <1>13, <1>14 DEF N, V, zero, scored

\* The running totals and counts, as far as each row.
LEMMA AverageSteps ==
    \A rows \in Seq(Metrics) :
        \E f \in [0..Len(rows) -> Summaries] :
            /\ AverageMetrics(rows) = f[Len(rows)]
            /\ f[0] = NoSummary
            /\ \A n \in 1..Len(rows) : f[n] = Count(rows[n], f[n - 1])
<1>0. SUFFICES ASSUME NEW rows, rows \in Seq(Metrics)
               PROVE  \E f \in [0..Len(rows) -> Summaries] :
                         /\ AverageMetrics(rows) = f[Len(rows)]
                         /\ f[0] = NoSummary
                         /\ \A n \in 1..Len(rows) : f[n] = Count(rows[n], f[n - 1])
  OBVIOUS
<1> DEFINE N == Len(rows)
           V == Summaries
           zero == NoSummary
           step(n, w) == Count(rows[n], w)
           body(f) == [n \in 0..N |-> IF n = 0 THEN zero ELSE step(n, f[n - 1])]
           h == [n \in 1..N |-> [w \in V |-> step(n, w)]]
           upTo == CHOOSE f : f = body(f)
<1>1. N \in Nat /\ \A n \in 1..N : rows[n] \in Metrics
  BY <1>0
<1>2. \A n \in 1..N : \A w \in V : step(n, w) \in V
  BY <1>1, CountTyped
<1>3. zero \in V
  BY NoSummaryTyped
<1> HIDE DEF V, N, step, zero
<1>4. h \in [1..N -> [V -> V]] /\ \A n \in 1..N : \A w \in V : h[n][w] = step(n, w)
  BY <1>2
<1> HIDE DEF h
<1>5. PICK f \in [0..N -> V] : f[0] = zero /\ \A n \in 1..N : f[n] = h[n][f[n - 1]]
  <2>1. N \in Nat /\ h \in [1..N -> [V -> V]]
    BY <1>1, <1>4
  <2>2. QED
    BY <1>3, <2>1, StepByStep
<1>6. f = body(f)
  <2>1. \A n \in 0..N : n # 0 => n \in 1..N /\ n - 1 \in 0..N /\ f[n - 1] \in V
    BY <1>1
  <2>2. \A n \in 0..N : f[n] = IF n = 0 THEN zero ELSE step(n, f[n - 1])
    BY <1>4, <1>5, <2>1
  <2>3. QED
    BY <2>2
<1>7. upTo = body(upTo)
  <2> HIDE DEF body
  <2>1. QED
    BY <1>6
<1>8. AverageMetrics(rows) = upTo[N]
  BY DEF AverageMetrics, step, N, zero
<1> HIDE DEF upTo
<1>9. upTo = [n \in 0..N |-> IF n = 0 THEN zero ELSE step(n, upTo[n - 1])]
  BY <1>7
<1>10. upTo[0] = zero /\ \A n \in 1..N : upTo[n] = step(n, upTo[n - 1])
  BY <1>1, <1>9
<1>11. upTo \in [0..N -> V]
  <2>1. upTo = [n \in 0..N |-> upTo[n]]
    BY <1>9
  <2>2. \A n \in 1..N : upTo[n - 1] \in V => upTo[n] \in V
    BY <1>2, <1>10
  <2>3. QED
    BY <1>1, <1>3, <1>10, <2>1, <2>2, StepsAreTyped
<1>12. QED
  BY <1>8, <1>10, <1>11 DEF N, V, step, zero

\* The gains of some ranks, as far as each rank.
LEMMA GainSteps ==
    \A ranks :
        \E f \in [0..Len(Gain) -> Nat] :
            /\ GainOf(ranks) = f[Len(Gain)]
            /\ f[0] = 0
            /\ \A n \in 1..Len(Gain) : f[n] = f[n - 1] + (IF n \in ranks THEN Gain[n] ELSE 0)
<1>0. SUFFICES ASSUME NEW ranks
               PROVE  \E f \in [0..Len(Gain) -> Nat] :
                         /\ GainOf(ranks) = f[Len(Gain)]
                         /\ f[0] = 0
                         /\ \A n \in 1..Len(Gain) : f[n] = f[n - 1] + (IF n \in ranks THEN Gain[n] ELSE 0)
  OBVIOUS
<1> DEFINE N == Len(Gain)
           V == Nat
           zero == 0
           step(n, w) == w + (IF n \in ranks THEN Gain[n] ELSE 0)
           body(f) == [n \in 0..N |-> IF n = 0 THEN zero ELSE step(n, f[n - 1])]
           h == [n \in 1..N |-> [w \in V |-> step(n, w)]]
           upTo == CHOOSE f : f = body(f)
<1>1. N \in Nat /\ \A n \in 1..N : Gain[n] \in Nat
  BY GainAssumption
<1>2. \A n \in 1..N : \A w \in V : step(n, w) \in V
  BY <1>1
<1>3. zero \in V
  OBVIOUS
<1> HIDE DEF V, N, step, zero
<1>4. h \in [1..N -> [V -> V]] /\ \A n \in 1..N : \A w \in V : h[n][w] = step(n, w)
  BY <1>2
<1> HIDE DEF h
<1>5. PICK f \in [0..N -> V] : f[0] = zero /\ \A n \in 1..N : f[n] = h[n][f[n - 1]]
  <2>1. N \in Nat /\ h \in [1..N -> [V -> V]]
    BY <1>1, <1>4
  <2>2. QED
    BY <1>3, <2>1, StepByStep
<1>6. f = body(f)
  <2>1. \A n \in 0..N : n # 0 => n \in 1..N /\ n - 1 \in 0..N /\ f[n - 1] \in V
    BY <1>1
  <2>2. \A n \in 0..N : f[n] = IF n = 0 THEN zero ELSE step(n, f[n - 1])
    BY <1>4, <1>5, <2>1
  <2>3. QED
    BY <2>2
<1>7. upTo = body(upTo)
  <2> HIDE DEF body
  <2>1. QED
    BY <1>6
<1>8. GainOf(ranks) = upTo[N]
  BY DEF GainOf, step, N, zero
<1> HIDE DEF upTo
<1>9. upTo = [n \in 0..N |-> IF n = 0 THEN zero ELSE step(n, upTo[n - 1])]
  BY <1>7
<1>10. upTo[0] = zero /\ \A n \in 1..N : upTo[n] = step(n, upTo[n - 1])
  BY <1>1, <1>9
<1>11. upTo \in [0..N -> V]
  <2>1. upTo = [n \in 0..N |-> upTo[n]]
    BY <1>9
  <2>2. \A n \in 1..N : upTo[n - 1] \in V => upTo[n] \in V
    BY <1>2, <1>10
  <2>3. QED
    BY <1>1, <1>3, <1>10, <2>1, <2>2, StepsAreTyped
<1>12. QED
  BY <1>8, <1>10, <1>11 DEF N, V, step, zero

\* Nothing is selected from an empty store.
LEMMA SelectedNone ==
    \A i \in RunIds : Selected(<< >>, i) = << >>
<1> TAKE i \in RunIds
<1>1. \A rows \in Seq(Rows) : Len(rows) = 0 => Selected(rows, i) = << >>
  <2>0. SUFFICES ASSUME NEW rows \in Seq(Rows), Len(rows) = 0
               PROVE  Selected(rows, i) = << >>
    OBVIOUS
  <2>1. PICK f \in [0..Len(rows) -> Seq(Metrics)] :
          /\ Selected(rows, i) = f[Len(rows)] /\ f[0] = << >>
          /\ \A n \in 1..Len(rows) :
                 f[n] = IF rows[n].run = i THEN Append(f[n - 1], rows[n].metrics) ELSE f[n - 1]
    BY SelectedSteps
  <2>2. QED
    BY <2>0, <2>1
<1>2. << >> \in Seq(Rows) /\ Len(<< >>) = 0
  OBVIOUS
<1>3. QED
  BY <1>1, <1>2

\* A store with one more row has it as the last row of its run.
LEMMA SelectedAppend ==
    \A rows \in Seq(Rows) : \A x \in Rows : \A i \in RunIds :
        Selected(Append(rows, x), i) =
            IF x.run = i THEN Append(Selected(rows, i), x.metrics) ELSE Selected(rows, i)
<1> SUFFICES ASSUME NEW rows \in Seq(Rows), NEW x \in Rows, NEW i \in RunIds
             PROVE  Selected(Append(rows, x), i) =
                        IF x.run = i THEN Append(Selected(rows, i), x.metrics) ELSE Selected(rows, i)
  OBVIOUS
<1> DEFINE N == Len(rows)
           more == Append(rows, x)
<1>1. /\ more \in Seq(Rows) /\ N \in Nat /\ Len(more) = N + 1 /\ more[N + 1] = x
      /\ \A n \in 1..N : more[n] = rows[n]
  OBVIOUS
<1>2. PICK f \in [0..Len(rows) -> Seq(Metrics)] :
        /\ Selected(rows, i) = f[Len(rows)] /\ f[0] = << >>
        /\ \A n \in 1..Len(rows) :
               f[n] = IF rows[n].run = i THEN Append(f[n - 1], rows[n].metrics) ELSE f[n - 1]
  BY SelectedSteps
<1> HIDE DEF more
<1>3. PICK g \in [0..Len(more) -> Seq(Metrics)] :
        /\ Selected(more, i) = g[Len(more)] /\ g[0] = << >>
        /\ \A n \in 1..Len(more) :
               g[n] = IF more[n].run = i THEN Append(g[n - 1], more[n].metrics) ELSE g[n - 1]
  BY <1>1, SelectedSteps
<1> DEFINE S == {n \in Nat : n <= N => f[n] = g[n]}
<1>4. 0 \in S
  BY <1>2, <1>3
<1>5. \A n \in Nat : n \in S => n + 1 \in S
  <2> SUFFICES ASSUME NEW n \in Nat, n \in S, n + 1 <= N
               PROVE  f[n + 1] = g[n + 1]
    OBVIOUS
  <2>1. f[n] = g[n] /\ n + 1 \in 1..N /\ n + 1 \in 1..(N + 1) /\ (n + 1) - 1 = n
    BY <1>1
  <2>2. more[n + 1] = rows[n + 1]
    BY <1>1, <2>1
  <2>3. f[n + 1] = IF rows[n + 1].run = i THEN Append(f[n], rows[n + 1].metrics) ELSE f[n]
    BY <1>2, <2>1
  <2>4. g[n + 1] = IF more[n + 1].run = i THEN Append(g[n], more[n + 1].metrics) ELSE g[n]
    BY <1>1, <1>3, <2>1
  <2>5. QED
    BY <2>1, <2>2, <2>3, <2>4
<1>6. f[N] = g[N]
  <2>1. \A n \in Nat : n \in S
    <3> HIDE DEF S
    <3>1. QED
      BY <1>4, <1>5, NatInduct
  <2>2. QED
    BY <1>1, <2>1
<1>7. g[N + 1] = IF x.run = i THEN Append(g[N], x.metrics) ELSE g[N]
  <2>1. N + 1 \in 1..Len(more) /\ (N + 1) - 1 = N
    BY <1>1
  <2>2. QED
    BY <1>1, <1>3, <2>1
<1>8. QED
  BY <1>1, <1>2, <1>3, <1>6, <1>7 DEF more

\* What is selected are metrics of rows.
LEMMA SelectedTyped ==
    \A rows \in Seq(Rows) : \A i \in RunIds : Selected(rows, i) \in Seq(Metrics)
<1> SUFFICES ASSUME NEW rows \in Seq(Rows), NEW i \in RunIds
             PROVE  Selected(rows, i) \in Seq(Metrics)
  OBVIOUS
<1>1. PICK f \in [0..Len(rows) -> Seq(Metrics)] : Selected(rows, i) = f[Len(rows)]
  BY SelectedSteps
<1>2. Len(rows) \in 0..Len(rows)
  OBVIOUS
<1>3. QED
  BY <1>1, <1>2

\* The rows that scored a metric, as far as row n.
ScoredIn(rows, m, n) == {x \in 1..n : m \in DOMAIN rows[x]}

\* One more row scores a metric or does not.
LEMMA ScoredUpTo ==
    \A rows : \A m : \A n \in Nat :
        /\ IsFiniteSet(ScoredIn(rows, m, n)) /\ Cardinality(ScoredIn(rows, m, n)) \in Nat
        /\ ScoredIn(rows, m, 0) = {} /\ Cardinality(ScoredIn(rows, m, 0)) = 0
        /\ Cardinality(ScoredIn(rows, m, n + 1)) =
             IF m \in DOMAIN rows[n + 1] THEN Cardinality(ScoredIn(rows, m, n)) + 1
             ELSE Cardinality(ScoredIn(rows, m, n))
<1> TAKE rows, m
<1> TAKE n \in Nat
<1> DEFINE scored(k) == ScoredIn(rows, m, k)
<1>1. IsFiniteSet(scored(n)) /\ Cardinality(scored(n)) \in Nat
  <2>1. IsFiniteSet(1..n) /\ scored(n) \in SUBSET (1..n)
    BY FS_Interval DEF ScoredIn
  <2>2. IsFiniteSet(scored(n))
    BY <2>1, FS_Subset
  <2>3. QED
    BY <2>2, FS_CardinalityType
<1>2. scored(0) = {} /\ Cardinality({}) = 0
  BY FS_EmptySet DEF ScoredIn
<1>3. CASE m \in DOMAIN rows[n + 1]
  <2>1. scored(n + 1) = scored(n) \cup {n + 1} /\ n + 1 \notin scored(n)
    BY <1>3 DEF ScoredIn
  <2>2. QED
    BY <1>1, <1>2, <1>3, <2>1, FS_AddElement
<1>4. CASE m \notin DOMAIN rows[n + 1]
  <2>1. scored(n + 1) = scored(n)
    BY <1>4 DEF ScoredIn
  <2>2. QED
    BY <1>1, <1>2, <1>4, <2>1
<1>5. QED
  BY <1>3, <1>4

\* What the loop of _average_metrics adds up and counts is the mean of each
\* metric over the rows that have it.
THEOREM AverageIsMean ==
    \A rows \in Seq(Metrics) : AverageMetrics(rows) = Archive!Mean(rows)
<1> SUFFICES ASSUME NEW rows \in Seq(Metrics)
             PROVE  AverageMetrics(rows) = Archive!Mean(rows)
  OBVIOUS
<1> DEFINE N == Len(rows)
           scored(m, n) == ScoredIn(rows, m, n)
           score(m, n) == IF m \in DOMAIN rows[n] THEN rows[n][m] ELSE 0
           Sums(m, f) ==
             /\ Archive!Totals(rows, m) = [sum |-> f[N], count |-> Cardinality(scored(m, N))]
             /\ f[0] = 0
             /\ \A n \in 1..N : f[n] = f[n - 1] + score(m, n)
           s == [m \in MetricNames |-> CHOOSE f \in [0..N -> Int] : Sums(m, f)]
           D(n) == {m \in MetricNames : \E x \in 1..n : m \in DOMAIN rows[x]}
<1>1. /\ N \in Nat /\ DOMAIN rows = 1..N
      /\ \A n \in 1..N : /\ rows[n] \in Metrics /\ DOMAIN rows[n] \subseteq MetricNames
                         /\ rows[n] = [m \in DOMAIN rows[n] |-> rows[n][m]]
                         /\ \A m \in DOMAIN rows[n] : rows[n][m] \in Int
  <2>1. N \in Nat /\ DOMAIN rows = 1..N /\ \A n \in 1..N : rows[n] \in Metrics
    OBVIOUS
  <2>2. \A w \in Metrics : /\ DOMAIN w \subseteq MetricNames /\ w = [m \in DOMAIN w |-> w[m]]
                           /\ \A m \in DOMAIN w : w[m] \in Int
    BY DEF Metrics
  <2>3. QED
    BY <2>1, <2>2
<1>2. \A m \in MetricNames : s[m] \in [0..N -> Int] /\ Sums(m, s[m])
  <2> SUFFICES ASSUME NEW m \in MetricNames
               PROVE  s[m] \in [0..N -> Int] /\ Sums(m, s[m])
    OBVIOUS
  <2>1. PICK f \in [0..Len(rows) -> Int] :
          /\ Archive!Totals(rows, m) =
               [sum |-> f[Len(rows)],
                count |-> Cardinality({n \in DOMAIN rows : m \in DOMAIN rows[n]})]
          /\ f[0] = 0
          /\ \A n \in 1..Len(rows) :
               f[n] = f[n - 1] + (IF m \in DOMAIN rows[n] THEN rows[n][m] ELSE 0)
    BY TotalsSteps
  <2>2. {n \in DOMAIN rows : m \in DOMAIN rows[n]} = scored(m, N)
    BY <1>1 DEF ScoredIn
  <2>3. Sums(m, f)
    BY <2>1, <2>2
  <2> HIDE DEF Sums
  <2>4. QED
    BY <2>1, <2>3
<1>3. PICK a \in [0..Len(rows) -> Summaries] :
        /\ AverageMetrics(rows) = a[Len(rows)] /\ a[0] = NoSummary
        /\ \A n \in 1..Len(rows) : a[n] = Count(rows[n], a[n - 1])
  BY AverageSteps
<1> HIDE DEF s
<1> DEFINE Entry(m, n) == [sum |-> s[m][n], count |-> Cardinality(scored(m, n))]
           Right(n) == /\ a[n] = [m \in D(n) |-> Entry(m, n)]
                       /\ \A m \in MetricNames \ D(n) : s[m][n] = 0
           S == {n \in Nat : n <= N => Right(n)}
<1>4. 0 \in S
  <2>1. D(0) = {} /\ a[0] = NoSummary
    BY <1>3
  <2>2. a[0] = [m \in D(0) |-> Entry(m, 0)]
    <3> HIDE DEF Entry, D
    <3>1. QED
      BY <2>1 DEF NoSummary
  <2>3. \A m \in MetricNames : s[m][0] = 0
    BY <1>2
  <2>4. QED
    BY <2>2, <2>3
<1>5. \A n \in Nat : n \in S => n + 1 \in S
  <2> SUFFICES ASSUME NEW n \in Nat, n \in S, n + 1 <= N
               PROVE  Right(n + 1)
    <3> HIDE DEF Right
    <3>1. QED
      OBVIOUS
  <2> DEFINE r == rows[n + 1]
  <2>1. n + 1 \in 1..N /\ (n + 1) - 1 = n /\ n \in 0..N /\ Right(n)
    <3> HIDE DEF Right
    <3>1. QED
      BY <1>1
  <2>2. a[n + 1] = Count(r, a[n])
    BY <1>3, <2>1
  <2>3. D(n + 1) = D(n) \cup DOMAIN r
    BY <1>1, <2>1
  <2>4. \A m \in MetricNames : /\ s[m][n] \in Int /\ s[m][n + 1] = s[m][n] + score(m, n + 1)
                               /\ s[m][n + 1] \in Int
    <3> TAKE m \in MetricNames
    <3>1. s[m] \in [0..N -> Int] /\ n \in 0..N /\ n + 1 \in 0..N
      BY <1>1, <1>2, <2>1
    <3>2. \A x \in 1..N : s[m][x] = s[m][x - 1] + score(m, x)
      BY <1>2
    <3>3. s[m][n + 1] = s[m][(n + 1) - 1] + score(m, n + 1)
      <4> HIDE DEF score
      <4>1. QED
        BY <2>1, <3>2
    <3>4. QED
      <4> HIDE DEF score, s
      <4>1. QED
        BY <2>1, <3>1, <3>3
  <2>5. \A m : Cardinality(scored(m, n + 1)) =
                 IF m \in DOMAIN r THEN Cardinality(scored(m, n)) + 1 ELSE Cardinality(scored(m, n))
    <3> HIDE DEF S, Right, D, Sums
    <3>1. QED
      BY ScoredUpTo
  <2>6. \A m \in MetricNames \ D(n) : Cardinality(scored(m, n)) = 0
    <3> TAKE m \in MetricNames \ D(n)
    <3>1. scored(m, n) = {}
      BY <2>1 DEF ScoredIn
    <3>2. QED
      BY <3>1, FS_EmptySet
  <2>7. DOMAIN a[n] = D(n) /\ \A m \in D(n) : a[n][m].sum = s[m][n]
                                           /\ a[n][m].count = Cardinality(scored(m, n))
                                           /\ a[n][m] = Entry(m, n)
    <3>1. a[n] = [m \in D(n) |-> Entry(m, n)]
      BY <2>1
    <3> HIDE DEF D, scored
    <3>2. QED
      BY <3>1
  <2> HIDE DEF scored, s
  <2>8. \A m \in D(n) \cup DOMAIN r : Count(r, a[n])[m] = Entry(m, n + 1)
    <3> TAKE m \in D(n) \cup DOMAIN r
    <3>1. m \in MetricNames
      BY <1>1, <2>1
    <3> HIDE DEF D, r
    <3>2. Count(r, a[n])[m] = IF m \notin DOMAIN r THEN a[n][m]
                              ELSE IF m \notin D(n) THEN [sum |-> r[m], count |-> 1]
                              ELSE [sum |-> a[n][m].sum + r[m], count |-> a[n][m].count + 1]
      BY <2>7 DEF Count
    <3>3. CASE m \notin DOMAIN r
      <4>1. s[m][n + 1] = s[m][n]
        BY <2>4, <3>1, <3>3 DEF r
      <4>2. QED
        BY <2>5, <2>7, <3>2, <3>3, <4>1
    <3>4. CASE m \in DOMAIN r /\ m \notin D(n)
      <4>1. s[m][n] = 0 /\ Cardinality(scored(m, n)) = 0
        BY <2>1, <2>6, <3>1, <3>4
      <4>2. s[m][n + 1] = r[m] /\ Cardinality(scored(m, n + 1)) = 1
        <5>1. r[m] \in Int
          BY <1>1, <2>1, <3>4 DEF r
        <5>2. QED
          BY <2>4, <2>5, <3>1, <3>4, <4>1, <5>1 DEF r
      <4>3. QED
        BY <3>2, <3>4, <4>2
    <3>5. CASE m \in DOMAIN r /\ m \in D(n)
      <4>1. s[m][n + 1] = s[m][n] + r[m]
        BY <2>4, <3>1, <3>5 DEF r
      <4>2. QED
        BY <2>5, <2>7, <3>2, <3>5, <4>1
    <3>6. QED
      BY <3>3, <3>4, <3>5
  <2>9. DOMAIN Count(r, a[n]) = D(n) \cup DOMAIN r
    BY <2>7 DEF Count
  <2>10. a[n + 1] = [m \in D(n + 1) |-> Entry(m, n + 1)]
    <3>1. Count(r, a[n]) = [m \in DOMAIN Count(r, a[n]) |-> Count(r, a[n])[m]]
      BY DEF Count
    <3> HIDE DEF D, Entry, r
    <3>2. QED
      BY <2>2, <2>3, <2>8, <2>9, <3>1
  <2>11. \A m \in MetricNames \ D(n + 1) : s[m][n + 1] = 0
    <3> TAKE m \in MetricNames \ D(n + 1)
    <3>1. m \notin DOMAIN r /\ m \in MetricNames \ D(n)
      BY <2>3
    <3>2. QED
      BY <2>1, <2>4, <3>1
  <2>12. QED
    BY <2>10, <2>11
<1>6. Right(N)
  <2>1. \A n \in Nat : n \in S
    <3> HIDE DEF S
    <3>1. QED
      BY <1>4, <1>5, NatInduct
  <2>2. QED
    <3> HIDE DEF Right
    <3>1. QED
      BY <1>1, <2>1
<1>7. UNION {DOMAIN rows[n] : n \in DOMAIN rows} = D(N)
  BY <1>1
<1>8. \A m \in D(N) : Archive!Totals(rows, m) = Entry(m, N)
  BY <1>2
<1>9. Archive!Mean(rows) = [m \in D(N) |-> Entry(m, N)]
  <2>1. Archive!Mean(rows) = [m \in D(N) |-> Archive!Totals(rows, m)]
    BY <1>7 DEF Archive!Mean
  <2> HIDE DEF D, Entry
  <2>2. QED
    BY <1>8, <2>1
<1>10. QED
  BY <1>3, <1>6, <1>9

\* A set of naturals that is not empty has a least member, and Min is it.
LEMMA MinIsLeast ==
    \A S \in SUBSET Nat : S # {} => Min(S) \in S /\ \A k \in S : Min(S) <= k
<1> SUFFICES ASSUME NEW S \in SUBSET Nat, S # {}
             PROVE  Min(S) \in S /\ \A k \in S : Min(S) <= k
  OBVIOUS
<1> DEFINE Below == {n \in Nat : \A k \in S : n <= k}
<1>1. \E n \in S : \A k \in S : n <= k
  <2> SUFFICES ASSUME \A n \in S : ~ \A k \in S : n <= k
               PROVE  FALSE
    OBVIOUS
  <2>1. 0 \in Below
    OBVIOUS
  <2>2. \A n \in Nat : n \in Below => n + 1 \in Below
    <3> SUFFICES ASSUME NEW n \in Nat, n \in Below, NEW k \in S
                 PROVE  n + 1 <= k
      OBVIOUS
    <3>1. n <= k /\ n \notin S
      OBVIOUS
    <3>2. QED
      BY <3>1
  <2>3. PICK k \in S : TRUE
    OBVIOUS
  <2>4. k + 1 \in Below
    <3> HIDE DEF Below
    <3>1. k + 1 \in Nat
      OBVIOUS
    <3>2. QED
      BY <2>1, <2>2, <3>1, NatInduct
  <2>5. QED
    BY <2>4
<1>2. QED
  BY <1>1 DEF Min

\* A fraction of a whole is at most the whole.
LEMMA Fraction ==
    \A x, y \in Nat : 0 < y /\ x <= y => (One * x) \div y \in 0..One
<1> SUFFICES ASSUME NEW x \in Nat, NEW y \in Nat, 0 < y, x <= y
             PROVE  (One * x) \div y \in 0..One
  OBVIOUS
<1> DEFINE q == (1000 * x) \div y
<1>1. q \in Int /\ y * q <= 1000 * x /\ 1000 * x < y * q + y
  OBVIOUS
<1> HIDE DEF q
<1>2. 0 <= q
  <2>1. CASE q <= -1
    <3>1. y * q <= y * (-1)
      BY <1>1, <2>1
    <3>2. QED
      BY <1>1, <3>1
  <2>2. QED
    BY <1>1, <2>1
<1>3. q <= 1000
  <2>1. CASE q >= 1001
    <3>1. y * q >= y * 1001
      BY <1>1, <2>1
    <3>2. QED
      BY <1>1, <3>1
  <2>2. QED
    BY <1>1, <2>1
<1>4. QED
  BY <1>1, <1>2, <1>3 DEF q, One

\* The first k documents are a prefix of the list, as long as k or as the list.
LEMMA TopKIsPrefix ==
    \A ids \in Seq(Docs) : \A k \in Nat \ {0} :
        LET top == TopK(ids, k)
        IN  /\ top \in Seq(Docs) /\ Len(top) \in Nat /\ Len(top) <= Len(ids) /\ Len(top) <= k
            /\ DOMAIN top = 1..Len(top) /\ DOMAIN ids = 1..Len(ids)
            /\ ids # << >> => Len(top) > 0
<1> SUFFICES ASSUME NEW ids \in Seq(Docs), NEW k \in Nat \ {0}
             PROVE  LET top == TopK(ids, k)
                    IN  /\ top \in Seq(Docs) /\ Len(top) \in Nat /\ Len(top) <= Len(ids) /\ Len(top) <= k
                        /\ DOMAIN top = 1..Len(top) /\ DOMAIN ids = 1..Len(ids)
                        /\ ids # << >> => Len(top) > 0
  OBVIOUS
<1> DEFINE least == Min({k, Len(ids)})
           top == TopK(ids, k)
<1>1. Len(ids) \in Nat /\ DOMAIN ids = 1..Len(ids) /\ (ids # << >> => Len(ids) > 0)
  OBVIOUS
<1>2. least \in {k, Len(ids)} /\ least <= k /\ least <= Len(ids) /\ least \in Nat
  <2> DEFINE S == {k, Len(ids)}
  <2>1. S \in SUBSET Nat /\ S # {} /\ k \in S /\ Len(ids) \in S
    BY <1>1
  <2>2. Min(S) \in S /\ \A x \in S : Min(S) <= x
    <3> HIDE DEF S
    <3>1. QED
      BY <2>1, MinIsLeast
  <2>3. QED
    BY <2>1, <2>2
<1> HIDE DEF least
<1>3. top = SubSeq(ids, 1, least)
  BY DEF TopK, least
<1>4. /\ SubSeq(ids, 1, least) \in Seq(Docs) /\ Len(SubSeq(ids, 1, least)) = least
      /\ DOMAIN SubSeq(ids, 1, least) = 1..least
  <2>1. \A n \in Nat : n <= Len(ids) =>
           /\ SubSeq(ids, 1, n) \in Seq(Docs) /\ Len(SubSeq(ids, 1, n)) = n
           /\ DOMAIN SubSeq(ids, 1, n) = 1..n
    OBVIOUS
  <2>2. QED
    BY <1>2, <2>1
<1>5. ids # << >> => least > 0
  <2>1. k > 0 /\ k \in Nat /\ (least = k \/ least = Len(ids))
    BY <1>2
  <2>2. CASE ids # << >>
    <3>1. Len(ids) > 0
      BY <1>1, <2>2, Zenon
    <3>2. QED
      BY <2>1, <3>1
  <2>3. QED
    BY <2>2
<1> HIDE DEF top
<1>6. /\ top \in Seq(Docs) /\ Len(top) \in Nat /\ Len(top) <= Len(ids) /\ Len(top) <= k
      /\ DOMAIN top = 1..Len(top) /\ DOMAIN ids = 1..Len(ids)
      /\ ids # << >> => Len(top) > 0
  BY <1>1, <1>2, <1>3, <1>4, <1>5
<1>7. QED
  BY <1>6 DEF top

\* The ranks of the hits in a list are positions of it.
LEMMA HitsAreRanks ==
    \A ids \in Seq(Docs) : \A expected :
        /\ HitRanks(ids, expected) \subseteq 1..Len(ids)
        /\ Cardinality(HitRanks(ids, expected)) \in Nat
        /\ Cardinality(HitRanks(ids, expected)) <= Len(ids)
<1> TAKE ids \in Seq(Docs)
<1> TAKE expected
<1> DEFINE hits == HitRanks(ids, expected)
<1>1. Len(ids) \in Nat /\ hits \subseteq 1..Len(ids)
  BY DEF HitRanks
<1> HIDE DEF hits
<1>2. IsFiniteSet(1..Len(ids)) /\ Cardinality(1..Len(ids)) = Len(ids)
  <2>1. \A n \in Nat : IsFiniteSet(1..n) /\ Cardinality(1..n) = n
    <3> TAKE n \in Nat
    <3>1. IsFiniteSet(1..n) /\ Cardinality(1..n) = IF 1 > n THEN 0 ELSE n - 1 + 1
      BY FS_Interval
    <3>2. QED
      BY <3>1
  <2>2. QED
    BY <1>1, <2>1, Zenon
<1>3. IsFiniteSet(hits) /\ Cardinality(hits) <= Len(ids)
  BY <1>1, <1>2, FS_Subset
<1>4. Cardinality(hits) \in Nat
  BY <1>3, FS_CardinalityType
<1>5. QED
  BY <1>1, <1>3, <1>4 DEF hits

\* The gain of some ranks, of the first and of others in particular.
LEMMA GainIsPositive ==
    \A ranks : GainOf(ranks) \in Nat /\ (1 \in ranks => GainOf(ranks) > 0)
<1> TAKE ranks
<1>1. PICK f \in [0..Len(Gain) -> Nat] :
        /\ GainOf(ranks) = f[Len(Gain)] /\ f[0] = 0
        /\ \A n \in 1..Len(Gain) : f[n] = f[n - 1] + (IF n \in ranks THEN Gain[n] ELSE 0)
  BY GainSteps
<1>2. /\ Len(Gain) \in Nat /\ Len(Gain) > 0 /\ Gain[1] = 1000
      /\ \A n \in 1..Len(Gain) : Gain[n] \in Nat
  BY GainAssumption DEF One
<1>3. f[Len(Gain)] \in Nat
  BY <1>2
<1>4. CASE 1 \in ranks
  <2> DEFINE S == {n \in Nat : n + 1 <= Len(Gain) => f[n + 1] > 0}
  <2>1. 0 \in S
    <3>1. 1 \in 1..Len(Gain) /\ 1 - 1 = 0
      BY <1>2
    <3>2. f[1] = f[0] + 1000
      BY <1>1, <1>2, <1>4, <3>1
    <3>3. QED
      BY <1>1, <3>2
  <2>2. \A n \in Nat : n \in S => n + 1 \in S
    <3> SUFFICES ASSUME NEW n \in Nat, n \in S, (n + 1) + 1 <= Len(Gain)
                 PROVE  f[(n + 1) + 1] > 0
      OBVIOUS
    <3>1. /\ (n + 1) + 1 \in 1..Len(Gain) /\ ((n + 1) + 1) - 1 = n + 1
          /\ n + 1 \in 0..Len(Gain) /\ n + 1 <= Len(Gain)
      BY <1>2
    <3>2. f[(n + 1) + 1] = f[n + 1] + (IF (n + 1) + 1 \in ranks THEN Gain[(n + 1) + 1] ELSE 0)
      BY <1>1, <3>1
    <3>3. Gain[(n + 1) + 1] \in Nat /\ f[n + 1] \in Nat /\ f[n + 1] > 0
      BY <1>2, <3>1
    <3>4. QED
      BY <3>2, <3>3
  <2>3. Len(Gain) - 1 \in S
    <3>1. Len(Gain) - 1 \in Nat
      BY <1>2
    <3> HIDE DEF S
    <3>2. QED
      BY <2>1, <2>2, <3>1, NatInduct
  <2>4. QED
    BY <1>1, <1>2, <2>3
<1>5. QED
  BY <1>1, <1>3, <1>4

\* Recall, precision, reciprocal rank and hit rate of a question are
\* fractions, for ids in any number and a k that cuts them or does not; the
\* gain is not bounded by the ideal one, because a document may be retrieved
\* more than once.
THEOREM ScoresAreFractions ==
    \A ids \in Seq(Docs) : \A expected \in SUBSET Docs : \A k \in 1..Len(Gain) :
        /\ RecallAtK(ids, expected, k) \in 0..One
        /\ PrecisionAtK(ids, expected, k) \in 0..One
        /\ MRR(ids, expected) \in 0..One
        /\ HitRateAtK(ids, expected, k) \in 0..One
        /\ NDCGAtK(ids, expected, k) \in Nat
<1> SUFFICES ASSUME NEW ids \in Seq(Docs), NEW expected \in SUBSET Docs, NEW k \in 1..Len(Gain)
             PROVE  /\ RecallAtK(ids, expected, k) \in 0..One
                    /\ PrecisionAtK(ids, expected, k) \in 0..One
                    /\ MRR(ids, expected) \in 0..One
                    /\ HitRateAtK(ids, expected, k) \in 0..One
                    /\ NDCGAtK(ids, expected, k) \in Nat
  OBVIOUS
<1> DEFINE top == TopK(ids, k)
           hits == HitRanks(ids, expected)
           topHits == HitRanks(top, expected)
           found == {d \in expected : \E n \in DOMAIN top : ids[n] = d}
<1>0. k \in Nat \ {0}
  BY GainAssumption
<1>1. /\ top \in Seq(Docs) /\ Len(top) \in Nat /\ (ids # << >> => Len(top) > 0)
      /\ hits \subseteq 1..Len(ids) /\ Len(ids) \in Nat
      /\ Cardinality(topHits) \in Nat /\ Cardinality(topHits) <= Len(top)
  <2>1. top \in Seq(Docs) /\ Len(top) \in Nat /\ (ids # << >> => Len(top) > 0)
    BY <1>0, TopKIsPrefix
  <2> HIDE DEF top
  <2>2. QED
    BY <2>1, HitsAreRanks
<1>2. /\ IsFiniteSet(expected) /\ Cardinality(expected) \in Nat
      /\ expected # {} => Cardinality(expected) > 0
  <2>1. IsFiniteSet(expected)
    BY EvaluationAssumption, FS_Subset
  <2>2. Cardinality(expected) \in Nat
    BY <2>1, FS_CardinalityType
  <2>3. Cardinality(expected) = 0 <=> expected = {}
    BY <2>1, FS_EmptySet
  <2>4. QED
    BY <2>1, <2>2, <2>3
<1>3. Cardinality(found) \in Nat /\ Cardinality(found) <= Cardinality(expected)
  <2>1. found \in SUBSET expected
    OBVIOUS
  <2> HIDE DEF found
  <2>2. QED
    BY <1>2, <2>1, FS_Subset, FS_CardinalityType
<1>5. RecallAtK(ids, expected, k) \in 0..One
  <2>1. CASE ids = << >> \/ expected = {}
    <3>1. RecallAtK(ids, expected, k) = 0
      BY <2>1 DEF RecallAtK
    <3>2. QED
      BY <3>1 DEF One
  <2>2. CASE ids # << >> /\ expected # {}
    <3>1. (One * Cardinality(found)) \div Cardinality(expected) \in 0..One
      BY <1>2, <1>3, <2>2, Fraction
    <3>2. RecallAtK(ids, expected, k) = (One * Cardinality(found)) \div Cardinality(expected)
      BY <2>2 DEF RecallAtK
    <3>3. QED
      BY <3>1, <3>2
  <2>3. QED
    BY <2>1, <2>2
<1>6. PrecisionAtK(ids, expected, k) \in 0..One
  <2>1. CASE ids = << >> \/ expected = {}
    <3>1. PrecisionAtK(ids, expected, k) = 0
      BY <2>1 DEF PrecisionAtK
    <3>2. QED
      BY <3>1 DEF One
  <2>2. CASE ids # << >> /\ expected # {}
    <3>1. (One * Cardinality(topHits)) \div Len(top) \in 0..One
      BY <1>1, <2>2, Fraction
    <3>2. PrecisionAtK(ids, expected, k) = (One * Cardinality(topHits)) \div Len(top)
      BY <2>2 DEF PrecisionAtK
    <3>3. QED
      BY <3>1, <3>2
  <2>3. QED
    BY <2>1, <2>2
<1>7. MRR(ids, expected) \in 0..One
  <2>1. CASE hits = {}
    BY <2>1 DEF MRR, One
  <2>2. CASE hits # {}
    <3>1. Min(hits) \in hits
      <4>1. hits \in SUBSET Nat
        BY <1>1
      <4> HIDE DEF hits
      <4>2. QED
        BY <2>2, <4>1, MinIsLeast
    <3>2. Min(hits) \in Nat /\ Min(hits) >= 1
      BY <1>1, <3>1
    <3>3. (One * 1) \div Min(hits) \in 0..One
      BY <3>2, Fraction
    <3>4. One * 1 = One
      BY DEF One
    <3>5. QED
      BY <2>2, <3>3, <3>4 DEF MRR
  <2>3. QED
    BY <2>1, <2>2
<1>8. HitRateAtK(ids, expected, k) \in 0..One
  BY DEF HitRateAtK, One
<1>9. NDCGAtK(ids, expected, k) \in Nat
  <2>1. CASE ids = << >> \/ expected = {}
    BY <2>1 DEF NDCGAtK
  <2>2. CASE ids # << >> /\ expected # {}
    <3> DEFINE least == Min({Cardinality(expected), Len(top)})
               gain == GainOf(topHits)
               ideal == GainOf(1..least)
    <3>1. least \in Nat /\ least >= 1
      <4> DEFINE S == {Cardinality(expected), Len(top)}
      <4>1. S \in SUBSET Nat /\ S # {} /\ \A x \in S : x >= 1
        BY <1>1, <1>2, <2>2
      <4>2. Min(S) \in S
        <5> HIDE DEF S
        <5>1. QED
          BY <4>1, MinIsLeast
      <4>3. QED
        BY <4>1, <4>2
    <3>2. 1 \in 1..least
      <4> HIDE DEF least
      <4>1. QED
        BY <3>1
    <3>3. gain \in Nat /\ ideal \in Nat /\ ideal > 0
      BY <3>2, GainIsPositive
    <3>4. NDCGAtK(ids, expected, k) = (One * gain) \div ideal
      BY <2>2 DEF NDCGAtK
    <3> HIDE DEF gain, ideal
    <3>5. One * gain \in Nat
      BY <3>3 DEF One
    <3>6. \A x \in Nat : (x \div ideal) \in Nat
      <4> TAKE x \in Nat
      <4> DEFINE q == x \div ideal
      <4>1. q \in Int /\ ideal * q <= x /\ x < ideal * q + ideal
        BY <3>3
      <4> HIDE DEF q
      <4>2. CASE q <= -1
        <5>1. ideal * q <= ideal * (-1)
          BY <3>3, <4>1, <4>2
        <5>2. QED
          BY <3>3, <4>1, <5>1
      <4>3. QED
        BY <4>1, <4>2 DEF q
    <3>7. QED
      BY <3>4, <3>5, <3>6
  <2>3. QED
    BY <2>1, <2>2
<1>10. QED
  BY <1>5, <1>6, <1>7, <1>8, <1>9

----------------------------------------------------------------------------
(***************************************************************************)
(* The inductive invariant.                                                *)
(***************************************************************************)
Busy(r) == run[r].pc # "idle"

\* A runner that has scored a question and not stored its row yet.
Adding(w) == w.pc \in {"add", "note", "append", "commit"}

\* Where a runner is in its dataset, and the row it is about to add.
Progress ==
    \A r \in Runners :
        /\ run[r].pc \in {"wire", "load"} => run[r].at = 1
        /\ run[r].pc = "ask" \/ Adding(run[r]) => run[r].at \in 1..Len(Expected)
        /\ run[r].pc = "sum" => run[r].at = Len(Expected) + 1
        /\ Adding(run[r]) => run[r].row \in Rows /\ run[r].row.run = RunId[r]
        /\ run[r].pc = "commit" => kind = "sqlite"
        /\ run[r].pc \in {"note", "append"} => kind = "memory"
        /\ run[r].pc # "idle" => run[r].returned = NoSummary

\* Two runners that are at one run id at a time know that they share it.
TogetherIsShared ==
    \A q, r \in Runners :
        q # r /\ Busy(q) /\ Busy(r) /\ RunId[q] = RunId[r] => run[q].shared /\ run[r].shared

\* What the questions of a runner alone at its run id scored is what is stored
\* under the id, one row for each question behind it, and the row to be added.
OneRowEach ==
    \A r \in Runners : Busy(r) /\ ~run[r].shared =>
        /\ Len(RowsOfRun(RunId[r])) = run[r].at - 1
        /\ run[r].scores = IF Adding(run[r]) THEN Append(RowsOfRun(RunId[r]), run[r].row.metrics)
                           ELSE RowsOfRun(RunId[r])

\* Nobody is about to fill in a judge that was given; as long as no judge was
\* replaced, every score comes from the one there is.
OneJudge ==
    /\ metric.given # NoJudge => /\ metric.judge = metric.given /\ ~metric.rewired
                                 /\ \A r \in Runners : run[r].pc # "wire"
    /\ ~metric.rewired => \A r \in Runners : run[r].judges \subseteq {metric.judge}

\* As long as no add_result began during another.  The run ids noted are those
\* of the rows, and of the one runner between noting its id and appending its
\* row; its id is the last one if it has no row yet.  Otherwise the last id has
\* a first row after which every run is one seen before that row.
HasRow(i) == \E n \in DOMAIN memory.results : memory.results[n].run = i

Appending(r) == run[r].pc = "append"

LatestIsLastSeen ==
    ~memory.crossed =>
        /\ \A q, r \in Runners : q \in Adders /\ r \in Adders => q = r
        /\ \A i \in RunIds : Contains(memory.runIds, i) <=>
                               HasRow(i) \/ \E r \in Runners : Appending(r) /\ RunId[r] = i
        /\ \A r \in Runners : run[r].pc = "note" => ~Contains(memory.runIds, RunId[r])
        /\ \A r \in Runners : Appending(r) /\ ~HasRow(RunId[r]) => Last(memory.runIds) = RunId[r]
        /\ memory.results # << >> /\ (\A r \in Runners : Appending(r) => HasRow(RunId[r])) =>
              /\ memory.runIds # << >>
              /\ \E n \in DOMAIN memory.results :
                    /\ memory.results[n].run = Last(memory.runIds)
                    /\ FirstOfItsRun(memory.results, n)
                    /\ \A k \in DOMAIN memory.results : k > n =>
                           \E j \in 1..n : memory.results[j].run = memory.results[k].run

IInv ==
    /\ TypeOK
    /\ Progress
    /\ TogetherIsShared
    /\ OneRowEach
    /\ MeanIsAcrossTheDataset
    /\ OneJudge
    /\ LatestIsLastSeen


\* What a question scores is of the right type, whatever is relevant to it.
LEMMA ScoresTyped ==
    ASSUME TypeOK, NEW sample \in Samples, NEW raised \in Raising
    PROVE  \A expected \in SUBSET Docs :
             LET scores == Scores(sample, expected)
             IN  /\ Restrict(scores, DOMAIN scores \ raised) \in Metrics
                 /\ "faithfulness" \in DOMAIN scores => metric.judge # NoJudge
<1> TAKE expected \in SUBSET Docs
<1> DEFINE scores == Scores(sample, expected)
           names == {"recall_at_k", "precision_at_k", "mrr", "ndcg_at_k", "hit_rate_at_k"}
                      \cup (IF Judging(sample) THEN {"faithfulness"} ELSE {})
<1>1. sample.ids \in Seq(Docs) /\ K \in 1..Len(Gain)
  BY EvaluationAssumption
<1>2. /\ RecallAtK(sample.ids, expected, K) \in Int
      /\ PrecisionAtK(sample.ids, expected, K) \in Int
      /\ MRR(sample.ids, expected) \in Int
      /\ HitRateAtK(sample.ids, expected, K) \in Int
      /\ NDCGAtK(sample.ids, expected, K) \in Int
  <2>1. /\ RecallAtK(sample.ids, expected, K) \in 0..One
        /\ PrecisionAtK(sample.ids, expected, K) \in 0..One
        /\ MRR(sample.ids, expected) \in 0..One
        /\ HitRateAtK(sample.ids, expected, K) \in 0..One
        /\ NDCGAtK(sample.ids, expected, K) \in Nat
    BY <1>1, ScoresAreFractions, Zenon
  <2>2. \A n \in 0..One : n \in Int
    BY DEF One
  <2>3. QED
    BY <2>1, <2>2
<1>3. One \in Int
  BY DEF One
<1>4. names \subseteq MetricNames
  BY DEF MetricNames
<1>5. "faithfulness" \in names => metric.judge # NoJudge
  BY DEF Judging
<1>6. DOMAIN scores = names
  BY DEF Scores
<1>7. \A m \in names : scores[m] \in Int
  <2> TAKE m \in names
  <2>1. m \in MetricNames
    BY <1>4
  <2>2. scores[m] = CASE m = "recall_at_k"    -> RecallAtK(sample.ids, expected, K)
                      [] m = "precision_at_k" -> PrecisionAtK(sample.ids, expected, K)
                      [] m = "mrr"            -> MRR(sample.ids, expected)
                      [] m = "ndcg_at_k"      -> NDCGAtK(sample.ids, expected, K)
                      [] m = "hit_rate_at_k"  -> HitRateAtK(sample.ids, expected, K)
                      [] m = "faithfulness"   -> One
    BY DEF Scores
  <2>3. QED
    BY <1>2, <1>3, <2>1, <2>2 DEF MetricNames
<1> HIDE DEF scores, names
<1> DEFINE kept == names \ raised
<1>8. kept \in SUBSET MetricNames /\ kept \subseteq names
  BY <1>4
<1> HIDE DEF kept
<1>9. Restrict(scores, kept) \in [kept -> Int]
  BY <1>7, <1>8 DEF Restrict
<1>10. Restrict(scores, kept) \in Metrics
  BY <1>8, <1>9 DEF Metrics
<1>11. QED
  BY <1>5, <1>6, <1>10 DEF kept, scores

\* The rows of a run and their summary are of the right type.
LEMMA SummaryTyped ==
    ASSUME TypeOK
    PROVE  \A i \in RunIds : /\ Stored \in Seq(Rows)
                             /\ RowsOfRun(i) \in Seq(Metrics)
                             /\ AverageMetrics(RowsOfRun(i)) \in Summaries
<1> TAKE i \in RunIds
<1>1. Stored \in Seq(Rows)
  BY DEF TypeOK, Stored
<1>2. RowsOfRun(i) \in Seq(Metrics)
  <2>1. \A rows \in Seq(Rows) : Selected(rows, i) \in Seq(Metrics)
    BY SelectedTyped
  <2>2. QED
    BY <1>1, <2>1 DEF RowsOfRun
<1>3. \A rows \in Seq(Metrics) : AverageMetrics(rows) \in Summaries
  <2> TAKE rows \in Seq(Metrics)
  <2>1. PICK f \in [0..Len(rows) -> Summaries] :
          /\ AverageMetrics(rows) = f[Len(rows)] /\ f[0] = NoSummary
          /\ \A n \in 1..Len(rows) : f[n] = Count(rows[n], f[n - 1])
    BY AverageSteps
  <2>2. Len(rows) \in 0..Len(rows)
    OBVIOUS
  <2>3. QED
    BY <2>1, <2>2
<1>4. QED
  BY <1>1, <1>2, <1>3

----------------------------------------------------------------------------
(***************************************************************************)
(* What the steps do, as the invariants need it.                           *)
(***************************************************************************)
StepOf(r) ==
    \/ WireJudge(r) \/ LoadDataset(r, TRUE) \/ LoadDataset(r, FALSE)
    \/ \E sample \in Samples, raised \in Raising : Evaluate(r, sample, raised)
    \/ LookForRunId(r) \/ NoteRunId(r) \/ AppendResult(r)
    \/ Insert(r) \/ Commit(r) \/ InsertFails(r) \/ Summarize(r)

\* A step is a crash, the beginning of a run or a step within one.
LEMMA NextIs ==
    Next => Crash \/ \E r \in Runners : Begin(r) \/ StepOf(r)
BY DEF Next, StepOf

\* The idle runner.
LEMMA IdleTyped ==
    /\ Idle \in Runs /\ Idle.pc = "idle" /\ Idle.at = 1 /\ Idle.returned = NoSummary
    /\ Idle.judges = {} /\ Idle.shared = FALSE /\ Idle.scores = << >>
BY NoSummaryTyped DEF Idle, Runs

\* A run begins: at the first question, and sharing its run id if the id has
\* rows or another runner -- which then shares it too.
LEMMA BeginShape ==
    ASSUME TypeOK, NEW r \in Runners, Begin(r)
    PROVE  /\ run' \in [Runners -> Runs]
           /\ run'[r].pc \in {"wire", "load"} /\ run'[r].at = 1
           /\ run'[r].pc = "wire" => metric.judge = NoJudge
           /\ run'[r].returned = NoSummary /\ run'[r].judges = {} /\ run'[r].scores = << >>
           /\ ~run'[r].shared => /\ RowsOfRun(RunId[r]) = << >>
                                 /\ \A q \in Runners : Busy(q) => RunId[q] # RunId[r]
           /\ \A q \in Runners \ {r} :
                 /\ run'[q].pc = run[q].pc /\ run'[q].at = run[q].at /\ run'[q].row = run[q].row
                 /\ run'[q].returned = run[q].returned /\ run'[q].judges = run[q].judges
                 /\ run'[q].scores = run[q].scores
                 /\ (run[q].shared => run'[q].shared)
                 /\ (Busy(q) /\ RunId[q] = RunId[r] => run'[q].shared)
<1> DEFINE missing == RunnerJudge[r] # NoJudge /\ metric.judge = NoJudge
           shared == RowsOfRun(RunId[r]) # << >> \/ Sharing(RunId[r]) # {}
           first == [Idle EXCEPT !.pc = IF missing THEN "wire" ELSE "load", !.shared = shared]
           stage == IF missing THEN "wire" ELSE "load"
<1>1. run \in [Runners -> Runs]
  BY DEF TypeOK
<1>2. shared \in BOOLEAN /\ (missing => metric.judge = NoJudge)
  OBVIOUS
<1>3. run' = [q \in Runners |-> IF q = r THEN first
                                ELSE IF q \in Sharing(RunId[r]) THEN [run[q] EXCEPT !.shared = TRUE]
                                ELSE run[q]]
  BY DEF Begin, Starting
<1>4. /\ first \in Runs /\ first.pc = stage /\ first.at = 1 /\ first.returned = NoSummary
      /\ first.judges = {} /\ first.shared = shared /\ first.scores = << >>
  <2>1. stage \in {"wire", "load"} /\ first = [Idle EXCEPT !.pc = stage, !.shared = shared]
    OBVIOUS
  <2>2. \A x \in {"wire", "load"} : \A y \in BOOLEAN :
           LET w == [Idle EXCEPT !.pc = x, !.shared = y]
           IN  /\ w \in Runs /\ w.pc = x /\ w.at = 1 /\ w.returned = NoSummary
               /\ w.judges = {} /\ w.shared = y /\ w.scores = << >>
    <3>1. \A w \in Runs : \A x \in {"wire", "load"} :
             LET v == [w EXCEPT !.pc = x, !.shared = TRUE]
             IN  /\ v \in Runs /\ v.pc = x /\ v.at = w.at /\ v.returned = w.returned
                 /\ v.judges = w.judges /\ v.shared = TRUE /\ v.scores = w.scores
      BY DEF Runs
    <3>2. \A w \in Runs : \A x \in {"wire", "load"} :
             LET v == [w EXCEPT !.pc = x, !.shared = FALSE]
             IN  /\ v \in Runs /\ v.pc = x /\ v.at = w.at /\ v.returned = w.returned
                 /\ v.judges = w.judges /\ v.shared = FALSE /\ v.scores = w.scores
      BY DEF Runs
    <3> HIDE DEF first, stage, shared, missing
    <3> TAKE x \in {"wire", "load"}
    <3> TAKE y \in BOOLEAN
    <3>3. CASE y = TRUE
      <4> DEFINE v == [Idle EXCEPT !.pc = x, !.shared = TRUE]
      <4>1. [Idle EXCEPT !.pc = x, !.shared = y] = v
        BY <3>3
      <4>2. /\ v \in Runs /\ v.pc = x /\ v.at = Idle.at /\ v.returned = Idle.returned
            /\ v.judges = Idle.judges /\ v.shared = TRUE /\ v.scores = Idle.scores
        BY <3>1, IdleTyped
      <4> HIDE DEF v
      <4>3. QED
        BY <3>3, <4>1, <4>2, IdleTyped
    <3>4. CASE y = FALSE
      <4> DEFINE v == [Idle EXCEPT !.pc = x, !.shared = FALSE]
      <4>1. [Idle EXCEPT !.pc = x, !.shared = y] = v
        BY <3>4
      <4>2. /\ v \in Runs /\ v.pc = x /\ v.at = Idle.at /\ v.returned = Idle.returned
            /\ v.judges = Idle.judges /\ v.shared = FALSE /\ v.scores = Idle.scores
        BY <3>2, IdleTyped
      <4> HIDE DEF v
      <4>3. QED
        BY <3>4, <4>1, <4>2, IdleTyped
    <3>5. QED
      BY <3>3, <3>4
  <2> HIDE DEF stage, shared, first
  <2>3. QED
    BY <1>2, <2>1, <2>2, Zenon
<1>5. \A q \in Runners : q \in Sharing(RunId[r]) <=> Busy(q) /\ RunId[q] = RunId[r]
  BY DEF Sharing, Busy
<1>6. ASSUME NEW w \in Runs
      PROVE  /\ [w EXCEPT !.shared = TRUE] \in Runs
             /\ [w EXCEPT !.shared = TRUE].pc = w.pc
             /\ [w EXCEPT !.shared = TRUE].at = w.at
             /\ [w EXCEPT !.shared = TRUE].row = w.row
             /\ [w EXCEPT !.shared = TRUE].returned = w.returned
             /\ [w EXCEPT !.shared = TRUE].judges = w.judges
             /\ [w EXCEPT !.shared = TRUE].scores = w.scores
             /\ [w EXCEPT !.shared = TRUE].shared = TRUE
             /\ w.shared \in BOOLEAN
  BY DEF Runs
<1>7. run'[r] = first /\ stage \in {"wire", "load"} /\ (stage = "wire" => metric.judge = NoJudge)
  BY <1>2, <1>3
<1>8. ~shared => /\ RowsOfRun(RunId[r]) = << >>
                 /\ \A q \in Runners : Busy(q) => RunId[q] # RunId[r]
  BY <1>5
<1>9. ASSUME NEW q \in Runners \ {r}
      PROVE  /\ run'[q] \in Runs
             /\ run'[q].pc = run[q].pc /\ run'[q].at = run[q].at /\ run'[q].row = run[q].row
             /\ run'[q].returned = run[q].returned /\ run'[q].judges = run[q].judges
             /\ run'[q].scores = run[q].scores
             /\ (run[q].shared => run'[q].shared)
             /\ (Busy(q) /\ RunId[q] = RunId[r] => run'[q].shared)
  <2> HIDE DEF first, stage, shared, missing
  <2>1. run[q] \in Runs
    BY <1>1
  <2>2. CASE q \in Sharing(RunId[r])
    <3>1. run'[q] = [run[q] EXCEPT !.shared = TRUE]
      BY <1>3, <2>2
    <3>2. Busy(q) /\ RunId[q] = RunId[r]
      BY <1>5, <2>2
    <3>3. /\ run'[q] \in Runs
          /\ run'[q].pc = run[q].pc /\ run'[q].at = run[q].at /\ run'[q].row = run[q].row
          /\ run'[q].returned = run[q].returned /\ run'[q].judges = run[q].judges
          /\ run'[q].scores = run[q].scores
          /\ run'[q].shared = TRUE
      BY <1>6, <2>1, <3>1
    <3>4. QED
      BY <3>2, <3>3
  <2>3. CASE q \notin Sharing(RunId[r])
    <3>1. run'[q] = run[q]
      BY <1>3, <2>3
    <3>2. ~(Busy(q) /\ RunId[q] = RunId[r])
      BY <1>5, <2>3
    <3>3. run[q].shared \in BOOLEAN
      BY <2>1, <1>6
    <3>4. QED
      BY <2>1, <3>1, <3>2, <3>3
  <2>4. QED
    BY <2>2, <2>3
<1> HIDE DEF first, stage, shared, missing
<1>10. run' \in [Runners -> Runs]
  BY <1>3, <1>4, <1>7, <1>9
<1>11. QED
  BY <1>4, <1>7, <1>8, <1>9, <1>10

\* What the steps make of a runner's record.
LEMMA StageMoved ==
    \A w \in Runs : \A x \in {"idle", "wire", "load", "ask", "add", "note", "append", "commit", "sum"} :
        /\ [w EXCEPT !.pc = x] \in Runs
        /\ [w EXCEPT !.pc = x].pc = x /\ [w EXCEPT !.pc = x].at = w.at
        /\ [w EXCEPT !.pc = x].row = w.row /\ [w EXCEPT !.pc = x].returned = w.returned
        /\ [w EXCEPT !.pc = x].judges = w.judges /\ [w EXCEPT !.pc = x].shared = w.shared
        /\ [w EXCEPT !.pc = x].scores = w.scores
BY DEF Runs

Stages == {"idle", "wire", "load", "ask", "add", "note", "append", "commit", "sum"}

\* The same of a stage whose name is not known.
LEMMA AnyStageMoved ==
    \A w \in Runs : \A x \in Stages :
        /\ [w EXCEPT !.pc = x] \in Runs
        /\ [w EXCEPT !.pc = x].pc = x /\ [w EXCEPT !.pc = x].at = w.at
        /\ [w EXCEPT !.pc = x].row = w.row /\ [w EXCEPT !.pc = x].returned = w.returned
        /\ [w EXCEPT !.pc = x].judges = w.judges /\ [w EXCEPT !.pc = x].shared = w.shared
        /\ [w EXCEPT !.pc = x].scores = w.scores
BY DEF Runs, Stages

\* The row is set.
LEMMA RowSet ==
    \A w \in Runs : \A x \in Rows \cup {NoRow} :
        /\ [w EXCEPT !.row = x] \in Runs /\ [w EXCEPT !.row = x].row = x
        /\ [w EXCEPT !.row = x].pc = w.pc
        /\ [w EXCEPT !.row = x].at = w.at
        /\ [w EXCEPT !.row = x].returned = w.returned
        /\ [w EXCEPT !.row = x].judges = w.judges
        /\ [w EXCEPT !.row = x].shared = w.shared
        /\ [w EXCEPT !.row = x].scores = w.scores
BY DEF Runs

\* The question is set.
LEMMA AtSet ==
    \A w \in Runs : \A x \in Nat \ {0} :
        /\ [w EXCEPT !.at = x] \in Runs /\ [w EXCEPT !.at = x].at = x
        /\ [w EXCEPT !.at = x].pc = w.pc
        /\ [w EXCEPT !.at = x].row = w.row
        /\ [w EXCEPT !.at = x].returned = w.returned
        /\ [w EXCEPT !.at = x].judges = w.judges
        /\ [w EXCEPT !.at = x].shared = w.shared
        /\ [w EXCEPT !.at = x].scores = w.scores
BY DEF Runs

\* The judges are set.
LEMMA JudgesSet ==
    \A w \in Runs : \A x \in SUBSET Judges :
        /\ [w EXCEPT !.judges = x] \in Runs /\ [w EXCEPT !.judges = x].judges = x
        /\ [w EXCEPT !.judges = x].pc = w.pc
        /\ [w EXCEPT !.judges = x].at = w.at
        /\ [w EXCEPT !.judges = x].row = w.row
        /\ [w EXCEPT !.judges = x].returned = w.returned
        /\ [w EXCEPT !.judges = x].shared = w.shared
        /\ [w EXCEPT !.judges = x].scores = w.scores
BY DEF Runs

\* What was scored is set.
LEMMA ScoresSet ==
    \A w \in Runs : \A x \in Seq(Metrics) :
        /\ [w EXCEPT !.scores = x] \in Runs /\ [w EXCEPT !.scores = x].scores = x
        /\ [w EXCEPT !.scores = x].pc = w.pc
        /\ [w EXCEPT !.scores = x].at = w.at
        /\ [w EXCEPT !.scores = x].row = w.row
        /\ [w EXCEPT !.scores = x].returned = w.returned
        /\ [w EXCEPT !.scores = x].judges = w.judges
        /\ [w EXCEPT !.scores = x].shared = w.shared
BY DEF Runs

\* The summary returned is set.
LEMMA ReturnedSet ==
    \A w \in Runs : \A x \in Summaries :
        /\ [w EXCEPT !.returned = x] \in Runs /\ [w EXCEPT !.returned = x].returned = x
        /\ [w EXCEPT !.returned = x].pc = w.pc
        /\ [w EXCEPT !.returned = x].at = w.at
        /\ [w EXCEPT !.returned = x].row = w.row
        /\ [w EXCEPT !.returned = x].judges = w.judges
        /\ [w EXCEPT !.returned = x].shared = w.shared
        /\ [w EXCEPT !.returned = x].scores = w.scores
BY DEF Runs

\* The fields of a runner's record.
LEMMA RunFields ==
    \A w \in Runs : /\ w.pc \in Stages
                    /\ w.scores \in Seq(Metrics)
                    /\ w.at \in Nat \ {0} /\ w.row \in Rows \cup {NoRow}
                    /\ w.returned \in Summaries /\ w.judges \in SUBSET Judges
                    /\ w.shared \in BOOLEAN
BY DEF Runs, Stages

\* A step of one runner leaves the others' records alone.
LEMMA OneRunner ==
    ASSUME TypeOK, NEW r \in Runners
    PROVE  \A next \in Runs : \A from : Step(r, from, next) =>
             /\ run' \in [Runners -> Runs] /\ run'[r] = next /\ run[r] \in Runs
             /\ \A q \in Runners \ {r} : run'[q] = run[q]
             /\ run[r].pc = from /\ kind' = kind
<1> TAKE next \in Runs
<1> TAKE from
<1>1. run \in [Runners -> Runs]
  BY DEF TypeOK
<1>2. QED
  BY <1>1 DEF Step

\* A question done: on to the next one, or to the summary.
LEMMA NextQuestionIs ==
    ASSUME TypeOK, NEW r \in Runners
    PROVE  run[r].at \in 1..Len(Expected) =>
           LET v == NextQuestion(r)
           IN  /\ v \in Runs /\ v.at = run[r].at + 1
               /\ v.pc \in {"ask", "sum"}
               /\ v.pc = "ask" => v.at \in 1..Len(Expected)
               /\ v.pc = "sum" => v.at = Len(Expected) + 1
               /\ v.returned = run[r].returned /\ v.judges = run[r].judges
               /\ v.shared = run[r].shared /\ v.scores = run[r].scores
<1>0. SUFFICES ASSUME run[r].at \in 1..Len(Expected)
               PROVE  LET v == NextQuestion(r)
                      IN  /\ v \in Runs /\ v.at = run[r].at + 1
                          /\ v.pc \in {"ask", "sum"}
                          /\ v.pc = "ask" => v.at \in 1..Len(Expected)
                          /\ v.pc = "sum" => v.at = Len(Expected) + 1
                          /\ v.returned = run[r].returned /\ v.judges = run[r].judges
                          /\ v.shared = run[r].shared /\ v.scores = run[r].scores
  OBVIOUS
<1> DEFINE stage == IF run[r].at < Len(Expected) THEN "ask" ELSE "sum"
           at == run[r].at + 1
<1>1. run[r] \in Runs
  BY DEF TypeOK
<1>2. run[r].at \in 1..Len(Expected) /\ Len(Expected) \in Nat
  BY <1>0, EvaluationAssumption
<1>3. at \in Nat \ {0} /\ stage \in {"ask", "sum"}
  BY <1>2
<1>4. /\ stage = "ask" => at \in 1..Len(Expected)
      /\ stage = "sum" => at = Len(Expected) + 1
  BY <1>2
<1> DEFINE v == NextQuestion(r)
<1>5. v = [run[r] EXCEPT !.row = NoRow, !.at = at, !.pc = stage]
  BY DEF NextQuestion
<1>6. at = run[r].at + 1
  OBVIOUS
<1> HIDE DEF at, stage, v
<1>7. /\ v \in Runs /\ v.pc = stage /\ v.at = at /\ v.row = NoRow
      /\ v.returned = run[r].returned /\ v.judges = run[r].judges
      /\ v.shared = run[r].shared /\ v.scores = run[r].scores
  <2> DEFINE s == [run[r] EXCEPT !.row = NoRow]
             t == [s EXCEPT !.at = at]
  <2>1. /\ s \in Runs /\ s.row = NoRow /\ s.returned = run[r].returned
        /\ s.judges = run[r].judges /\ s.shared = run[r].shared /\ s.scores = run[r].scores
    BY <1>1, RowSet
  <2>2. v = [t EXCEPT !.pc = stage]
    BY <1>5
  <2> HIDE DEF s
  <2>3. /\ t \in Runs /\ t.row = s.row /\ t.at = at /\ t.returned = s.returned
        /\ t.judges = s.judges /\ t.shared = s.shared /\ t.scores = s.scores
    BY <1>3, <2>1, AtSet
  <2> HIDE DEF t
  <2>4. stage \in Stages
    BY <1>3 DEF Stages
  <2>5. /\ v \in Runs /\ v.row = t.row /\ v.at = t.at /\ v.returned = t.returned
        /\ v.judges = t.judges /\ v.shared = t.shared /\ v.pc = stage /\ v.scores = t.scores
    <3> DEFINE e == [t EXCEPT !.pc = stage]
    <3>2. /\ e \in Runs /\ e.row = t.row /\ e.at = t.at /\ e.returned = t.returned
          /\ e.judges = t.judges /\ e.shared = t.shared /\ e.pc = stage /\ e.scores = t.scores
      <4>1. t \in Runs
        BY <2>3
      <4>2. QED
        BY <2>4, <4>1, AnyStageMoved, Zenon
    <3>3. v = e
      BY <2>2
    <3> HIDE DEF e
    <3>4. QED
      BY <3>2, <3>3
  <2>6. QED
    BY <2>1, <2>3, <2>5
<1>8. /\ v \in Runs /\ v.at = run[r].at + 1
      /\ v.pc \in {"ask", "sum"}
      /\ v.pc = "ask" => v.at \in 1..Len(Expected)
      /\ v.pc = "sum" => v.at = Len(Expected) + 1
      /\ v.returned = run[r].returned /\ v.judges = run[r].judges
      /\ v.shared = run[r].shared /\ v.scores = run[r].scores
  BY <1>3, <1>4, <1>6, <1>7
<1>9. QED
  BY <1>8 DEF v

\* Where a runner is in its dataset, said of its record alone.
InStep(r, w, k) ==
    /\ w.pc \in {"wire", "load"} => w.at = 1
    /\ w.pc = "ask" \/ Adding(w) => w.at \in 1..Len(Expected)
    /\ w.pc = "sum" => w.at = Len(Expected) + 1
    /\ Adding(w) => w.row \in Rows /\ w.row.run = RunId[r]
    /\ w.pc = "commit" => k = "sqlite"
    /\ w.pc \in {"note", "append"} => k = "memory"
    /\ w.pc # "idle" => w.returned = NoSummary

\* What a step of a runner does to its own record and to the rows: it stores
\* its row, or scores a question, or does neither.
Moves(r) ==
    /\ run' \in [Runners -> Runs] /\ kind' = kind
    /\ \A q \in Runners \ {r} : run'[q] = run[q]
    /\ InStep(r, run'[r], kind)
    /\ Busy(r) /\ run'[r].pc # "wire"
    /\ run'[r].pc # "idle" => run'[r].shared = run[r].shared
    /\ \/ /\ Stored' = Stored
          /\ run'[r].pc # "idle" =>
                /\ run'[r].at = run[r].at
                /\ \/ /\ run'[r].scores = run[r].scores /\ run'[r].row = run[r].row
                      /\ Adding(run'[r]) <=> Adding(run[r])
                   \/ /\ ~Adding(run[r]) /\ Adding(run'[r])
                      /\ run'[r].scores = Append(run[r].scores, run'[r].row.metrics)
       \/ /\ Stored' = Append(Stored, run[r].row)
          /\ run[r].row \in Rows /\ run[r].row.run = RunId[r]
          /\ run'[r].at = run[r].at + 1 /\ run'[r].scores = run[r].scores
          /\ Adding(run[r]) /\ ~Adding(run'[r])
    /\ \/ run'[r].returned = NoSummary
       \/ /\ run[r].pc = "sum" /\ run'[r].shared = run[r].shared
          /\ run'[r].scores = run[r].scores
          /\ run'[r].returned = AverageMetrics(RowsOfRun(RunId[r]))

\* The judge is filled in.
LEMMA WireMoves ==
    ASSUME TypeOK, Progress, NEW r \in Runners, WireJudge(r)
    PROVE  Moves(r) /\ run'[r].judges = run[r].judges /\ run[r].pc = "wire"
<1>1. run[r] \in Runs /\ InStep(r, run[r], kind)
  BY DEF TypeOK, Progress, InStep
<1> DEFINE w == [run[r] EXCEPT !.pc = "load"]
<1>2. /\ w \in Runs /\ w.pc = "load" /\ w.at = run[r].at /\ w.returned = run[r].returned
      /\ w.shared = run[r].shared /\ w.judges = run[r].judges
      /\ w.scores = run[r].scores /\ w.row = run[r].row
  BY <1>1, StageMoved
<1>3. Step(r, "wire", w) /\ stores' = stores
  BY DEF WireJudge
<1> HIDE DEF w
<1>4. /\ run' \in [Runners -> Runs] /\ run'[r] = w
      /\ \A q \in Runners \ {r} : run'[q] = run[q]
      /\ run[r].pc = "wire" /\ kind' = kind
  BY <1>2, <1>3, OneRunner
<1>5. Stored' = Stored
  BY <1>3, <1>4 DEF Stored, stores
<1>6. InStep(r, w, kind)
  BY <1>1, <1>2, <1>4 DEF InStep, Adding
<1>7. Moves(r)
  BY <1>1, <1>2, <1>4, <1>5, <1>6 DEF Moves, Busy, Adding, InStep
<1>8. QED
  BY <1>2, <1>4, <1>7

\* The dataset is loaded, or malformed, or empty.
LEMMA LoadMoves ==
    ASSUME TypeOK, Progress, NEW r \in Runners, NEW wellFormed \in BOOLEAN, LoadDataset(r, wellFormed)
    PROVE  Moves(r) /\ run'[r].judges = run[r].judges /\ metric' = metric
<1>1. run[r] \in Runs /\ InStep(r, run[r], kind)
  BY DEF TypeOK, Progress, InStep
<1> DEFINE x == IF ~wellFormed THEN "idle" ELSE IF Expected = << >> THEN "sum" ELSE "ask"
           w == [run[r] EXCEPT !.pc = x]
<1>2. x \in {"idle", "sum", "ask"}
  OBVIOUS
<1>3. Expected \in Seq(SUBSET Docs)
  BY EvaluationAssumption
<1>4. /\ x = "sum" => Len(Expected) = 0
      /\ x = "ask" => 1 \in 1..Len(Expected)
  BY <1>3
<1>5. Step(r, "load", w) /\ stores' = stores /\ metric' = metric
  BY DEF LoadDataset
<1> HIDE DEF x
<1>6. /\ w \in Runs /\ w.pc = x /\ w.at = run[r].at /\ w.returned = run[r].returned
      /\ w.shared = run[r].shared /\ w.judges = run[r].judges
      /\ w.scores = run[r].scores /\ w.row = run[r].row
  <2>1. /\ run[r] \in Runs
        /\ x \in Stages
    BY <1>1, <1>2 DEF Stages
  <2>2. QED
    BY <2>1, AnyStageMoved, Zenon
<1> HIDE DEF w
<1>7. /\ run' \in [Runners -> Runs] /\ run'[r] = w
      /\ \A q \in Runners \ {r} : run'[q] = run[q]
      /\ run[r].pc = "load" /\ kind' = kind
  BY <1>5, <1>6, OneRunner
<1>8. Stored' = Stored
  BY <1>5, <1>7 DEF Stored, stores
<1>9. InStep(r, w, kind)
  BY <1>1, <1>2, <1>4, <1>6, <1>7 DEF InStep, Adding
<1>10. Moves(r)
  BY <1>1, <1>2, <1>6, <1>7, <1>8, <1>9 DEF Moves, Busy, Adding, InStep
<1>11. QED
  BY <1>5, <1>6, <1>7, <1>10

\* A question is scored, against the target's labels or the golden ones, by the
\* judge there is or by none.
LEMMA EvaluateMoves ==
    ASSUME TypeOK, Progress, NEW r \in Runners,
           NEW sample \in Samples, NEW raised \in Raising, Evaluate(r, sample, raised)
    PROVE  /\ Moves(r) /\ metric' = metric
           /\ run'[r].judges \in {run[r].judges, run[r].judges \cup {metric.judge}}
           /\ run'[r].judges # run[r].judges => metric.judge # NoJudge
<1>1. run[r] \in Runs /\ InStep(r, run[r], kind) /\ metric.judge \in Judges \cup {NoJudge}
  BY DEF TypeOK, Progress, InStep
<1>2. run[r].pc = "ask" /\ run[r].at \in 1..Len(Expected) /\ run[r].returned = NoSummary
  BY <1>1 DEF Evaluate, Step, InStep
<1>3. Relevant(r, sample) \in SUBSET Docs
  BY <1>2, EvaluationAssumption DEF Relevant
<1> DEFINE scores == Scores(sample, Relevant(r, sample))
           got == Restrict(scores, DOMAIN scores \ raised)
           row == [run |-> RunId[r], metrics |-> got]
           all == Append(run[r].scores, got)
           j == run[r].judges \cup (IF "faithfulness" \in DOMAIN scores THEN {metric.judge} ELSE {})
           w == [run[r] EXCEPT !.pc = "add", !.row = row, !.scores = all, !.judges = j]
<1>4. got \in Metrics /\ ("faithfulness" \in DOMAIN scores => metric.judge # NoJudge)
  BY <1>3, ScoresTyped
<1>5. w = Scored(r, scores, raised)
  BY DEF Scored
<1>6. Step(r, "ask", w) /\ stores' = stores /\ metric' = metric
  BY <1>5 DEF Evaluate
<1> HIDE DEF scores, got
<1>7. row \in Rows /\ row.run = RunId[r] /\ row.metrics = got
  <2>1. RunId[r] \in RunIds
    BY EvaluationAssumption
  <2>2. QED
    BY <1>4, <2>1 DEF Rows
<1>8. j \in SUBSET Judges /\ all \in Seq(Metrics)
  <2>1. run[r].judges \in SUBSET Judges /\ run[r].scores \in Seq(Metrics)
    BY <1>1, RunFields
  <2>2. j \in SUBSET Judges
    BY <1>1, <1>4, <2>1
  <2>3. all \in Seq(Metrics)
    BY <1>4, <2>1
  <2>4. QED
    BY <2>2, <2>3
<1>9. /\ j \in {run[r].judges, run[r].judges \cup {metric.judge}}
      /\ j # run[r].judges => metric.judge # NoJudge
      /\ all = Append(run[r].scores, row.metrics)
  BY <1>4, <1>7
<1> HIDE DEF row, j, all
<1>10. /\ w \in Runs /\ w.pc = "add" /\ w.at = run[r].at /\ w.row = row /\ w.scores = all
       /\ w.returned = run[r].returned /\ w.judges = j /\ w.shared = run[r].shared
  <2>1. run[r] \in Runs /\ row \in Rows /\ j \in SUBSET Judges /\ all \in Seq(Metrics)
    BY <1>1, <1>7, <1>8
  <2> DEFINE s == [run[r] EXCEPT !.pc = "add"]
             u == [s EXCEPT !.row = row]
             v == [u EXCEPT !.scores = all]
  <2>2. /\ s \in Runs /\ s.pc = "add" /\ s.at = run[r].at /\ s.returned = run[r].returned
        /\ s.judges = run[r].judges /\ s.shared = run[r].shared
    BY <2>1, StageMoved
  <2>3. w = [v EXCEPT !.judges = j]
    OBVIOUS
  <2> HIDE DEF s, w
  <2>4. /\ u \in Runs /\ u.pc = s.pc /\ u.at = s.at /\ u.returned = s.returned
        /\ u.row = row /\ u.shared = s.shared
    BY <2>1, <2>2, RowSet
  <2> HIDE DEF u
  <2>5. /\ v \in Runs /\ v.pc = u.pc /\ v.at = u.at /\ v.returned = u.returned
        /\ v.row = u.row /\ v.shared = u.shared /\ v.scores = all
    BY <2>1, <2>4, ScoresSet
  <2> HIDE DEF v
  <2>6. /\ w \in Runs /\ w.pc = v.pc /\ w.at = v.at /\ w.returned = v.returned
        /\ w.row = v.row /\ w.shared = v.shared /\ w.scores = v.scores /\ w.judges = j
    BY <2>1, <2>3, <2>5, JudgesSet
  <2>7. QED
    BY <2>2, <2>4, <2>5, <2>6
<1> HIDE DEF w
<1>11. /\ run' \in [Runners -> Runs] /\ run'[r] = w
       /\ \A q \in Runners \ {r} : run'[q] = run[q]
       /\ kind' = kind
  BY <1>6, <1>10, OneRunner
<1>12. Stored' = Stored
  BY <1>6, <1>11 DEF Stored, stores
<1>13. InStep(r, w, kind)
  BY <1>2, <1>7, <1>10 DEF InStep, Adding
<1>14. run'[r].scores = Append(run[r].scores, run'[r].row.metrics)
  BY <1>9, <1>10, <1>11
<1>15. /\ Busy(r) /\ run'[r].pc # "wire" /\ ~Adding(run[r]) /\ Adding(run'[r])
       /\ run'[r].at = run[r].at /\ run'[r].shared = run[r].shared /\ run'[r].returned = NoSummary
  BY <1>2, <1>10, <1>11 DEF Busy, Adding
<1>16. Moves(r)
  BY <1>11, <1>12, <1>13, <1>14, <1>15 DEF Moves
<1>17. QED
  BY <1>6, <1>9, <1>10, <1>11, <1>16

\* A step that stores the runner's row.
LEMMA AddMoves ==
    ASSUME TypeOK, Progress, NEW r \in Runners, AppendResult(r) \/ Commit(r)
    PROVE  /\ Moves(r) /\ run'[r].judges = run[r].judges /\ metric' = metric
           /\ run'[r].pc \in {"ask", "sum"}
           /\ Stored' = Append(Stored, run[r].row)
           /\ run[r].row \in Rows /\ run[r].row.run = RunId[r]
           /\ reported' = reported /\ kind' = kind
<1>1. run[r] \in Runs /\ InStep(r, run[r], kind)
  BY DEF TypeOK, Progress, InStep
<1> DEFINE w == NextQuestion(r)
<1>2. /\ run[r].pc \in {"append", "commit"} /\ stores' = <<memory', table', pending'>>
      /\ \E from : Step(r, from, w)
  BY DEF AppendResult, Commit, Step, stores
<1>3. /\ run[r].at \in 1..Len(Expected) /\ run[r].row \in Rows /\ run[r].row.run = RunId[r]
      /\ run[r].returned = NoSummary /\ Adding(run[r])
  BY <1>1, <1>2 DEF InStep, Adding
<1>4. /\ w \in Runs /\ w.at = run[r].at + 1
      /\ w.pc \in {"ask", "sum"}
      /\ w.pc = "ask" => w.at \in 1..Len(Expected)
      /\ w.pc = "sum" => w.at = Len(Expected) + 1
      /\ w.returned = run[r].returned /\ w.judges = run[r].judges
      /\ w.shared = run[r].shared /\ w.scores = run[r].scores
  BY <1>3, NextQuestionIs
<1> HIDE DEF w
<1>5. /\ run' \in [Runners -> Runs] /\ run'[r] = w
      /\ \A q \in Runners \ {r} : run'[q] = run[q]
      /\ kind' = kind
  BY <1>2, <1>4, OneRunner
<1>6. Stored' = Append(Stored, run[r].row)
  <2>1. CASE AppendResult(r)
    <3>1. kind = "memory"
      BY <1>1, <2>1 DEF AppendResult, Step, InStep
    <3>2. memory'.results = Append(memory.results, run[r].row)
      BY <2>1 DEF AppendResult, TypeOK
    <3>3. QED
      BY <1>5, <3>1, <3>2 DEF Stored
  <2>2. CASE Commit(r)
    <3>1. kind = "sqlite"
      BY <1>1, <2>2 DEF Commit, Step, InStep
    <3>2. QED
      BY <1>5, <2>2, <3>1 DEF Commit, Stored
  <2>3. QED
    BY <2>1, <2>2
<1>7. InStep(r, w, kind) /\ ~Adding(w)
  BY <1>3, <1>4 DEF InStep, Adding
<1>8. metric' = metric /\ reported' = reported
  BY DEF AppendResult, Commit
<1>9. run[r].pc # "idle"
  BY <1>2
<1>10. Moves(r)
  BY <1>3, <1>4, <1>5, <1>6, <1>7, <1>9 DEF Moves, Busy
<1>11. QED
  BY <1>3, <1>4, <1>5, <1>6, <1>8, <1>10

\* A look at the run ids, the run id noted and an insert are steps before the
\* row is stored.
LEMMA AddingMoves ==
    ASSUME TypeOK, Progress, NEW r \in Runners, LookForRunId(r) \/ NoteRunId(r) \/ Insert(r)
    PROVE  /\ Moves(r) /\ run'[r].judges = run[r].judges /\ metric' = metric
           /\ memory'.results = memory.results /\ table' = table
           /\ run'[r].pc = IF LookForRunId(r) /\ ~Contains(memory.runIds, RunId[r]) THEN "note"
                           ELSE IF Insert(r) THEN "commit" ELSE "append"
<1>1. run[r] \in Runs /\ InStep(r, run[r], kind)
  BY DEF TypeOK, Progress, InStep
<1>2. memory \in [results : Seq(Rows), runIds : Seq(RunIds), crossed : BOOLEAN]
  BY DEF TypeOK
<1>3. PICK x \in {"note", "append", "commit"} :
         /\ \E from \in {"add", "note"} : Step(r, from, [run[r] EXCEPT !.pc = x])
         /\ x = "commit" => kind = "sqlite"
         /\ x \in {"note", "append"} => kind = "memory"
         /\ x = IF LookForRunId(r) /\ ~Contains(memory.runIds, RunId[r]) THEN "note"
                ELSE IF Insert(r) THEN "commit" ELSE "append"
  <2>1. CASE LookForRunId(r)
    <3>1. ~Insert(r)
      BY <2>1 DEF LookForRunId, Insert
    <3>2. CASE Contains(memory.runIds, RunId[r])
      <4>1. Step(r, "add", [run[r] EXCEPT !.pc = "append"]) /\ kind = "memory"
        BY <2>1, <3>2 DEF LookForRunId
      <4>2. QED
        BY <2>1, <3>1, <3>2, <4>1
    <3>3. CASE ~Contains(memory.runIds, RunId[r])
      <4>1. Step(r, "add", [run[r] EXCEPT !.pc = "note"]) /\ kind = "memory"
        BY <2>1, <3>3 DEF LookForRunId
      <4>2. QED
        BY <2>1, <3>1, <3>3, <4>1
    <3>4. QED
      BY <3>2, <3>3
  <2>2. CASE NoteRunId(r)
    <3>1. Step(r, "note", [run[r] EXCEPT !.pc = "append"]) /\ run[r].pc = "note"
      BY <2>2 DEF NoteRunId, Step
    <3>2. kind = "memory" /\ ~LookForRunId(r) /\ ~Insert(r)
      BY <1>1, <3>1 DEF InStep, LookForRunId, Insert, Step
    <3>3. QED
      BY <3>1, <3>2
  <2>3. CASE Insert(r)
    <3>1. Step(r, "add", [run[r] EXCEPT !.pc = "commit"]) /\ kind = "sqlite" /\ ~LookForRunId(r)
      BY <2>3 DEF Insert, LookForRunId
    <3>2. QED
      BY <2>3, <3>1
  <2>4. QED
    BY <2>1, <2>2, <2>3
<1> DEFINE w == [run[r] EXCEPT !.pc = x]
<1>4. /\ w \in Runs /\ w.pc = x /\ w.at = run[r].at /\ w.returned = run[r].returned
      /\ w.shared = run[r].shared /\ w.row = run[r].row /\ w.judges = run[r].judges
      /\ w.scores = run[r].scores
  <2>1. x \in Stages
    BY DEF Stages
  <2>2. QED
    BY <1>1, <2>1, AnyStageMoved, Zenon
<1> HIDE DEF w
<1>5. /\ run' \in [Runners -> Runs] /\ run'[r] = w
      /\ \A q \in Runners \ {r} : run'[q] = run[q]
      /\ run[r].pc \in {"add", "note"} /\ kind' = kind
  BY <1>3, <1>4, OneRunner DEF w
<1>6. memory'.results = memory.results /\ table' = table /\ metric' = metric
  BY <1>2 DEF LookForRunId, NoteRunId, Insert
<1>7. Stored' = Stored
  BY <1>5, <1>6 DEF Stored
<1>8. InStep(r, w, kind) /\ Adding(w) /\ Adding(run[r]) /\ run[r].returned = NoSummary
  BY <1>1, <1>3, <1>4, <1>5 DEF InStep, Adding
<1>9. Moves(r)
  BY <1>4, <1>5, <1>7, <1>8 DEF Moves, Busy
<1>10. QED
  BY <1>3, <1>4, <1>5, <1>6, <1>9

\* A failed insert ends the run.
LEMMA InsertFailsMoves ==
    ASSUME TypeOK, Progress, NEW r \in Runners, InsertFails(r)
    PROVE  Moves(r) /\ run'[r].judges = {} /\ metric' = metric
<1>1. /\ Idle \in Runs /\ Idle.pc = "idle" /\ Idle.at = 1 /\ Idle.returned = NoSummary
      /\ Idle.judges = {} /\ Idle.shared = FALSE /\ Idle.scores = << >>
  BY IdleTyped
<1>2. Step(r, "add", Idle) /\ stores' = stores /\ metric' = metric
  BY DEF InsertFails
<1>3. /\ run' \in [Runners -> Runs] /\ run'[r] = Idle
      /\ \A q \in Runners \ {r} : run'[q] = run[q]
      /\ run[r].pc = "add" /\ kind' = kind
  BY <1>1, <1>2, OneRunner
<1>4. Stored' = Stored
  BY <1>2, <1>3 DEF Stored, stores
<1>5. InStep(r, Idle, kind)
  BY <1>1 DEF InStep, Adding
<1>6. Moves(r)
  BY <1>1, <1>3, <1>4, <1>5 DEF Moves, Busy
<1>7. QED
  BY <1>1, <1>2, <1>3, <1>6

\* The summary ends the run.
LEMMA SummarizeMoves ==
    ASSUME TypeOK, Progress, NEW r \in Runners, Summarize(r)
    PROVE  Moves(r) /\ run'[r].judges = run[r].judges /\ metric' = metric /\ run'[r].pc = "idle"
<1>1. run[r] \in Runs /\ InStep(r, run[r], kind)
  BY DEF TypeOK, Progress, InStep
<1> DEFINE s == AverageMetrics(RowsOfRun(RunId[r]))
           u == [run[r] EXCEPT !.pc = "idle"]
           w == [u EXCEPT !.returned = s]
<1>2. s \in Summaries
  <2>1. RunId[r] \in RunIds
    BY EvaluationAssumption
  <2>2. QED
    BY <2>1, SummaryTyped
<1>3. Step(r, "sum", w) /\ stores' = stores /\ metric' = metric
  BY DEF Summarize
<1>4. s = AverageMetrics(RowsOfRun(RunId[r]))
  OBVIOUS
<1>5. /\ u \in Runs /\ u.pc = "idle" /\ u.shared = run[r].shared /\ u.judges = run[r].judges
      /\ u.scores = run[r].scores
  BY <1>1, StageMoved
<1> HIDE DEF s, u
<1>6. /\ w \in Runs /\ w.pc = u.pc /\ w.returned = s /\ w.shared = u.shared
      /\ w.judges = u.judges /\ w.scores = u.scores
  BY <1>2, <1>5, ReturnedSet
<1> HIDE DEF w
<1>7. /\ run' \in [Runners -> Runs] /\ run'[r] = w
      /\ \A q \in Runners \ {r} : run'[q] = run[q]
      /\ run[r].pc = "sum" /\ kind' = kind
  BY <1>3, <1>6, OneRunner
<1>8. Stored' = Stored
  BY <1>3, <1>7 DEF Stored, stores
<1>9. InStep(r, w, kind)
  BY <1>5, <1>6 DEF InStep, Adding
<1>10. Moves(r)
  BY <1>4, <1>5, <1>6, <1>7, <1>8, <1>9 DEF Moves, Busy
<1>11. QED
  BY <1>3, <1>5, <1>6, <1>7, <1>10

\* Every step of a runner within its run moves it on so.
LEMMA StepMoves ==
    ASSUME TypeOK, Progress, NEW r \in Runners, StepOf(r)
    PROVE  Moves(r)
<1>1. CASE WireJudge(r)
  BY <1>1, WireMoves
<1>2. CASE LoadDataset(r, TRUE) \/ LoadDataset(r, FALSE)
  BY <1>2, LoadMoves
<1>3. CASE \E sample \in Samples, raised \in Raising : Evaluate(r, sample, raised)
  BY <1>3, EvaluateMoves
<1>4. CASE AppendResult(r) \/ Commit(r)
  BY <1>4, AddMoves
<1>5. CASE LookForRunId(r) \/ NoteRunId(r) \/ Insert(r)
  BY <1>5, AddingMoves
<1>6. CASE InsertFails(r)
  BY <1>6, InsertFailsMoves
<1>7. CASE Summarize(r)
  BY <1>7, SummarizeMoves
<1>8. QED
  BY <1>1, <1>2, <1>3, <1>4, <1>5, <1>6, <1>7 DEF StepOf

\* After a crash every runner is idle, and what is stored is what is committed.
LEMMA CrashShape ==
    ASSUME TypeOK, Crash
    PROVE  /\ run' \in [Runners -> Runs] /\ \A r \in Runners : run'[r] = Idle
           /\ kind' = kind /\ memory' = EmptyMemory /\ reported' = reported
           /\ Stored' = IF kind = "memory" THEN << >> ELSE Stored
<1>1. run' = [r \in Runners |-> Idle] /\ memory' = EmptyMemory /\ kind' = kind /\ table' = table
  BY DEF Crash
<1>2. memory'.results = << >>
  BY <1>1 DEF EmptyMemory
<1>3. Stored' = IF kind = "memory" THEN << >> ELSE Stored
  BY <1>1, <1>2 DEF Stored
<1>4. reported' = reported
  BY DEF Crash
<1>5. QED
  BY <1>1, <1>3, <1>4, IdleTyped

----------------------------------------------------------------------------
(***************************************************************************)
(* Each part of the invariant is kept.                                     *)
(***************************************************************************)

\* Where the runners are in their datasets.
LEMMA ProgressKept ==
    ASSUME TypeOK, Progress, Next
    PROVE  Progress'
<1>1. \A q \in Runners : InStep(q, run[q], kind)
  BY DEF Progress, InStep
<1>2. \A q \in Runners : InStep(q, run'[q], kind')
  <2>1. CASE Crash
    <3>1. \A q \in Runners : InStep(q, Idle, kind')
      BY IdleTyped DEF InStep, Adding
    <3>2. QED
      BY <2>1, <3>1, CrashShape
  <2>2. ASSUME NEW r \in Runners, Begin(r)
        PROVE  \A q \in Runners : InStep(q, run'[q], kind')
    <3>1. kind' = kind
      BY <2>2 DEF Begin
    <3>2. run'[r].pc \in {"wire", "load"} /\ run'[r].at = 1 /\ run'[r].returned = NoSummary
      BY <2>2, BeginShape
    <3>3. InStep(r, run'[r], kind')
      BY <3>2 DEF InStep, Adding
    <3>4. \A q \in Runners \ {r} :
            /\ run'[q].pc = run[q].pc /\ run'[q].at = run[q].at /\ run'[q].row = run[q].row
            /\ run'[q].returned = run[q].returned
      BY <2>2, BeginShape
    <3>5. \A q \in Runners \ {r} : InStep(q, run'[q], kind')
      BY <1>1, <3>1, <3>4 DEF InStep, Adding
    <3>6. QED
      BY <3>3, <3>5
  <2>3. ASSUME NEW r \in Runners, StepOf(r)
        PROVE  \A q \in Runners : InStep(q, run'[q], kind')
    <3>1. Moves(r)
      BY <2>3, StepMoves
    <3>2. QED
      BY <1>1, <3>1 DEF Moves
  <2>4. QED
    BY <2>1, <2>2, <2>3, NextIs
<1>3. QED
  BY <1>2 DEF Progress, InStep

\* Two runners at one run id know that they share it.
LEMMA TogetherIsSharedKept ==
    ASSUME TypeOK, Progress, TogetherIsShared, Next
    PROVE  TogetherIsShared'
<1>1. SUFFICES ASSUME NEW p \in Runners, NEW q \in Runners, p # q,
                      run'[p].pc # "idle", run'[q].pc # "idle", RunId[p] = RunId[q]
               PROVE  run'[p].shared /\ run'[q].shared
  BY DEF TogetherIsShared, Busy
<1>2. CASE Crash
  BY <1>1, <1>2, CrashShape, IdleTyped
<1>3. ASSUME NEW r \in Runners, Begin(r)
      PROVE  run'[p].shared /\ run'[q].shared
  <2>1. /\ ~run'[r].shared => \A x \in Runners : Busy(x) => RunId[x] # RunId[r]
        /\ \A x \in Runners \ {r} :
              /\ run'[x].pc = run[x].pc
              /\ (run[x].shared => run'[x].shared)
              /\ (Busy(x) /\ RunId[x] = RunId[r] => run'[x].shared)
    <3>1. ~run'[r].shared => \A x \in Runners : Busy(x) => RunId[x] # RunId[r]
      BY <1>3, BeginShape
    <3>2. ASSUME NEW x \in Runners \ {r}
          PROVE  /\ run'[x].pc = run[x].pc
                 /\ (run[x].shared => run'[x].shared)
                 /\ (Busy(x) /\ RunId[x] = RunId[r] => run'[x].shared)
      BY <1>3, BeginShape
    <3>3. QED
      BY <3>1, <3>2
  <2>2. CASE p # r /\ q # r
    <3>1. Busy(p) /\ Busy(q)
      BY <1>1, <2>1, <2>2 DEF Busy
    <3>2. run[p].shared /\ run[q].shared
      BY <1>1, <3>1 DEF TogetherIsShared
    <3>3. QED
      BY <2>1, <2>2, <3>2
  <2>3. CASE p = r \/ q = r
    <3>1. ASSUME NEW x \in Runners \ {r}, run'[x].pc # "idle", RunId[x] = RunId[r]
          PROVE  run'[x].shared /\ run'[r].shared
      <4>1. Busy(x)
        BY <2>1, <3>1 DEF Busy
      <4>2. QED
        BY <2>1, <3>1, <4>1
    <3>2. QED
      BY <1>1, <2>3, <3>1
  <2>4. QED
    BY <2>2, <2>3
<1>4. ASSUME NEW r \in Runners, StepOf(r)
      PROVE  run'[p].shared /\ run'[q].shared
  <2>1. /\ \A x \in Runners \ {r} : run'[x] = run[x]
        /\ Busy(r) /\ (run'[r].pc # "idle" => run'[r].shared = run[r].shared)
    BY <1>4, StepMoves DEF Moves
  <2>2. Busy(p) /\ Busy(q)
    BY <1>1, <2>1 DEF Busy
  <2>3. run[p].shared /\ run[q].shared
    BY <1>1, <2>2 DEF TogetherIsShared
  <2>4. QED
    BY <1>1, <2>1, <2>3
<1>5. QED
  BY <1>2, <1>3, <1>4, NextIs

\* What a runner alone at its run id scored is what it stored and is to store.
LEMMA OneRowEachKept ==
    ASSUME TypeOK, Progress, TogetherIsShared, OneRowEach, Next
    PROVE  OneRowEach'
<1>0. \A q \in Runners : RunId[q] \in RunIds
  BY EvaluationAssumption
<1> DEFINE Behind(w, rows) ==
             /\ Len(rows) = w.at - 1
             /\ w.scores = IF Adding(w) THEN Append(rows, w.row.metrics) ELSE rows
<1>1. SUFFICES ASSUME NEW q \in Runners, run'[q].pc # "idle", ~run'[q].shared
               PROVE  Behind(run'[q], Selected(Stored', RunId[q]))
  BY DEF OneRowEach, Busy, RowsOfRun, Adding
<1>2. Busy(q) /\ ~run[q].shared => Behind(run[q], Selected(Stored, RunId[q]))
  BY DEF OneRowEach, RowsOfRun
<1>3. Stored \in Seq(Rows) /\ run[q].at \in Nat
  BY RunFields DEF TypeOK, Stored
<1>4. CASE Crash
  BY <1>1, <1>4, CrashShape, IdleTyped
<1>5. ASSUME NEW r \in Runners, Begin(r)
      PROVE  Behind(run'[q], Selected(Stored', RunId[q]))
  <2>1. Stored' = Stored
    BY <1>5 DEF Begin, stores, Stored
  <2>2. CASE q = r
    <3>1. /\ RowsOfRun(RunId[q]) = << >> /\ run'[q].at = 1
          /\ run'[q].scores = << >> /\ run'[q].pc \in {"wire", "load"}
      BY <1>1, <1>5, <2>2, BeginShape
    <3>2. Selected(Stored, RunId[q]) = << >>
      BY <3>1 DEF RowsOfRun
    <3>3. QED
      BY <2>1, <3>1, <3>2 DEF Adding
  <2>3. CASE q # r
    <3>1. /\ run'[q].pc = run[q].pc /\ run'[q].at = run[q].at /\ run'[q].row = run[q].row
          /\ run'[q].scores = run[q].scores
          /\ (run[q].shared => run'[q].shared)
          /\ (Busy(q) /\ RunId[q] = RunId[r] => run'[q].shared)
      BY <1>5, <2>3, BeginShape
    <3>2. Busy(q) /\ ~run[q].shared
      <4>1. Busy(q)
        BY <1>1, <3>1 DEF Busy
      <4>2. QED
        BY <1>1, <3>1, <4>1, Zenon
    <3>3. QED
      BY <1>2, <2>1, <3>1, <3>2 DEF Adding
  <2>4. QED
    BY <2>2, <2>3
<1>6. ASSUME NEW r \in Runners, StepOf(r)
      PROVE  Behind(run'[q], Selected(Stored', RunId[q]))
  <2>1. /\ \A x \in Runners \ {r} : run'[x] = run[x]
        /\ Busy(r) /\ (run'[r].pc # "idle" => run'[r].shared = run[r].shared)
        /\ \/ /\ Stored' = Stored
              /\ run'[r].pc # "idle" =>
                    /\ run'[r].at = run[r].at
                    /\ \/ /\ run'[r].scores = run[r].scores /\ run'[r].row = run[r].row
                          /\ Adding(run'[r]) <=> Adding(run[r])
                       \/ /\ ~Adding(run[r]) /\ Adding(run'[r])
                          /\ run'[r].scores = Append(run[r].scores, run'[r].row.metrics)
           \/ /\ Stored' = Append(Stored, run[r].row)
              /\ run[r].row \in Rows /\ run[r].row.run = RunId[r]
              /\ run'[r].at = run[r].at + 1 /\ run'[r].scores = run[r].scores
              /\ Adding(run[r]) /\ ~Adding(run'[r])
    BY <1>6, StepMoves DEF Moves
  <2>2. Busy(q) /\ ~run[q].shared
    BY <1>1, <2>1 DEF Busy
  <2>3. q # r => RunId[q] # RunId[r]
    BY <2>1, <2>2 DEF TogetherIsShared
  <2>4. Behind(run[q], Selected(Stored, RunId[q]))
    BY <1>2, <2>2
  <2>5. CASE Stored' = Stored
    <3>1. CASE q # r
      BY <2>1, <2>4, <2>5, <3>1
    <3>2. CASE q = r
      <4>1. Stored' # Append(Stored, run[r].row)
        <5>1. \A s \in Seq(Rows) : \A x \in Rows : Append(s, x) # s
          <6> TAKE s \in Seq(Rows)
          <6> TAKE x \in Rows
          <6>1. Len(Append(s, x)) = Len(s) + 1 /\ Len(s) \in Nat
            OBVIOUS
          <6>2. QED
            BY <6>1
        <5>2. CASE run[r].row \in Rows
          BY <1>3, <2>5, <5>1, <5>2
        <5>3. CASE run[r].row \notin Rows
          <6>1. ~Adding(run[r])
            BY <5>3 DEF Progress
          <6>2. Len(Append(Stored, run[r].row)) = Len(Stored) + 1 /\ Len(Stored) \in Nat
            BY <1>3
          <6>3. QED
            BY <2>5, <6>2
        <5>4. QED
          BY <5>2, <5>3
      <4>2. run'[q].at = run[q].at
        BY <1>1, <2>1, <3>2, <4>1
      <4>3. CASE /\ run'[r].scores = run[r].scores /\ run'[r].row = run[r].row
                 /\ Adding(run'[r]) <=> Adding(run[r])
        BY <2>4, <2>5, <3>2, <4>2, <4>3
      <4>4. CASE /\ ~Adding(run[r]) /\ Adding(run'[r])
                 /\ run'[r].scores = Append(run[r].scores, run'[r].row.metrics)
        BY <2>4, <2>5, <3>2, <4>2, <4>4
      <4>5. QED
        BY <1>1, <2>1, <3>2, <4>1, <4>3, <4>4
    <3>3. QED
      BY <3>1, <3>2
  <2>6. CASE /\ Stored' = Append(Stored, run[r].row)
             /\ run[r].row \in Rows /\ run[r].row.run = RunId[r]
             /\ run'[r].at = run[r].at + 1 /\ run'[r].scores = run[r].scores
             /\ Adding(run[r]) /\ ~Adding(run'[r])
    <3>1. Selected(Stored', RunId[q]) =
            IF RunId[r] = RunId[q] THEN Append(Selected(Stored, RunId[q]), run[r].row.metrics)
            ELSE Selected(Stored, RunId[q])
      BY <1>0, <1>3, <2>6, SelectedAppend
    <3>2. Selected(Stored, RunId[q]) \in Seq(Metrics)
      BY <1>0, <1>3, SelectedTyped
    <3>3. CASE q = r
      <4>1. Len(Append(Selected(Stored, RunId[q]), run[r].row.metrics))
              = Len(Selected(Stored, RunId[q])) + 1
        BY <3>2
      <4>2. Len(Selected(Stored', RunId[q])) = run'[q].at - 1
        BY <1>3, <2>4, <2>6, <3>1, <3>3, <4>1
      <4>3. run'[q].scores = Selected(Stored', RunId[q])
        BY <2>4, <2>6, <3>1, <3>3
      <4>4. QED
        BY <2>6, <3>3, <4>2, <4>3
    <3>4. CASE q # r
      BY <2>1, <2>3, <2>4, <3>1, <3>4
    <3>5. QED
      BY <3>3, <3>4
  <2> HIDE DEF Behind
  <2>7. QED
    BY <2>1, <2>5, <2>6
<1> HIDE DEF Behind
<1>7. QED
  BY <1>4, <1>5, <1>6, NextIs

\* The mean a lone run returns is across the dataset.
LEMMA MeanKept ==
    ASSUME TypeOK, Progress, OneRowEach, MeanIsAcrossTheDataset, Next
    PROVE  MeanIsAcrossTheDataset'
<1>0. \A q \in Runners : RunId[q] \in RunIds
  BY EvaluationAssumption
<1> DEFINE Across(w) == Len(w.scores) = Len(Expected) /\ w.returned = Archive!Mean(w.scores)
<1>1. SUFFICES ASSUME NEW q \in Runners, run'[q].returned # NoSummary, ~run'[q].shared
               PROVE  Across(run'[q])
  BY Zenon DEF MeanIsAcrossTheDataset
<1>2. run[q].returned # NoSummary /\ ~run[q].shared => Across(run[q])
  BY DEF MeanIsAcrossTheDataset
<1>3. CASE Crash
  BY <1>1, <1>3, CrashShape, IdleTyped
<1>4. ASSUME NEW r \in Runners, Begin(r)
      PROVE  Across(run'[q])
  <2>1. q # r
    BY <1>1, <1>4, BeginShape
  <2>2. /\ run'[q].returned = run[q].returned /\ run'[q].scores = run[q].scores
        /\ (run[q].shared => run'[q].shared)
    BY <1>4, <2>1, BeginShape
  <2>3. run[q].returned # NoSummary /\ ~run[q].shared
    BY <1>1, <2>2, Zenon
  <2>4. Across(run[q])
    BY <1>2, <2>3
  <2>5. QED
    BY <2>2, <2>4
<1>5. ASSUME NEW r \in Runners, StepOf(r)
      PROVE  Across(run'[q])
  <2>1. /\ \A x \in Runners \ {r} : run'[x] = run[x]
        /\ Busy(r)
        /\ \/ run'[r].returned = NoSummary
           \/ /\ run[r].pc = "sum" /\ run'[r].shared = run[r].shared
              /\ run'[r].scores = run[r].scores
              /\ run'[r].returned = AverageMetrics(RowsOfRun(RunId[r]))
    BY <1>5, StepMoves DEF Moves
  <2>2. CASE q # r
    BY <1>1, <1>2, <2>1, <2>2
  <2>3. CASE /\ q = r /\ run[r].pc = "sum" /\ run'[r].shared = run[r].shared
             /\ run'[r].scores = run[r].scores
             /\ run'[r].returned = AverageMetrics(RowsOfRun(RunId[r]))
    <3> DEFINE rows == RowsOfRun(RunId[r])
    <3>1. ~run[r].shared
      BY <1>1, <2>3
    <3>2. Len(rows) = run[r].at - 1 /\ run[r].scores = rows
      BY <2>1, <2>3, <3>1 DEF OneRowEach, Adding
    <3>3. run[r].at = Len(Expected) + 1 /\ Len(Expected) \in Nat
      BY <2>3, EvaluationAssumption DEF Progress
    <3>4. Len(rows) = Len(Expected)
      BY <3>2, <3>3
    <3>5. rows \in Seq(Metrics)
      BY <1>0, SummaryTyped
    <3> HIDE DEF rows
    <3>6. AverageMetrics(rows) = Archive!Mean(rows)
      BY <3>5, AverageIsMean
    <3>7. run'[q].scores = rows /\ run'[q].returned = AverageMetrics(rows)
      BY <2>3, <3>2 DEF rows
    <3>8. QED
      BY <3>4, <3>6, <3>7
  <2>4. QED
    BY <1>1, <2>1, <2>2, <2>3
<1>6. QED
  BY <1>1, <1>2, <1>3, <1>4, <1>5, NextIs

\* What a step within a run does to the judges that scored it, unless it fills
\* in the shared metric's own.
LEMMA JudgesMoved ==
    ASSUME TypeOK, Progress, NEW r \in Runners, StepOf(r), ~WireJudge(r)
    PROVE  metric' = metric /\ run'[r].judges \subseteq run[r].judges \cup {metric.judge}
<1>1. CASE LoadDataset(r, TRUE) \/ LoadDataset(r, FALSE)
  BY <1>1, LoadMoves
<1>2. CASE \E sample \in Samples, raised \in Raising : Evaluate(r, sample, raised)
  BY <1>2, EvaluateMoves
<1>3. CASE AppendResult(r) \/ Commit(r)
  BY <1>3, AddMoves
<1>4. CASE LookForRunId(r) \/ NoteRunId(r) \/ Insert(r)
  BY <1>4, AddingMoves
<1>5. CASE InsertFails(r)
  BY <1>5, InsertFailsMoves
<1>6. CASE Summarize(r)
  BY <1>6, SummarizeMoves
<1>7. QED
  BY <1>1, <1>2, <1>3, <1>4, <1>5, <1>6 DEF StepOf

\* What filling in the judge, or a restart, does to the shared metric.
LEMMA MetricSet ==
    ASSUME TypeOK
    PROVE  /\ \A r \in Runners : WireJudge(r) =>
                /\ metric'.given = metric.given /\ metric'.judge = RunnerJudge[r]
                /\ metric'.judge \in Judges \cup {NoJudge} /\ metric'.rewired \in BOOLEAN
                /\ ~metric'.rewired => ~metric.rewired /\ metric.judge = NoJudge
                /\ metric' \in [judge : Judges \cup {NoJudge}, given : Judges \cup {NoJudge},
                                rewired : BOOLEAN]
           /\ Crash =>
                /\ metric'.given = metric.given /\ metric'.judge = metric.given
                /\ metric'.rewired = FALSE
                /\ metric' \in [judge : Judges \cup {NoJudge}, given : Judges \cup {NoJudge},
                                rewired : BOOLEAN]
<1> DEFINE M == [judge : Judges \cup {NoJudge}, given : Judges \cup {NoJudge}, rewired : BOOLEAN]
<1>1. metric \in M
  BY DEF TypeOK
<1>2. \A w \in M : \A j \in Judges \cup {NoJudge} : \A b \in BOOLEAN :
        LET v == [w EXCEPT !.judge = j, !.rewired = b]
        IN  v \in M /\ v.given = w.given /\ v.judge = j /\ v.rewired = b
  OBVIOUS
<1>3. ASSUME NEW r \in Runners, WireJudge(r)
      PROVE  /\ metric'.given = metric.given /\ metric'.judge = RunnerJudge[r]
             /\ metric'.judge \in Judges \cup {NoJudge} /\ metric'.rewired \in BOOLEAN
             /\ ~metric'.rewired => ~metric.rewired /\ metric.judge = NoJudge
             /\ metric' \in M
  <2> DEFINE b == metric.rewired \/ metric.judge # NoJudge
  <2>1. RunnerJudge[r] \in Judges \cup {NoJudge}
    BY EvaluationAssumption
  <2>2. metric' = [metric EXCEPT !.judge = RunnerJudge[r], !.rewired = b]
    BY <1>3 DEF WireJudge
  <2>3. b \in BOOLEAN /\ (~b => ~metric.rewired /\ metric.judge = NoJudge)
    BY Zenon
  <2> HIDE DEF b
  <2>4. /\ metric' \in M /\ metric'.given = metric.given
        /\ metric'.judge = RunnerJudge[r] /\ metric'.rewired = b
    <3> DEFINE v == [metric EXCEPT !.judge = RunnerJudge[r], !.rewired = b]
    <3>1. b \in BOOLEAN
      BY <2>3
    <3>2. v \in M /\ v.given = metric.given /\ v.judge = RunnerJudge[r] /\ v.rewired = b
      BY <1>1, <1>2, <2>1, <3>1, Zenon
    <3>3. metric' = v
      BY <2>2
    <3> HIDE DEF v, M
    <3>4. QED
      BY <3>2, <3>3
  <2>5. QED
    BY <2>1, <2>3, <2>4, Zenon
<1>4. ASSUME Crash
      PROVE  /\ metric'.given = metric.given /\ metric'.judge = metric.given
             /\ metric'.rewired = FALSE /\ metric' \in M
  <2>1. metric.given \in Judges \cup {NoJudge}
    BY <1>1
  <2>2. metric' = [metric EXCEPT !.judge = metric.given, !.rewired = FALSE]
    BY <1>4 DEF Crash
  <2>3. QED
    BY <1>1, <2>1, <2>2
<1>5. QED
  BY <1>3, <1>4

\* A judge that was given stays, and the scores of a run come from one judge.
LEMMA OneJudgeKept ==
    ASSUME TypeOK, Progress, OneJudge, Next
    PROVE  OneJudge'
<1>1. \A q \in Runners : run[q] \in Runs /\ run[q].judges \in SUBSET Judges
  BY RunFields DEF TypeOK
<1>2. CASE Crash
  <2>1. \A q \in Runners : run'[q].pc = "idle" /\ run'[q].judges = {}
    BY <1>2, CrashShape, IdleTyped
  <2>2. QED
    BY <1>2, <2>1, MetricSet DEF OneJudge
<1>3. ASSUME NEW r \in Runners, Begin(r)
      PROVE  OneJudge'
  <2>1. metric' = metric
    BY <1>3 DEF Begin
  <2>2. /\ run'[r].pc = "wire" => metric.judge = NoJudge
        /\ run'[r].judges = {}
        /\ \A q \in Runners \ {r} : run'[q].pc = run[q].pc /\ run'[q].judges = run[q].judges
    BY <1>3, BeginShape
  <2>3. QED
    BY <2>1, <2>2 DEF OneJudge
<1>4. ASSUME NEW r \in Runners, WireJudge(r)
      PROVE  OneJudge'
  <2>1. metric.given = NoJudge
    BY <1>4 DEF OneJudge, WireJudge, Step
  <2>2. \A q \in Runners : run'[q].judges = run[q].judges
    BY <1>4, WireMoves DEF Moves
  <2>3. /\ metric'.given = NoJudge
        /\ ~metric'.rewired => ~metric.rewired /\ metric.judge = NoJudge
    BY <1>4, <2>1, MetricSet
  <2>4. ASSUME ~metric'.rewired, NEW q \in Runners
        PROVE  run'[q].judges \subseteq {metric'.judge}
    <3>1. run[q].judges \subseteq {NoJudge}
      BY <2>3, <2>4 DEF OneJudge
    <3>2. NoJudge \notin Judges
      BY EvaluationAssumption
    <3>3. QED
      BY <1>1, <2>2, <3>1, <3>2
  <2>5. QED
    BY <2>3, <2>4 DEF OneJudge
<1>5. ASSUME NEW r \in Runners, StepOf(r), ~WireJudge(r)
      PROVE  OneJudge'
  <2>1. metric' = metric /\ run'[r].judges \subseteq run[r].judges \cup {metric.judge}
    BY <1>5, JudgesMoved
  <2>2. run'[r].pc # "wire" /\ \A q \in Runners \ {r} : run'[q] = run[q]
    BY <1>5, StepMoves DEF Moves
  <2>3. QED
    BY <2>1, <2>2 DEF OneJudge
<1>6. QED
  BY <1>2, <1>3, <1>4, <1>5, NextIs

\* The runners that are in the middle of an add_result, and the memory, change
\* when a row is added, and when the process crashes.
LEMMA AddersMoved ==
    ASSUME TypeOK, Progress, Next, ~Crash,
           \A r \in Runners : ~LookForRunId(r) /\ ~NoteRunId(r) /\ ~AppendResult(r)
    PROVE  /\ memory' = memory
           /\ \A q \in Runners : run'[q].pc \in {"note", "append"} \/ run[q].pc \in {"note", "append"}
                                    => run'[q].pc = run[q].pc
<1>1. memory' = memory
  BY DEF Next, Begin, WireJudge, LoadDataset, Evaluate, Insert, Commit, InsertFails, Summarize, stores
<1>2. ASSUME NEW r \in Runners, Begin(r), NEW q \in Runners
      PROVE  run'[q].pc \in {"note", "append"} \/ run[q].pc \in {"note", "append"}
               => run'[q].pc = run[q].pc
  <2>1. CASE q = r
    <3>1. run[r].pc = "idle" /\ run'[r].pc \in {"wire", "load"}
      BY <1>2, BeginShape DEF Begin
    <3>2. QED
      BY <2>1, <3>1
  <2>2. CASE q # r
    BY <1>2, <2>2, BeginShape
  <2>3. QED
    BY <2>1, <2>2
<1>3. ASSUME NEW r \in Runners, StepOf(r), NEW q \in Runners
      PROVE  run'[q].pc \in {"note", "append"} \/ run[q].pc \in {"note", "append"}
               => run'[q].pc = run[q].pc
  <2>1. CASE q # r
    BY <1>3, <2>1, StepMoves DEF Moves
  <2>2. CASE q = r
    <3>1. run[r].pc \notin {"note", "append"}
      BY <1>3 DEF StepOf, WireJudge, LoadDataset, Evaluate, Insert, Commit, InsertFails, Summarize, Step
    <3>2. run'[r].pc \notin {"note", "append"}
      <4>1. CASE Insert(r)
        <5>1. ~LookForRunId(r)
          OBVIOUS
        <5>2. run'[r].pc = "commit"
          BY <4>1, <5>1, AddingMoves
        <5>3. QED
          BY <5>2
      <4>2. CASE Commit(r)
        <5>1. run'[r].pc \in {"ask", "sum"}
          BY <4>2, AddMoves
        <5>2. QED
          BY <5>1
      <4>3. CASE Summarize(r)
        <5>1. run'[r].pc = "idle"
          BY <4>3, SummarizeMoves
        <5>2. QED
          BY <5>1
      <4>4. CASE \/ WireJudge(r) \/ LoadDataset(r, TRUE) \/ LoadDataset(r, FALSE) \/ InsertFails(r)
                 \/ \E sample \in Samples, raised \in Raising : Evaluate(r, sample, raised)
        <5>1. run[r] \in Runs /\ run \in [Runners -> Runs]
          BY DEF TypeOK
        <5>2. \A w \in Runs : \A s \in {"load", "idle", "sum", "ask"} : [w EXCEPT !.pc = s].pc = s
          BY DEF Runs
        <5>3. \A w : run' = [run EXCEPT ![r] = w] => run'[r] = w
          BY <5>1
        <5>4. CASE WireJudge(r)
          BY <5>1, <5>2, <5>3, <5>4 DEF WireJudge, Step
        <5>5. CASE LoadDataset(r, TRUE) \/ LoadDataset(r, FALSE)
          BY <5>1, <5>2, <5>3, <5>5 DEF LoadDataset, Step
        <5>6. CASE InsertFails(r)
          BY <5>3, <5>6, IdleTyped DEF InsertFails, Step
        <5>7. CASE \E sample \in Samples, raised \in Raising : Evaluate(r, sample, raised)
          <6>1. \A a, b, c : [run[r] EXCEPT !.pc = "add", !.row = a, !.scores = b, !.judges = c].pc = "add"
            BY <5>1 DEF Runs
          <6>2. QED
            BY <5>3, <5>7, <6>1 DEF Evaluate, Step, Scored
        <5>8. QED
          BY <4>4, <5>4, <5>5, <5>6, <5>7
      <4>5. QED
        BY <1>3, <4>1, <4>2, <4>3, <4>4 DEF StepOf
    <3>3. QED
      BY <2>2, <3>1, <3>2
  <2>3. QED
    BY <2>1, <2>2
<1>4. QED
  BY <1>1, <1>2, <1>3, NextIs

\* What the invariant says of the stages, run ids and rows there are.
LatestIs(S, rows, ids) ==
    LET Row(i) == \E n \in DOMAIN rows : rows[n].run = i
    IN  /\ \A q, r \in Runners : S[q] \in {"note", "append"} /\ S[r] \in {"note", "append"} => q = r
        /\ \A i \in RunIds : Contains(ids, i) <=> Row(i) \/ \E r \in Runners : S[r] = "append" /\ RunId[r] = i
        /\ \A r \in Runners : S[r] = "note" => ~Contains(ids, RunId[r])
        /\ \A r \in Runners : S[r] = "append" /\ ~Row(RunId[r]) => Last(ids) = RunId[r]
        /\ rows # << >> /\ (\A r \in Runners : S[r] = "append" => Row(RunId[r])) =>
              /\ ids # << >>
              /\ \E n \in DOMAIN rows :
                    /\ rows[n].run = Last(ids)
                    /\ FirstOfItsRun(rows, n)
                    /\ \A k \in DOMAIN rows : k > n => \E j \in 1..n : rows[j].run = rows[k].run

\* The invariant, said of the stages.
LEMMA LatestIsSaid ==
    /\ LatestIsLastSeen <=>
          (~memory.crossed => LatestIs([r \in Runners |-> run[r].pc], memory.results, memory.runIds))
    /\ LatestIsLastSeen' <=>
          (~memory'.crossed => LatestIs([r \in Runners |-> run'[r].pc], memory'.results, memory'.runIds))
BY DEF LatestIsLastSeen, LatestIs, HasRow, Appending, Adders

\* The last run id noted, and the rows there are when another is appended.
LEMMA LatestAppended ==
    ASSUME NEW S, NEW U, NEW r \in Runners, NEW rows \in Seq(Rows), NEW ids \in Seq(RunIds), NEW row \in Rows,
           LatestIs(S, rows, ids), S[r] = "append", row.run = RunId[r],
           \A q \in Runners : U[q] \notin {"note", "append"}
    PROVE  LatestIs(U, Append(rows, row), ids)
<1> DEFINE i == RunId[r]
           more == Append(rows, row)
           last == Len(rows) + 1
           Row(k) == \E n \in DOMAIN rows : rows[n].run = k
<1>1. i \in RunIds
  BY EvaluationAssumption
<1>2. /\ more \in Seq(Rows) /\ Len(rows) \in Nat /\ DOMAIN rows = 1..Len(rows)
      /\ DOMAIN more = 1..last /\ more[last] = row /\ more # << >>
      /\ \A n \in DOMAIN rows : more[n] = rows[n]
  OBVIOUS
<1>3. /\ \A q \in Runners : S[q] = "append" => q = r
      /\ \A j \in RunIds : Contains(ids, j) <=> Row(j) \/ j = i
      /\ ~Row(i) => Last(ids) = i
      /\ Row(i) => /\ ids # << >>
                   /\ \E n \in DOMAIN rows :
                         /\ rows[n].run = Last(ids)
                         /\ FirstOfItsRun(rows, n)
                         /\ \A k \in DOMAIN rows : k > n => \E j \in 1..n : rows[j].run = rows[k].run
  <2>1. \A q \in Runners : S[q] = "append" => q = r
    BY DEF LatestIs
  <2>2. \A j \in RunIds : (\E q \in Runners : S[q] = "append" /\ RunId[q] = j) <=> j = i
    BY <2>1
  <2>3. \A j \in RunIds : Contains(ids, j) <=> Row(j) \/ j = i
    BY <2>2 DEF LatestIs
  <2>4. Row(i) => rows # << >> /\ \A q \in Runners : S[q] = "append" => Row(RunId[q])
    BY <1>2, <2>1
  <2>5. QED
    BY <2>1, <2>3, <2>4 DEF LatestIs
<1> HIDE DEF more
<1>4. \A j \in RunIds : (\E n \in DOMAIN more : more[n].run = j) <=> Row(j) \/ j = i
  <2>1. DOMAIN more = DOMAIN rows \cup {last}
    BY <1>2
  <2>2. QED
    BY <1>2, <2>1, Zenon
<1>5. \A j \in RunIds : Contains(ids, j) <=> \E n \in DOMAIN more : more[n].run = j
  BY <1>3, <1>4
<1>6. ids # << >>
  <2>1. Contains(ids, i)
    BY <1>1, <1>3
  <2>2. QED
    BY <2>1 DEF Contains
<1>7. \E n \in DOMAIN more :
         /\ more[n].run = Last(ids)
         /\ FirstOfItsRun(more, n)
         /\ \A k \in DOMAIN more : k > n => \E j \in 1..n : more[j].run = more[k].run
  <2>1. CASE ~Row(i)
    <3>1. last \in DOMAIN more /\ more[last].run = Last(ids)
      BY <1>2, <1>3, <2>1
    <3>2. FirstOfItsRun(more, last)
      <4>1. \A z \in 1..(last - 1) : z \in DOMAIN rows /\ more[z] = rows[z]
        BY <1>2
      <4>2. QED
        BY <1>2, <2>1, <4>1 DEF FirstOfItsRun
    <3>3. \A k \in DOMAIN more : ~(k > last)
      BY <1>2
    <3>4. QED
      BY <3>1, <3>2, <3>3
  <2>2. CASE Row(i)
    <3>1. PICK n \in DOMAIN rows :
             /\ rows[n].run = Last(ids)
             /\ FirstOfItsRun(rows, n)
             /\ \A k \in DOMAIN rows : k > n => \E j \in 1..n : rows[j].run = rows[k].run
      BY <1>3, <2>2
    <3>2. PICK m \in DOMAIN rows : rows[m].run = i
      BY <2>2
    <3>3. \E j \in 1..n : rows[j].run = i
      <4>1. CASE m > n
        BY <3>1, <3>2, <4>1
      <4>2. CASE m <= n
        BY <1>2, <3>2, <4>2
      <4>3. QED
        BY <1>2, <3>1, <3>2, <4>1, <4>2
    <3>4. \A j \in 1..n : more[j] = rows[j]
      BY <1>2
    <3>5. n \in DOMAIN more /\ more[n].run = Last(ids) /\ FirstOfItsRun(more, n)
      <4>1. \A z \in 1..(n - 1) : more[z] = rows[z]
        BY <1>2
      <4>2. QED
        BY <1>2, <3>1, <4>1 DEF FirstOfItsRun
    <3>6. \A k \in DOMAIN more : k > n => \E j \in 1..n : more[j].run = more[k].run
      <4>1. SUFFICES ASSUME NEW k \in DOMAIN more, k > n
                     PROVE  \E j \in 1..n : rows[j].run = more[k].run
        BY <3>4
      <4>2. CASE k = last
        BY <1>2, <3>3, <4>2
      <4>3. CASE k # last
        <5>1. k \in DOMAIN rows /\ more[k] = rows[k]
          BY <1>2, <4>3
        <5>2. QED
          BY <3>1, <4>1, <5>1
      <4>4. QED
        BY <4>2, <4>3
    <3>7. QED
      BY <3>5, <3>6
  <2>3. QED
    BY <2>1, <2>2
<1>8. LatestIs(U, more, ids)
  BY <1>5, <1>6, <1>7 DEF LatestIs
<1>9. QED
  BY <1>8 DEF more

\* The run ids noted, and the last of them.
LEMMA LatestKept ==
    ASSUME TypeOK, Progress, LatestIsLastSeen, Next
    PROVE  LatestIsLastSeen'
<1> DEFINE S == [q \in Runners |-> run[q].pc]
           T == [q \in Runners |-> run'[q].pc]
           rows == memory.results
           ids == memory.runIds
<1>0. rows \in Seq(Rows) /\ ids \in Seq(RunIds) /\ memory.crossed \in BOOLEAN
      /\ memory \in [results : Seq(Rows), runIds : Seq(RunIds), crossed : BOOLEAN]
  BY DEF TypeOK
<1>1. CASE Crash
  <2>1. memory' = [results |-> << >>, runIds |-> << >>, crossed |-> FALSE]
    BY <1>1 DEF Crash, EmptyMemory
  <2>2. \A q \in Runners : run'[q].pc = "idle"
    BY <1>1, CrashShape, IdleTyped
  <2>3. QED
    BY <2>1, <2>2 DEF LatestIsLastSeen, Contains, Adders, Appending, HasRow
<1>2. CASE ~Crash /\ \A r \in Runners : ~LookForRunId(r) /\ ~NoteRunId(r) /\ ~AppendResult(r)
  <2>1. /\ memory' = memory
        /\ \A q \in Runners : run'[q].pc \in {"note", "append"} \/ run[q].pc \in {"note", "append"}
                                 => run'[q].pc = run[q].pc
    BY <1>2, AddersMoved
  <2>2. \A q \in Runners : /\ T[q] = "note" <=> S[q] = "note"
                           /\ T[q] = "append" <=> S[q] = "append"
    BY <2>1
  <2> HIDE DEF S, T
  <2>3. LatestIs(S, rows, ids) => LatestIs(T, rows, ids)
    BY <2>2 DEF LatestIs
  <2>4. QED
    BY <2>1, <2>3, LatestIsSaid DEF S, T
<1>3. SUFFICES ASSUME NEW r \in Runners, LookForRunId(r) \/ NoteRunId(r) \/ AppendResult(r),
                      ~memory'.crossed
               PROVE  LatestIs(T, memory'.results, memory'.runIds)
  BY <1>1, <1>2, LatestIsSaid
<1>4. /\ memory'.crossed = IF LookForRunId(r) THEN memory.crossed \/ Adders # {} ELSE memory.crossed
      /\ \A q \in Runners \ {r} : T[q] = S[q]
  <2>1. \A q \in Runners \ {r} : run'[q] = run[q]
    BY <1>3, AddingMoves, AddMoves DEF Moves
  <2>2. CASE LookForRunId(r)
    <3> DEFINE b == memory.crossed \/ Adders # {}
    <3>1. memory' = [memory EXCEPT !.crossed = b]
      BY <2>2 DEF LookForRunId
    <3> HIDE DEF b
    <3>2. memory'.crossed = b
      BY <1>0, <3>1
    <3>3. QED
      BY <2>1, <2>2, <3>2 DEF b
  <2>3. CASE ~LookForRunId(r)
    <3>1. memory'.crossed = memory.crossed
      BY <1>0, <1>3, <2>3 DEF NoteRunId, AppendResult
    <3>2. QED
      BY <2>1, <2>3, <3>1
  <2>4. QED
    BY <2>2, <2>3
<1>5. LatestIs(S, rows, ids)
  BY <1>3, <1>4, LatestIsSaid
<1>6. CASE LookForRunId(r)
  <2>1. memory'.results = rows /\ memory'.runIds = ids
    BY <1>0, <1>6 DEF LookForRunId
  <2>2. \A q \in Runners : S[q] \notin {"note", "append"}
    BY <1>3, <1>4, <1>6 DEF Adders
  <2>3. T[r] = IF Contains(ids, RunId[r]) THEN "append" ELSE "note"
    <3>1. ~Insert(r)
      BY <1>6 DEF LookForRunId, Insert
    <3>2. QED
      BY <1>6, <3>1, AddingMoves
  <2>4. RunId[r] \in RunIds
    BY EvaluationAssumption
  <2> DEFINE Row(i) == \E n \in DOMAIN rows : rows[n].run = i
  <2>5. \A i \in RunIds : Contains(ids, i) <=> Row(i)
    BY <1>5, <2>2 DEF LatestIs
  <2>6. \A q \in Runners : T[q] = "append" => q = r /\ Row(RunId[r])
    BY <1>4, <2>2, <2>3, <2>4, <2>5
  <2>7. \A q \in Runners : T[q] \in {"note", "append"} => q = r
    BY <1>4, <2>2
  <2>8. \A q \in Runners : T[q] = "note" => ~Contains(ids, RunId[q])
    BY <1>4, <2>2, <2>3
  <2>9. \A i \in RunIds : Contains(ids, i) <=> Row(i) \/ \E q \in Runners : T[q] = "append" /\ RunId[q] = i
    BY <2>5, <2>6
  <2>10. rows # << >> =>
              /\ ids # << >>
              /\ \E n \in DOMAIN rows :
                    /\ rows[n].run = Last(ids)
                    /\ FirstOfItsRun(rows, n)
                    /\ \A k \in DOMAIN rows : k > n => \E j \in 1..n : rows[j].run = rows[k].run
    BY <1>5, <2>2 DEF LatestIs
  <2> HIDE DEF S, T, rows, ids
  <2>11. LatestIs(T, rows, ids)
    BY <2>6, <2>7, <2>8, <2>9, <2>10 DEF LatestIs
  <2>12. QED
    BY <2>1, <2>11
<1>7. CASE NoteRunId(r)
  <2> DEFINE i == RunId[r]
             mids == Append(ids, i)
             Row(k) == \E n \in DOMAIN rows : rows[n].run = k
  <2>1. memory'.results = rows /\ memory'.runIds = mids
    BY <1>0, <1>7 DEF NoteRunId
  <2>2. S[r] = "note" /\ i \in RunIds
    BY <1>7, EvaluationAssumption DEF NoteRunId, Step
  <2>3. T[r] = "append"
    <3>1. ~Insert(r) /\ ~LookForRunId(r)
      BY <1>7 DEF NoteRunId, LookForRunId, Insert, Step
    <3>2. QED
      BY <1>7, <3>1, AddingMoves
  <2> HIDE DEF S, T, rows, ids
  <2>4. /\ \A q \in Runners : S[q] \in {"note", "append"} => q = r
        /\ ~Contains(ids, i)
    BY <1>5, <2>2 DEF LatestIs
  <2>5. \A q \in Runners : T[q] \in {"note", "append"} <=> q = r
    BY <1>4, <2>3, <2>4
  <2>6. \A k \in RunIds : Contains(ids, k) <=> Row(k)
    <3>1. \A q \in Runners : S[q] # "append"
      BY <2>2, <2>4
    <3>2. QED
      BY <1>5, <3>1 DEF LatestIs
  <2>7. ~Row(i)
    BY <2>2, <2>4, <2>6
  <2>8. /\ \A k \in RunIds : Contains(mids, k) <=> k = i \/ Contains(ids, k)
        /\ Last(mids) = i
    <3>1. ids \in Seq(RunIds)
      BY <1>0 DEF ids
    <3>2. QED
      BY <2>2, <3>1 DEF Contains, Last
  <2> HIDE DEF mids
  <2>9. \A k \in RunIds : Contains(mids, k) <=> Row(k) \/ \E q \in Runners : T[q] = "append" /\ RunId[q] = k
    BY <2>3, <2>5, <2>6, <2>8
  <2>10. LatestIs(T, rows, mids)
    BY <2>3, <2>5, <2>7, <2>8, <2>9 DEF LatestIs
  <2>11. QED
    BY <2>1, <2>10
<1>8. CASE AppendResult(r)
  <2>1. memory'.results = Append(rows, run[r].row) /\ memory'.runIds = ids
    BY <1>0, <1>8 DEF AppendResult
  <2>2. run[r].row \in Rows /\ run[r].row.run = RunId[r] /\ T[r] \in {"ask", "sum"}
    BY <1>8, AddMoves
  <2>3. S[r] = "append"
    BY <1>8 DEF AppendResult, Step
  <2>4. rows \in Seq(Rows) /\ ids \in Seq(RunIds)
    BY <1>0
  <2> HIDE DEF S, T, rows, ids
  <2>5. \A q \in Runners : T[q] \notin {"note", "append"}
    <3>1. \A q \in Runners : S[q] \in {"note", "append"} => q = r
      BY <1>5, <2>3 DEF LatestIs
    <3>2. QED
      BY <1>4, <2>2, <3>1
  <2>6. LatestIs(T, Append(rows, run[r].row), ids)
    BY <1>5, <2>2, <2>3, <2>4, <2>5, LatestAppended
  <2>7. QED
    BY <2>1, <2>6
<1>9. QED
  BY <1>3, <1>6, <1>7, <1>8

\* The steps of a runner, but for the ones that add a row or report: what they
\* leave of the archive's state alone.
LEMMA ReportedMoved ==
    ASSUME NEW r \in Runners, StepOf(r), ~Summarize(r)
    PROVE  reported' = reported
BY DEF StepOf, WireJudge, LoadDataset, Evaluate, LookForRunId, NoteRunId, AppendResult, Insert, Commit,
       InsertFails

\* The stores keep their types.
LEMMA StoresTyped ==
    ASSUME TypeOK, Progress, Next
    PROVE  /\ memory' \in [results : Seq(Rows), runIds : Seq(RunIds), crossed : BOOLEAN]
           /\ table' \in Seq(Rows) /\ pending' \in SUBSET Runners
<1>0. /\ memory \in [results : Seq(Rows), runIds : Seq(RunIds), crossed : BOOLEAN]
      /\ table \in Seq(Rows) /\ pending \in SUBSET Runners
  BY DEF TypeOK
<1>1. CASE Crash
  BY <1>0, <1>1 DEF Crash, EmptyMemory, Nobody
<1>2. ASSUME NEW r \in Runners, AppendResult(r) \/ Commit(r)
      PROVE  run[r].row \in Rows
  BY <1>2, AddMoves
<1>3. ASSUME NEW r \in Runners, LookForRunId(r) \/ NoteRunId(r) \/ AppendResult(r)
      PROVE  /\ memory' \in [results : Seq(Rows), runIds : Seq(RunIds), crossed : BOOLEAN]
             /\ table' = table /\ pending' = pending
  <2>1. RunId[r] \in RunIds
    BY EvaluationAssumption
  <2>2. CASE LookForRunId(r)
    <3> DEFINE b == memory.crossed \/ Adders # {}
    <3>1. memory' = [memory EXCEPT !.crossed = b] /\ table' = table /\ pending' = pending
      BY <2>2 DEF LookForRunId
    <3>2. b \in BOOLEAN
      BY Zenon
    <3> HIDE DEF b
    <3>3. QED
      BY <1>0, <3>1, <3>2
  <2>3. CASE NoteRunId(r)
    <3>1. memory' = [memory EXCEPT !.runIds = Append(@, RunId[r])]
      BY <2>3 DEF NoteRunId
    <3>2. Append(memory.runIds, RunId[r]) \in Seq(RunIds)
      BY <1>0, <2>1
    <3>3. QED
      BY <1>0, <2>3, <3>1, <3>2 DEF NoteRunId
  <2>4. CASE AppendResult(r)
    <3>1. Append(memory.results, run[r].row) \in Seq(Rows)
      BY <1>0, <1>2, <2>4
    <3>2. QED
      BY <1>0, <2>4, <3>1 DEF AppendResult
  <2>5. QED
    BY <1>3, <2>2, <2>3, <2>4
<1>4. ASSUME NEW r \in Runners, Commit(r)
      PROVE  memory' = memory /\ table' \in Seq(Rows) /\ pending' = {}
  BY <1>0, <1>2, <1>4 DEF Commit, Nobody
<1>5. ASSUME NEW r \in Runners, Insert(r)
      PROVE  memory' = memory /\ table' = table /\ pending' = {r}
  BY <1>5 DEF Insert
<1>6. ASSUME NEW r \in Runners,
             \/ Begin(r) \/ WireJudge(r) \/ LoadDataset(r, TRUE) \/ LoadDataset(r, FALSE)
             \/ \E sample \in Samples, raised \in Raising : Evaluate(r, sample, raised)
             \/ InsertFails(r) \/ Summarize(r)
      PROVE  memory' = memory /\ table' = table /\ pending' = pending
  BY <1>6 DEF Begin, WireJudge, LoadDataset, Evaluate, InsertFails, Summarize, stores
<1>7. QED
  BY <1>0, <1>1, <1>3, <1>4, <1>5, <1>6, NextIs DEF StepOf

\* The types are kept.
LEMMA TypeKept ==
    ASSUME TypeOK, Progress, Next
    PROVE  TypeOK'
<1>1. run' \in [Runners -> Runs] /\ kind' = kind
  <2>1. ASSUME NEW r \in Runners, Begin(r)
        PROVE  run' \in [Runners -> Runs] /\ kind' = kind
    BY <2>1, BeginShape DEF Begin
  <2>2. QED
    BY <2>1, CrashShape, StepMoves, NextIs DEF Moves
<1>2. metric' \in [judge : Judges \cup {NoJudge}, given : Judges \cup {NoJudge}, rewired : BOOLEAN]
  <2>1. ASSUME NEW r \in Runners, Begin(r)
        PROVE  metric' = metric
    BY <2>1 DEF Begin
  <2>2. ASSUME NEW r \in Runners, StepOf(r), ~WireJudge(r)
        PROVE  metric' = metric
    BY <2>2, JudgesMoved
  <2>3. QED
    BY <2>1, <2>2, MetricSet, NextIs DEF TypeOK
<1>3. runs' \in Nat /\ crashes' \in Nat
  <2>1. runs \in Nat /\ crashes \in Nat
    BY DEF TypeOK
  <2>2. runs' \in {runs, runs + 1} /\ crashes' \in {crashes, crashes + 1}
    BY DEF Next, Crash, Begin, WireJudge, LoadDataset, Evaluate, LookForRunId, NoteRunId, AppendResult,
           Insert, Commit, InsertFails, Summarize, Step
  <2>3. QED
    BY <2>1, <2>2
<1>4. reported' \in [RunIds -> Summaries]
  <2>1. reported \in [RunIds -> Summaries]
    BY DEF TypeOK
  <2>2. ASSUME NEW r \in Runners, Summarize(r)
        PROVE  reported' \in [RunIds -> Summaries]
    <3>1. RunId[r] \in RunIds
      BY EvaluationAssumption
    <3>2. AverageMetrics(RowsOfRun(RunId[r])) \in Summaries
      BY <3>1, SummaryTyped
    <3>3. reported' = [reported EXCEPT ![RunId[r]] = AverageMetrics(RowsOfRun(RunId[r]))]
      BY <2>2 DEF Summarize
    <3>4. QED
      BY <2>1, <3>2, <3>3
  <2>3. ASSUME NEW r \in Runners, Begin(r)
        PROVE  reported' = reported
    BY <2>3 DEF Begin
  <2>4. QED
    BY <2>1, <2>2, <2>3, CrashShape, ReportedMoved, NextIs
<1>5. QED
  BY <1>1, <1>2, <1>3, <1>4, StoresTyped DEF TypeOK

\* The invariant holds at the start.
LEMMA InitInv ==
    Init => IInv
<1>0. SUFFICES ASSUME Init PROVE IInv
  OBVIOUS
<1>1. /\ memory = [results |-> << >>, runIds |-> << >>, crossed |-> FALSE] /\ table = << >>
      /\ run = [r \in Runners |-> Idle] /\ kind \in {"memory", "sqlite"}
  BY <1>0 DEF Init, EmptyMemory
<1>2. Stored = << >>
  BY <1>1 DEF Stored
<1>3. \A r \in Runners : run[r] = Idle
  BY <1>1
<1>4. TypeOK
  <2>1. run \in [Runners -> Runs]
    BY <1>1, IdleTyped
  <2>2. reported \in [RunIds -> Summaries]
    BY <1>0, NoSummaryTyped DEF Init
  <2>3. metric \in [judge : Judges \cup {NoJudge}, given : Judges \cup {NoJudge}, rewired : BOOLEAN]
    <3>1. PICK j \in Judges \cup {NoJudge} : metric = [judge |-> j, given |-> j, rewired |-> FALSE]
      BY <1>0 DEF Init
    <3>2. QED
      BY <3>1
  <2>4. memory \in [results : Seq(Rows), runIds : Seq(RunIds), crossed : BOOLEAN] /\ table \in Seq(Rows)
    BY <1>1
  <2>5. pending \in SUBSET Runners /\ runs \in Nat /\ crashes \in Nat
    BY <1>0 DEF Init, Nobody
  <2>6. QED
    BY <1>1, <2>1, <2>2, <2>3, <2>4, <2>5 DEF TypeOK
<1>5. Progress /\ TogetherIsShared /\ OneRowEach /\ MeanIsAcrossTheDataset
  BY <1>3, IdleTyped DEF Progress, TogetherIsShared, OneRowEach, MeanIsAcrossTheDataset, Busy, Adding
<1>7. OneJudge
  <2>1. PICK j \in Judges \cup {NoJudge} : metric = [judge |-> j, given |-> j, rewired |-> FALSE]
    BY <1>0 DEF Init
  <2>2. metric.judge = metric.given /\ metric.rewired = FALSE
    BY <2>1
  <2>3. QED
    BY <1>3, <2>2, IdleTyped DEF OneJudge
<1>8. LatestIsLastSeen
  BY <1>1, <1>3, IdleTyped DEF LatestIsLastSeen, Contains, Adders, Appending, HasRow
<1>9. QED
  BY <1>4, <1>5, <1>7, <1>8 DEF IInv

\* The inductive invariant is one: every step keeps every part of it.
THEOREM Invariance == Spec => []IInv
<1>1. ASSUME IInv, Next
      PROVE  IInv'
  BY <1>1, TypeKept, ProgressKept, TogetherIsSharedKept, OneRowEachKept,
     MeanKept, OneJudgeKept, LatestKept DEF IInv
<1>2. ASSUME IInv, UNCHANGED vars
      PROVE  IInv'
  BY <1>2 DEF IInv, vars, stores, TypeOK, Progress, TogetherIsShared, OneRowEach, Adding,
              MeanIsAcrossTheDataset, OneJudge, LatestIsLastSeen, Adders, Appending, HasRow,
              Busy, Stored, RowsOfRun
<1>3. IInv /\ [Next]_vars => IInv'
  BY <1>1, <1>2
<1>4. QED
  BY <1>3, InitInv, PTL DEF Spec

\* The types of the stores, the metric and the runners, whatever the datasets,
\* runners and judges.
THEOREM TypeCorrect == Spec => []TypeOK
<1>1. IInv => TypeOK
  BY DEF IInv
<1>2. QED
  BY <1>1, Invariance, PTL

\* A run that is the only one of its run id scored every question of the
\* dataset, and returns the mean of what they scored (runner.py, run).
THEOREM MeanTheorem == Spec => []MeanIsAcrossTheDataset
<1>1. IInv => MeanIsAcrossTheDataset
  BY DEF IInv
<1>2. QED
  BY <1>1, Invariance, PTL

\* A judge that was given is kept, and a run is scored by one judge unless two
\* runners filled in the same missing one (runner.py, _wire_judge).
THEOREM JudgesTheorem == Spec => []JudgesAreOnlyFilledIn
<1>1. IInv => JudgesAreOnlyFilledIn
  <2>1. SUFFICES ASSUME IInv, NEW r \in Runners
                 PROVE  /\ metric.given # NoJudge => run[r].judges \subseteq {metric.given}
                        /\ Cardinality(run[r].judges) <= 1 \/ metric.rewired
    BY DEF JudgesAreOnlyFilledIn
  <2>2. /\ metric.given # NoJudge => metric.judge = metric.given /\ ~metric.rewired
        /\ ~metric.rewired => run[r].judges \subseteq {metric.judge}
    BY <2>1 DEF IInv, OneJudge
  <2>3. \A S : \A x : S \subseteq {x} => Cardinality(S) <= 1
    <3> TAKE S
    <3> TAKE x
    <3>1. S \subseteq {x} => S = {} \/ S = {x}
      OBVIOUS
    <3>2. Cardinality({}) = 0
      BY FS_EmptySet
    <3>3. Cardinality({x}) = 1
      BY FS_Singleton
    <3>4. QED
      BY <3>1, <3>2, <3>3
  <2>4. QED
    BY <2>2, <2>3
<1>2. QED
  BY <1>1, Invariance, PTL

\* Between the adds of one runner at a time, both stores summarize the same run
\* exactly as long as no earlier run was gone on with (store.py, summary).
THEOREM LatestTheorem == Spec => []StoresAgreeOnLatest
<1>1. IInv => StoresAgreeOnLatest
  <2>1. SUFFICES ASSUME IInv, memory.results # << >>, ~memory.crossed,
                        \A r \in Runners : run[r].pc # "append"
                 PROVE  Last(memory.runIds) = Last(memory.results).run <=> ~GoneOnWith(memory.results)
    BY DEF StoresAgreeOnLatest, LatestInMemory, LatestInTable
  <2> DEFINE rows == memory.results
             N == Len(rows)
  <2>2. rows \in Seq(Rows) /\ rows # << >>
    BY <2>1 DEF IInv, TypeOK
  <2>3. N \in Nat /\ N # 0 /\ DOMAIN rows = 1..N /\ Last(rows) = rows[N]
    BY <2>2 DEF Last
  <2>4. PICK n \in DOMAIN rows :
           /\ rows[n].run = Last(memory.runIds)
           /\ FirstOfItsRun(rows, n)
           /\ \A k \in DOMAIN rows : k > n => \E j \in 1..n : rows[j].run = rows[k].run
    BY <2>1 DEF IInv, LatestIsLastSeen, Appending
  <2>5. ASSUME rows[n].run = rows[N].run, GoneOnWith(rows)
        PROVE  FALSE
    <3>1. PICK x, y \in DOMAIN rows :
             x < y /\ rows[x].run = rows[N].run /\ FirstOfItsRun(rows, y)
      BY <2>3, <2>5 DEF GoneOnWith
    <3>2. n <= x
      BY <2>3, <2>4, <2>5, <3>1 DEF FirstOfItsRun
    <3>3. PICK j \in 1..n : rows[j].run = rows[y].run
      BY <2>3, <2>4, <3>1, <3>2
    <3>4. QED
      BY <2>3, <3>1, <3>2, <3>3 DEF FirstOfItsRun
  <2>6. ASSUME rows[n].run # rows[N].run
        PROVE  GoneOnWith(rows)
    <3>1. N \in DOMAIN rows /\ N > n
      BY <2>3, <2>6
    <3>2. PICK j \in 1..n : rows[j].run = rows[N].run
      BY <2>4, <3>1
    <3>3. j \in DOMAIN rows /\ j < n
      BY <2>3, <2>6, <3>1, <3>2
    <3>4. QED
      BY <2>3, <2>4, <3>2, <3>3 DEF GoneOnWith
  <2>7. QED
    BY <2>3, <2>4, <2>5, <2>6
<1>2. QED
  BY <1>1, Invariance, PTL

----------------------------------------------------------------------------
(***************************************************************************)
(* Each step is one of the archive's, or none of it.                       *)
(***************************************************************************)
Kept == [i \in RunIds |-> Selected(Stored, i)]

\* What is left of a sequence without the element appended last.
LEMMA FrontOfAppend ==
    \A T : \A s \in Seq(T) : \A x \in T :
        /\ Len(Append(s, x)) = Len(s) + 1
        /\ Archive!Front(Append(s, x)) = s
<1> TAKE T
<1> TAKE s \in Seq(T)
<1> TAKE x \in T
<1> DEFINE a == Append(s, x)
<1>1. /\ Len(s) \in Nat /\ a \in Seq(T) /\ Len(a) = Len(s) + 1
      /\ \A n \in 1..Len(s) : a[n] = s[n]
  OBVIOUS
<1>2. Archive!Front(a) = SubSeq(a, 1, Len(a) - 1)
  BY DEF Archive!Front
<1> HIDE DEF a
<1>3. Len(a) - 1 = Len(s)
  BY <1>1
<1>4. SubSeq(a, 1, Len(s)) = s
  BY <1>1
<1>5. QED
  BY <1>1, <1>2, <1>3, <1>4 DEF a

\* Nothing summarized is the empty summary.
LEMMA NoMean ==
    Archive!Mean(<< >>) = NoSummary
<1>1. \A rows \in Seq(Metrics) : rows = << >> => AverageMetrics(rows) = NoSummary
  <2>1. SUFFICES ASSUME NEW rows \in Seq(Metrics), rows = << >>
                 PROVE  AverageMetrics(rows) = NoSummary
    OBVIOUS
  <2>2. PICK f \in [0..Len(rows) -> Summaries] : AverageMetrics(rows) = f[Len(rows)] /\ f[0] = NoSummary
    BY AverageSteps
  <2>3. Len(rows) = 0
    BY <2>1
  <2>4. QED
    BY <2>2, <2>3
<1>2. << >> \in Seq(Metrics)
  OBVIOUS
<1>3. QED
  BY <1>1, <1>2, AverageIsMean, Zenon

\* What is kept at the start.
LEMMA ArchiveInit ==
    Init => Archive!Init
<1>1. SUFFICES ASSUME Init PROVE Archive!Init
  OBVIOUS
<1>2. Stored = << >> /\ reported = [i \in RunIds |-> NoSummary]
  BY <1>1 DEF Init, Stored, EmptyMemory
<1>3. \A i \in RunIds : Selected(Stored, i) = << >>
  BY <1>2, SelectedNone
<1>4. Kept = [i \in RunIds |-> << >>]
  BY <1>3 DEF Kept
<1>5. reported = [i \in RunIds |-> Archive!Mean(<< >>)]
  BY <1>2, NoMean
<1>6. (kind = "sqlite") \in BOOLEAN
  BY Zenon
<1>7. QED
  BY <1>4, <1>5, <1>6 DEF Archive!Init, Kept

\* A step that stores and reports nothing new is no step of the archive's.
LEMMA ArchiveStutters ==
    Stored' = Stored => Kept' = Kept
BY DEF Kept

\* Adding a runner's row adds one to its run and leaves the others alone.
LEMMA ArchiveAdds ==
    ASSUME TypeOK, Progress, NEW r \in Runners, AppendResult(r) \/ Commit(r)
    PROVE  Archive!Add(RunId[r])
<1> DEFINE i == RunId[r]
           s == Selected(Stored, i)
           x == run[r].row.metrics
<1>1. /\ Stored' = Append(Stored, run[r].row) /\ reported' = reported
      /\ run[r].row \in Rows /\ run[r].row.run = i /\ kind' = kind
  BY AddMoves
<1>2. Stored \in Seq(Rows) /\ i \in RunIds
  BY EvaluationAssumption DEF TypeOK, Stored
<1>3. \A k \in RunIds : Selected(Stored', k) =
          IF k = i THEN Append(Selected(Stored, k), x) ELSE Selected(Stored, k)
  BY <1>1, <1>2, SelectedAppend
<1>4. s \in Seq(Metrics) /\ x \in Metrics
  BY <1>1, <1>2, SelectedTyped DEF Rows
<1>5. Kept[i] = s /\ Kept'[i] = Append(s, x)
  BY <1>2, <1>3 DEF Kept
<1>6. \A k \in RunIds \ {i} : Kept'[k] = Kept[k]
  BY <1>3 DEF Kept
<1>7. Len(Append(s, x)) = Len(s) + 1 /\ Archive!Front(Append(s, x)) = s
  BY <1>4, FrontOfAppend
<1> HIDE DEF i, s, x
<1>8. /\ Len(Kept'[i]) = Len(Kept[i]) + 1 /\ Archive!Front(Kept'[i]) = Kept[i]
      /\ \A k \in RunIds \ {i} : Kept'[k] = Kept[k]
      /\ reported' = reported /\ kind' = kind
  BY <1>1, <1>5, <1>6, <1>7
<1>9. Archive!Add(i)
  BY <1>8 DEF Archive!Add, Kept
<1>10. QED
  BY <1>9 DEF i

\* The summary of a run is the mean over its rows.
LEMMA ArchiveReports ==
    ASSUME TypeOK, Progress, NEW r \in Runners, Summarize(r)
    PROVE  Archive!Report(RunId[r])
<1> DEFINE i == RunId[r]
<1>1. i \in RunIds
  BY EvaluationAssumption
<1>2. reported' = [reported EXCEPT ![i] = AverageMetrics(RowsOfRun(i))]
  BY DEF Summarize
<1>3. Stored' = Stored /\ kind' = kind
  BY DEF Summarize, Step, stores, Stored
<1>4. AverageMetrics(RowsOfRun(i)) = Archive!Mean(RowsOfRun(i))
  BY <1>1, SummaryTyped, AverageIsMean
<1>5. Kept[i] = RowsOfRun(i)
  BY <1>1 DEF Kept, RowsOfRun
<1>6. Kept' = Kept /\ kind' = kind /\ reported' = [reported EXCEPT ![i] = Archive!Mean(Kept[i])]
  BY <1>2, <1>3, <1>4, <1>5, ArchiveStutters
<1> HIDE DEF i
<1>7. Archive!Report(i)
  BY <1>6 DEF Archive!Report, Kept
<1>8. QED
  BY <1>7 DEF i

\* Both stores do what the archive promises: every step adds a row to its run,
\* reports the mean of a run, loses what is in memory if that is all there is,
\* or is none of it; no row that is committed is lost (store.py, add_result and
\* summary).
THEOREM ArchiveTheorem == Spec => KeepsAnArchive
<1>1. ASSUME IInv, [Next]_vars
      PROVE  [Archive!Next]_<<Kept, reported, kind = "sqlite">>
  <2>1. TypeOK /\ Progress
    BY <1>1 DEF IInv
  <2>2. CASE Crash
    <3>1. reported' = reported /\ kind' = kind /\ Stored' = IF kind = "memory" THEN << >> ELSE Stored
      BY <2>1, <2>2, CrashShape
    <3>2. CASE kind = "memory"
      <4>1. Stored' = << >>
        BY <3>1, <3>2
      <4>2. \A i \in RunIds : Selected(Stored', i) = << >>
        BY <4>1, SelectedNone
      <4>3. Kept' = [i \in RunIds |-> << >>]
        BY <4>2 DEF Kept
      <4>4. Archive!Lose
        BY <3>1, <3>2, <4>3 DEF Archive!Lose, Kept
      <4>5. QED
        BY <4>4 DEF Archive!Next
    <3>3. CASE kind # "memory"
      BY <3>1, <3>3, ArchiveStutters
    <3>4. QED
      BY <3>2, <3>3
  <2>3. ASSUME NEW r \in Runners, AppendResult(r) \/ Commit(r)
        PROVE  Archive!Next
    <3>1. Archive!Add(RunId[r]) /\ RunId[r] \in RunIds
      BY <2>1, <2>3, ArchiveAdds, EvaluationAssumption
    <3>2. QED
      BY <3>1, Zenon DEF Archive!Next
  <2>4. ASSUME NEW r \in Runners, Summarize(r)
        PROVE  Archive!Next
    <3>1. Archive!Report(RunId[r]) /\ RunId[r] \in RunIds
      BY <2>1, <2>4, ArchiveReports, EvaluationAssumption
    <3>2. QED
      BY <3>1, Zenon DEF Archive!Next
  <2>5. ASSUME NEW r \in Runners,
               \/ Begin(r) \/ WireJudge(r) \/ LoadDataset(r, TRUE) \/ LoadDataset(r, FALSE)
               \/ \E sample \in Samples, raised \in Raising : Evaluate(r, sample, raised)
               \/ LookForRunId(r) \/ NoteRunId(r) \/ Insert(r) \/ InsertFails(r)
        PROVE  Stored' = Stored /\ reported' = reported /\ kind' = kind
    <3>1. kind' = kind /\ reported' = reported
      BY <2>5 DEF Begin, WireJudge, LoadDataset, Evaluate, LookForRunId, NoteRunId, Insert, InsertFails, Step
    <3>2. CASE LookForRunId(r) \/ NoteRunId(r) \/ Insert(r)
      BY <2>1, <3>1, <3>2, AddingMoves DEF Stored
    <3>3. CASE ~(LookForRunId(r) \/ NoteRunId(r) \/ Insert(r))
      BY <2>5, <3>1, <3>3 DEF Begin, WireJudge, LoadDataset, Evaluate, InsertFails, stores, Stored
    <3>4. QED
      BY <3>1, <3>2, <3>3
  <2>6. CASE UNCHANGED vars
    <3>1. Stored' = Stored /\ reported' = reported /\ kind' = kind
      BY <2>6 DEF vars, stores, Stored
    <3>2. QED
      BY <3>1, ArchiveStutters
  <2>7. ASSUME Stored' = Stored, reported' = reported, kind' = kind
        PROVE  UNCHANGED <<Kept, reported, kind = "sqlite">>
    BY <2>7, ArchiveStutters
  <2>8. QED
    BY <1>1, <2>2, <2>3, <2>4, <2>5, <2>6, <2>7, NextIs DEF StepOf
<1>2. [Archive!Next]_<<Kept, reported, kind = "sqlite">> <=> [Archive!Next]_<<[i \in RunIds |-> Selected(Stored, i)], reported, kind = "sqlite">>
  BY DEF Kept
<1>3. QED
  BY <1>1, <1>2, ArchiveInit, Invariance, PTL DEF Spec, KeepsAnArchive, Archive!Spec

=============================================================================
