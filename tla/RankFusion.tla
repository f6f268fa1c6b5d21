------------------------------ MODULE RankFusion ------------------------------
(***************************************************************************)
(* HybridRetriever.retrieve and SparseRetriever.retrieve                   *)
(* (tools/rag/retriever.py): a deeper ranking than asked for from each     *)
(* side, reciprocal rank fusion, a combined score, a pool cut to the       *)
(* depth, a re-ranking that may fail, and a cap per document.              *)
(*                                                                         *)
(* A ranking is a sequence of items, a chunk and a score.  Chunk ids are   *)
(* numbers, as ties are broken on them.  What the two searches find, after *)
(* their filters by rights, freshness and document type, is a free choice. *)
(* Scores are exact: a fused score is a sum of fractions brought to one    *)
(* denominator, a normalized one a number of 1/Unit.                       *)
(***************************************************************************)
EXTENDS Integers, Sequences, FiniteSets

CONSTANTS
    ChunkIds,       \* chunk ids
    DocOf,          \* document_id of each chunk
    Pools,          \* values of candidates: how deep the searches go at least
    RRFK,           \* rrf_k
    Caps,           \* values of max_chunks_per_document, 0 for no cap
    TopKs,          \* values of top_k callers ask for
    Similarities,   \* the scores of the dense side, which may be negative
    Weights,        \* the scores of the sparse side, which are positive
    RerankScores,   \* the scores of the re-ranker
    Unit            \* 1.0, as a normalized score

MaxOf(S) == CHOOSE m \in S : \A n \in S : n <= m
MinOf(S) == CHOOSE m \in S : \A n \in S : m <= n

Spread(S) == MaxOf(S \cup {0}) - MinOf(S \cup {0})

ASSUME FusionAssumption ==
    /\ ChunkIds \subseteq Nat /\ Pools \subseteq Nat /\ RRFK \in Nat
    /\ Caps \subseteq Nat /\ TopKs \subseteq Nat
    /\ Similarities \subseteq Int /\ Weights \subseteq Nat \ {0} /\ RerankScores \subseteq Int
    /\ Unit \in Nat \ {0}
    /\ \A n \in 1..MaxOf({Spread(Similarities), Spread(Weights)}) : Unit % n = 0

VARIABLES
    stage,          \* where the call is
    call,           \* what was asked: top_k, and the retriever's settings
    dense,          \* dense_ranking
    sparse,         \* sparse_ranking, or ranking
    pool,           \* candidates
    result          \* what retrieve returns

fusionVars == <<stage, call, dense, sparse, pool, result>>

Strategies == {"dense", "sparse", "hybrid"}
Calls == [strategy : Strategies, top : TopKs, cap : Caps, pool : Pools]

Item(c, s) == [chunk |-> c, score |-> s]

ChunksIn(ranking) == {ranking[i].chunk : i \in DOMAIN ranking}

First(n, ranking) == SubSeq(ranking, 1, IF n < Len(ranking) THEN n ELSE Len(ranking))

\* 1, 2, ... for the chunks of a ranking and one more than its length for any other.
RankIn(ranking, c) ==
    IF c \in ChunksIn(ranking)
    THEN CHOOSE i \in DOMAIN ranking : ranking[i].chunk = c
    ELSE Len(ranking) + 1

\* dict.get(chunk.id, 0.0)
ScoreIn(ranking, c) ==
    IF c \in ChunksIn(ranking) THEN ranking[RankIn(ranking, c)].score ELSE 0

FusionInit ==
    /\ stage = "idle"
    /\ call \in Calls
    /\ dense = <<>>
    /\ sparse = <<>>
    /\ pool = <<>>
    /\ result = <<>>

-----------------------------------------------------------------------------
(* The searches.                                                           *)

Depth == IF call.top > call.pool THEN call.top ELSE call.pool

\* Rankings of at most a number of distinct chunks, best first.
Rankings(limit, scores) ==
    UNION {{r \in [1..n -> [chunk : ChunkIds, score : scores]] :
               \A i, j \in 1..n : i < j => /\ r[i].chunk # r[j].chunk
                                           /\ r[i].score >= r[j].score} : n \in 0..limit}

\* The call; nothing is searched for top_k = 0.
Retrieve ==
    /\ stage = "idle"
    /\ stage' = IF call.top = 0 THEN "returned"
                ELSE IF call.strategy = "sparse" THEN "sparse" ELSE "dense"
    /\ UNCHANGED <<call, dense, sparse, pool, result>>

SearchDense ==
    /\ stage = "dense"
    /\ dense' \in Rankings(Depth, Similarities)
    /\ stage' = IF call.strategy = "hybrid" THEN "sparse" ELSE "fuse"
    /\ UNCHANGED <<call, sparse, pool, result>>

SearchSparse ==
    /\ stage = "sparse"
    /\ sparse' \in Rankings(Depth, Weights)
    /\ stage' = "fuse"
    /\ UNCHANGED <<call, dense, pool, result>>

-----------------------------------------------------------------------------
(* Fusion.                                                                 *)

\* The common denominator of 1/(k + 1) to 1/(k + n).
Denominator ==
    LET product[n \in 0..Depth] == IF n = 0 THEN 1 ELSE product[n - 1] * (RRFK + n)
    IN  product[Depth]

\* 1/(k + rank), for a ranking the chunk is in.
Share(ranking, c) ==
    IF c \in ChunksIn(ranking) THEN Denominator \div (RRFK + RankIn(ranking, c)) ELSE 0

\* The sum over the rankings.
RRFScore(rankings, c) ==
    LET sum[n \in 0..Len(rankings)] ==
            IF n = 0 THEN 0 ELSE sum[n - 1] + Share(rankings[n], c)
    IN  sum[Len(rankings)]

\* Best score first, ties by chunk id.
Ahead(x, y) == x.score > y.score \/ (x.score = y.score /\ x.chunk < y.chunk)

\* The items in that order: in each place, the one with so many ahead of it.
Ranked(items) ==
    [i \in 1..Cardinality(items) |->
        CHOOSE x \in items : Cardinality({y \in items : Ahead(y, x)}) = i - 1]

\* Mutant: a later ranking overwrites the score of an earlier one.
LastRankFusion(rankings) ==
    LET found == UNION {ChunksIn(rankings[i]) : i \in DOMAIN rankings}
        last(c) == MaxOf({i \in DOMAIN rankings : c \in ChunksIn(rankings[i])})
    IN  Ranked({Item(c, RRFScore(<<rankings[last(c)]>>, c)) : c \in found})

ReciprocalRankFusion(rankings) ==
    LET found == UNION {ChunksIn(rankings[i]) : i \in DOMAIN rankings}
    IN  Ranked({Item(c, RRFScore(rankings, c)) : c \in found})

\* Min-max normalization; without a spread all are 0.0 or all 1.0.
MinMaxNormalize(values) ==
    LET lo == MinOf({values[i] : i \in DOMAIN values})
        hi == MaxOf({values[i] : i \in DOMAIN values})
    IN  [i \in DOMAIN values |->
            IF lo # hi THEN ((values[i] - lo) * Unit) \div (hi - lo)
            ELSE IF hi = 0 THEN 0 ELSE Unit]

\* Mutant: the fused score itself, in the same unit.
KeepFusedScores(fused) ==
    [i \in DOMAIN fused |-> Item(fused[i].chunk, (fused[i].score * 2 * Unit) \div Denominator)]

\* The mean of the two normalized scores, in 1/(2 * Unit); the order stays.
CombineScores(fused) ==
    LET sims == MinMaxNormalize([i \in DOMAIN fused |-> ScoreIn(dense, fused[i].chunk)])
        lex == MinMaxNormalize([i \in DOMAIN fused |-> ScoreIn(sparse, fused[i].chunk)])
    IN  [i \in DOMAIN fused |-> Item(fused[i].chunk, sims[i] + lex[i])]

\* The sparse ranking alone, normalized, in the same unit.
NormalizeSparse ==
    LET lex == MinMaxNormalize([i \in DOMAIN sparse |-> sparse[i].score])
    IN  [i \in DOMAIN sparse |-> Item(sparse[i].chunk, 2 * lex[i])]

\* What re-ranking and the cap start from, cut to the depth.
Candidates ==
    CASE call.strategy = "hybrid" ->
             First(Depth, CombineScores(ReciprocalRankFusion(<<dense, sparse>>)))
      [] call.strategy = "dense" -> First(Depth, dense)
      [] call.strategy = "sparse" -> NormalizeSparse

Fuse ==
    /\ stage = "fuse"
    /\ pool' = Candidates
    /\ stage' = "rerank"
    /\ UNCHANGED <<call, dense, sparse, result>>

-----------------------------------------------------------------------------
(* Re-ranking and the cap.                                                 *)

\* One step of the walk: an item is kept unless top_k are, or its document has its share.
Keep(kept, item) ==
    IF \/ Len(kept) >= call.top
       \/ Cardinality({i \in DOMAIN kept : DocOf[kept[i].chunk] = DocOf[item.chunk]}) >= call.cap
    THEN kept ELSE Append(kept, item)

\* Walk the items until top_k are kept.
CapPerDocument(items) ==
    LET kept[n \in 0..Len(items)] == IF n = 0 THEN <<>> ELSE Keep(kept[n - 1], items[n])
    IN  IF call.cap = 0 THEN First(call.top, items) ELSE kept[Len(items)]

\* The cross-encoder scores every candidate anew.
Rerank(items) ==
    {Ranked({Item(items[i].chunk, s[i]) : i \in DOMAIN items}) :
        s \in [DOMAIN items -> RerankScores]}

\* Mutant: the re-ranker is asked for top_k candidates only.
ApplyRerankerToTopK ==
    /\ stage = "rerank"
    /\ \/ result' = CapPerDocument(pool)
       \/ \E ranked \in Rerank(pool) : result' = CapPerDocument(First(call.top, ranked))
    /\ stage' = "returned"
    /\ UNCHANGED <<call, dense, sparse, pool>>

\* Without a re-ranker, or when it fails after its retries, the order stays.
ApplyReranker ==
    /\ stage = "rerank"
    /\ \/ result' = CapPerDocument(pool)
       \/ \E ranked \in Rerank(pool) : result' = CapPerDocument(ranked)
    /\ stage' = "returned"
    /\ UNCHANGED <<call, dense, sparse, pool>>

-----------------------------------------------------------------------------
FusionNext ==
    \/ Retrieve
    \/ SearchDense
    \/ SearchSparse
    \/ Fuse
    \/ ApplyReranker

FusionSpec == FusionInit /\ [][FusionNext]_fusionVars

-----------------------------------------------------------------------------
(* Safety.                                                                 *)

\* Lists of at most a number of items; a result is no longer than top_k.
IsList(list, limit, scores) ==
    \E n \in 0..limit : list \in [1..n -> [chunk : ChunkIds, score : scores]]

FusionTypeOK ==
    /\ stage \in {"idle", "dense", "sparse", "fuse", "rerank", "returned"}
    /\ call \in Calls
    /\ IsList(dense, Depth, Similarities)
    /\ IsList(sparse, Depth, Weights)
    /\ IsList(pool, Depth, Int)
    /\ IsList(result, call.top, Int)

Pooled == stage \in {"rerank", "returned"} /\ call.top > 0

\* A chunk that both sides rank at least as high as another, one of them higher, is ahead
\* of it among the candidates; a cut keeps it if it keeps the other.
FusionRespectsBothSides ==
    Pooled /\ call.strategy = "hybrid" =>
        \A c \in ChunksIn(dense) \cup ChunksIn(sparse), d \in ChunksIn(pool) :
            /\ RankIn(dense, c) <= RankIn(dense, d)
            /\ RankIn(sparse, c) <= RankIn(sparse, d)
            /\ RankIn(dense, c) < RankIn(dense, d) \/ RankIn(sparse, c) < RankIn(sparse, d)
            => RankIn(pool, c) < RankIn(pool, d)

\* The pool of a hybrid search keeps the first chunk of one of its sides.  Unless a
\* similarity is zero or less, this chunk has half of the highest score: no confidence
\* threshold up to 0.5 has the engine abstain on the pool, however weak the matches are.
PoolKeepsALeader ==
    Pooled /\ call.strategy = "hybrid" /\ pool # <<>> =>
        \E c \in ChunksIn(pool) :
            /\ RankIn(dense, c) = 1 \/ RankIn(sparse, c) = 1
            /\ (\A i \in DOMAIN dense : dense[i].score > 0) => ScoreIn(pool, c) >= Unit

\* A candidate is missing from the result only if its document has its share there or the
\* result is full; no document has more than its share.
LeftOutForAReason ==
    stage = "returned" /\ call.top > 0 =>
        LET share(d) == Cardinality({c \in ChunksIn(result) : DocOf[c] = d})
        IN  /\ \A c \in ChunksIn(pool) \ ChunksIn(result) :
                  \/ Len(result) = call.top
                  \/ call.cap > 0 /\ share(DocOf[c]) = call.cap
            /\ call.cap > 0 => \A c \in ChunksIn(result) : share(DocOf[c]) <= call.cap
=============================================================================
