-------------------------- MODULE Retrievers_proofs --------------------------
(***************************************************************************)
(* The safety properties of SparseIndex for any readers, uploads, corpus,  *)
(* page size and number of re-indexings, and those of RankFusion for any   *)
(* chunks, rankings, depths, caps and re-rankings.                         *)
(*                                                                         *)
(* SparseIndex.  VisibleUnlessRaced is not inductive.  A set of chunks     *)
(* that queries will find has to be in every index that may still be put   *)
(* in place or kept: in the rows each rebuilding reader began with, and,   *)
(* once no further rebuild is certain, in the index (WillFind).  The rows  *)
(* a reader began with get into its index because pages extend a prefix of *)
(* the store, which is what PagingReadsAPrefix needs too.                  *)
(*                                                                         *)
(* RankFusion.  The steps of a call are few; what they compute is not.     *)
(*   - Order.  Every rank divides the common denominator (RanksDivide), so *)
(*     shares fall as ranks do (SharesFall), and a list ordered by how     *)
(*     many items are ahead of each has each item once, in that order      *)
(*     (RankedEnumerates): both sides are respected.                       *)
(*   - Leaders.  An item ahead of the first chunk of a side must have been *)
(*     found by both sides, and there are fewer such items than the depth  *)
(*     (CandidatesKeepALeader, by the pigeonhole principle).               *)
(*   - The cap.  What the walk has kept so far holds each item it has      *)
(*     passed, but for those whose document had its share (Capped).        *)
(* Functions defined step by step are reasoned about with StepByStep, an   *)
(* induction over the naturals stated as a fact about sets (NatInduct).    *)
(***************************************************************************)
EXTENDS SparseIndex, RankFusion, SequenceTheorems, FiniteSetTheorems, WellFoundedInduction, TLAPS

(* The index.                                                              *)

Reading(r) == pc[r] \in {"paging", "assign"}

Returned == ToSet(rows) \cap Rows({d \in Uploads : upload[d] = "returned"})

\* What a rebuilding reader is certain to put into the index.
WillIndex(r) == IF dropped[r] THEN {} ELSE ToSet(base[r])

\* Every query that begins now finds the chunks of S that stay in the store.
WillFind(S) ==
    /\ \A r \in Readers : Reading(r) => S \subseteq WillIndex(r)
    /\ (\E r \in Readers : pc[r] = "clear") \/ ~dirty => S \subseteq ToSet(index)

OnlyReadersHoldRows == \A r \in Readers : ~Reading(r) => acc[r] = <<>> /\ ~dropped[r]

RowsReadAreAPrefix ==
    \A r \in Readers :
        Reading(r) /\ ~dropped[r] =>
            /\ IsPrefix(base[r], rows)
            /\ IsPrefix(acc[r], rows)
            /\ pc[r] = "assign" => Len(base[r]) <= Len(acc[r])

ReturnedIsFound == ~lost => WillFind(Returned)

DueIsFound ==
    \A r \in Readers :
        pc[r] # "idle" /\ ~raced[r] =>
            /\ due[r] \subseteq ToSet(rows)
            /\ WillFind(due[r])
            /\ pc[r] \in {"clear", "run"} => due[r] \subseteq ToSet(index)

IInv ==
    /\ TypeOK
    /\ OnlyReadersHoldRows
    /\ RowsReadAreAPrefix
    /\ ReturnedIsFound
    /\ DueIsFound

-----------------------------------------------------------------------------
(* Sequences.                                                              *)

\* A prefix agrees with the longer sequence at each of its positions.
LEMMA PrefixPointwise ==
    ASSUME NEW S, NEW s \in Seq(S), NEW t \in Seq(S)
    PROVE  IsPrefix(s, t) <=> Len(s) <= Len(t) /\ \A i \in 1..Len(s) : s[i] = t[i]
<1>1. Len(s) \in Nat /\ Len(t) \in Nat
  BY LenProperties
<1>2. SubSeq(s, 1, Len(s)) = s
  BY SubSeqFull
<1>3. ASSUME Len(s) <= Len(t)
      PROVE  SubSeq(t, 1, Len(s)) = s <=> \A i \in 1..Len(s) : s[i] = t[i]
  <2>1. \A i \in 1..Len(s) : t[i] \in S
    BY <1>1, <1>3, ElementOfSeq
  <2>2. /\ SubSeq(t, 1, Len(s)) \in Seq(S)
        /\ Len(SubSeq(t, 1, Len(s))) = Len(s)
        /\ \A i \in 1..Len(s) : SubSeq(t, 1, Len(s))[i] = t[i]
    BY <1>1, <1>3, <2>1, SubSeqProperties, Z3
  <2> QED
    BY <2>2, SeqEqual
<1> QED
  BY <1>1, <1>2, <1>3 DEF IsPrefix

\* A sequence is its own prefix, and the empty one is a prefix of each.
LEMMA PrefixBasics ==
    ASSUME NEW S, NEW s \in Seq(S)
    PROVE  IsPrefix(s, s) /\ IsPrefix(<<>>, s)
<1>1. <<>> \in Seq(S) /\ Len(<<>>) = 0 /\ Len(s) \in Nat
  BY EmptySeq, LenProperties
<1>2. IsPrefix(s, s)
  <2>1. Len(s) <= Len(s)
    BY <1>1
  <2> QED
    BY <2>1, PrefixPointwise, Zenon
<1>3. IsPrefix(<<>>, s)
  <2>1. Len(<<>>) <= Len(s) /\ \A i \in 1..Len(<<>>) : <<>>[i] = s[i]
    BY <1>1
  <2> QED
    BY <1>1, <2>1, PrefixPointwise, Zenon
<1> QED
  BY <1>2, <1>3

\* Appending to the longer sequence keeps its prefixes.
LEMMA PrefixOfConcat ==
    ASSUME NEW S, NEW s \in Seq(S), NEW t \in Seq(S), NEW u \in Seq(S), IsPrefix(s, t)
    PROVE  IsPrefix(s, t \o u)
<1>1. Len(s) \in Nat /\ Len(t) \in Nat /\ Len(u) \in Nat
  BY LenProperties
<1>2. Len(s) <= Len(t) /\ \A i \in 1..Len(s) : s[i] = t[i]
  BY PrefixPointwise
<1>3. /\ t \o u \in Seq(S)
      /\ Len(t \o u) = Len(t) + Len(u)
      /\ \A i \in 1..Len(t) : (t \o u)[i] = t[i]
  BY <1>1, ConcatProperties
<1>4. Len(s) <= Len(t \o u) /\ \A i \in 1..Len(s) : s[i] = (t \o u)[i]
  BY <1>1, <1>2, <1>3
<1> QED
  BY <1>3, <1>4, PrefixPointwise, Zenon

\* Of two prefixes of one sequence the shorter is a prefix of the longer.
LEMMA PrefixesNest ==
    ASSUME NEW S, NEW s \in Seq(S), NEW t \in Seq(S), NEW u \in Seq(S),
           IsPrefix(s, u), IsPrefix(t, u), Len(s) <= Len(t)
    PROVE  IsPrefix(s, t)
<1>1. Len(s) \in Nat /\ Len(t) \in Nat
  BY LenProperties
<1>2. \A i \in 1..Len(s) : s[i] = u[i]
  BY PrefixPointwise
<1>3. \A i \in 1..Len(t) : t[i] = u[i]
  BY PrefixPointwise
<1> QED
  BY <1>1, <1>2, <1>3, PrefixPointwise

\* The elements of a prefix are elements of the whole.
LEMMA PrefixElements ==
    ASSUME NEW S, NEW s \in Seq(S), NEW t \in Seq(S), IsPrefix(s, t)
    PROVE  ToSet(s) \subseteq ToSet(t)
<1>1. /\ DOMAIN s = 1..Len(s) /\ Len(s) \in Nat
      /\ DOMAIN t = 1..Len(t) /\ Len(t) \in Nat
  BY LenProperties
<1>2. Len(s) <= Len(t) /\ \A i \in 1..Len(s) : s[i] = t[i]
  BY PrefixPointwise
<1> QED
  BY <1>1, <1>2 DEF ToSet

\* The elements of a concatenation are those of its parts.
LEMMA ConcatElements ==
    ASSUME NEW S, NEW s \in Seq(S), NEW t \in Seq(S)
    PROVE  ToSet(s \o t) = ToSet(s) \cup ToSet(t)
<1>1. /\ DOMAIN s = 1..Len(s) /\ Len(s) \in Nat
      /\ DOMAIN t = 1..Len(t) /\ Len(t) \in Nat
  BY LenProperties
<1>2. /\ s \o t \in Seq(S)
      /\ Len(s \o t) = Len(s) + Len(t)
      /\ \A i \in 1..Len(s) + Len(t) :
            (s \o t)[i] = IF i <= Len(s) THEN s[i] ELSE t[i - Len(s)]
  BY ConcatProperties
<1>3. DOMAIN (s \o t) = 1..Len(s) + Len(t)
  BY <1>2, LenProperties
<1>4. ToSet(s \o t) \subseteq ToSet(s) \cup ToSet(t)
  BY <1>1, <1>2, <1>3 DEF ToSet
<1>5. ToSet(s) \subseteq ToSet(s \o t)
  BY <1>1, <1>2, <1>3 DEF ToSet
<1>6. ToSet(t) \subseteq ToSet(s \o t)
  <2>1. SUFFICES ASSUME NEW i \in 1..Len(t)
                 PROVE  \E j \in 1..Len(s) + Len(t) : (s \o t)[j] = t[i]
    BY <1>1, <1>3 DEF ToSet
  <2>2. Len(s) + i \in 1..Len(s) + Len(t) /\ ~(Len(s) + i <= Len(s))
    BY <1>1
  <2>3. (s \o t)[Len(s) + i] = t[i]
    BY <1>1, <1>2, <2>2
  <2> QED
    BY <2>2, <2>3
<1> QED
  BY <1>4, <1>5, <1>6

-----------------------------------------------------------------------------
(* Pages and chunks.                                                       *)

\* A page is a sequence of chunks, whatever its offset.
LEMMA PageType ==
    ASSUME rows \in Seq(Chunks), NEW offset \in Nat
    PROVE  PageFrom(offset) \in Seq(Chunks)
<1> DEFINE end == IF offset + PageSize < Len(rows) THEN offset + PageSize ELSE Len(rows)
<1>1. Len(rows) \in Nat /\ end \in Nat /\ end <= Len(rows)
  BY LenProperties, PageSizeAssumption
<1>2. \A i \in (offset + 1)..end : rows[i] \in Chunks
  BY <1>1, ElementOfSeq
<1>3. SubSeq(rows, offset + 1, end) \in Seq(Chunks)
  <2> HIDE DEF end
  <2> QED
    BY <1>1, <1>2, SubSeqProperties
<1> QED
  BY <1>3 DEF PageFrom

\* The page after a prefix of the store extends it to a longer one, and a short page
\* extends it to the whole store.
LEMMA PageExtends ==
    ASSUME rows \in Seq(Chunks), NEW s \in Seq(Chunks), IsPrefix(s, rows),
           NEW page, page = PageFrom(Len(s))
    PROVE  /\ IsPrefix(s \o page, rows)
           /\ Len(page) < PageSize => Len(s \o page) = Len(rows)
<1> DEFINE end == IF Len(s) + PageSize < Len(rows) THEN Len(s) + PageSize ELSE Len(rows)
<1>1. /\ Len(s) \in Nat /\ Len(rows) \in Nat /\ Len(s) <= Len(rows)
      /\ \A i \in 1..Len(s) : s[i] = rows[i]
  BY LenProperties, PrefixPointwise
<1>2. end \in Nat /\ Len(s) <= end /\ end <= Len(rows)
  BY <1>1, PageSizeAssumption
<1>3. page = SubSeq(rows, Len(s) + 1, end)
  BY DEF PageFrom
<1>4. end - Len(s) < PageSize => end = Len(rows)
  BY <1>1, PageSizeAssumption
<1> HIDE DEF end
<1>5. \A i \in (Len(s) + 1)..end : rows[i] \in Chunks
  BY <1>1, <1>2, ElementOfSeq
<1>6. /\ page \in Seq(Chunks)
      /\ Len(page) = end - Len(s)
      /\ \A i \in 1..end - Len(s) : page[i] = rows[Len(s) + i]
  <2>1. Len(s) + 1 \in Int /\ end \in Int
    BY <1>1, <1>2
  <2>2. /\ SubSeq(rows, Len(s) + 1, end) \in Seq(Chunks)
        /\ Len(SubSeq(rows, Len(s) + 1, end)) =
              IF Len(s) + 1 <= end THEN end - (Len(s) + 1) + 1 ELSE 0
        /\ \A i \in 1..end - (Len(s) + 1) + 1 :
              SubSeq(rows, Len(s) + 1, end)[i] = rows[Len(s) + 1 + i - 1]
    BY <1>5, <2>1, SubSeqProperties
  <2> QED
    BY <1>1, <1>2, <1>3, <2>2
<1>7. /\ s \o page \in Seq(Chunks)
      /\ Len(s \o page) = end
      /\ \A i \in 1..end : (s \o page)[i] = rows[i]
  <2>1. /\ s \o page \in Seq(Chunks)
        /\ Len(s \o page) = Len(s) + Len(page)
        /\ \A i \in 1..Len(s) + Len(page) :
              (s \o page)[i] = IF i <= Len(s) THEN s[i] ELSE page[i - Len(s)]
    BY <1>6, ConcatProperties
  <2>2. Len(s) + Len(page) = end
    BY <1>1, <1>2, <1>6
  <2>3. ASSUME NEW i \in 1..end PROVE (s \o page)[i] = rows[i]
    <3>1. CASE i <= Len(s)
      BY <1>1, <2>1, <2>2, <3>1
    <3>2. CASE ~(i <= Len(s))
      <4>1. i - Len(s) \in 1..end - Len(s) /\ Len(s) + (i - Len(s)) = i
        BY <1>1, <1>2, <3>2
      <4>2. page[i - Len(s)] = rows[i]
        BY <1>6, <4>1
      <4> QED
        BY <2>1, <2>2, <3>2, <4>2
    <3> QED
      BY <3>1, <3>2
  <2> QED
    BY <2>1, <2>2, <2>3
<1>8. IsPrefix(s \o page, rows)
  <2>1. Len(s \o page) <= Len(rows) /\ \A i \in 1..Len(s \o page) : (s \o page)[i] = rows[i]
    BY <1>2, <1>7
  <2> QED
    BY <1>7, <2>1, PrefixPointwise, Zenon
<1> QED
  BY <1>4, <1>6, <1>7, <1>8

\* The chunks of an upload are in no other upload and not in the corpus.
LEMMA FreshIds ==
    ASSUME NEW docs \in SUBSET Uploads
    PROVE  /\ ToSet(Corpus) \cap Rows(docs) = {}
           /\ \A d \in Uploads \ docs : ToSet(ChunksOf[d]) \cap Rows(docs) = {}
BY FreshIdsAssumption DEF Rows

-----------------------------------------------------------------------------
(* The steps of the inductive invariant.                                   *)

\* The initial states satisfy the inductive invariant.
LEMMA InitIInv == Init => IInv
<1> SUFFICES ASSUME Init PROVE IInv
  OBVIOUS
<1>1. <<>> \in Seq(Chunks) /\ Corpus \in Seq(Chunks)
  BY EmptySeq, FreshIdsAssumption
<1>2. TypeOK
  <2>1. rows \in Seq(Chunks)
    BY <1>1 DEF Init
  <2>2. acc \in [Readers -> Seq(Chunks)] /\ base \in [Readers -> Seq(Chunks)]
    BY <1>1 DEF Init
  <2>3. /\ index = NoIndex
        /\ upload \in [Uploads -> Stages] /\ pc \in [Readers -> Steps]
        /\ resets \in 0..MaxResets
        /\ due \in [Readers -> SUBSET Chunks]
        /\ raced \in [Readers -> BOOLEAN] /\ dropped \in [Readers -> BOOLEAN]
    BY ResetsAssumption DEF Init, Stages, Steps
  <2>4. dirty \in BOOLEAN /\ indexing \in BOOLEAN /\ lost \in BOOLEAN
    BY DEF Init
  <2> QED
    BY <2>1, <2>2, <2>3, <2>4 DEF TypeOK
<1>3. OnlyReadersHoldRows /\ RowsReadAreAPrefix /\ DueIsFound
  BY DEF Init, OnlyReadersHoldRows, RowsReadAreAPrefix, DueIsFound, Reading
<1>4. ReturnedIsFound
  BY DEF Init, ReturnedIsFound, WillFind, Reading
<1> QED
  BY <1>2, <1>3, <1>4 DEF IInv

\* Every step keeps the types.
LEMMA StepKeepsTypes == TypeOK /\ [Next]_vars => TypeOK'
<1> SUFFICES ASSUME TypeOK, [Next]_vars PROVE TypeOK'
  OBVIOUS
<1> USE DEF TypeOK
<1>1. <<>> \in Seq(Chunks)
  BY EmptySeq
<1>2. ASSUME NEW r \in Readers, Ask(r) PROVE TypeOK'
  <2>1. ToSet(rows) \subseteq Chunks
    BY LenProperties, ElementOfSeq DEF ToSet
  <2> QED
    BY <1>2, <2>1 DEF Ask, Goto, Steps, storeVars
<1>3. ASSUME NEW r \in Readers, Check(r) PROVE TypeOK'
  BY <1>3 DEF Check, Goto, Steps, storeVars
<1>4. ASSUME NEW r \in Readers, ReadPage(r) PROVE TypeOK'
  <2>1. Len(acc[r]) \in Nat
    BY LenProperties
  <2>2. acc[r] \o PageFrom(Len(acc[r])) \in Seq(Chunks)
    BY <2>1, PageType, ConcatProperties
  <2> QED
    BY <1>4, <2>2 DEF ReadPage, Goto, Steps, storeVars, historyVars
<1>5. ASSUME NEW r \in Readers, ReadFails(r) PROVE TypeOK'
  BY <1>1, <1>5 DEF ReadFails, EndRebuild, EndQuery, Goto, Steps, storeVars
<1>6. ASSUME NEW r \in Readers, Assign(r) PROVE TypeOK'
  BY <1>1, <1>6 DEF Assign, EndRebuild, Goto, Steps, storeVars
<1>7. ASSUME NEW r \in Readers, Clear(r) PROVE TypeOK'
  BY <1>7 DEF Clear, Goto, Steps, storeVars, historyVars
<1>8. ASSUME NEW r \in Readers, Run(r) PROVE TypeOK'
  BY <1>8 DEF Run, EndQuery, Goto, Steps, storeVars
<1>9. ASSUME NEW d \in Uploads, Store(d) PROVE TypeOK'
  <2>1. rows \o ChunksOf[d] \in Seq(Chunks)
    BY FreshIdsAssumption, ConcatProperties
  <2> QED
    BY <1>9, <2>1 DEF Store, Stages, historyVars
<1>10. ASSUME NEW d \in Uploads, Refresh(d) PROVE TypeOK'
  BY <1>10 DEF Refresh, Stages
<1>11. CASE ResetStore
  BY <1>1, <1>11, ResetsAssumption DEF ResetStore
<1>12. CASE AddCorpus
  <2>1. rows \o Corpus \in Seq(Chunks)
    BY FreshIdsAssumption, ConcatProperties
  <2> QED
    BY <1>12, <2>1 DEF AddCorpus, historyVars
<1>13. CASE UNCHANGED vars
  BY <1>13 DEF vars, storeVars, historyVars
<1> QED
  BY <1>2, <1>3, <1>4, <1>5, <1>6, <1>7, <1>8, <1>9, <1>10, <1>11, <1>12, <1>13
     DEF Next, Proceed

\* Only readers that are rebuilding hold rows.
LEMMA StepKeepsHolders ==
    TypeOK /\ OnlyReadersHoldRows /\ [Next]_vars => OnlyReadersHoldRows'
<1> SUFFICES ASSUME TypeOK, OnlyReadersHoldRows, [Next]_vars PROVE OnlyReadersHoldRows'
  OBVIOUS
<1> USE DEF TypeOK, OnlyReadersHoldRows, Reading
<1>1. ASSUME NEW r \in Readers, Ask(r) \/ Check(r) \/ Clear(r) PROVE OnlyReadersHoldRows'
  BY <1>1 DEF Ask, Check, Clear, Goto, historyVars
<1>2. ASSUME NEW r \in Readers, ReadPage(r) PROVE OnlyReadersHoldRows'
  BY <1>2 DEF ReadPage, Goto, historyVars
<1>3. ASSUME NEW r \in Readers, ReadFails(r) \/ Assign(r) \/ Run(r)
      PROVE  OnlyReadersHoldRows'
  BY <1>3 DEF ReadFails, Assign, Run, EndRebuild, EndQuery, Goto
<1>4. ASSUME NEW d \in Uploads, Store(d) \/ Refresh(d) PROVE OnlyReadersHoldRows'
  BY <1>4 DEF Store, Refresh, historyVars
<1>5. CASE ResetStore
  BY <1>5 DEF ResetStore
<1>6. CASE AddCorpus \/ UNCHANGED vars
  BY <1>6 DEF AddCorpus, vars, storeVars, historyVars
<1> QED
  BY <1>1, <1>2, <1>3, <1>4, <1>5, <1>6 DEF Next, Proceed

\* Pages extend what was read, and what is appended to the store follows it.
LEMMA StepKeepsPrefixes ==
    TypeOK /\ OnlyReadersHoldRows /\ RowsReadAreAPrefix /\ [Next]_vars => RowsReadAreAPrefix'
<1> SUFFICES ASSUME TypeOK, OnlyReadersHoldRows, RowsReadAreAPrefix, [Next]_vars,
                    NEW q \in Readers, Reading(q)', ~dropped'[q]
             PROVE  /\ IsPrefix(base'[q], rows')
                    /\ IsPrefix(acc'[q], rows')
                    /\ pc'[q] = "assign" => Len(base'[q]) <= Len(acc'[q])
  BY DEF RowsReadAreAPrefix
<1> DEFINE Goal == /\ IsPrefix(base'[q], rows')
                   /\ IsPrefix(acc'[q], rows')
                   /\ pc'[q] = "assign" => Len(base'[q]) <= Len(acc'[q])
<1>0. rows \in Seq(Chunks) /\ acc[q] \in Seq(Chunks) /\ base[q] \in Seq(Chunks)
  BY DEF TypeOK
<1>1. ASSUME Reading(q), ~dropped[q]
      PROVE  /\ IsPrefix(base[q], rows)
             /\ IsPrefix(acc[q], rows)
             /\ pc[q] = "assign" => Len(base[q]) <= Len(acc[q])
  BY <1>1 DEF RowsReadAreAPrefix
<1>2. ASSUME UNCHANGED <<rows, base, acc, dropped>>, pc'[q] = pc[q]
      PROVE  Goal
  BY <1>1, <1>2 DEF Reading
<1>3. ASSUME NEW r \in Readers, Ask(r) \/ Clear(r) \/ Run(r)
      PROVE  Goal
  <2>1. pc'[q] = pc[q]
    BY <1>3 DEF Ask, Clear, Run, EndQuery, Goto, Reading, TypeOK
  <2> QED
    BY <1>2, <1>3, <2>1 DEF Ask, Clear, Run, storeVars, historyVars
<1>4. ASSUME NEW r \in Readers, Check(r)
      PROVE  Goal
  <2>1. CASE q = r
    <3>1. /\ pc[q] = "check" /\ pc'[q] = "paging"
          /\ base'[q] = rows /\ rows' = rows /\ acc' = acc
      BY <1>4, <2>1 DEF Check, Goto, Reading, TypeOK, storeVars
    <3>2. acc[q] = <<>>
      BY <3>1 DEF OnlyReadersHoldRows, Reading
    <3> QED
      BY <1>0, <3>1, <3>2, PrefixBasics
  <2>2. CASE q # r
    <3>1. /\ rows' = rows /\ base'[q] = base[q] /\ acc' = acc /\ dropped' = dropped
          /\ pc'[q] = pc[q]
      BY <1>4, <2>2 DEF Check, Goto, TypeOK, storeVars
    <3> QED
      BY <1>1, <3>1 DEF Reading
  <2> QED
    BY <2>1, <2>2
<1>5. ASSUME NEW r \in Readers, ReadPage(r)
      PROVE  Goal
  <2>1. /\ rows' = rows /\ base' = base /\ dropped' = dropped
        /\ q # r => acc'[q] = acc[q] /\ pc'[q] = pc[q]
    BY <1>5 DEF ReadPage, Goto, TypeOK, storeVars, historyVars
  <2>2. CASE q # r
    BY <1>1, <2>1, <2>2 DEF Reading
  <2>3. CASE q = r
    <3>1. PICK page : page = PageFrom(Len(acc[q]))
      OBVIOUS
    <3>2. /\ pc[q] = "paging"
          /\ acc'[q] = acc[q] \o page
          /\ pc'[q] = "assign" => Len(page) < PageSize
      BY <1>5, <2>3, <3>1 DEF ReadPage, Goto, TypeOK
    <3>3. IsPrefix(base[q], rows) /\ IsPrefix(acc[q], rows)
      BY <1>1, <2>1, <3>2 DEF Reading
    <3>4. /\ IsPrefix(acc[q] \o page, rows)
          /\ Len(page) < PageSize => Len(acc[q] \o page) = Len(rows)
      BY <1>0, <3>1, <3>3, PageExtends, Zenon
    <3>5. Len(base[q]) <= Len(rows)
      BY <3>3 DEF IsPrefix
    <3> QED
      BY <2>1, <3>2, <3>3, <3>4, <3>5
  <2> QED
    BY <2>2, <2>3
<1>6. ASSUME NEW r \in Readers, ReadFails(r) \/ Assign(r)
      PROVE  Goal
  <2>1. q # r
    BY <1>6 DEF ReadFails, Assign, EndQuery, Goto, Reading, TypeOK
  <2>2. /\ rows' = rows /\ base'[q] = base[q] /\ acc'[q] = acc[q]
        /\ dropped'[q] = dropped[q] /\ pc'[q] = pc[q]
    BY <1>6, <2>1 DEF ReadFails, Assign, EndRebuild, EndQuery, Goto, TypeOK, storeVars
  <2> QED
    BY <1>1, <2>2 DEF Reading
<1>7. ASSUME NEW more \in Seq(Chunks), rows' = rows \o more,
             UNCHANGED <<pc, base, acc, dropped>>
      PROVE  Goal
  <2>1. /\ IsPrefix(base[q], rows)
        /\ IsPrefix(acc[q], rows)
        /\ pc[q] = "assign" => Len(base[q]) <= Len(acc[q])
    BY <1>1, <1>7 DEF Reading
  <2>2. IsPrefix(base[q], rows \o more) /\ IsPrefix(acc[q], rows \o more)
    BY <1>0, <2>1, PrefixOfConcat
  <2> QED
    BY <1>7, <2>1, <2>2
<1>8. ASSUME NEW d \in Uploads, Store(d)
      PROVE  Goal
  BY <1>7, <1>8, FreshIdsAssumption DEF Store, historyVars
<1>9. ASSUME NEW d \in Uploads, Refresh(d)
      PROVE  Goal
  BY <1>2, <1>9 DEF Refresh
<1>10. CASE ResetStore
  BY <1>10 DEF ResetStore, Reading
<1>11. CASE AddCorpus
  BY <1>7, <1>11, FreshIdsAssumption DEF AddCorpus, historyVars
<1>12. CASE UNCHANGED vars
  BY <1>2, <1>12 DEF vars, storeVars, historyVars
<1> QED
  BY <1>3, <1>4, <1>5, <1>6, <1>8, <1>9, <1>10, <1>11, <1>12 DEF Next, Proceed

\* A query's step keeps chunks of the store findable: a rebuild starts from all of them,
\* what it read goes into the index, and the flag is cleared over an index that has them.
LEMMA ReaderKeepsFinding ==
    ASSUME TypeOK, OnlyReadersHoldRows, RowsReadAreAPrefix,
           NEW S, S \subseteq ToSet(rows), WillFind(S),
           NEW r \in Readers, Ask(r) \/ Proceed(r)
    PROVE  WillFind(S)'
<1>1. CASE Ask(r)
  BY <1>1 DEF WillFind, WillIndex, Reading, Ask, Goto, TypeOK
<1>2. CASE Check(r)
  <2>1. ~dropped[r]
    BY <1>2 DEF Check, OnlyReadersHoldRows, Reading
  <2>2. ASSUME NEW q \in Readers, Reading(q)'
        PROVE  S \subseteq WillIndex(q)'
    BY <1>2, <2>1, <2>2 DEF WillFind, WillIndex, Reading, Check, Goto, TypeOK
  <2>3. (\E q \in Readers : pc'[q] = "clear") \/ ~dirty' => S \subseteq ToSet(index')
    BY <1>2 DEF WillFind, Check, Goto, TypeOK
  <2> QED
    BY <2>2, <2>3 DEF WillFind
<1>3. CASE ReadPage(r)
  BY <1>3 DEF WillFind, WillIndex, Reading, ReadPage, Goto, TypeOK, historyVars
<1>4. CASE ReadFails(r)
  BY <1>4 DEF WillFind, WillIndex, Reading, ReadFails, EndRebuild, EndQuery, Goto, TypeOK
<1>5. CASE Assign(r)
  <2>1. Reading(r) /\ acc[r] \in Seq(Chunks) /\ base[r] \in Seq(Chunks) /\ rows \in Seq(Chunks)
    BY <1>5 DEF Assign, Reading, TypeOK
  <2>2. WillIndex(r) \subseteq ToSet(acc[r])
    <3>1. CASE dropped[r]
      BY <3>1 DEF WillIndex
    <3>2. CASE ~dropped[r]
      <4>1. IsPrefix(base[r], acc[r])
        BY <1>5, <2>1, <3>2, PrefixesNest, Zenon DEF Assign, RowsReadAreAPrefix
      <4> QED
        BY <2>1, <3>2, <4>1, PrefixElements DEF WillIndex
    <3> QED
      BY <3>1, <3>2
  <2>3. S \subseteq ToSet(index')
    BY <1>5, <2>1, <2>2 DEF WillFind, Assign
  <2>4. ASSUME NEW q \in Readers, Reading(q)'
        PROVE  S \subseteq WillIndex(q)'
    BY <1>5, <2>4 DEF WillFind, WillIndex, Reading, Assign, EndRebuild, Goto, TypeOK
  <2> QED
    BY <2>3, <2>4 DEF WillFind
<1>6. CASE Clear(r)
  BY <1>6 DEF WillFind, WillIndex, Reading, Clear, Goto, TypeOK, historyVars
<1>7. CASE Run(r)
  BY <1>7 DEF WillFind, WillIndex, Reading, Run, EndQuery, Goto, TypeOK
<1> QED
  BY <1>1, <1>2, <1>3, <1>4, <1>5, <1>6, <1>7 DEF Proceed

\* Other steps keep what is findable as long as they leave readers and index alone.
LEMMA OthersKeepFinding ==
    ASSUME NEW S, WillFind(S), UNCHANGED <<index, pc, base, dropped>>, dirty' \in {dirty, TRUE}
    PROVE  WillFind(S)'
BY DEF WillFind, WillIndex, Reading

\* Adding chunks that belong to no returned upload changes nothing that must be found.
LEMMA AddedChunksAreNotReturned ==
    ASSUME TypeOK, NEW more \in Seq(Chunks), rows' = rows \o more,
           ToSet(more) \cap Rows({d \in Uploads : upload[d] = "returned"}) = {},
           \A d \in Uploads : upload'[d] = "returned" <=> upload[d] = "returned"
    PROVE  Returned' = Returned /\ ToSet(rows) \subseteq ToSet(rows')
<1>1. ToSet(rows') = ToSet(rows) \cup ToSet(more)
  BY ConcatElements DEF TypeOK
<1>2. {d \in Uploads : upload'[d] = "returned"} = {d \in Uploads : upload[d] = "returned"}
  OBVIOUS
<1> QED
  BY <1>1, <1>2 DEF Returned

\* The same for the two steps that add chunks.
LEMMA StoreKeepsReturned ==
    ASSUME TypeOK, AddCorpus \/ \E d \in Uploads : Store(d)
    PROVE  Returned' = Returned /\ ToSet(rows) \subseteq ToSet(rows')
<1> DEFINE docs == {d \in Uploads : upload[d] = "returned"}
<1>1. /\ ToSet(Corpus) \cap Rows(docs) = {}
      /\ \A d \in Uploads \ docs : ToSet(ChunksOf[d]) \cap Rows(docs) = {}
  BY FreshIds
<1>2. CASE AddCorpus
  BY <1>1, <1>2, AddedChunksAreNotReturned, FreshIdsAssumption DEF AddCorpus
<1>3. ASSUME NEW d \in Uploads, Store(d)
      PROVE  Returned' = Returned /\ ToSet(rows) \subseteq ToSet(rows')
  <2>1. /\ ChunksOf[d] \in Seq(Chunks)
        /\ rows' = rows \o ChunksOf[d]
        /\ d \in Uploads \ docs
        /\ \A e \in Uploads : upload'[e] = "returned" <=> upload[e] = "returned"
    BY <1>3, FreshIdsAssumption DEF Store, TypeOK
  <2> QED
    BY <1>1, <2>1, AddedChunksAreNotReturned
<1> QED
  BY <1>2, <1>3

\* A query ends or goes on with the rows, the stages of the uploads and lost as they were.
LEMMA ReaderLeavesTheStore ==
    ASSUME NEW r \in Readers, Ask(r) \/ Proceed(r)
    PROVE  UNCHANGED <<rows, upload, lost>>
BY DEF Ask, Proceed, Check, ReadPage, ReadFails, Assign, Clear, Run, EndRebuild, EndQuery,
       storeVars, historyVars

\* What a returned upload left in the store stays findable, unless a refresh is lost.
LEMMA StepKeepsReturned ==
    IInv /\ [Next]_vars => ReturnedIsFound'
<1> SUFFICES ASSUME IInv, [Next]_vars, ~lost'
             PROVE  WillFind(Returned)'
  BY DEF ReturnedIsFound
<1>1. TypeOK /\ OnlyReadersHoldRows /\ RowsReadAreAPrefix /\ (~lost => WillFind(Returned))
  BY DEF IInv, ReturnedIsFound
<1>2. PICK S : S = Returned
  OBVIOUS
<1>3. S \subseteq ToSet(rows) /\ (~lost => WillFind(S))
  BY <1>1, <1>2 DEF Returned
<1>4. ASSUME Returned' = S, WillFind(S)'
      PROVE  WillFind(Returned)'
  BY <1>4 DEF WillFind
<1>5. ASSUME NEW r \in Readers, Ask(r) \/ Proceed(r)
      PROVE  WillFind(Returned)'
  <2>1. UNCHANGED <<rows, upload, lost>>
    BY <1>5, ReaderLeavesTheStore
  <2>2. Returned' = S
    BY <1>2, <2>1 DEF Returned
  <2>3. WillFind(S)'
    BY <1>1, <1>3, <1>5, <2>1, ReaderKeepsFinding
  <2> QED
    BY <1>4, <2>2, <2>3
<1>6. CASE AddCorpus \/ \E d \in Uploads : Store(d)
  <2>1. Returned' = S
    BY <1>1, <1>2, <1>6, StoreKeepsReturned
  <2>2. UNCHANGED <<index, dirty, pc, base, dropped, lost>>
    BY <1>6 DEF AddCorpus, Store, historyVars
  <2>3. WillFind(S)'
    BY <1>3, <2>2, OthersKeepFinding
  <2> QED
    BY <1>4, <2>1, <2>3
<1>7. ASSUME NEW d \in Uploads, Refresh(d)
      PROVE  WillFind(Returned)'
  BY <1>7 DEF Refresh, Rebuilding, WillFind, Reading
<1>8. CASE ResetStore
  <2>1. ToSet(rows') = {}
    BY <1>8 DEF ResetStore, ToSet
  <2>2. Returned' = {}
    BY <2>1 DEF Returned
  <2> QED
    BY <2>2 DEF WillFind
<1>9. CASE UNCHANGED vars
  <2>1. UNCHANGED <<rows, upload, index, dirty, pc, base, dropped, lost>>
    BY <1>9 DEF vars, storeVars, historyVars
  <2>2. Returned' = S
    BY <1>2, <2>1 DEF Returned
  <2>3. WillFind(S)'
    BY <1>3, <2>1, OthersKeepFinding
  <2> QED
    BY <1>4, <2>2, <2>3
<1> QED
  BY <1>5, <1>6, <1>7, <1>8, <1>9 DEF Next

\* What a running query ought to find stays findable until it searches.
LEMMA StepKeepsDue ==
    IInv /\ [Next]_vars => DueIsFound'
<1> SUFFICES ASSUME IInv, [Next]_vars, NEW q \in Readers, pc'[q] # "idle", ~raced'[q]
             PROVE  /\ due'[q] \subseteq ToSet(rows')
                    /\ WillFind(due[q])'
                    /\ pc'[q] \in {"clear", "run"} => due'[q] \subseteq ToSet(index')
  BY DEF DueIsFound
<1> DEFINE Goal == /\ due'[q] \subseteq ToSet(rows')
                   /\ WillFind(due[q])'
                   /\ pc'[q] \in {"clear", "run"} => due'[q] \subseteq ToSet(index')
<1>1. TypeOK /\ OnlyReadersHoldRows /\ RowsReadAreAPrefix
  BY DEF IInv
<1>2. ASSUME NEW S, due'[q] = S, WillFind(S)'
      PROVE  WillFind(due[q])'
  BY <1>2 DEF WillFind
<1>3. ASSUME pc[q] # "idle", ~raced[q]
      PROVE  /\ due[q] \subseteq ToSet(rows)
             /\ WillFind(due[q])
             /\ pc[q] \in {"clear", "run"} => due[q] \subseteq ToSet(index)
  BY <1>3 DEF IInv, DueIsFound
<1>4. CASE Ask(q)
  <2>1. /\ pc'[q] = "check" /\ rows' = rows
        /\ due'[q] = Returned /\ raced'[q] = lost
    BY <1>1, <1>4 DEF Ask, Goto, TypeOK, Returned, storeVars
  <2>2. PICK S : S = Returned
    OBVIOUS
  <2>3. S \subseteq ToSet(rows) /\ WillFind(S)
    BY <2>1, <2>2 DEF IInv, ReturnedIsFound, Returned
  <2>4. WillFind(S)'
    BY <1>1, <1>4, <2>3, ReaderKeepsFinding
  <2> QED
    BY <1>2, <2>1, <2>2, <2>3, <2>4
<1>5. ASSUME NEW r \in Readers, Ask(r) \/ Proceed(r), ~Ask(q)
      PROVE  Goal
  <2>1. pc[q] # "idle" /\ due'[q] = due[q] /\ raced'[q] = raced[q] /\ rows' = rows
    <3>1. CASE Ask(r)
      BY <1>1, <1>5, <3>1 DEF Ask, Goto, TypeOK, storeVars
    <3>2. CASE Check(r) \/ ReadPage(r) \/ Assign(r) \/ Clear(r)
      BY <1>1, <3>2 DEF Check, ReadPage, Assign, Clear, Goto, TypeOK, storeVars, historyVars
    <3>3. CASE ReadFails(r) \/ Run(r)
      BY <1>1, <3>3 DEF ReadFails, Run, EndQuery, Goto, TypeOK, storeVars
    <3> QED
      BY <1>5, <3>1, <3>2, <3>3 DEF Proceed
  <2>2. PICK S : S = due[q]
    OBVIOUS
  <2>3. /\ S \subseteq ToSet(rows) /\ WillFind(S)
        /\ pc[q] \in {"clear", "run"} => S \subseteq ToSet(index)
    <3>1. ~raced[q]
      BY <2>1
    <3> QED
      BY <1>3, <2>1, <2>2, <3>1
  <2>4. WillFind(S)'
    BY <1>1, <1>5, <2>3, ReaderKeepsFinding
  <2>5. ASSUME pc'[q] \in {"clear", "run"}
        PROVE  S \subseteq ToSet(index')
    <3>1. CASE Assign(r)
      <4>1. pc'[r] = "clear"
        BY <1>1, <3>1 DEF Assign, Goto, TypeOK
      <4> QED
        BY <2>4, <4>1 DEF WillFind
    <3>2. CASE Check(r)
      BY <1>1, <2>3, <2>5, <3>2 DEF Check, Goto, TypeOK, WillFind
    <3>3. CASE Ask(r) \/ ReadPage(r) \/ Clear(r)
      BY <1>1, <2>3, <2>5, <3>3 DEF Ask, ReadPage, Clear, Goto, TypeOK
    <3>4. CASE ReadFails(r) \/ Run(r)
      BY <1>1, <2>3, <2>5, <3>4 DEF ReadFails, Run, EndQuery, Goto, TypeOK
    <3> QED
      BY <1>5, <3>1, <3>2, <3>3, <3>4 DEF Proceed
  <2> QED
    BY <1>2, <2>1, <2>2, <2>3, <2>4, <2>5
<1>6. ASSUME UNCHANGED <<index, pc, due, raced, base, dropped>>, dirty' \in {dirty, TRUE},
             ToSet(rows) \subseteq ToSet(rows')
      PROVE  Goal
  <2>1. PICK S : S = due[q]
    OBVIOUS
  <2>2. /\ S \subseteq ToSet(rows) /\ WillFind(S)
        /\ pc[q] \in {"clear", "run"} => S \subseteq ToSet(index)
    BY <1>3, <1>6, <2>1
  <2>3. WillFind(S)'
    BY <1>6, <2>2, OthersKeepFinding
  <2> QED
    BY <1>2, <1>6, <2>1, <2>2, <2>3
<1>7. CASE AddCorpus \/ \E d \in Uploads : Store(d)
  <2>1. ToSet(rows) \subseteq ToSet(rows')
    BY <1>1, <1>7, StoreKeepsReturned
  <2>2. UNCHANGED <<index, dirty, pc, due, raced, base, dropped>>
    BY <1>7 DEF AddCorpus, Store, historyVars
  <2> QED
    BY <1>6, <2>1, <2>2
<1>8. ASSUME NEW d \in Uploads, Refresh(d)
      PROVE  Goal
  BY <1>6, <1>8 DEF Refresh
<1>9. CASE ResetStore
  <2>1. due'[q] = {}
    BY <1>9 DEF ResetStore
  <2> QED
    BY <2>1 DEF WillFind
<1>10. CASE UNCHANGED vars
  BY <1>6, <1>10 DEF vars, storeVars, historyVars
<1> QED
  BY <1>4, <1>5, <1>7, <1>8, <1>9, <1>10 DEF Next

-----------------------------------------------------------------------------
(* Theorems.                                                               *)

\* The inductive invariant holds in every reachable state.
THEOREM Invariance == Spec => []IInv
<1>1. IInv /\ [Next]_vars => IInv'
  BY StepKeepsTypes, StepKeepsHolders, StepKeepsPrefixes, StepKeepsReturned, StepKeepsDue
     DEF IInv
<1> QED
  BY InitIInv, <1>1, PTL DEF Spec

\* The index, the store and the readers' locals always have their types: in particular the
\* index is a list of chunks however rebuilds overlap.
THEOREM TypeCorrect == Spec => []TypeOK
<1>1. IInv => TypeOK
  BY DEF IInv
<1> QED
  BY Invariance, <1>1, PTL

\* iter_chunks yields a prefix of the store that has at least the rows there were when it
\* began, however many rows are added between its pages.
THEOREM PagingTheorem == Spec => []PagingReadsAPrefix
<1>1. IInv => PagingReadsAPrefix
  <2> SUFFICES ASSUME IInv, NEW r \in Readers, pc[r] = "assign", ~dropped[r]
               PROVE  IsPrefix(base[r], acc[r]) /\ IsPrefix(acc[r], rows)
    BY DEF PagingReadsAPrefix
  <2>1. /\ IsPrefix(base[r], rows) /\ IsPrefix(acc[r], rows)
        /\ Len(base[r]) <= Len(acc[r])
    BY DEF IInv, RowsReadAreAPrefix, Reading
  <2>2. base[r] \in Seq(Chunks) /\ acc[r] \in Seq(Chunks) /\ rows \in Seq(Chunks)
    BY DEF IInv, TypeOK
  <2> QED
    BY <2>1, <2>2, PrefixesNest
<1> QED
  BY Invariance, <1>1, PTL

\* A query searches an index with every chunk uploaded before it began that is still in
\* the store, unless the latest refresh before it fell into a rebuild.
THEOREM VisibilityTheorem == Spec => VisibleUnlessRaced
<1>1. IInv /\ [Next]_vars =>
        [\A r \in Readers : Run(r) /\ ~raced[r] => due[r] \subseteq ToSet(index)]_vars
  BY DEF IInv, DueIsFound, Run
<1> QED
  BY Invariance, <1>1, PTL DEF Spec, VisibleUnlessRaced

-----------------------------------------------------------------------------
(* Induction.                                                              *)

\* Induction over the naturals, as a fact about sets.
LEMMA NatInduct ==
    \A S : 0 \in S /\ (\A n \in Nat : n \in S => n + 1 \in S) => \A n \in Nat : n \in S
<1> SUFFICES ASSUME NEW S, 0 \in S, \A n \in Nat : n \in S => n + 1 \in S,
                    NEW N \in Nat, N \notin S
             PROVE  FALSE
  OBVIOUS
<1> DEFINE R == {ss \in Nat \X Nat : ss[1] < ss[2]}
           T == Nat \ S
<1>1. IsWellFoundedOn(R, Nat)
  BY NatLessThanWellFounded DEF OpToRel
<1>2. PICK n \in T : \A k \in T : ~(<<k, n>> \in R)
  <2>1. T \subseteq Nat /\ T # {}
    OBVIOUS
  <2> HIDE DEF R, T
  <2>2. QED
    BY <1>1, <2>1, WFMin
<1>3. n \in Nat /\ n # 0 /\ n - 1 \in Nat /\ n - 1 < n
  OBVIOUS
<1>4. n - 1 \notin T
  <2>1. <<n - 1, n>> \in R
    BY <1>3
  <2>2. QED
    BY <1>2, <2>1
<1>5. n - 1 \in S
  BY <1>3, <1>4
<1>6. (n - 1) + 1 = n
  BY <1>3
<1>7. n \in S
  BY <1>3, <1>5, <1>6
<1>8. QED
  BY <1>7

\* A function defined step by step over 0..N exists, and has the type of its
\* steps.
LEMMA StepByStep ==
    \A V : \A v : v \in V => \A N \in Nat : \A h \in [1..N -> [V -> V]] :
        \E f \in [0..N -> V] : f[0] = v /\ \A n \in 1..N : f[n] = h[n][f[n - 1]]
<1> SUFFICES ASSUME NEW V, NEW v, v \in V, NEW N \in Nat, NEW h \in [1..N -> [V -> V]]
             PROVE  \E f \in [0..N -> V] : f[0] = v /\ \A n \in 1..N : f[n] = h[n][f[n - 1]]
  OBVIOUS
<1> DEFINE Good(M, f) == f[0] = v /\ \A n \in 1..M : f[n] = h[n][f[n - 1]]
           S == {M \in Nat : M <= N => \E f \in [0..M -> V] : Good(M, f)}
<1>1. 0 \in S
  <2> DEFINE g == [n \in 0..0 |-> v]
  <2>1. g \in [0..0 -> V] /\ Good(0, g)
    OBVIOUS
  <2>2. QED
    BY <2>1
<1>2. \A M \in Nat : M \in S => M + 1 \in S
  <2> SUFFICES ASSUME NEW M \in Nat, M \in S, M + 1 <= N
               PROVE  \E f \in [0..(M + 1) -> V] : Good(M + 1, f)
    <3> HIDE DEF Good
    <3>1. QED
      OBVIOUS
  <2>1. PICK f \in [0..M -> V] : Good(M, f)
    <3> HIDE DEF Good
    <3>1. QED
      OBVIOUS
  <2> DEFINE g == [n \in 0..(M + 1) |-> IF n = M + 1 THEN h[n][f[M]] ELSE f[n]]
  <2>2. f[M] \in V /\ M + 1 \in 1..N
    OBVIOUS
  <2>3. h[M + 1][f[M]] \in V
    BY <2>2
  <2>4. g \in [0..(M + 1) -> V]
    BY <2>3
  <2>5. g[0] = v
    BY <2>1
  <2>6. ASSUME NEW n \in 1..(M + 1)
        PROVE  g[n] = h[n][g[n - 1]]
    <3>1. CASE n = M + 1
      <4>1. n - 1 = M /\ g[n - 1] = f[M]
        BY <3>1
      <4>2. QED
        BY <3>1, <4>1
    <3>2. CASE n # M + 1
      <4>1. n \in 1..M /\ n - 1 \in 0..M
        BY <3>2
      <4>2. g[n] = f[n] /\ g[n - 1] = f[n - 1]
        BY <3>2, <4>1
      <4>3. QED
        BY <2>1, <4>1, <4>2
    <3>3. QED
      BY <3>1, <3>2
  <2>7. QED
    <3> HIDE DEF g
    <3>1. QED
      BY <2>4, <2>5, <2>6
<1>3. N \in S
  <2> HIDE DEF S
  <2>1. QED
    BY <1>1, <1>2, NatInduct
<1>4. QED
  BY <1>3

\* What such a function is at each argument, if its steps keep to a type.
LEMMA StepsAreTyped ==
    \A V : \A N \in Nat : \A F :
        F = [n \in 0..N |-> F[n]] /\ F[0] \in V /\ (\A n \in 1..N : F[n - 1] \in V => F[n] \in V)
            => F \in [0..N -> V]
<1> SUFFICES ASSUME NEW V, NEW N \in Nat, NEW F, F = [n \in 0..N |-> F[n]], F[0] \in V,
                    \A n \in 1..N : F[n - 1] \in V => F[n] \in V
             PROVE  F \in [0..N -> V]
  OBVIOUS
<1> DEFINE S == {n \in Nat : n <= N => F[n] \in V}
<1>1. 0 \in S
  OBVIOUS
<1>2. \A n \in Nat : n \in S => n + 1 \in S
  <2> SUFFICES ASSUME NEW n \in Nat, n \in S, n + 1 <= N
               PROVE  F[n + 1] \in V
    OBVIOUS
  <2>1. F[n] \in V /\ n + 1 \in 1..N /\ (n + 1) - 1 = n
    OBVIOUS
  <2>2. QED
    BY <2>1
<1>3. \A n \in Nat : n \in S
  <2> HIDE DEF S
  <2>1. QED
    BY <1>1, <1>2, NatInduct
<1>4. \A n \in 0..N : F[n] \in V
  BY <1>3
<1>5. QED
  BY <1>4

-----------------------------------------------------------------------------
(* Numbers and finite sets of them.                                        *)

\* Some value of a list is the largest.
LEMMA HasLargest ==
    \A n \in Nat : \A v \in [1..(n + 1) -> Int] : \E i \in 1..(n + 1) : \A j \in 1..(n + 1) : v[j] <= v[i]
<1> DEFINE P(n) == \A v \in [1..(n + 1) -> Int] :
                       \E i \in 1..(n + 1) : \A j \in 1..(n + 1) : v[j] <= v[i]
           S == {n \in Nat : P(n)}
<1>1. 0 \in S
  OBVIOUS
<1>2. ASSUME NEW n \in Nat, n \in S
      PROVE  n + 1 \in S
  <2> SUFFICES ASSUME NEW v \in [1..((n + 1) + 1) -> Int]
               PROVE  \E i \in 1..((n + 1) + 1) : \A j \in 1..((n + 1) + 1) : v[j] <= v[i]
    <3>1. n + 1 \in Nat
      OBVIOUS
    <3>2. QED
      BY <3>1, Zenon
  <2> DEFINE w == [i \in 1..(n + 1) |-> v[i]]
  <2>1. w \in [1..(n + 1) -> Int]
    OBVIOUS
  <2>2. PICK i \in 1..(n + 1) : \A j \in 1..(n + 1) : w[j] <= w[i]
    BY <1>2, <2>1
  <2>3. \A j \in 1..(n + 1) : v[j] <= v[i]
    BY <2>2
  <2>4. v[(n + 1) + 1] \in Int /\ v[i] \in Int /\ \A j \in 1..((n + 1) + 1) : v[j] \in Int
    OBVIOUS
  <2>5. \A j \in 1..((n + 1) + 1) : j \in 1..(n + 1) \/ j = (n + 1) + 1
    OBVIOUS
  <2>6. CASE v[(n + 1) + 1] <= v[i]
    <3>1. \A j \in 1..((n + 1) + 1) : v[j] <= v[i]
      BY <2>3, <2>5, <2>6
    <3>2. i \in 1..((n + 1) + 1)
      OBVIOUS
    <3>3. QED
      BY <3>1, <3>2
  <2>7. CASE ~(v[(n + 1) + 1] <= v[i])
    <3>1. \A j \in 1..((n + 1) + 1) : v[j] <= v[(n + 1) + 1]
      BY <2>3, <2>4, <2>5, <2>7
    <3>2. QED
      BY <3>1
  <2>8. QED
    BY <2>6, <2>7
<1>3. \A n \in Nat : n \in S
  <2> HIDE DEF S
  <2>1. QED
    BY <1>1, <1>2, NatInduct
<1>4. QED
  BY <1>3

\* So MaxOf and MinOf are what they should be.
LEMMA LargestAndLeast ==
    ASSUME NEW n \in Nat, n # 0, NEW v \in [1..n -> Int]
    PROVE  LET S == {v[i] : i \in 1..n} IN
               /\ MaxOf(S) \in S /\ \A i \in 1..n : v[i] <= MaxOf(S)
               /\ MinOf(S) \in S /\ \A i \in 1..n : MinOf(S) <= v[i]
<1> DEFINE S == {v[i] : i \in 1..n}
           w == [i \in 1..n |-> 0 - v[i]]
<1>1. n - 1 \in Nat /\ (n - 1) + 1 = n
  OBVIOUS
<1>2. PICK i \in 1..n : \A j \in 1..n : v[j] <= v[i]
  BY <1>1, HasLargest
<1>3. w \in [1..n -> Int]
  OBVIOUS
<1>4. PICK k \in 1..n : \A j \in 1..n : w[j] <= w[k]
  <2> HIDE DEF w
  <2>1. QED
    BY <1>1, <1>3, HasLargest
<1>5. \A j \in 1..n : v[k] <= v[j]
  BY <1>4
<1>6. v[i] \in S /\ \A m \in S : m <= v[i]
  BY <1>2
<1>7. v[k] \in S /\ \A m \in S : v[k] <= m
  BY <1>5
<1>8. MaxOf(S) \in S /\ \A m \in S : m <= MaxOf(S)
  BY <1>6 DEF MaxOf
<1>9. MinOf(S) \in S /\ \A m \in S : MinOf(S) <= m
  BY <1>7 DEF MinOf
<1>10. QED
  BY <1>8, <1>9

\* A share of a spread, in units.
LEMMA PartOfUnit ==
    ASSUME NEW a \in Nat, NEW b \in Nat, NEW u \in Nat, b # 0, a <= b
    PROVE  (a * u) \div b \in 0..u /\ (a = b => (a * u) \div b = u)
<1> DEFINE q == (a * u) \div b
<1>1. a * u \in Nat /\ a * u <= b * u
  <2>1. a * u \in Nat /\ (b - a) * u \in Nat
    OBVIOUS
  <2>2. b * u = a * u + (b - a) * u
    OBVIOUS
  <2>3. QED
    BY <2>1, <2>2
<1>2. q \in Int /\ b * q <= a * u /\ a * u < b * (q + 1)
  BY <1>1
<1> HIDE DEF q
<1>3. q >= 0
  <2>1. SUFFICES ASSUME q + 1 <= 0
                 PROVE  FALSE
    BY <1>2
  <2>2. b * (q + 1) <= 0
    BY <2>1, <1>2
  <2>3. QED
    BY <1>1, <1>2, <2>2
<1>4. q <= u
  <2>1. SUFFICES ASSUME q - u - 1 >= 0
                 PROVE  FALSE
    BY <1>2
  <2>2. b * (q - u - 1) >= 0
    BY <2>1, <1>2
  <2>3. b * (q - u - 1) = b * q - b * u - b
    BY <1>2
  <2>4. b * q >= b * u + b
    BY <1>2, <2>2, <2>3
  <2>5. QED
    BY <1>1, <1>2, <2>4
<1>5. ASSUME a = b
      PROVE  q >= u
  <2>1. SUFFICES ASSUME u - q - 1 >= 0
                 PROVE  FALSE
    BY <1>2
  <2>2. b * (u - q - 1) >= 0
    BY <2>1, <1>2
  <2>3. b * (u - q - 1) = b * u - b * (q + 1)
    BY <1>2
  <2>4. QED
    BY <1>1, <1>2, <1>5, <2>2, <2>3
<1>6. QED
  BY <1>2, <1>3, <1>4, <1>5 DEF q

\* A normalized score is between 0 and 1.0; it is 1.0 for a largest value above zero.
LEMMA NormalizedScores ==
    ASSUME NEW n \in Nat, NEW v \in [1..n -> Int]
    PROVE  /\ MinMaxNormalize(v) \in [1..n -> 0..Unit]
           /\ \A i \in 1..n : v[i] > 0 /\ (\A j \in 1..n : v[j] <= v[i]) => MinMaxNormalize(v)[i] = Unit
<1> DEFINE S == {v[i] : i \in 1..n}
           lo == MinOf(S)
           hi == MaxOf(S)
<1>1. MinMaxNormalize(v) = [i \in 1..n |-> IF lo # hi THEN ((v[i] - lo) * Unit) \div (hi - lo)
                                           ELSE IF hi = 0 THEN 0 ELSE Unit]
  <2>1. DOMAIN v = 1..n
    OBVIOUS
  <2>2. QED
    BY <2>1 DEF MinMaxNormalize
<1> DEFINE out(i) == IF lo # hi THEN ((v[i] - lo) * Unit) \div (hi - lo)
                     ELSE IF hi = 0 THEN 0 ELSE Unit
<1>2. ASSUME NEW i \in 1..n
      PROVE  out(i) \in 0..Unit /\ (v[i] > 0 /\ (\A j \in 1..n : v[j] <= v[i]) => out(i) = Unit)
  <2>1. n # 0
    BY <1>2
  <2>2. /\ hi \in S /\ \A j \in 1..n : v[j] <= hi
        /\ lo \in S /\ \A j \in 1..n : lo <= v[j]
    BY <2>1, LargestAndLeast
  <2>3. hi \in Int /\ lo \in Int /\ v[i] \in Int /\ lo <= v[i] /\ v[i] <= hi
    BY <2>2
  <2>4. (\A j \in 1..n : v[j] <= v[i]) => hi = v[i]
    <3>1. (\A j \in 1..n : v[j] <= v[i]) => hi <= v[i]
      BY <2>2
    <3>2. QED
      BY <2>3, <3>1
  <2>5. Unit \in Nat
    BY FusionAssumption
  <2> HIDE DEF lo, hi, S
  <2>6. CASE lo # hi
    <3>1. v[i] - lo \in Nat /\ hi - lo \in Nat /\ hi - lo # 0 /\ v[i] - lo <= hi - lo
      BY <2>3, <2>6
    <3>2. /\ ((v[i] - lo) * Unit) \div (hi - lo) \in 0..Unit
          /\ v[i] - lo = hi - lo => ((v[i] - lo) * Unit) \div (hi - lo) = Unit
      BY <3>1, <2>5, PartOfUnit
    <3>3. QED
      BY <2>4, <2>6, <3>2
  <2>7. CASE lo = hi
    <3>1. out(i) = IF hi = 0 THEN 0 ELSE Unit
      BY <2>7
    <3>2. QED
      BY <2>3, <2>4, <2>5, <3>1
  <2>8. QED
    BY <2>6, <2>7
<1>3. MinMaxNormalize(v) = [i \in 1..n |-> out(i)]
  BY <1>1
<1> HIDE DEF out
<1>4. QED
  BY <1>2, <1>3

-----------------------------------------------------------------------------
(* Rankings.                                                               *)

\* Each chunk once.
Distinct(list) == \A i, j \in DOMAIN list : list[i].chunk = list[j].chunk => i = j

\* The rank of a chunk is its place, and one more than the length for a chunk that has none.
LEMMA RankIsPlace ==
    ASSUME NEW n \in Nat, NEW T, NEW list \in [1..n -> T], Distinct(list)
    PROVE  /\ ChunksIn(list) = {list[i].chunk : i \in 1..n}
           /\ Len(list) = n
           /\ \A i \in 1..n : RankIn(list, list[i].chunk) = i
           /\ \A c : c \in ChunksIn(list) <=> RankIn(list, c) \in 1..n
           /\ \A c \in ChunksIn(list) : list[RankIn(list, c)].chunk = c
           /\ \A c : c \notin ChunksIn(list) => RankIn(list, c) = n + 1
<1>1. DOMAIN list = 1..n /\ Len(list) = n
  OBVIOUS
<1>2. ChunksIn(list) = {list[i].chunk : i \in 1..n}
  BY <1>1 DEF ChunksIn
<1>3. ASSUME NEW i \in 1..n
      PROVE  RankIn(list, list[i].chunk) = i
  <2>1. list[i].chunk \in ChunksIn(list)
    BY <1>2
  <2>2. \A j \in 1..n : list[j].chunk = list[i].chunk <=> j = i
    BY <1>1 DEF Distinct
  <2>3. (CHOOSE j \in 1..n : list[j].chunk = list[i].chunk) = i
    BY <2>2
  <2>4. QED
    BY <1>1, <2>1, <2>3 DEF RankIn
<1>4. \A c \in ChunksIn(list) : RankIn(list, c) \in 1..n /\ list[RankIn(list, c)].chunk = c
  BY <1>2, <1>3
<1>5. \A c : c \notin ChunksIn(list) => RankIn(list, c) = n + 1
  BY <1>1 DEF RankIn
<1>6. n + 1 \notin 1..n
  OBVIOUS
<1>7. QED
  BY <1>1, <1>2, <1>3, <1>4, <1>5, <1>6

\* What a search finds.
LEMMA RankingsAre ==
    ASSUME NEW limit \in Nat, NEW scores, NEW r \in Rankings(limit, scores)
    PROVE  /\ Len(r) \in 0..limit
           /\ r \in [1..Len(r) -> [chunk : ChunkIds, score : scores]]
           /\ Distinct(r)
           /\ \A i, j \in 1..Len(r) : i < j => r[i].score >= r[j].score
<1>1. PICK n \in 0..limit : /\ r \in [1..n -> [chunk : ChunkIds, score : scores]]
                            /\ \A i, j \in 1..n : i < j => /\ r[i].chunk # r[j].chunk
                                                           /\ r[i].score >= r[j].score
  BY DEF Rankings
<1>2. Len(r) = n /\ DOMAIN r = 1..n
  BY <1>1
<1>3. ASSUME NEW i \in 1..n, NEW j \in 1..n, r[i].chunk = r[j].chunk
      PROVE  i = j
  <2>1. ~(i < j) /\ ~(j < i)
    BY <1>1, <1>3
  <2>2. QED
    BY <2>1
<1>4. QED
  BY <1>1, <1>2, <1>3 DEF Distinct

\* An empty list is a ranking.
LEMMA EmptyIsARanking ==
    ASSUME NEW limit \in Nat, NEW scores
    PROVE  << >> \in Rankings(limit, scores)
<1> DEFINE f == [i \in 1..0 |-> 0]
<1>1. << >> = f
  OBVIOUS
<1>2. f \in [1..0 -> [chunk : ChunkIds, score : scores]] /\ 0 \in 0..limit
  OBVIOUS
<1>3. \A i, j \in 1..0 : i < j => f[i].chunk # f[j].chunk /\ f[i].score >= f[j].score
  OBVIOUS
<1>4. QED
  <2> HIDE DEF f
  <2>1. QED
    BY <1>1, <1>2, <1>3 DEF Rankings

\* Places in a ranking are ordered as its items are.
LEMMA RankedEnumerates ==
    ASSUME NEW items, IsFiniteSet(items),
           \A x \in items : x.chunk \in Nat /\ x.score \in Int,
           \A x, y \in items : x.chunk = y.chunk => x = y
    PROVE  LET n == Cardinality(items)
               r == Ranked(items) IN
           /\ n \in Nat
           /\ r \in [1..n -> items]
           /\ Distinct(r)
           /\ \A x \in items : \E i \in 1..n : r[i] = x
           /\ \A i, j \in 1..n : i < j => Ahead(r[i], r[j])
<1> DEFINE n == Cardinality(items)
           before(x) == {y \in items : Ahead(y, x)}
           place(x) == Cardinality(before(x)) + 1
           r == Ranked(items)
<1>1. n \in Nat
  BY FS_CardinalityType
<1>2. ASSUME NEW x \in items
      PROVE  IsFiniteSet(before(x)) /\ place(x) \in 1..n
  <2>1. before(x) \in SUBSET items /\ x \notin before(x)
    BY DEF Ahead
  <2> HIDE DEF before
  <2>2. IsFiniteSet(before(x)) /\ Cardinality(before(x)) <= n
        /\ (Cardinality(before(x)) = n => items = before(x))
    BY <2>1, FS_Subset
  <2>3. Cardinality(before(x)) \in Nat
    BY <2>2, FS_CardinalityType
  <2>4. QED
    BY <1>1, <2>1, <2>2, <2>3
<1>3. ASSUME NEW x \in items, NEW y \in items, Ahead(x, y)
      PROVE  place(x) < place(y)
  <2>1. before(x) \in SUBSET before(y) /\ x \in before(y) /\ x \notin before(x)
    <3>1. \A z \in items : Ahead(z, x) => Ahead(z, y)
      BY <1>3 DEF Ahead
    <3>2. ~Ahead(x, x)
      BY DEF Ahead
    <3>3. QED
      BY <1>3, <3>1, <3>2
  <2> HIDE DEF before
  <2>2. Cardinality(before(x)) <= Cardinality(before(y)) /\ before(x) # before(y)
        /\ (Cardinality(before(x)) = Cardinality(before(y)) => before(y) = before(x))
    BY <1>2, <2>1, FS_Subset
  <2>3. Cardinality(before(x)) \in Nat /\ Cardinality(before(y)) \in Nat
    BY <1>2, FS_CardinalityType
  <2>4. QED
    BY <2>2, <2>3
<1>4. ASSUME NEW x \in items, NEW y \in items, x # y
      PROVE  Ahead(x, y) \/ Ahead(y, x)
  <2>1. x.chunk # y.chunk
    BY <1>4
  <2>2. QED
    BY <2>1 DEF Ahead
<1> DEFINE f == [x \in items |-> place(x)]
<1>5. f \in [items -> 1..n]
  BY <1>2
<1> HIDE DEF place
<1>6. \A x, y \in items : f[x] = f[y] => x = y
  <2> SUFFICES ASSUME NEW x \in items, NEW y \in items, f[x] = f[y], x # y
               PROVE  FALSE
    OBVIOUS
  <2> HIDE DEF n, before
  <2>1. place(x) = place(y) /\ place(x) \in 1..n /\ place(y) \in 1..n
    BY <1>2
  <2>2. ~(place(x) < place(y)) /\ ~(place(y) < place(x))
    BY <1>1, <2>1
  <2>3. QED
    BY <1>3, <1>4, <2>2
<1>7. \A i \in 1..n : \E x \in items : place(x) = i
  <2> HIDE DEF n
  <2>1. f \in Injection(items, 1..n)
    <3> HIDE DEF f
    <3>1. QED
      BY <1>5, <1>6 DEF Injection, IsInjective
  <2>2. IsFiniteSet(1..n) /\ Cardinality(1..n) = n
    BY <1>1, FS_Interval
  <2>3. f \in Surjection(items, 1..n)
    <3> HIDE DEF f
    <3>1. n = Cardinality(items)
      BY DEF n
    <3>2. QED
      BY <2>1, <2>2, <3>1, FS_Injection
  <2>4. \A i \in 1..n : \E x \in items : f[x] = i
    <3> HIDE DEF f
    <3>1. QED
      BY <2>3 DEF Surjection
  <2>5. QED
    BY <2>4
<1>8. r = [i \in 1..n |-> CHOOSE x \in items : Cardinality(before(x)) = i - 1]
  BY DEF Ranked
<1>9. ASSUME NEW i \in 1..n
      PROVE  r[i] \in items /\ place(r[i]) = i
  <2>1. PICK x \in items : place(x) = i
    BY <1>7
  <2>2. Cardinality(before(x)) \in Nat
    BY <1>2, FS_CardinalityType
  <2>3. Cardinality(before(x)) = i - 1
    BY <2>1, <2>2 DEF place
  <2> DEFINE z == CHOOSE y \in items : Cardinality(before(y)) = i - 1
  <2>4. z \in items /\ Cardinality(before(z)) = i - 1
    <3> HIDE DEF before
    <3>1. QED
      BY <2>3
  <2>5. r[i] = z
    BY <1>8
  <2> HIDE DEF z, before, r
  <2>6. QED
    BY <2>4, <2>5 DEF place
<1>10. \A x \in items : \A i \in 1..n : place(x) = i => r[i] = x
  <2> HIDE DEF n, r
  <2>1. \A x, y \in items : place(x) = place(y) => x = y
    BY <1>6
  <2>2. QED
    BY <1>9, <2>1
<1>11. \A x \in items : \E i \in 1..n : r[i] = x
  <2> HIDE DEF n, r
  <2>1. QED
    BY <1>2, <1>10 DEF place
<1>12. r \in [1..n -> items] /\ DOMAIN r = 1..n
  <2> HIDE DEF n, before
  <2>1. r = [i \in 1..n |-> r[i]]
    BY <1>8
  <2> HIDE DEF r
  <2>2. QED
    BY <1>9, <2>1
<1>13. Distinct(r)
  <2> HIDE DEF n, r
  <2>1. QED
    BY <1>9, <1>12 DEF Distinct
<1>14. \A i, j \in 1..n : i < j => Ahead(r[i], r[j])
  <2> SUFFICES ASSUME NEW i \in 1..n, NEW j \in 1..n, i < j
               PROVE  Ahead(r[i], r[j])
    OBVIOUS
  <2> HIDE DEF n, r
  <2>1. r[i] \in items /\ r[j] \in items /\ place(r[i]) = i /\ place(r[j]) = j
    BY <1>9
  <2>2. r[i] # r[j]
    BY <2>1
  <2>3. ~Ahead(r[j], r[i])
    BY <1>3, <2>1
  <2>4. QED
    BY <1>4, <2>1, <2>2, <2>3
<1>15. QED
  BY <1>1, <1>11, <1>12, <1>13, <1>14

-----------------------------------------------------------------------------
(* The functions defined step by step.                                     *)

\* The common denominator, as far as each rank.
LEMMA DenominatorSteps ==
    Depth \in Nat /\ RRFK \in Nat =>
        \E f \in [0..Depth -> Nat] :
            /\ Denominator = f[Depth]
            /\ f[0] = 1
            /\ \A n \in 1..Depth : f[n] = f[n - 1] * (RRFK + n)
<1>0. SUFFICES ASSUME Depth \in Nat, RRFK \in Nat
               PROVE  \E f \in [0..Depth -> Nat] :
                         /\ Denominator = f[Depth]
                         /\ f[0] = 1
                         /\ \A n \in 1..Depth : f[n] = f[n - 1] * (RRFK + n)
  OBVIOUS
<1> DEFINE N == Depth
           V == Nat
           zero == 1
           step(n, w) == w * (RRFK + n)
           body(f) == [n \in 0..N |-> IF n = 0 THEN zero ELSE step(n, f[n - 1])]
           h == [n \in 1..N |-> [w \in V |-> step(n, w)]]
           upTo == CHOOSE f : f = body(f)
<1>1. N \in Nat
  BY <1>0
<1>2. \A n \in 1..N : \A w \in V : step(n, w) \in V
  <2>1. \A n \in 1..N : RRFK + n \in Nat
    BY <1>0
  <2>2. QED
    BY <2>1
<1>3. zero \in V
  OBVIOUS
<1> HIDE DEF V, N, step, zero
<1>4. h \in [1..N -> [V -> V]] /\ \A n \in 1..N : \A w \in V : h[n][w] = step(n, w)
  BY <1>2
<1> HIDE DEF h
<1>5. PICK f \in [0..N -> V] : f[0] = zero /\ \A n \in 1..N : f[n] = h[n][f[n - 1]]
  <2>1. N \in Nat /\ h \in [1..N -> [V -> V]]
    BY <1>1, <1>4
  <2>2. QED
    BY <1>3, <2>1, StepByStep
<1>6. f = body(f)
  <2>1. \A n \in 0..N : n # 0 => n \in 1..N /\ n - 1 \in 0..N /\ f[n - 1] \in V
    BY <1>1
  <2>2. \A n \in 0..N : f[n] = IF n = 0 THEN zero ELSE step(n, f[n - 1])
    BY <1>4, <1>5, <2>1
  <2>3. QED
    BY <2>2
<1>7. upTo = body(upTo)
  <2> HIDE DEF body
  <2>1. QED
    BY <1>6
<1>8. Denominator = upTo[N]
  BY DEF Denominator, step, N, zero
<1> HIDE DEF upTo
<1>9. upTo = [n \in 0..N |-> IF n = 0 THEN zero ELSE step(n, upTo[n - 1])]
  BY <1>7
<1>10. upTo[0] = zero /\ \A n \in 1..N : upTo[n] = step(n, upTo[n - 1])
  BY <1>1, <1>9
<1>11. upTo \in [0..N -> V]
  <2>1. upTo = [n \in 0..N |-> upTo[n]]
    BY <1>9
  <2>2. \A n \in 1..N : upTo[n - 1] \in V => upTo[n] \in V
    BY <1>2, <1>10
  <2>3. QED
    BY <1>1, <1>3, <1>10, <2>1, <2>2, StepsAreTyped
<1>12. QED
  BY <1>8, <1>10, <1>11 DEF N, V, zero, step

\* The fused score, as far as each ranking.
LEMMA RRFScoreSteps ==
    \A rankings : \A c : Len(rankings) \in Nat /\ (\A n \in 1..Len(rankings) : Share(rankings[n], c) \in Int) =>
        \E f \in [0..Len(rankings) -> Int] :
            /\ RRFScore(rankings, c) = f[Len(rankings)]
            /\ f[0] = 0
            /\ \A n \in 1..Len(rankings) : f[n] = f[n - 1] + Share(rankings[n], c)
<1>0. SUFFICES ASSUME NEW rankings, NEW c, Len(rankings) \in Nat, \A n \in 1..Len(rankings) : Share(rankings[n], c) \in Int
               PROVE  \E f \in [0..Len(rankings) -> Int] :
                         /\ RRFScore(rankings, c) = f[Len(rankings)]
                         /\ f[0] = 0
                         /\ \A n \in 1..Len(rankings) : f[n] = f[n - 1] + Share(rankings[n], c)
  OBVIOUS
<1> DEFINE N == Len(rankings)
           V == Int
           zero == 0
           step(n, w) == w + Share(rankings[n], c)
           body(f) == [n \in 0..N |-> IF n = 0 THEN zero ELSE step(n, f[n - 1])]
           h == [n \in 1..N |-> [w \in V |-> step(n, w)]]
           upTo == CHOOSE f : f = body(f)
<1>1. N \in Nat
  BY <1>0
<1>2. \A n \in 1..N : \A w \in V : step(n, w) \in V
  BY <1>0
<1>3. zero \in V
  OBVIOUS
<1> HIDE DEF V, N, step, zero
<1>4. h \in [1..N -> [V -> V]] /\ \A n \in 1..N : \A w \in V : h[n][w] = step(n, w)
  BY <1>2
<1> HIDE DEF h
<1>5. PICK f \in [0..N -> V] : f[0] = zero /\ \A n \in 1..N : f[n] = h[n][f[n - 1]]
  <2>1. N \in Nat /\ h \in [1..N -> [V -> V]]
    BY <1>1, <1>4
  <2>2. QED
    BY <1>3, <2>1, StepByStep
<1>6. f = body(f)
  <2>1. \A n \in 0..N : n # 0 => n \in 1..N /\ n - 1 \in 0..N /\ f[n - 1] \in V
    BY <1>1
  <2>2. \A n \in 0..N : f[n] = IF n = 0 THEN zero ELSE step(n, f[n - 1])
    BY <1>4, <1>5, <2>1
  <2>3. QED
    BY <2>2
<1>7. upTo = body(upTo)
  <2> HIDE DEF body
  <2>1. QED
    BY <1>6
<1>8. RRFScore(rankings, c) = upTo[N]
  BY DEF RRFScore, step, N, zero
<1> HIDE DEF upTo
<1>9. upTo = [n \in 0..N |-> IF n = 0 THEN zero ELSE step(n, upTo[n - 1])]
  BY <1>7
<1>10. upTo[0] = zero /\ \A n \in 1..N : upTo[n] = step(n, upTo[n - 1])
  BY <1>1, <1>9
<1>11. upTo \in [0..N -> V]
  <2>1. upTo = [n \in 0..N |-> upTo[n]]
    BY <1>9
  <2>2. \A n \in 1..N : upTo[n - 1] \in V => upTo[n] \in V
    BY <1>2, <1>10
  <2>3. QED
    BY <1>1, <1>3, <1>10, <2>1, <2>2, StepsAreTyped
<1>12. QED
  BY <1>8, <1>10, <1>11 DEF N, V, zero, step

\* What the walk has kept, as far as each item.
LEMMA CapSteps ==
    \A T : \A items \in Seq(T) : call.cap # 0 =>
        \E f \in [0..Len(items) -> Seq(T)] :
            /\ CapPerDocument(items) = f[Len(items)]
            /\ f[0] = << >>
            /\ \A n \in 1..Len(items) : f[n] = Keep(f[n - 1], items[n])
<1>0. SUFFICES ASSUME NEW T, NEW items, items \in Seq(T), call.cap # 0
               PROVE  \E f \in [0..Len(items) -> Seq(T)] :
                         /\ CapPerDocument(items) = f[Len(items)]
                         /\ f[0] = << >>
                         /\ \A n \in 1..Len(items) : f[n] = Keep(f[n - 1], items[n])
  OBVIOUS
<1> DEFINE N == Len(items)
           V == Seq(T)
           zero == << >>
           step(n, w) == Keep(w, items[n])
           body(f) == [n \in 0..N |-> IF n = 0 THEN zero ELSE step(n, f[n - 1])]
           h == [n \in 1..N |-> [w \in V |-> step(n, w)]]
           upTo == CHOOSE f : f = body(f)
<1>1. N \in Nat /\ \A n \in 1..N : items[n] \in T
  BY <1>0
<1>2. \A n \in 1..N : \A w \in V : step(n, w) \in V
  <2>1. \A n \in 1..N : \A w \in V : Append(w, items[n]) \in V
    BY <1>1
  <2>2. QED
    BY <2>1 DEF Keep
<1>3. zero \in V
  OBVIOUS
<1> HIDE DEF V, N, step, zero
<1>4. h \in [1..N -> [V -> V]] /\ \A n \in 1..N : \A w \in V : h[n][w] = step(n, w)
  BY <1>2
<1> HIDE DEF h
<1>5. PICK f \in [0..N -> V] : f[0] = zero /\ \A n \in 1..N : f[n] = h[n][f[n - 1]]
  <2>1. N \in Nat /\ h \in [1..N -> [V -> V]]
    BY <1>1, <1>4
  <2>2. QED
    BY <1>3, <2>1, StepByStep
<1>6. f = body(f)
  <2>1. \A n \in 0..N : n # 0 => n \in 1..N /\ n - 1 \in 0..N /\ f[n - 1] \in V
    BY <1>1
  <2>2. \A n \in 0..N : f[n] = IF n = 0 THEN zero ELSE step(n, f[n - 1])
    BY <1>4, <1>5, <2>1
  <2>3. QED
    BY <2>2
<1>7. upTo = body(upTo)
  <2> HIDE DEF body
  <2>1. QED
    BY <1>6
<1>8. CapPerDocument(items) = upTo[N]
  BY <1>0 DEF CapPerDocument, step, N, zero
<1> HIDE DEF upTo
<1>9. upTo = [n \in 0..N |-> IF n = 0 THEN zero ELSE step(n, upTo[n - 1])]
  BY <1>7
<1>10. upTo[0] = zero /\ \A n \in 1..N : upTo[n] = step(n, upTo[n - 1])
  BY <1>1, <1>9
<1>11. upTo \in [0..N -> V]
  <2>1. upTo = [n \in 0..N |-> upTo[n]]
    BY <1>9
  <2>2. \A n \in 1..N : upTo[n - 1] \in V => upTo[n] \in V
    BY <1>2, <1>10
  <2>3. QED
    BY <1>1, <1>3, <1>10, <2>1, <2>2, StepsAreTyped
<1>12. QED
  BY <1>8, <1>10, <1>11 DEF N, V, zero, step

-----------------------------------------------------------------------------
(* Fused scores.                                                           *)

LEMMA CallsAreNumbers ==
    ASSUME call \in Calls
    PROVE  /\ Depth \in Nat /\ call.top \in Nat /\ call.cap \in Nat /\ RRFK \in Nat
           /\ call.top <= Depth
           /\ call.strategy \in Strategies
<1>1. call.top \in TopKs /\ call.cap \in Caps /\ call.pool \in Pools /\ call.strategy \in Strategies
  BY DEF Calls
<1>2. Pools \subseteq Nat /\ RRFK \in Nat /\ Caps \subseteq Nat /\ TopKs \subseteq Nat
  BY FusionAssumption
<1>3. call.top \in Nat /\ call.pool \in Nat /\ call.cap \in Nat
  BY <1>1, <1>2
<1>4. QED
  BY <1>1, <1>2, <1>3 DEF Depth

\* Each rank divides the common denominator.
LEMMA RanksDivide ==
    ASSUME call \in Calls
    PROVE  /\ Denominator \in Nat
           /\ \A i \in 1..Depth : \E q \in Nat \ {0} : Denominator = q * (RRFK + i)
<1>1. Depth \in Nat /\ RRFK \in Nat
  BY CallsAreNumbers
<1>2. PICK f \in [0..Depth -> Nat] : /\ Denominator = f[Depth]
                                     /\ f[0] = 1
                                     /\ \A n \in 1..Depth : f[n] = f[n - 1] * (RRFK + n)
  BY <1>1, DenominatorSteps
<1> DEFINE D == Depth
           P(n) == f[n] > 0 /\ \A i \in 1..n : \E q \in Nat \ {0} : f[n] = q * (RRFK + i)
           S == {n \in Nat : n <= D => P(n)}
<1> HIDE DEF D
<1>3. 0 \in S
  BY <1>2
<1>4. ASSUME NEW n \in Nat, n \in S
      PROVE  n + 1 \in S
  <2>1. SUFFICES ASSUME n + 1 <= D
                 PROVE  P(n + 1)
    <3> HIDE DEF P
    <3>1. QED
      OBVIOUS
  <2>2. n <= D /\ n \in 0..D /\ n + 1 \in 1..D /\ D \in Nat
    BY <1>1, <2>1 DEF D
  <2>3. f[n] \in Nat /\ f[n] > 0 /\ \A i \in 1..n : \E q \in Nat \ {0} : f[n] = q * (RRFK + i)
    BY <1>2, <1>4, <2>2 DEF D
  <2>4. f[n + 1] = f[n] * (RRFK + (n + 1))
    <3>1. (n + 1) - 1 = n
      OBVIOUS
    <3>2. QED
      BY <1>2, <2>2, <3>1 DEF D
  <2>5. RRFK + (n + 1) \in Nat \ {0}
    BY <1>1
  <2>6. \A x, y \in Nat \ {0} : x * y \in Nat \ {0}
    OBVIOUS
  <2>7. f[n + 1] > 0
    BY <2>3, <2>4, <2>5, <2>6
  <2>8. ASSUME NEW i \in 1..(n + 1)
        PROVE  \E q \in Nat \ {0} : f[n + 1] = q * (RRFK + i)
    <3>1. CASE i = n + 1
      BY <2>3, <2>4, <3>1
    <3>2. CASE i \in 1..n
      <4>1. PICK q \in Nat \ {0} : f[n] = q * (RRFK + i)
        BY <2>3, <3>2
      <4>2. q * (RRFK + (n + 1)) \in Nat \ {0}
        BY <2>5, <2>6
      <4>3. RRFK + i \in Nat
        BY <1>1, <3>2
      <4>4. \A a, b, c \in Nat : (a * b) * c = (a * c) * b
        OBVIOUS
      <4>5. f[n + 1] = (q * (RRFK + (n + 1))) * (RRFK + i)
        BY <2>4, <2>5, <4>1, <4>3, <4>4
      <4>6. QED
        BY <4>2, <4>5
    <3>3. QED
      BY <3>1, <3>2
  <2>9. QED
    BY <2>7, <2>8
<1>5. \A n \in Nat : n \in S
  <2> HIDE DEF S
  <2>1. QED
    BY <1>3, <1>4, NatInduct
<1>6. P(D)
  <2> HIDE DEF P
  <2>1. QED
    BY <1>1, <1>5 DEF D
<1>7. f[D] \in Nat
  BY <1>1, <1>2 DEF D
<1>8. QED
  BY <1>2, <1>6, <1>7 DEF D

\* A higher rank has the larger share.
LEMMA SharesFall ==
    ASSUME call \in Calls, NEW i \in 1..Depth, NEW j \in 1..Depth
    PROVE  /\ Denominator \div (RRFK + i) \in Nat \ {0}
           /\ i < j => Denominator \div (RRFK + i) > Denominator \div (RRFK + j)
<1>1. Depth \in Nat /\ RRFK \in Nat /\ RRFK + i \in Nat \ {0} /\ RRFK + j \in Nat \ {0}
  <2>1. Depth \in Nat /\ RRFK \in Nat
    BY CallsAreNumbers
  <2>2. QED
    BY <2>1
<1>2. PICK p \in Nat \ {0} : Denominator = p * (RRFK + i)
  BY RanksDivide
<1>3. PICK q \in Nat \ {0} : Denominator = q * (RRFK + j)
  BY RanksDivide
<1>4. \A a \in Nat : \A b \in Nat \ {0} : (b * a) \div b = a
  <2> SUFFICES ASSUME NEW a \in Nat, NEW b \in Nat \ {0}
               PROVE  (b * a) \div b = a
    OBVIOUS
  <2>1. (b * a) \div b \in 0..a /\ (b = b => (b * a) \div b = a)
    BY PartOfUnit
  <2>2. QED
    BY <2>1
<1>5. \A a, b \in Nat : a * b = b * a
  OBVIOUS
<1>6. Denominator \div (RRFK + i) = p /\ Denominator \div (RRFK + j) = q
  BY <1>1, <1>2, <1>3, <1>4, <1>5
<1>7. ASSUME i < j
      PROVE  p > q
  <2> SUFFICES ASSUME q - p \in Nat
               PROVE  FALSE
    OBVIOUS
  <2>1. j - i \in Nat \ {0}
    BY <1>1, <1>7
  <2>2. \A a, b \in Nat : a * b \in Nat
    OBVIOUS
  <2>3. (q - p) * (RRFK + i) \in Nat /\ q * (j - i) \in Nat \ {0}
    BY <1>1, <2>1
  <2>4. q * (RRFK + j) = p * (RRFK + i) + (q - p) * (RRFK + i) + q * (j - i)
    <3>1. p \in Int /\ q \in Int /\ i \in Int /\ j \in Int /\ RRFK \in Int
      BY <1>1
    <3>2. QED
      BY <3>1
  <2>5. p * (RRFK + i) \in Nat
    BY <1>1, <2>2
  <2>6. QED
    BY <1>2, <1>3, <2>3, <2>4, <2>5
<1>8. QED
  BY <1>6, <1>7

\* So the share of a chunk is no smaller than that of one which ranks no higher, and
\* larger than that of one which ranks lower; it is zero for the chunks that are not ranked.
LEMMA ShareOrder ==
    ASSUME call \in Calls, NEW scores, NEW r \in Rankings(Depth, scores), NEW c, NEW d
    PROVE  /\ Share(r, c) \in Nat
           /\ c \in ChunksIn(r) => Share(r, c) > 0
           /\ c \notin ChunksIn(r) => Share(r, c) = 0
           /\ RankIn(r, c) \in 1..(Len(r) + 1)
           /\ RankIn(r, c) <= RankIn(r, d) => Share(r, c) >= Share(r, d)
           /\ RankIn(r, c) < RankIn(r, d) => Share(r, c) > Share(r, d)
<1>1. Depth \in Nat
  BY CallsAreNumbers
<1>2. /\ Len(r) \in 0..Depth
      /\ r \in [1..Len(r) -> [chunk : ChunkIds, score : scores]]
      /\ Distinct(r)
  BY <1>1, RankingsAre
<1>3. \A e : /\ e \in ChunksIn(r) <=> RankIn(r, e) \in 1..Len(r)
             /\ e \notin ChunksIn(r) => RankIn(r, e) = Len(r) + 1
  <2>1. Len(r) \in Nat
    BY <1>2
  <2> HIDE DEF Distinct
  <2>2. QED
    BY <1>2, <2>1, RankIsPlace
<1>4. \A e : Share(r, e) = IF e \in ChunksIn(r) THEN Denominator \div (RRFK + RankIn(r, e)) ELSE 0
  BY DEF Share
<1>5. \A e : RankIn(r, e) \in 1..Len(r) => RankIn(r, e) \in 1..Depth
  BY <1>1, <1>2
<1>6. \A i, j \in 1..Depth : /\ Denominator \div (RRFK + i) \in Nat \ {0}
                             /\ i < j => Denominator \div (RRFK + i) > Denominator \div (RRFK + j)
  BY SharesFall
<1>7. \A e : Share(r, e) \in Nat /\ (e \in ChunksIn(r) => Share(r, e) > 0)
             /\ RankIn(r, e) \in 1..(Len(r) + 1)
  <2> SUFFICES ASSUME NEW e
               PROVE  Share(r, e) \in Nat /\ (e \in ChunksIn(r) => Share(r, e) > 0)
                      /\ RankIn(r, e) \in 1..(Len(r) + 1)
    OBVIOUS
  <2>1. CASE e \in ChunksIn(r)
    <3>1. RankIn(r, e) \in 1..Depth /\ RankIn(r, e) \in 1..Len(r)
      BY <1>3, <1>5, <2>1
    <3>2. Denominator \div (RRFK + RankIn(r, e)) \in Nat \ {0}
      BY <1>6, <3>1
    <3>3. QED
      BY <1>2, <1>4, <2>1, <3>1, <3>2
  <2>2. CASE e \notin ChunksIn(r)
    BY <1>2, <1>3, <1>4, <2>2
  <2>3. QED
    BY <2>1, <2>2
<1>8. ASSUME RankIn(r, c) < RankIn(r, d)
      PROVE  Share(r, c) > Share(r, d)
  <2>1. RankIn(r, c) \in 1..Len(r) /\ c \in ChunksIn(r)
    BY <1>2, <1>3, <1>7, <1>8
  <2>2. CASE d \in ChunksIn(r)
    <3>1. RankIn(r, c) \in 1..Depth /\ RankIn(r, d) \in 1..Depth
      BY <1>3, <1>5, <2>1, <2>2
    <3>2. QED
      BY <1>4, <1>6, <1>8, <2>1, <2>2, <3>1
  <2>3. CASE d \notin ChunksIn(r)
    BY <1>4, <1>7, <2>1, <2>3
  <2>4. QED
    BY <2>2, <2>3
<1>9. ASSUME RankIn(r, c) = RankIn(r, d)
      PROVE  Share(r, c) = Share(r, d)
  BY <1>3, <1>4, <1>9
<1>10. ASSUME RankIn(r, c) <= RankIn(r, d)
       PROVE  Share(r, c) >= Share(r, d)
  <2>1. RankIn(r, c) < RankIn(r, d) \/ RankIn(r, c) = RankIn(r, d)
    BY <1>2, <1>7, <1>10
  <2>2. QED
    BY <1>7, <1>8, <1>9, <2>1
<1>11. QED
  BY <1>4, <1>7, <1>8, <1>10

\* The fused score of two rankings is the sum of the shares.
LEMMA FusedScore ==
    ASSUME NEW r, NEW s, NEW c, Share(r, c) \in Int, Share(s, c) \in Int
    PROVE  RRFScore(<<r, s>>, c) = Share(r, c) + Share(s, c)
<1> DEFINE both == <<r, s>>
<1>1. Len(both) = 2 /\ both[1] = r /\ both[2] = s
  OBVIOUS
<1> HIDE DEF both
<1>2. \A n \in 1..Len(both) : Share(both[n], c) \in Int
  <2>1. \A n \in 1..2 : n = 1 \/ n = 2
    OBVIOUS
  <2>2. QED
    BY <1>1, <2>1
<1>3. PICK f \in [0..Len(both) -> Int] :
               /\ RRFScore(both, c) = f[Len(both)]
               /\ f[0] = 0
               /\ \A n \in 1..Len(both) : f[n] = f[n - 1] + Share(both[n], c)
  <2>1. Len(both) \in Nat
    BY <1>1
  <2>2. QED
    BY <1>2, <2>1, RRFScoreSteps
<1>4. f[1] = f[0] + Share(both[1], c)
  <2>1. 1 \in 1..Len(both) /\ 1 - 1 = 0
    BY <1>1
  <2>2. QED
    BY <1>3, <2>1
<1>5. f[2] = f[1] + Share(both[2], c)
  <2>1. 2 \in 1..Len(both) /\ 2 - 1 = 1
    BY <1>1
  <2>2. QED
    BY <1>3, <2>1
<1>6. RRFScore(both, c) = f[2]
  BY <1>1, <1>3
<1>7. RRFScore(both, c) = Share(r, c) + Share(s, c)
  BY <1>1, <1>3, <1>4, <1>5, <1>6
<1>8. QED
  BY <1>7 DEF both

-----------------------------------------------------------------------------
(* The candidates.                                                         *)

Searched ==
    /\ dense \in Rankings(Depth, Similarities)
    /\ sparse \in Rankings(Depth, Weights)

Found == ChunksIn(dense) \cup ChunksIn(sparse)

\* The chunks of a list are finitely many, as are the items made of them.
LEMMA FinitelyMany ==
    ASSUME NEW n \in Nat, NEW T, NEW list \in [1..n -> T]
    PROVE  IsFiniteSet(ChunksIn(list))
<1> DEFINE S == {list[i].chunk : i \in 1..n}
           f == [i \in 1..n |-> list[i].chunk]
<1>1. f \in Surjection(1..n, S)
  BY DEF Surjection
<1>2. IsFiniteSet(1..n)
  BY FS_Interval
<1>3. IsFiniteSet(S)
  <2> HIDE DEF f, S
  <2>1. QED
    BY <1>1, <1>2, FS_Surjection
<1>4. ChunksIn(list) = S
  BY DEF ChunksIn
<1>5. QED
  BY <1>3, <1>4

\* Fusion ranks what either side found, by the sum of the shares.
LEMMA FusedRanking ==
    ASSUME call \in Calls, Searched
    PROVE  LET fused == ReciprocalRankFusion(<<dense, sparse>>) IN
           \E n \in Nat :
               /\ fused \in [1..n -> [chunk : ChunkIds, score : Int]]
               /\ Distinct(fused)
               /\ ChunksIn(fused) = Found
               /\ \A i \in 1..n : fused[i].score = Share(dense, fused[i].chunk) + Share(sparse, fused[i].chunk)
               /\ \A i, j \in 1..n : i < j => fused[i].score >= fused[j].score
<1> DEFINE both == <<dense, sparse>>
           fused == ReciprocalRankFusion(both)
           items == {Item(c, RRFScore(both, c)) : c \in Found}
           n == Cardinality(items)
<1>1. Depth \in Nat
  BY CallsAreNumbers
<1>2. /\ Len(dense) \in Nat /\ dense \in [1..Len(dense) -> [chunk : ChunkIds, score : Similarities]]
      /\ Len(sparse) \in Nat /\ sparse \in [1..Len(sparse) -> [chunk : ChunkIds, score : Weights]]
  BY <1>1, RankingsAre DEF Searched
<1>3. Found \subseteq ChunkIds
  <2>1. \A i \in 1..Len(dense) : dense[i].chunk \in ChunkIds
    BY <1>2
  <2>2. \A i \in 1..Len(sparse) : sparse[i].chunk \in ChunkIds
    BY <1>2
  <2>3. DOMAIN dense = 1..Len(dense) /\ DOMAIN sparse = 1..Len(sparse)
    BY <1>2
  <2>4. QED
    BY <2>1, <2>2, <2>3 DEF Found, ChunksIn
<1>4. IsFiniteSet(Found)
  <2>1. IsFiniteSet(ChunksIn(dense)) /\ IsFiniteSet(ChunksIn(sparse))
    BY <1>2, FinitelyMany
  <2>2. QED
    BY <2>1, FS_Union DEF Found
<1>5. \A c : Share(dense, c) \in Nat /\ Share(sparse, c) \in Nat
  BY ShareOrder DEF Searched
<1>6. \A c : RRFScore(both, c) = Share(dense, c) + Share(sparse, c)
  <2>1. \A c : Share(dense, c) \in Int /\ Share(sparse, c) \in Int
    BY <1>5
  <2>2. QED
    BY <2>1, FusedScore
<1>7. fused = Ranked(items)
  <2>1. UNION {ChunksIn(both[i]) : i \in DOMAIN both} = Found
    <3>1. DOMAIN both = {1, 2} /\ both[1] = dense /\ both[2] = sparse
      OBVIOUS
    <3> HIDE DEF both
    <3>2. QED
      BY <3>1 DEF Found
  <2> HIDE DEF both
  <2>2. QED
    BY <2>1 DEF ReciprocalRankFusion
<1> HIDE DEF both
<1>8. IsFiniteSet(items)
  <2> DEFINE f == [c \in Found |-> Item(c, RRFScore(both, c))]
  <2>1. f \in Surjection(Found, items)
    BY DEF Surjection
  <2> HIDE DEF f, items
  <2>2. QED
    BY <1>4, <2>1, FS_Surjection
<1>9. \A x \in items : /\ x.chunk \in Found /\ x.score = Share(dense, x.chunk) + Share(sparse, x.chunk)
                       /\ x \in [chunk : ChunkIds, score : Int]
  <2> SUFFICES ASSUME NEW c \in Found
               PROVE  LET x == Item(c, RRFScore(both, c)) IN
                      /\ x.chunk \in Found /\ x.score = Share(dense, x.chunk) + Share(sparse, x.chunk)
                      /\ x \in [chunk : ChunkIds, score : Int]
    OBVIOUS
  <2> DEFINE x == Item(c, RRFScore(both, c))
  <2>1. x.chunk = c /\ x.score = RRFScore(both, c) /\ RRFScore(both, c) \in Int
    BY <1>5, <1>6 DEF Item
  <2>2. x \in [chunk : ChunkIds, score : Int]
    BY <1>3, <2>1 DEF Item
  <2>3. QED
    BY <1>6, <2>1, <2>2
<1>10. \A x, y \in items : x.chunk = y.chunk => x = y
  BY DEF Item
<1>11. \A c \in Found : \E x \in items : x.chunk = c
  <2>1. \A c \in Found : Item(c, RRFScore(both, c)).chunk = c /\ Item(c, RRFScore(both, c)) \in items
    BY DEF Item
  <2> HIDE DEF items
  <2>2. QED
    BY <2>1
<1> HIDE DEF items
<1>12. \A x \in items : x.chunk \in Nat /\ x.score \in Int
  <2>1. ChunkIds \subseteq Nat
    BY FusionAssumption
  <2>2. QED
    BY <1>9, <2>1
<1>13. /\ n \in Nat
       /\ fused \in [1..n -> items]
       /\ Distinct(fused)
       /\ \A x \in items : \E i \in 1..n : fused[i] = x
       /\ \A i, j \in 1..n : i < j => Ahead(fused[i], fused[j])
  BY <1>7, <1>8, <1>10, <1>12, RankedEnumerates
<1> HIDE DEF fused, n
<1>14. fused \in [1..n -> [chunk : ChunkIds, score : Int]]
  BY <1>9, <1>13
<1>15. ChunksIn(fused) = Found
  <2>1. DOMAIN fused = 1..n /\ \A i \in 1..n : fused[i] \in items
    BY <1>13
  <2>2. \A i \in 1..n : fused[i].chunk \in Found
    BY <1>9, <2>1
  <2>3. \A c \in Found : \E i \in 1..n : fused[i].chunk = c
    BY <1>11, <1>13
  <2>4. QED
    BY <2>1, <2>2, <2>3 DEF ChunksIn
<1>16. \A i \in 1..n : fused[i].score = Share(dense, fused[i].chunk) + Share(sparse, fused[i].chunk)
  BY <1>9, <1>13
<1>17. \A i, j \in 1..n : i < j => fused[i].score >= fused[j].score
  <2> SUFFICES ASSUME NEW i \in 1..n, NEW j \in 1..n, i < j
               PROVE  fused[i].score >= fused[j].score
    OBVIOUS
  <2>1. Ahead(fused[i], fused[j]) /\ fused[i].score \in Int /\ fused[j].score \in Int
    BY <1>12, <1>13
  <2>2. QED
    BY <2>1 DEF Ahead
<1>18. QED
  BY <1>13, <1>14, <1>15, <1>16, <1>17 DEF fused, both

\* The score of a chunk in a ranking, 0 for no rank; a first chunk has the highest.
LEMMA ScoresAre ==
    ASSUME NEW limit \in Nat, NEW scores, scores \subseteq Int, NEW r \in Rankings(limit, scores)
    PROVE  /\ \A c : ScoreIn(r, c) \in Int
           /\ \A c : ScoreIn(r, c) \in scores \/ ScoreIn(r, c) = 0
           /\ \A c : c \in ChunksIn(r) /\ RankIn(r, c) = 1 /\ (\A i \in DOMAIN r : r[i].score > 0) =>
                         ScoreIn(r, c) > 0 /\ \A d : ScoreIn(r, d) <= ScoreIn(r, c)
<1>1. /\ Len(r) \in Nat /\ DOMAIN r = 1..Len(r) /\ Distinct(r)
      /\ r \in [1..Len(r) -> [chunk : ChunkIds, score : scores]]
      /\ \A i, j \in 1..Len(r) : i < j => r[i].score >= r[j].score
  BY RankingsAre
<1>2. \A c : c \in ChunksIn(r) => RankIn(r, c) \in 1..Len(r)
  <2> HIDE DEF Distinct
  <2>1. QED
    BY <1>1, RankIsPlace
<1>3. \A i \in 1..Len(r) : r[i].score \in scores /\ r[i].score \in Int
  BY <1>1
<1>4. \A c : ScoreIn(r, c) = IF c \in ChunksIn(r) THEN r[RankIn(r, c)].score ELSE 0
  BY DEF ScoreIn
<1>5. \A c : ScoreIn(r, c) \in Int /\ (ScoreIn(r, c) \in scores \/ ScoreIn(r, c) = 0)
  BY <1>2, <1>3, <1>4
<1>6. ASSUME NEW c, c \in ChunksIn(r), RankIn(r, c) = 1, \A i \in 1..Len(r) : r[i].score > 0
      PROVE  ScoreIn(r, c) > 0 /\ \A d : ScoreIn(r, d) <= ScoreIn(r, c)
  <2>1. 1 \in 1..Len(r) /\ ScoreIn(r, c) = r[1].score
    BY <1>2, <1>4, <1>6
  <2>2. \A i \in 1..Len(r) : r[i].score <= r[1].score
    <3> SUFFICES ASSUME NEW i \in 1..Len(r)
                 PROVE  r[i].score <= r[1].score
      OBVIOUS
    <3>1. i = 1 \/ 1 < i
      BY <1>1
    <3>2. QED
      BY <1>1, <1>3, <2>1, <3>1
  <2>3. r[1].score > 0
    BY <1>6, <2>1
  <2>4. ASSUME NEW d
        PROVE  ScoreIn(r, d) <= ScoreIn(r, c)
    <3>1. CASE d \in ChunksIn(r)
      BY <1>2, <1>4, <2>1, <2>2, <3>1
    <3>2. CASE d \notin ChunksIn(r)
      BY <1>3, <1>4, <2>1, <2>3, <3>2
    <3>3. QED
      BY <3>1, <3>2
  <2>5. QED
    BY <2>1, <2>3, <2>4
<1>7. QED
  BY <1>1, <1>5, <1>6

Items == [chunk : ChunkIds, score : Int]

\* The first items of a list.
LEMMA FirstItems ==
    \A k, n \in Nat : \A list \in [1..n -> Items] :
        \E m \in Nat :
            /\ First(k, list) \in [1..m -> Items]
            /\ m <= n /\ m <= k /\ (m = n \/ m = k)
            /\ \A i \in 1..m : First(k, list)[i] = list[i]
<1> SUFFICES ASSUME NEW k \in Nat, NEW n \in Nat, NEW list \in [1..n -> Items]
             PROVE  \E m \in Nat :
                        /\ First(k, list) \in [1..m -> Items]
                        /\ m <= n /\ m <= k /\ (m = n \/ m = k)
                        /\ \A i \in 1..m : First(k, list)[i] = list[i]
  OBVIOUS
<1>1. list \in Seq(Items) /\ Len(list) = n
  OBVIOUS
<1> DEFINE m == IF k < n THEN k ELSE n
           f == SubSeq(list, 1, m)
<1>2. m \in Nat /\ m <= n /\ m <= k /\ (m = n \/ m = k)
  OBVIOUS
<1>3. First(k, list) = f
  BY <1>1 DEF First
<1> HIDE DEF m
<1>4. f \in Seq(Items) /\ Len(f) = m
  BY <1>1, <1>2
<1>5. \A i \in 1..m : f[i] = list[i]
  BY <1>1, <1>2
<1> HIDE DEF f
<1>6. f \in [1..m -> Items]
  BY <1>4
<1>7. QED
  BY <1>2, <1>3, <1>5, <1>6

\* What a list of distinct chunks keeps of this when its scores change, or it is cut.
LEMMA StaysDistinct ==
    ASSUME NEW n \in Nat, NEW r, DOMAIN r = 1..n, Distinct(r),
           NEW m \in Nat, NEW s, DOMAIN s = 1..m, m <= n, \A i \in 1..m : s[i].chunk = r[i].chunk
    PROVE  Distinct(s)
<1>1. \A i, j \in 1..n : r[i].chunk = r[j].chunk => i = j
  BY DEF Distinct
<1>2. \A i, j \in 1..m : s[i].chunk = s[j].chunk => i = j
  BY <1>1
<1>3. QED
  BY <1>2 DEF Distinct

\* The items of a ranking are items with some score.
LEMMA AnyScores ==
    ASSUME NEW n \in Nat, NEW scores, scores \subseteq Int,
           NEW r \in [1..n -> [chunk : ChunkIds, score : scores]]
    PROVE  r \in [1..n -> [chunk : ChunkIds, score : Int]] /\ [i \in 1..n |-> r[i].score] \in [1..n -> Int]
<1>1. \A i \in 1..n : r[i] \in [chunk : ChunkIds, score : Int] /\ r[i].score \in Int
  <2>1. \A i \in 1..n : r[i] \in [chunk : ChunkIds, score : scores]
    OBVIOUS
  <2>2. QED
    BY <2>1
<1>2. QED
  BY <1>1

\* The combined score of a chunk is at least its normalized score on each side.
LEMMA CombinedScores ==
    ASSUME call \in Calls, Searched,
           NEW n \in Nat, NEW fused \in [1..n -> [chunk : ChunkIds, score : Int]], Distinct(fused)
    PROVE  LET combined == CombineScores(fused) IN
           /\ combined \in [1..n -> [chunk : ChunkIds, score : Int]]
           /\ \A i \in 1..n : combined[i].chunk = fused[i].chunk
           /\ Distinct(combined)
           /\ \A i \in 1..n :
                  /\ fused[i].chunk \in ChunksIn(sparse)
                  /\ RankIn(sparse, fused[i].chunk) = 1
                  => combined[i].score >= Unit
           /\ \A i \in 1..n :
                  /\ fused[i].chunk \in ChunksIn(dense)
                  /\ RankIn(dense, fused[i].chunk) = 1
                  /\ \A j \in DOMAIN dense : dense[j].score > 0
                  => combined[i].score >= Unit
<1> DEFINE x == [i \in 1..n |-> ScoreIn(dense, fused[i].chunk)]
           y == [i \in 1..n |-> ScoreIn(sparse, fused[i].chunk)]
           sims == MinMaxNormalize(x)
           lex == MinMaxNormalize(y)
           combined == CombineScores(fused)
<1>1. Depth \in Nat
  BY CallsAreNumbers
<1>2. Similarities \subseteq Int /\ Weights \subseteq Int /\ (\A w \in Weights : w > 0) /\ Unit \in Nat
  BY FusionAssumption
<1>3. /\ \A c : ScoreIn(dense, c) \in Int
      /\ \A c : c \in ChunksIn(dense) /\ RankIn(dense, c) = 1 /\ (\A i \in DOMAIN dense : dense[i].score > 0)
                    => ScoreIn(dense, c) > 0 /\ \A d : ScoreIn(dense, d) <= ScoreIn(dense, c)
  BY <1>1, <1>2, ScoresAre DEF Searched
<1>4. /\ \A c : ScoreIn(sparse, c) \in Int
      /\ \A c : c \in ChunksIn(sparse) /\ RankIn(sparse, c) = 1 /\ (\A i \in DOMAIN sparse : sparse[i].score > 0)
                    => ScoreIn(sparse, c) > 0 /\ \A d : ScoreIn(sparse, d) <= ScoreIn(sparse, c)
  BY <1>1, <1>2, ScoresAre DEF Searched
<1>5. \A i \in DOMAIN sparse : sparse[i].score > 0
  <2>1. sparse \in [1..Len(sparse) -> [chunk : ChunkIds, score : Weights]]
    BY <1>1, RankingsAre DEF Searched
  <2>2. QED
    BY <1>2, <2>1
<1>6. x \in [1..n -> Int] /\ y \in [1..n -> Int]
  BY <1>3, <1>4
<1>7. DOMAIN fused = 1..n
  OBVIOUS
<1>8. combined = [i \in 1..n |-> Item(fused[i].chunk, sims[i] + lex[i])]
  <2> HIDE DEF x, y
  <2>1. [i \in DOMAIN fused |-> ScoreIn(dense, fused[i].chunk)] = x
    BY <1>7 DEF x
  <2>2. [i \in DOMAIN fused |-> ScoreIn(sparse, fused[i].chunk)] = y
    BY <1>7 DEF y
  <2>3. QED
    BY <1>7, <2>1, <2>2 DEF CombineScores
<1>9. \A i \in 1..n : x[i] = ScoreIn(dense, fused[i].chunk) /\ y[i] = ScoreIn(sparse, fused[i].chunk)
  OBVIOUS
<1> HIDE DEF x, y
<1>10. /\ sims \in [1..n -> 0..Unit]
       /\ \A i \in 1..n : x[i] > 0 /\ (\A j \in 1..n : x[j] <= x[i]) => sims[i] = Unit
  BY <1>6, NormalizedScores
<1>11. /\ lex \in [1..n -> 0..Unit]
       /\ \A i \in 1..n : y[i] > 0 /\ (\A j \in 1..n : y[j] <= y[i]) => lex[i] = Unit
  BY <1>6, NormalizedScores
<1> HIDE DEF sims, lex, combined
<1>12. \A i \in 1..n : /\ combined[i].chunk = fused[i].chunk
                       /\ combined[i].score = sims[i] + lex[i]
                       /\ combined[i] \in [chunk : ChunkIds, score : Int]
  <2> SUFFICES ASSUME NEW i \in 1..n
               PROVE  /\ combined[i].chunk = fused[i].chunk
                      /\ combined[i].score = sims[i] + lex[i]
                      /\ combined[i] \in [chunk : ChunkIds, score : Int]
    OBVIOUS
  <2>1. combined[i] = Item(fused[i].chunk, sims[i] + lex[i])
    BY <1>8
  <2>2. fused[i].chunk \in ChunkIds /\ sims[i] \in Int /\ lex[i] \in Int
    BY <1>2, <1>10, <1>11
  <2>3. QED
    BY <2>1, <2>2 DEF Item
<1>13. combined \in [1..n -> [chunk : ChunkIds, score : Int]]
  BY <1>8, <1>12
<1>14. Distinct(combined)
  <2>1. DOMAIN combined = 1..n
    BY <1>13
  <2> HIDE DEF Distinct
  <2>2. QED
    BY <1>7, <1>12, <2>1, StaysDistinct
<1>15. \A i \in 1..n : sims[i] \in 0..Unit /\ lex[i] \in 0..Unit
  BY <1>10, <1>11
<1>16. ASSUME NEW i \in 1..n, fused[i].chunk \in ChunksIn(sparse), RankIn(sparse, fused[i].chunk) = 1
       PROVE  combined[i].score >= Unit
  <2>1. y[i] > 0 /\ \A j \in 1..n : y[j] <= y[i]
    BY <1>4, <1>5, <1>9, <1>16
  <2>2. lex[i] = Unit
    BY <1>11, <2>1
  <2>3. QED
    BY <1>2, <1>12, <1>15, <2>2
<1>17. ASSUME NEW i \in 1..n, fused[i].chunk \in ChunksIn(dense), RankIn(dense, fused[i].chunk) = 1,
              \A j \in DOMAIN dense : dense[j].score > 0
       PROVE  combined[i].score >= Unit
  <2>1. x[i] > 0 /\ \A j \in 1..n : x[j] <= x[i]
    BY <1>3, <1>9, <1>17
  <2>2. sims[i] = Unit
    BY <1>10, <2>1
  <2>3. QED
    BY <1>2, <1>12, <1>15, <2>2
<1>18. QED
  BY <1>12, <1>13, <1>14, <1>16, <1>17 DEF combined

\* The candidates are at most as many distinct chunks as the depth.
LEMMA CandidatesAre ==
    ASSUME call \in Calls, Searched
    PROVE  Distinct(Candidates) /\ IsList(Candidates, Depth, Int)
<1>1. Depth \in Nat /\ call.strategy \in Strategies
  BY CallsAreNumbers
<1>2. Similarities \subseteq Int /\ Weights \subseteq Int /\ (\A w \in Weights : w > 0) /\ Unit \in Nat
  BY FusionAssumption
<1>3. /\ Len(dense) \in 0..Depth /\ Distinct(dense)
      /\ dense \in [1..Len(dense) -> [chunk : ChunkIds, score : Similarities]]
      /\ Len(sparse) \in 0..Depth /\ Distinct(sparse)
      /\ sparse \in [1..Len(sparse) -> [chunk : ChunkIds, score : Weights]]
  BY <1>1, RankingsAre DEF Searched
<1> HIDE DEF Distinct
<1>4. ASSUME NEW n \in Nat, NEW list \in [1..n -> Items], Distinct(list)
      PROVE  Distinct(First(Depth, list)) /\ IsList(First(Depth, list), Depth, Int)
  <2> DEFINE s == First(Depth, list)
  <2>1. PICK m \in Nat : /\ s \in [1..m -> Items] /\ m <= n /\ m <= Depth
                         /\ \A i \in 1..m : s[i] = list[i]
    <3>1. \E m \in Nat : /\ First(Depth, list) \in [1..m -> Items]
                         /\ m <= n /\ m <= Depth /\ (m = n \/ m = Depth)
                         /\ \A i \in 1..m : First(Depth, list)[i] = list[i]
      BY <1>1, <1>4, FirstItems
    <3>2. QED
      BY <3>1
  <2> HIDE DEF s
  <2>2. Distinct(s)
    <3>1. DOMAIN s = 1..m /\ DOMAIN list = 1..n
      BY <1>4, <2>1
    <3>2. QED
      BY <1>4, <2>1, <3>1, StaysDistinct
  <2>3. m \in 0..Depth
    BY <1>1, <2>1
  <2>4. QED
    BY <2>1, <2>2, <2>3 DEF s, Items, IsList
<1>5. CASE call.strategy = "hybrid"
  <2>1. PICK n \in Nat :
            /\ ReciprocalRankFusion(<<dense, sparse>>) \in [1..n -> Items]
            /\ Distinct(ReciprocalRankFusion(<<dense, sparse>>))
    BY FusedRanking DEF Items
  <2>2. /\ CombineScores(ReciprocalRankFusion(<<dense, sparse>>)) \in [1..n -> Items]
        /\ Distinct(CombineScores(ReciprocalRankFusion(<<dense, sparse>>)))
    BY <2>1, CombinedScores DEF Items
  <2>3. Candidates = First(Depth, CombineScores(ReciprocalRankFusion(<<dense, sparse>>)))
    BY <1>5 DEF Candidates
  <2>4. QED
    BY <1>4, <2>2, <2>3
<1>6. CASE call.strategy = "dense"
  <2>1. dense \in [1..Len(dense) -> Items] /\ Len(dense) \in Nat
    <3>1. Len(dense) \in Nat
      BY <1>1, <1>3
    <3>2. QED
      BY <1>2, <1>3, <3>1, AnyScores DEF Items
  <2>2. Candidates = First(Depth, dense)
    BY <1>6 DEF Candidates
  <2>3. QED
    BY <1>3, <1>4, <2>1, <2>2
<1>7. CASE call.strategy = "sparse"
  <2> DEFINE n == Len(sparse)
             v == [i \in 1..n |-> sparse[i].score]
             lex == MinMaxNormalize(v)
             s == Candidates
  <2>1. n \in Nat /\ DOMAIN sparse = 1..n /\ v \in [1..n -> Int]
    <3>1. n \in Nat /\ DOMAIN sparse = 1..n
      BY <1>1, <1>3
    <3>2. QED
      BY <1>2, <1>3, <3>1, AnyScores
  <2>2. s = [i \in 1..n |-> Item(sparse[i].chunk, 2 * lex[i])]
    <3>1. Candidates = NormalizeSparse
      BY <1>7 DEF Candidates
    <3>2. [i \in DOMAIN sparse |-> sparse[i].score] = v
      BY <2>1
    <3> HIDE DEF v, n
    <3>3. QED
      BY <2>1, <3>1, <3>2 DEF NormalizeSparse
  <2> HIDE DEF v, n, s
  <2>3. lex \in [1..n -> 0..Unit]
    BY <2>1, NormalizedScores
  <2> HIDE DEF lex
  <2>4. \A i \in 1..n : s[i].chunk = sparse[i].chunk /\ s[i] \in Items
    <3> SUFFICES ASSUME NEW i \in 1..n
                 PROVE  s[i].chunk = sparse[i].chunk /\ s[i] \in Items
      OBVIOUS
    <3>1. sparse[i].chunk \in ChunkIds
      BY <1>3 DEF n
    <3>2. 2 * lex[i] \in Int
      BY <1>2, <2>3
    <3>3. QED
      BY <2>2, <3>1, <3>2 DEF Item, Items
  <2>5. s \in [1..n -> Items]
    <3>1. QED
      BY <2>2, <2>4
  <2>6. Distinct(s)
    <3>1. DOMAIN s = 1..n /\ n <= n
      BY <2>1, <2>5
    <3>2. QED
      BY <1>3, <2>1, <2>4, <3>1, StaysDistinct
  <2>7. n \in 0..Depth
    BY <1>3 DEF n
  <2>8. QED
    BY <2>5, <2>6, <2>7 DEF s, Items, IsList
<1>8. QED
  BY <1>1, <1>5, <1>6, <1>7 DEF Strategies

-----------------------------------------------------------------------------
(* The cap.                                                                *)

\* How many chunks of a document are in a list.
DocShare(list, d) == Cardinality({c \in ChunksIn(list) : DocOf[c] = d})

\* It is counted over the places of the list.
LEMMA DocShareIsCounted ==
    ASSUME NEW list \in Seq(Items), Distinct(list), NEW d
    PROVE  /\ Cardinality({i \in DOMAIN list : DocOf[list[i].chunk] = d}) = DocShare(list, d)
           /\ DocShare(list, d) \in Nat
           /\ IsFiniteSet({c \in ChunksIn(list) : DocOf[c] = d})
<1> DEFINE I == {i \in DOMAIN list : DocOf[list[i].chunk] = d}
           C == {c \in ChunksIn(list) : DocOf[c] = d}
           g == [i \in I |-> list[i].chunk]
<1>1. Len(list) \in Nat /\ DOMAIN list = 1..Len(list)
  OBVIOUS
<1>2. IsFiniteSet(I)
  <2>1. IsFiniteSet(1..Len(list)) /\ I \in SUBSET (1..Len(list))
    BY <1>1, FS_Interval
  <2> HIDE DEF I
  <2>2. QED
    BY <2>1, FS_Subset
<1>3. g \in [I -> C]
  BY DEF ChunksIn
<1>4. \A c \in C : \E i \in I : g[i] = c
  BY DEF ChunksIn
<1>5. \A i, j \in I : g[i] = g[j] => i = j
  BY DEF Distinct
<1> HIDE DEF I, C, g
<1>6. g \in Surjection(I, C) /\ g \in Injection(I, C)
  BY <1>3, <1>4, <1>5 DEF Surjection, Injection, IsInjective
<1>7. IsFiniteSet(C) /\ Cardinality(C) = Cardinality(I)
  BY <1>2, <1>6, FS_Surjection
<1>8. Cardinality(C) \in Nat
  BY <1>7, FS_CardinalityType
<1>9. QED
  BY <1>7, <1>8 DEF I, C, DocShare

\* One step of the walk: the item is kept, or the list is full or has its document's share.
LEMMA OneKept ==
    ASSUME call \in Calls, NEW w \in Seq(Items), Distinct(w), Len(w) <= call.top,
           \A d : DocShare(w, d) <= call.cap,
           NEW item \in Items, item.chunk \notin ChunksIn(w)
    PROVE  \/ /\ Keep(w, item) = w
              /\ Len(w) = call.top \/ DocShare(w, DocOf[item.chunk]) = call.cap
           \/ LET v == Append(w, item) IN
              /\ Keep(w, item) = v
              /\ Len(w) # call.top /\ Len(v) <= call.top
              /\ DocShare(w, DocOf[item.chunk]) # call.cap
              /\ ChunksIn(v) = ChunksIn(w) \cup {item.chunk}
              /\ Distinct(v)
              /\ \A d : DocShare(v, d) <= call.cap
              /\ \A d : d # DocOf[item.chunk] => DocShare(v, d) = DocShare(w, d)
<1> DEFINE e == DocOf[item.chunk]
           v == Append(w, item)
<1>1. call.top \in Nat /\ call.cap \in Nat /\ Len(w) \in Nat
  BY CallsAreNumbers
<1>2. \A d : DocShare(w, d) \in Nat /\ IsFiniteSet({c \in ChunksIn(w) : DocOf[c] = d})
  BY DocShareIsCounted
<1>3. Keep(w, item) = IF Len(w) >= call.top \/ DocShare(w, e) >= call.cap THEN w ELSE v
  <2>1. Cardinality({i \in DOMAIN w : DocOf[w[i].chunk] = e}) = DocShare(w, e)
    BY DocShareIsCounted
  <2>2. QED
    BY <2>1 DEF Keep
<1>4. CASE Len(w) >= call.top \/ DocShare(w, e) >= call.cap
  <2>1. DocShare(w, e) \in Nat /\ DocShare(w, e) <= call.cap
    BY <1>2
  <2> HIDE DEF e
  <2>2. Len(w) = call.top \/ DocShare(w, e) = call.cap
    BY <1>1, <1>4, <2>1
  <2>3. QED
    BY <1>3, <1>4, <2>2 DEF e
<1>5. CASE ~(Len(w) >= call.top \/ DocShare(w, e) >= call.cap)
  <2>0. DocShare(w, e) \in Nat /\ DocShare(w, e) <= call.cap
    BY <1>2
  <2>1. Keep(w, item) = v /\ Len(w) # call.top /\ DocShare(w, e) # call.cap
        /\ Len(w) + 1 <= call.top /\ DocShare(w, e) + 1 <= call.cap
    <3> HIDE DEF e, v
    <3>1. QED
      BY <1>1, <1>3, <1>5, <2>0
  <2>2. /\ Len(v) = Len(w) + 1 /\ DOMAIN v = 1..(Len(w) + 1) /\ DOMAIN w = 1..Len(w)
        /\ v[Len(w) + 1] = item /\ \A i \in 1..Len(w) : v[i] = w[i]
    BY <1>1
  <2> HIDE DEF v
  <2>3. \A i \in 1..(Len(w) + 1) : i = Len(w) + 1 \/ i \in 1..Len(w)
    BY <1>1
  <2>4. ChunksIn(w) = {w[i].chunk : i \in 1..Len(w)} /\ ChunksIn(v) = {v[i].chunk : i \in 1..(Len(w) + 1)}
    BY <2>2 DEF ChunksIn
  <2>5. ChunksIn(v) = ChunksIn(w) \cup {item.chunk}
    <3>1. ASSUME NEW i \in 1..(Len(w) + 1)
          PROVE  v[i].chunk \in ChunksIn(w) \cup {item.chunk}
      BY <2>2, <2>3, <2>4
    <3>2. ASSUME NEW i \in 1..Len(w)
          PROVE  w[i].chunk \in ChunksIn(v)
      <4>1. i \in 1..(Len(w) + 1)
        BY <1>1
      <4>2. QED
        BY <2>2, <2>4, <4>1
    <3>3. item.chunk \in ChunksIn(v)
      <4>1. Len(w) + 1 \in 1..(Len(w) + 1)
        BY <1>1
      <4>2. QED
        BY <2>2, <2>4, <4>1
    <3>4. QED
      BY <2>4, <3>1, <3>2, <3>3
  <2>6. Distinct(v)
    <3>1. \A i \in 1..Len(w) : w[i].chunk # item.chunk
      BY <2>4
    <3>2. \A i, j \in 1..Len(w) : w[i].chunk = w[j].chunk => i = j
      BY <2>2 DEF Distinct
    <3>3. \A i, j \in 1..(Len(w) + 1) : v[i].chunk = v[j].chunk => i = j
      BY <2>2, <2>3, <3>1, <3>2
    <3>4. QED
      BY <2>2, <3>3 DEF Distinct
  <2>7. \A d : d # e => DocShare(v, d) = DocShare(w, d)
    <3> SUFFICES ASSUME NEW d, d # e
                 PROVE  DocShare(v, d) = DocShare(w, d)
      OBVIOUS
    <3>1. {c \in ChunksIn(v) : DocOf[c] = d} = {c \in ChunksIn(w) : DocOf[c] = d}
      BY <2>5
    <3>2. QED
      BY <3>1 DEF DocShare
  <2>8. DocShare(v, e) = DocShare(w, e) + 1
    <3> DEFINE C == {c \in ChunksIn(w) : DocOf[c] = e}
    <3>1. {c \in ChunksIn(v) : DocOf[c] = e} = C \cup {item.chunk} /\ item.chunk \notin C
      BY <2>5
    <3>2. IsFiniteSet(C)
      BY <1>2
    <3>3. DocShare(w, e) = Cardinality(C) /\ DocShare(v, e) = Cardinality(C \cup {item.chunk})
      BY <3>1 DEF DocShare
    <3> HIDE DEF C
    <3>4. QED
      BY <3>1, <3>2, <3>3, FS_AddElement
  <2>9. \A d : DocShare(v, d) <= call.cap
    BY <2>1, <2>7, <2>8
  <2>10. QED
    BY <2>1, <2>2, <2>5, <2>6, <2>7, <2>9 DEF v
<1>6. QED
  BY <1>4, <1>5

\* What the cap keeps, and what it leaves out and why.
LEMMA Capped ==
    ASSUME call \in Calls, NEW n \in Nat, NEW items \in [1..n -> Items], Distinct(items)
    PROVE  LET kept == CapPerDocument(items) IN
           /\ IsList(kept, call.top, Int)
           /\ \A c \in ChunksIn(items) \ ChunksIn(kept) :
                  \/ Len(kept) = call.top
                  \/ call.cap > 0 /\ DocShare(kept, DocOf[c]) = call.cap
           /\ call.cap > 0 => \A d : DocShare(kept, d) <= call.cap
<1> DEFINE kept == CapPerDocument(items)
<1>1. call.top \in Nat /\ call.cap \in Nat
  BY CallsAreNumbers
<1>2. items \in Seq(Items) /\ Len(items) = n /\ DOMAIN items = 1..n
  OBVIOUS
<1>3. ChunksIn(items) = {items[i].chunk : i \in 1..n}
  BY <1>2 DEF ChunksIn
<1>4. CASE call.cap = 0
  <2>1. kept = First(call.top, items)
    BY <1>4 DEF CapPerDocument
  <2>2. PICK m \in Nat : /\ First(call.top, items) \in [1..m -> Items]
                         /\ m <= n /\ m <= call.top /\ (m = n \/ m = call.top)
                         /\ \A i \in 1..m : First(call.top, items)[i] = items[i]
    BY <1>1, FirstItems
  <2> HIDE DEF kept
  <2>3. kept \in [1..m -> Items] /\ Len(kept) = m /\ DOMAIN kept = 1..m
    BY <2>1, <2>2
  <2>4. IsList(kept, call.top, Int)
    <3>1. m \in 0..call.top
      BY <1>1, <2>2
    <3>2. QED
      BY <2>3, <3>1 DEF IsList, Items
  <2>5. m = n => ChunksIn(items) = ChunksIn(kept)
    BY <1>2, <2>1, <2>2, <2>3 DEF ChunksIn
  <2>6. QED
    BY <1>4, <2>2, <2>3, <2>4, <2>5 DEF kept
<1>5. CASE call.cap # 0
  <2>1. PICK f \in [0..n -> Seq(Items)] : /\ kept = f[n]
                                          /\ f[0] = << >>
                                          /\ \A k \in 1..n : f[k] = Keep(f[k - 1], items[k])
    BY <1>2, <1>5, CapSteps
  <2> HIDE DEF kept
  <2> DEFINE Walked(k, w) ==
                 /\ Distinct(w) /\ Len(w) <= call.top
                 /\ \A d : DocShare(w, d) <= call.cap
                 /\ \A c \in ChunksIn(w) : \E j \in 1..k : items[j].chunk = c
                 /\ \A j \in 1..k : \/ items[j].chunk \in ChunksIn(w)
                                    \/ Len(w) = call.top
                                    \/ DocShare(w, DocOf[items[j].chunk]) = call.cap
             S == {k \in Nat : k <= n => Walked(k, f[k])}
  <2>2. 0 \in S
    <3>1. ChunksIn(<< >>) = {} /\ Distinct(<< >>) /\ Len(<< >>) = 0
      BY DEF ChunksIn, Distinct
    <3>2. \A d : DocShare(<< >>, d) = 0
      <4>1. \A d : {c \in ChunksIn(<< >>) : DocOf[c] = d} = {}
        BY <3>1
      <4>2. QED
        BY <4>1, FS_EmptySet DEF DocShare
    <3>3. Walked(0, << >>)
      BY <1>1, <3>1, <3>2
    <3> HIDE DEF Walked
    <3>4. QED
      BY <2>1, <3>3
  <2>3. ASSUME NEW k \in Nat, k \in S
        PROVE  k + 1 \in S
    <3>1. SUFFICES ASSUME k + 1 <= n
                   PROVE  Walked(k + 1, f[k + 1])
      <4> HIDE DEF Walked
      <4>1. QED
        OBVIOUS
    <3> DEFINE w == f[k]
               item == items[k + 1]
               v == f[k + 1]
    <3>2. k + 1 \in 1..n /\ (k + 1) - 1 = k /\ k \in 0..n /\ k <= n
      BY <3>1
    <3>3. w \in Seq(Items) /\ v \in Seq(Items) /\ item \in Items /\ v = Keep(w, item)
      <4>1. k + 1 \in 0..n
        BY <3>2
      <4>2. QED
        BY <2>1, <3>2, <4>1
    <3>4. Walked(k, w)
      <4> HIDE DEF Walked
      <4>1. QED
        BY <2>3, <3>2
    <3> HIDE DEF w, v
    <3>5. \A j \in 1..(k + 1) : j \in 1..k \/ j = k + 1
      OBVIOUS
    <3>6. \A j \in 1..k : j \in 1..(k + 1) /\ j \in 1..n /\ j # k + 1
      BY <3>2
    <3>7. item.chunk \notin ChunksIn(w)
      BY <1>2, <3>2, <3>4, <3>6 DEF Distinct
    <3> HIDE DEF item
    <3>8. \/ /\ v = w
             /\ Len(w) = call.top \/ DocShare(w, DocOf[item.chunk]) = call.cap
          \/ /\ v = Append(w, item)
             /\ Len(w) # call.top /\ Len(v) <= call.top
             /\ DocShare(w, DocOf[item.chunk]) # call.cap
             /\ ChunksIn(v) = ChunksIn(w) \cup {item.chunk}
             /\ Distinct(v)
             /\ \A d : DocShare(v, d) <= call.cap
             /\ \A d : d # DocOf[item.chunk] => DocShare(v, d) = DocShare(w, d)
      <4>1. Distinct(w) /\ Len(w) <= call.top /\ \A d : DocShare(w, d) <= call.cap
        BY <3>4
      <4> HIDE DEF Walked
      <4>2. \/ /\ Keep(w, item) = w
               /\ Len(w) = call.top \/ DocShare(w, DocOf[item.chunk]) = call.cap
            \/ /\ Keep(w, item) = Append(w, item)
               /\ Len(w) # call.top /\ Len(Append(w, item)) <= call.top
               /\ DocShare(w, DocOf[item.chunk]) # call.cap
               /\ ChunksIn(Append(w, item)) = ChunksIn(w) \cup {item.chunk}
               /\ Distinct(Append(w, item))
               /\ \A d : DocShare(Append(w, item), d) <= call.cap
               /\ \A d : d # DocOf[item.chunk] => DocShare(Append(w, item), d) = DocShare(w, d)
        BY <3>3, <3>7, <4>1, OneKept, Zenon
      <4>3. QED
        BY <3>3, <4>2
    <3>9. CASE /\ v = w
               /\ Len(w) = call.top \/ DocShare(w, DocOf[item.chunk]) = call.cap
      <4>1. \A c \in ChunksIn(w) : \E j \in 1..(k + 1) : items[j].chunk = c
        BY <3>4, <3>6
      <4>2. \A j \in 1..(k + 1) : \/ items[j].chunk \in ChunksIn(w)
                                  \/ Len(w) = call.top
                                  \/ DocShare(w, DocOf[items[j].chunk]) = call.cap
        BY <3>4, <3>5, <3>9 DEF item
      <4>3. Walked(k + 1, w)
        BY <3>4, <4>1, <4>2
      <4> HIDE DEF Walked
      <4>4. QED
        BY <3>9, <4>3 DEF v
    <3>10. CASE /\ v = Append(w, item)
                /\ Len(w) # call.top /\ Len(v) <= call.top
                /\ DocShare(w, DocOf[item.chunk]) # call.cap
                /\ ChunksIn(v) = ChunksIn(w) \cup {item.chunk}
                /\ Distinct(v)
                /\ \A d : DocShare(v, d) <= call.cap
                /\ \A d : d # DocOf[item.chunk] => DocShare(v, d) = DocShare(w, d)
      <4>1. \A c \in ChunksIn(v) : \E j \in 1..(k + 1) : items[j].chunk = c
        <5>1. k + 1 \in 1..(k + 1)
          OBVIOUS
        <5>2. QED
          BY <3>4, <3>6, <3>10, <5>1 DEF item
      <4>2. ASSUME NEW j \in 1..(k + 1)
            PROVE  \/ items[j].chunk \in ChunksIn(v)
                   \/ Len(v) = call.top
                   \/ DocShare(v, DocOf[items[j].chunk]) = call.cap
        <5>1. CASE j = k + 1
          BY <3>10, <5>1 DEF item
        <5>2. CASE j \in 1..k
          <6>1. \/ items[j].chunk \in ChunksIn(w)
                \/ DocShare(w, DocOf[items[j].chunk]) = call.cap
            BY <3>4, <3>10, <5>2
          <6>2. DocShare(w, DocOf[items[j].chunk]) = call.cap =>
                    DocShare(v, DocOf[items[j].chunk]) = call.cap
            BY <3>10
          <6>3. QED
            BY <3>10, <6>1, <6>2
        <5>3. QED
          BY <3>5, <5>1, <5>2
      <4>3. Walked(k + 1, v)
        BY <3>10, <4>1, <4>2
      <4> HIDE DEF Walked
      <4>4. QED
        BY <4>3 DEF v
    <3>11. QED
      BY <3>8, <3>9, <3>10
  <2>4. Walked(n, kept)
    <3>1. \A k \in Nat : k \in S
      <4> HIDE DEF S
      <4>1. QED
        BY <2>2, <2>3, NatInduct
    <3> HIDE DEF Walked
    <3>2. QED
      BY <2>1, <3>1
  <2>5. kept \in Seq(Items) /\ n \in 0..n
    BY <2>1
  <2>6. IsList(kept, call.top, Int)
    <3>1. Len(kept) \in 0..call.top /\ kept \in [1..Len(kept) -> Items]
      BY <1>1, <2>4, <2>5
    <3>2. QED
      BY <3>1 DEF IsList, Items
  <2>7. call.cap > 0
    BY <1>1, <1>5
  <2>8. QED
    BY <1>3, <2>4, <2>6, <2>7 DEF kept
<1>6. QED
  BY <1>4, <1>5

-----------------------------------------------------------------------------
(* The candidates of a hybrid search.                                      *)

\* They are the first items of the fused ranking, with the combined scores.
LEMMA HybridCandidates ==
    ASSUME call \in Calls, Searched, call.strategy = "hybrid"
    PROVE  \E n, m \in Nat : \E fused \in [1..n -> Items] :
               /\ m <= n /\ m <= Depth /\ (m = n \/ m = Depth)
               /\ Distinct(fused)
               /\ ChunksIn(fused) = Found
               /\ \A i \in 1..n : fused[i].score = Share(dense, fused[i].chunk) + Share(sparse, fused[i].chunk)
               /\ \A i, j \in 1..n : i < j => fused[i].score >= fused[j].score
               /\ Candidates \in [1..m -> Items]
               /\ Distinct(Candidates)
               /\ \A i \in 1..m : Candidates[i].chunk = fused[i].chunk
               /\ \A i \in 1..m :
                      /\ fused[i].chunk \in ChunksIn(sparse)
                      /\ RankIn(sparse, fused[i].chunk) = 1
                      => Candidates[i].score >= Unit
               /\ \A i \in 1..m :
                      /\ fused[i].chunk \in ChunksIn(dense)
                      /\ RankIn(dense, fused[i].chunk) = 1
                      /\ \A j \in DOMAIN dense : dense[j].score > 0
                      => Candidates[i].score >= Unit
<1> DEFINE fused == ReciprocalRankFusion(<<dense, sparse>>)
           combined == CombineScores(fused)
<1>1. Depth \in Nat
  BY CallsAreNumbers
<1>2. PICK n \in Nat :
          /\ fused \in [1..n -> Items]
          /\ Distinct(fused)
          /\ ChunksIn(fused) = Found
          /\ \A i \in 1..n : fused[i].score = Share(dense, fused[i].chunk) + Share(sparse, fused[i].chunk)
          /\ \A i, j \in 1..n : i < j => fused[i].score >= fused[j].score
  BY FusedRanking DEF Items
<1>3. Candidates = First(Depth, combined)
  BY DEF Candidates
<1> HIDE DEF fused
<1>4. /\ combined \in [1..n -> Items]
      /\ \A i \in 1..n : combined[i].chunk = fused[i].chunk
      /\ Distinct(combined)
      /\ \A i \in 1..n :
             /\ fused[i].chunk \in ChunksIn(sparse)
             /\ RankIn(sparse, fused[i].chunk) = 1
             => combined[i].score >= Unit
      /\ \A i \in 1..n :
             /\ fused[i].chunk \in ChunksIn(dense)
             /\ RankIn(dense, fused[i].chunk) = 1
             /\ \A j \in DOMAIN dense : dense[j].score > 0
             => combined[i].score >= Unit
  BY <1>2, CombinedScores DEF Items
<1> HIDE DEF combined
<1>5. PICK m \in Nat : /\ First(Depth, combined) \in [1..m -> Items]
                       /\ m <= n /\ m <= Depth /\ (m = n \/ m = Depth)
                       /\ \A i \in 1..m : First(Depth, combined)[i] = combined[i]
  BY <1>1, <1>4, FirstItems
<1>6. \A i \in 1..m : i \in 1..n
  BY <1>5
<1>7. /\ Candidates \in [1..m -> Items]
      /\ \A i \in 1..m : Candidates[i] = combined[i]
  BY <1>3, <1>5
<1>8. Distinct(Candidates)
  BY CandidatesAre
<1>9. \A i \in 1..m : Candidates[i].chunk = fused[i].chunk
  BY <1>4, <1>6, <1>7
<1>10. \A i \in 1..m :
           /\ fused[i].chunk \in ChunksIn(sparse)
           /\ RankIn(sparse, fused[i].chunk) = 1
           => Candidates[i].score >= Unit
  BY <1>4, <1>6, <1>7
<1>11. \A i \in 1..m :
           /\ fused[i].chunk \in ChunksIn(dense)
           /\ RankIn(dense, fused[i].chunk) = 1
           /\ \A j \in DOMAIN dense : dense[j].score > 0
           => Candidates[i].score >= Unit
  BY <1>4, <1>6, <1>7
<1>12. /\ m <= n /\ m <= Depth /\ (m = n \/ m = Depth)
  BY <1>5
<1>13. QED
  BY <1>2, <1>7, <1>8, <1>9, <1>10, <1>11, <1>12

\* A chunk that both sides put no lower than another, one of them higher, is ahead of it.
LEMMA CandidatesRespectBothSides ==
    ASSUME call \in Calls, Searched, call.strategy = "hybrid",
           NEW c \in Found, NEW d \in ChunksIn(Candidates),
           RankIn(dense, c) <= RankIn(dense, d), RankIn(sparse, c) <= RankIn(sparse, d),
           RankIn(dense, c) < RankIn(dense, d) \/ RankIn(sparse, c) < RankIn(sparse, d)
    PROVE  RankIn(Candidates, c) < RankIn(Candidates, d)
<1>1. PICK n \in Nat, m \in Nat : \E fused \in [1..n -> Items] :
               /\ m <= n
               /\ Distinct(fused)
               /\ ChunksIn(fused) = Found
               /\ \A i \in 1..n : fused[i].score = Share(dense, fused[i].chunk) + Share(sparse, fused[i].chunk)
               /\ \A i, j \in 1..n : i < j => fused[i].score >= fused[j].score
               /\ Candidates \in [1..m -> Items]
               /\ Distinct(Candidates)
               /\ \A i \in 1..m : Candidates[i].chunk = fused[i].chunk
  BY HybridCandidates
<1>2. PICK fused \in [1..n -> Items] :
               /\ m <= n
               /\ Distinct(fused)
               /\ ChunksIn(fused) = Found
               /\ \A i \in 1..n : fused[i].score = Share(dense, fused[i].chunk) + Share(sparse, fused[i].chunk)
               /\ \A i, j \in 1..n : i < j => fused[i].score >= fused[j].score
               /\ Candidates \in [1..m -> Items]
               /\ Distinct(Candidates)
               /\ \A i \in 1..m : Candidates[i].chunk = fused[i].chunk
  BY <1>1
<1>3. PICK i \in 1..n : fused[i].chunk = c
  <2>1. DOMAIN fused = 1..n
    OBVIOUS
  <2>2. QED
    BY <1>2, <2>1 DEF ChunksIn
<1>4. PICK j \in 1..m : Candidates[j].chunk = d
  <2>1. DOMAIN Candidates = 1..m
    BY <1>2
  <2>2. QED
    BY <2>1 DEF ChunksIn
<1>5. \A k \in 1..m : RankIn(Candidates, Candidates[k].chunk) = k
  <2> HIDE DEF Distinct
  <2>1. QED
    BY <1>2, RankIsPlace
<1>6. j \in 1..n /\ fused[j].chunk = d
  BY <1>2, <1>4
<1>7. /\ Share(dense, c) \in Nat /\ Share(dense, d) \in Nat
      /\ Share(dense, c) >= Share(dense, d)
      /\ RankIn(dense, c) < RankIn(dense, d) => Share(dense, c) > Share(dense, d)
  BY ShareOrder DEF Searched
<1>8. /\ Share(sparse, c) \in Nat /\ Share(sparse, d) \in Nat
      /\ Share(sparse, c) >= Share(sparse, d)
      /\ RankIn(sparse, c) < RankIn(sparse, d) => Share(sparse, c) > Share(sparse, d)
  BY ShareOrder DEF Searched
<1>9. Share(dense, c) + Share(sparse, c) > Share(dense, d) + Share(sparse, d)
  BY <1>7, <1>8
<1>10. fused[i].score > fused[j].score /\ fused[i].score \in Int /\ fused[j].score \in Int
  BY <1>2, <1>3, <1>6, <1>7, <1>8, <1>9
<1>11. ~(j < i) /\ i # j
  BY <1>2, <1>6, <1>10
<1>12. i < j /\ i \in 1..m
  BY <1>11
<1>13. RankIn(Candidates, c) = i /\ RankIn(Candidates, d) = j
  BY <1>2, <1>3, <1>4, <1>5, <1>12
<1>14. QED
  BY <1>12, <1>13

\* Of the shares of one side, the first chunk's is the largest.
LEMMA FirstShare ==
    ASSUME call \in Calls, NEW scores, NEW r \in Rankings(Depth, scores), NEW c
    PROVE  /\ c \in ChunksIn(r) /\ RankIn(r, c) = 1 => Share(r, c) = Denominator \div (RRFK + 1)
           /\ c \in ChunksIn(r) /\ RankIn(r, c) # 1 =>
                  /\ Denominator \div (RRFK + 1) \in Nat
                  /\ Share(r, c) < Denominator \div (RRFK + 1)
<1>1. Depth \in Nat
  BY CallsAreNumbers
<1>2. /\ Len(r) \in 0..Depth /\ Distinct(r)
      /\ r \in [1..Len(r) -> [chunk : ChunkIds, score : scores]]
  BY <1>1, RankingsAre
<1>3. c \in ChunksIn(r) => RankIn(r, c) \in 1..Len(r)
  <2>1. Len(r) \in Nat
    BY <1>1, <1>2
  <2> HIDE DEF Distinct
  <2>2. QED
    BY <1>2, <2>1, RankIsPlace
<1>4. c \in ChunksIn(r) => Share(r, c) = Denominator \div (RRFK + RankIn(r, c))
  BY DEF Share
<1>5. ASSUME c \in ChunksIn(r), RankIn(r, c) # 1
      PROVE  /\ Denominator \div (RRFK + 1) \in Nat
             /\ Share(r, c) < Denominator \div (RRFK + 1)
  <2>1. RankIn(r, c) \in 1..Depth /\ 1 \in 1..Depth /\ 1 < RankIn(r, c)
    BY <1>1, <1>2, <1>3, <1>5
  <2>2. /\ Denominator \div (RRFK + 1) \in Nat \ {0}
        /\ Denominator \div (RRFK + RankIn(r, c)) \in Nat \ {0}
        /\ Denominator \div (RRFK + 1) > Denominator \div (RRFK + RankIn(r, c))
    BY <2>1, SharesFall
  <2>3. QED
    BY <1>4, <1>5, <2>2
<1>6. QED
  BY <1>4, <1>5

Leads(r, c) == c \in ChunksIn(r) /\ RankIn(r, c) = 1

\* A side that found something has a first chunk.
LEMMA SomeLead ==
    ASSUME call \in Calls, NEW scores, NEW r \in Rankings(Depth, scores), ChunksIn(r) # {}
    PROVE  \E c \in ChunksIn(r) : Leads(r, c)
<1>1. Depth \in Nat
  BY CallsAreNumbers
<1>2. /\ Len(r) \in 0..Depth /\ Distinct(r) /\ DOMAIN r = 1..Len(r)
      /\ r \in [1..Len(r) -> [chunk : ChunkIds, score : scores]]
  BY <1>1, RankingsAre
<1>3. Len(r) \in Nat /\ 1 \in 1..Len(r)
  <2>1. 1..Len(r) # {}
    BY <1>2 DEF ChunksIn
  <2>2. QED
    BY <1>1, <1>2, <2>1
<1>4. RankIn(r, r[1].chunk) = 1
  <2> HIDE DEF Distinct
  <2>1. QED
    BY <1>2, <1>3, RankIsPlace
<1>5. r[1].chunk \in ChunksIn(r)
  BY <1>2, <1>3 DEF ChunksIn
<1>6. QED
  BY <1>4, <1>5 DEF Leads

\* Only chunks that both sides found get ahead of the first of a side, and these are
\* fewer than the depth: one of the two first chunks is among the candidates.
LEMMA CandidatesKeepALeader ==
    ASSUME call \in Calls, Searched, call.strategy = "hybrid", Candidates # << >>
    PROVE  \E c \in ChunksIn(Candidates) :
               /\ RankIn(dense, c) = 1 \/ RankIn(sparse, c) = 1
               /\ (\A i \in DOMAIN dense : dense[i].score > 0) => ScoreIn(Candidates, c) >= Unit
<1>1. PICK n \in Nat, m \in Nat : \E fused \in [1..n -> Items] :
               /\ m <= n /\ m <= Depth /\ (m = n \/ m = Depth)
               /\ Distinct(fused)
               /\ ChunksIn(fused) = Found
               /\ \A i \in 1..n : fused[i].score = Share(dense, fused[i].chunk) + Share(sparse, fused[i].chunk)
               /\ \A i, j \in 1..n : i < j => fused[i].score >= fused[j].score
               /\ Candidates \in [1..m -> Items]
               /\ Distinct(Candidates)
               /\ \A i \in 1..m : Candidates[i].chunk = fused[i].chunk
               /\ \A i \in 1..m :
                      /\ fused[i].chunk \in ChunksIn(sparse)
                      /\ RankIn(sparse, fused[i].chunk) = 1
                      => Candidates[i].score >= Unit
               /\ \A i \in 1..m :
                      /\ fused[i].chunk \in ChunksIn(dense)
                      /\ RankIn(dense, fused[i].chunk) = 1
                      /\ \A j \in DOMAIN dense : dense[j].score > 0
                      => Candidates[i].score >= Unit
  BY HybridCandidates
<1>2. PICK fused \in [1..n -> Items] :
               /\ m <= n /\ m <= Depth /\ (m = n \/ m = Depth)
               /\ Distinct(fused)
               /\ ChunksIn(fused) = Found
               /\ \A i \in 1..n : fused[i].score = Share(dense, fused[i].chunk) + Share(sparse, fused[i].chunk)
               /\ \A i, j \in 1..n : i < j => fused[i].score >= fused[j].score
               /\ Candidates \in [1..m -> Items]
               /\ Distinct(Candidates)
               /\ \A i \in 1..m : Candidates[i].chunk = fused[i].chunk
               /\ \A i \in 1..m : Leads(sparse, fused[i].chunk) => Candidates[i].score >= Unit
               /\ \A i \in 1..m :
                      Leads(dense, fused[i].chunk) /\ (\A j \in DOMAIN dense : dense[j].score > 0)
                      => Candidates[i].score >= Unit
  BY <1>1 DEF Leads
<1>3. Depth \in Nat /\ DOMAIN fused = 1..n /\ DOMAIN Candidates = 1..m
  BY <1>2, CallsAreNumbers
<1>4. \A i \in 1..m : i \in 1..n /\ fused[i].chunk \in Found
  BY <1>2, <1>3 DEF ChunksIn
<1>5. 1 \in 1..m
  <2>1. m # 0
    <3> SUFFICES ASSUME m = 0
                 PROVE  FALSE
      OBVIOUS
    <3>1. Candidates \in [1..0 -> Items]
      BY <1>2
    <3>2. Candidates = << >>
      BY <3>1
    <3>3. QED
      BY <3>2
  <2>2. QED
    BY <2>1
<1> DEFINE Leader(i) == Leads(dense, fused[i].chunk) \/ Leads(sparse, fused[i].chunk)
<1>6. PICK k \in 1..n : Leader(k)
  <2>1. Found # {}
    BY <1>4, <1>5
  <2>2. \E c \in Found : Leads(dense, c) \/ Leads(sparse, c)
    BY <2>1, SomeLead DEF Found, Searched
  <2>3. QED
    BY <1>2, <1>3, <2>2 DEF ChunksIn
<1>7. \E i \in 1..m : Leader(i)
  <2> SUFFICES ASSUME \A i \in 1..m : ~Leader(i)
               PROVE  FALSE
    OBVIOUS
  <2>1. m = Depth /\ k > m
    BY <1>2, <1>6
  <2>2. ASSUME NEW i \in 1..m
        PROVE  fused[i].chunk \in ChunksIn(dense) /\ RankIn(dense, fused[i].chunk) # 1
    <3> DEFINE x == fused[i].chunk
               top == Denominator \div (RRFK + 1)
    <3>1. fused[i].score >= fused[k].score
      <4>1. i \in 1..n /\ i < k
        BY <1>4, <2>1
      <4>2. QED
        BY <1>2, <4>1
    <3>2. /\ fused[i].score = Share(dense, x) + Share(sparse, x)
          /\ fused[k].score = Share(dense, fused[k].chunk) + Share(sparse, fused[k].chunk)
      BY <1>2, <1>4
    <3>3. /\ \A c : Share(dense, c) \in Nat /\ (c \notin ChunksIn(dense) => Share(dense, c) = 0)
          /\ \A c : Share(sparse, c) \in Nat /\ (c \notin ChunksIn(sparse) => Share(sparse, c) = 0)
      BY ShareOrder DEF Searched
    <3>4. /\ \A c : Leads(dense, c) => Share(dense, c) = top
          /\ \A c : Leads(sparse, c) => Share(sparse, c) = top
          /\ \A c \in ChunksIn(dense) : ~Leads(dense, c) => top \in Nat /\ Share(dense, c) < top
          /\ \A c \in ChunksIn(sparse) : ~Leads(sparse, c) => top \in Nat /\ Share(sparse, c) < top
      BY FirstShare DEF Searched, Leads
    <3> HIDE DEF top
    <3>5. Share(dense, fused[k].chunk) + Share(sparse, fused[k].chunk) >= top /\ top \in Nat
      BY <1>6, <3>3, <3>4
    <3>6. ~Leads(dense, x) /\ ~Leads(sparse, x) /\ x \in Found
      BY <1>4
    <3> HIDE DEF x
    <3>7. ASSUME x \notin ChunksIn(dense)
          PROVE  FALSE
      <4>1. x \in ChunksIn(sparse)
        BY <3>6, <3>7 DEF Found
      <4>2. Share(dense, x) = 0 /\ Share(sparse, x) < top
        BY <3>3, <3>4, <3>6, <3>7, <4>1
      <4>3. QED
        BY <3>1, <3>2, <3>3, <3>5, <4>2
    <3>8. QED
      BY <3>6, <3>7 DEF x, Leads
  <2>3. /\ Len(dense) \in 0..Depth /\ Distinct(dense)
        /\ dense \in [1..Len(dense) -> [chunk : ChunkIds, score : Similarities]]
    BY <1>3, RankingsAre DEF Searched
  <2>4. \A c \in ChunksIn(dense) : RankIn(dense, c) \in 1..Len(dense) /\ dense[RankIn(dense, c)].chunk = c
    <3>1. Len(dense) \in Nat
      BY <1>3, <2>3
    <3> HIDE DEF Distinct
    <3>2. QED
      BY <2>3, <3>1, RankIsPlace
  <2> DEFINE g == [i \in 1..Depth |-> RankIn(dense, fused[i].chunk)]
  <2>5. g \in [1..Depth -> 2..Depth]
    <3>1. \A i \in 1..Depth : RankIn(dense, fused[i].chunk) \in 2..Depth
      BY <1>3, <2>1, <2>2, <2>3, <2>4
    <3>2. QED
      BY <3>1
  <2>6. /\ IsFiniteSet(1..Depth) /\ Cardinality(1..Depth) = Depth
        /\ IsFiniteSet(2..Depth) /\ Cardinality(2..Depth) = Depth - 1
    <3>1. Depth >= 1
      BY <1>3, <1>5, <2>1
    <3>2. QED
      BY <1>3, <3>1, FS_Interval
  <2>7. \E i, j \in 1..Depth : i # j /\ g[i] = g[j]
    <3>1. Cardinality(2..Depth) < Cardinality(1..Depth)
      BY <1>3, <2>6
    <3> HIDE DEF g
    <3>2. QED
      BY <2>5, <2>6, <3>1, FS_PigeonHole
  <2>8. PICK i \in 1..Depth, j \in 1..Depth : i # j /\ RankIn(dense, fused[i].chunk) = RankIn(dense, fused[j].chunk)
    BY <2>7
  <2>9. fused[i].chunk = fused[j].chunk
    BY <2>1, <2>2, <2>4, <2>8
  <2>10. QED
    BY <1>2, <1>3, <1>4, <2>1, <2>8, <2>9 DEF Distinct
<1>8. PICK i \in 1..m : Leader(i)
  BY <1>7
<1>9. Candidates[i].chunk = fused[i].chunk /\ fused[i].chunk \in ChunksIn(Candidates)
  BY <1>2, <1>3 DEF ChunksIn
<1>10. ScoreIn(Candidates, fused[i].chunk) = Candidates[i].score
  <2>1. RankIn(Candidates, Candidates[i].chunk) = i
    <3> HIDE DEF Distinct
    <3>1. QED
      BY <1>2, RankIsPlace
  <2>2. QED
    BY <1>9, <2>1 DEF ScoreIn
<1>11. (\A j \in DOMAIN dense : dense[j].score > 0) => Candidates[i].score >= Unit
  BY <1>2, <1>8
<1>12. QED
  BY <1>8, <1>9, <1>10, <1>11 DEF Leads

-----------------------------------------------------------------------------
(* The invariant.                                                          *)

\* The candidates are distinct until they are returned.
PoolIsDistinct == stage = "rerank" => Distinct(pool)

FusionIInv ==
    /\ FusionTypeOK
    /\ Searched
    /\ PoolIsDistinct
    /\ FusionRespectsBothSides
    /\ PoolKeepsALeader
    /\ LeftOutForAReason

LEMMA FusionInitInv == FusionInit => FusionIInv
<1> SUFFICES ASSUME FusionInit
             PROVE  FusionIInv
  OBVIOUS
<1>1. Depth \in Nat /\ call.top \in Nat
  BY CallsAreNumbers DEF FusionInit
<1>2. \A limit \in Nat : \A scores : IsList(<< >>, limit, scores)
  <2> SUFFICES ASSUME NEW limit \in Nat, NEW scores
               PROVE  IsList(<< >>, limit, scores)
    OBVIOUS
  <2>1. << >> \in [1..0 -> [chunk : ChunkIds, score : scores]] /\ 0 \in 0..limit
    OBVIOUS
  <2>2. QED
    BY <2>1 DEF IsList
<1>3. FusionTypeOK
  BY <1>1, <1>2 DEF FusionInit, FusionTypeOK
<1>4. Searched
  BY <1>1, EmptyIsARanking DEF FusionInit, Searched
<1>5. stage = "idle"
  BY DEF FusionInit
<1>6. QED
  BY <1>3, <1>4, <1>5 DEF FusionIInv, PoolIsDistinct, FusionRespectsBothSides, PoolKeepsALeader,
                         LeftOutForAReason, Pooled

\* A re-ranking lists the candidates anew, each once.
LEMMA ReRanked ==
    ASSUME call \in Calls, Distinct(pool), IsList(pool, Depth, Int), NEW ranked \in Rerank(pool)
    PROVE  /\ \E n \in Nat : ranked \in [1..n -> Items]
           /\ Distinct(ranked)
           /\ ChunksIn(ranked) = ChunksIn(pool)
<1>1. PICK n \in Nat : pool \in [1..n -> Items]
  <2>1. Depth \in Nat
    BY CallsAreNumbers
  <2>2. QED
    BY <2>1 DEF IsList, Items
<1>2. DOMAIN pool = 1..n
  BY <1>1
<1>3. PICK s \in [1..n -> RerankScores] : ranked = Ranked({Item(pool[i].chunk, s[i]) : i \in 1..n})
  BY <1>2 DEF Rerank
<1> DEFINE items == {Item(pool[i].chunk, s[i]) : i \in 1..n}
           m == Cardinality(items)
<1>4. IsFiniteSet(items)
  <2> DEFINE f == [i \in 1..n |-> Item(pool[i].chunk, s[i])]
  <2>1. f \in Surjection(1..n, items)
    BY DEF Surjection
  <2>2. IsFiniteSet(1..n)
    BY FS_Interval
  <2> HIDE DEF f, items
  <2>3. QED
    BY <2>1, <2>2, FS_Surjection
<1>5. \A i \in 1..n : pool[i].chunk \in ChunkIds /\ s[i] \in Int
  <2>1. RerankScores \subseteq Int
    BY FusionAssumption
  <2>2. QED
    BY <1>1, <2>1 DEF Items
<1>6. \A x \in items : \E i \in 1..n : x = Item(pool[i].chunk, s[i]) /\ x.chunk = pool[i].chunk /\ x \in Items
  BY <1>5 DEF Item, Items
<1>7. \A i \in 1..n : \E x \in items : x.chunk = pool[i].chunk
  <2>1. \A i \in 1..n : Item(pool[i].chunk, s[i]) \in items /\ Item(pool[i].chunk, s[i]).chunk = pool[i].chunk
    BY DEF Item
  <2> HIDE DEF items
  <2>2. QED
    BY <2>1
<1> HIDE DEF items
<1>8. \A x, y \in items : x.chunk = y.chunk => x = y
  <2>1. \A i, j \in 1..n : pool[i].chunk = pool[j].chunk => i = j
    BY <1>2 DEF Distinct
  <2>2. QED
    BY <1>6, <2>1
<1>9. \A x \in items : x.chunk \in Nat /\ x.score \in Int
  <2>1. ChunkIds \subseteq Nat
    BY FusionAssumption
  <2>2. QED
    BY <1>6, <2>1 DEF Items
<1>10. /\ m \in Nat /\ ranked \in [1..m -> items] /\ Distinct(ranked)
       /\ \A x \in items : \E i \in 1..m : ranked[i] = x
  <2>1. ranked = Ranked(items)
    BY <1>3 DEF items
  <2>2. QED
    BY <1>4, <1>8, <1>9, <2>1, RankedEnumerates
<1> HIDE DEF m
<1>11. \A i \in 1..m : ranked[i] \in items
  BY <1>10
<1>12. ranked \in [1..m -> Items]
  <2>1. \A x \in items : x \in Items
    BY <1>6
  <2>2. QED
    BY <1>10, <2>1
<1>13. ChunksIn(ranked) = ChunksIn(pool)
  <2>1. DOMAIN ranked = 1..m
    BY <1>10
  <2>2. \A i \in 1..m : \E j \in 1..n : ranked[i].chunk = pool[j].chunk
    BY <1>6, <1>11
  <2>3. \A j \in 1..n : \E i \in 1..m : ranked[i].chunk = pool[j].chunk
    BY <1>7, <1>10
  <2>4. ChunksIn(ranked) = {ranked[i].chunk : i \in 1..m} /\ ChunksIn(pool) = {pool[i].chunk : i \in 1..n}
    BY <1>2, <2>1 DEF ChunksIn
  <2>5. ASSUME NEW i \in 1..m
        PROVE  ranked[i].chunk \in ChunksIn(pool)
    <3>1. PICK j \in 1..n : ranked[i].chunk = pool[j].chunk
      BY <2>2
    <3>2. QED
      BY <2>4, <3>1
  <2>6. ASSUME NEW j \in 1..n
        PROVE  pool[j].chunk \in ChunksIn(ranked)
    <3>1. PICK i \in 1..m : ranked[i].chunk = pool[j].chunk
      BY <2>3
    <3>2. QED
      BY <2>4, <3>1
  <2>7. QED
    BY <2>4, <2>5, <2>6
<1>14. QED
  BY <1>10, <1>12, <1>13

LEMMA FusionStepInv == FusionIInv /\ [FusionNext]_fusionVars => FusionIInv'
<1> SUFFICES ASSUME FusionIInv, [FusionNext]_fusionVars
             PROVE  FusionIInv'
  OBVIOUS
<1> USE DEF FusionIInv
<1>0. /\ call \in Calls /\ Depth \in Nat /\ call.top \in Nat /\ call.cap \in Nat
  BY CallsAreNumbers DEF FusionTypeOK
<1>1. CASE Retrieve
  <2>1. UNCHANGED <<call, dense, sparse, pool, result>> /\ stage = "idle"
    BY <1>1 DEF Retrieve
  <2>2. \/ stage' = "returned" /\ call.top = 0
        \/ stage' \in {"sparse", "dense"}
    BY <1>1 DEF Retrieve
  <2>3. FusionTypeOK' /\ Searched'
    BY <2>1, <2>2 DEF FusionTypeOK, Searched, Depth, Rankings, IsList
  <2>4. ~Pooled' /\ PoolIsDistinct' /\ LeftOutForAReason'
    BY <1>0, <2>1, <2>2 DEF Pooled, PoolIsDistinct, LeftOutForAReason
  <2>5. QED
    BY <2>3, <2>4 DEF FusionRespectsBothSides, PoolKeepsALeader
<1>2. CASE SearchDense
  <2>1. /\ UNCHANGED <<call, sparse, pool, result>>
        /\ dense' \in Rankings(Depth, Similarities)
        /\ stage' \in {"sparse", "fuse"}
    BY <1>2 DEF SearchDense
  <2>2. IsList(dense', Depth, Similarities)
    BY <1>0, <2>1, RankingsAre DEF IsList
  <2>3. FusionTypeOK' /\ Searched'
    BY <2>1, <2>2 DEF FusionTypeOK, Searched, Depth, Rankings, IsList
  <2>4. ~Pooled' /\ PoolIsDistinct' /\ LeftOutForAReason'
    BY <2>1 DEF Pooled, PoolIsDistinct, LeftOutForAReason
  <2>5. QED
    BY <2>3, <2>4 DEF FusionRespectsBothSides, PoolKeepsALeader
<1>3. CASE SearchSparse
  <2>1. /\ UNCHANGED <<call, dense, pool, result>>
        /\ sparse' \in Rankings(Depth, Weights)
        /\ stage' = "fuse"
    BY <1>3 DEF SearchSparse
  <2>2. IsList(sparse', Depth, Weights)
    BY <1>0, <2>1, RankingsAre DEF IsList
  <2>3. FusionTypeOK' /\ Searched'
    BY <2>1, <2>2 DEF FusionTypeOK, Searched, Depth, Rankings, IsList
  <2>4. ~Pooled' /\ PoolIsDistinct' /\ LeftOutForAReason'
    BY <2>1 DEF Pooled, PoolIsDistinct, LeftOutForAReason
  <2>5. QED
    BY <2>3, <2>4 DEF FusionRespectsBothSides, PoolKeepsALeader
<1>4. CASE Fuse
  <2>1. UNCHANGED <<call, dense, sparse, result>> /\ stage' = "rerank" /\ pool' = Candidates
    BY <1>4 DEF Fuse
  <2>2. Distinct(pool') /\ IsList(pool', Depth, Int)
    BY <1>0, <2>1, CandidatesAre
  <2>3. FusionTypeOK' /\ Searched'
    BY <2>1, <2>2 DEF FusionTypeOK, Searched, Depth, Rankings, IsList
  <2>4. PoolIsDistinct' /\ LeftOutForAReason'
    BY <2>1, <2>2 DEF PoolIsDistinct, LeftOutForAReason, Distinct
  <2>5. FusionRespectsBothSides'
    <3>1. call.strategy = "hybrid" =>
            \A c \in ChunksIn(dense) \cup ChunksIn(sparse), d \in ChunksIn(pool') :
              /\ RankIn(dense, c) <= RankIn(dense, d)
              /\ RankIn(sparse, c) <= RankIn(sparse, d)
              /\ RankIn(dense, c) < RankIn(dense, d) \/ RankIn(sparse, c) < RankIn(sparse, d)
              => RankIn(pool', c) < RankIn(pool', d)
      BY <1>0, <2>1, CandidatesRespectBothSides DEF Found
    <3>2. QED
      BY <2>1, <3>1 DEF FusionRespectsBothSides
  <2>6. PoolKeepsALeader'
    <3>1. call.strategy = "hybrid" /\ pool' # << >> =>
            \E c \in ChunksIn(pool') :
               /\ RankIn(dense, c) = 1 \/ RankIn(sparse, c) = 1
               /\ (\A i \in DOMAIN dense : dense[i].score > 0) => ScoreIn(pool', c) >= Unit
      BY <1>0, <2>1, CandidatesKeepALeader
    <3>2. QED
      BY <2>1, <3>1 DEF PoolKeepsALeader
  <2>7. QED
    BY <2>3, <2>4, <2>5, <2>6
<1>5. CASE ApplyReranker
  <2>1. UNCHANGED <<call, dense, sparse, pool>> /\ stage = "rerank" /\ stage' = "returned"
    BY <1>5 DEF ApplyReranker
  <2>2. Distinct(pool) /\ IsList(pool, Depth, Int)
    BY <2>1 DEF PoolIsDistinct, FusionTypeOK
  <2>3. PICK items : /\ \E n \in Nat : items \in [1..n -> Items]
                     /\ Distinct(items) /\ ChunksIn(items) = ChunksIn(pool)
                     /\ result' = CapPerDocument(items)
    <3>1. \E n \in Nat : pool \in [1..n -> Items]
      BY <1>0, <2>2 DEF IsList, Items
    <3>2. \A ranked \in Rerank(pool) : /\ \E n \in Nat : ranked \in [1..n -> Items]
                                       /\ Distinct(ranked) /\ ChunksIn(ranked) = ChunksIn(pool)
      BY <1>0, <2>2, ReRanked
    <3>3. result' = CapPerDocument(pool) \/ \E ranked \in Rerank(pool) : result' = CapPerDocument(ranked)
      BY <1>5 DEF ApplyReranker
    <3>4. QED
      BY <2>2, <3>1, <3>2, <3>3
  <2>4. /\ IsList(result', call.top, Int)
        /\ \A c \in ChunksIn(pool) \ ChunksIn(result') :
               \/ Len(result') = call.top
               \/ call.cap > 0 /\ DocShare(result', DocOf[c]) = call.cap
        /\ call.cap > 0 => \A d : DocShare(result', d) <= call.cap
    <3>1. PICK n \in Nat : items \in [1..n -> Items]
      BY <2>3
    <3>2. QED
      BY <1>0, <2>3, <3>1, Capped
  <2>5. FusionTypeOK' /\ Searched'
    BY <2>1, <2>4 DEF FusionTypeOK, Searched, Depth, Rankings, IsList
  <2>6. LeftOutForAReason'
    BY <2>1, <2>4 DEF LeftOutForAReason, DocShare
  <2>7. PoolIsDistinct' /\ FusionRespectsBothSides' /\ PoolKeepsALeader'
    <3>1. Pooled' => Pooled
      BY <2>1 DEF Pooled
    <3>2. PoolIsDistinct'
      BY <2>1 DEF PoolIsDistinct
    <3>3. FusionRespectsBothSides'
      BY <2>1, <3>1 DEF FusionRespectsBothSides
    <3>4. PoolKeepsALeader'
      BY <2>1, <3>1 DEF PoolKeepsALeader
    <3>5. QED
      BY <3>2, <3>3, <3>4
  <2>8. QED
    BY <2>5, <2>6, <2>7
<1>6. CASE UNCHANGED fusionVars
  <2>1. UNCHANGED <<stage, call, dense, sparse, pool, result>>
    BY <1>6 DEF fusionVars
  <2>2. FusionTypeOK' /\ Searched' /\ PoolIsDistinct'
    BY <2>1 DEF FusionTypeOK, Searched, Depth, Rankings, IsList, PoolIsDistinct
  <2>3. Pooled' <=> Pooled
    BY <2>1 DEF Pooled
  <2>4. FusionRespectsBothSides' /\ PoolKeepsALeader' /\ LeftOutForAReason'
    BY <2>1, <2>3 DEF FusionRespectsBothSides, PoolKeepsALeader, LeftOutForAReason
  <2>5. QED
    BY <2>2, <2>4
<1>7. QED
  BY <1>1, <1>2, <1>3, <1>4, <1>5, <1>6 DEF FusionNext

\* The invariant holds throughout.
LEMMA FusionInvariance == FusionSpec => []FusionIInv
<1>1. QED
  BY FusionInitInv, FusionStepInv, PTL DEF FusionSpec

\* No state of a call is out of shape, and no list is longer than the depth or top_k allow.
THEOREM FusionTypeCorrect == FusionSpec => []FusionTypeOK
<1>1. FusionIInv => FusionTypeOK
  BY DEF FusionIInv
<1>2. QED
  BY <1>1, FusionInvariance, PTL

\* A chunk that neither side puts lower than another, and one puts higher, is ahead of it
\* among the candidates (HybridRetriever.retrieve), whatever the rankings, k and the depth.
THEOREM FusionTheorem == FusionSpec => []FusionRespectsBothSides
<1>1. FusionIInv => FusionRespectsBothSides
  BY DEF FusionIInv
<1>2. QED
  BY <1>1, FusionInvariance, PTL

\* The candidates of a hybrid search keep the first chunk of a side, with at least half of
\* the highest score if no similarity is zero or less.
THEOREM LeaderTheorem == FusionSpec => []PoolKeepsALeader
<1>1. FusionIInv => PoolKeepsALeader
  BY DEF FusionIInv
<1>2. QED
  BY <1>1, FusionInvariance, PTL

\* A candidate is left out of the result only for the cap of its document or a full result,
\* and no document has more than its cap (_cap_per_document), re-ranked or not.
THEOREM CapTheorem == FusionSpec => []LeftOutForAReason
<1>1. FusionIInv => LeftOutForAReason
  BY DEF FusionIInv
<1>2. QED
  BY <1>1, FusionInvariance, PTL
=============================================================================
