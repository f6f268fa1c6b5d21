----------------------------- MODULE SparseIndex -----------------------------
(***************************************************************************)
(* StoreBackedBM25Retriever (tools/rag/sparse_retriever.py): the lexical   *)
(* index that a sparse or hybrid retriever keeps of the vector store.      *)
(*                                                                         *)
(* RAGEngine.ingest_document adds a document's chunks to the store and     *)
(* then has refresh set _dirty; the next query that finds _dirty set reads *)
(* the whole store, page by page (ChromaVectorStore.iter_chunks), puts the *)
(* new index in place and only then clears _dirty.  There is no lock:      *)
(* queries and uploads of other threads come between any two of these      *)
(* steps.                                                                  *)
(*                                                                         *)
(* The store is the sequence of its rows in the order they were added,     *)
(* which is the order pages are cut from.  ingest(), the re-indexing of a  *)
(* directory, drops every row and adds new ones without a refresh.  A      *)
(* document that another process adds to the shared directory is one that  *)
(* is stored and whose refresh never comes.                                *)
(***************************************************************************)
EXTENDS Naturals, Sequences, SequencesExt

CONSTANTS
    Readers,        \* the threads that ask
    Uploads,        \* the documents that are uploaded
    Corpus,         \* the chunks of the directory, in order
    ChunksOf,       \* the chunks of each document, in order
    PageSize,       \* page_size
    MaxResets,      \* bound: re-indexings
    NoIndex         \* _bm25 is None

ASSUME PageSizeAssumption == PageSize \in Nat \ {0}

ASSUME ResetsAssumption == MaxResets \in Nat

Rows(docs) == UNION {ToSet(ChunksOf[d]) : d \in docs}
Chunks == ToSet(Corpus) \cup Rows(Uploads)

\* An upload's ids carry a random suffix, so no two documents share one.
ASSUME FreshIdsAssumption ==
    /\ Corpus \in Seq(Chunks)
    /\ ChunksOf \in [Uploads -> Seq(Chunks)]
    /\ \A d \in Uploads : ToSet(ChunksOf[d]) \cap ToSet(Corpus) = {}
    /\ \A d, e \in Uploads : d # e => ToSet(ChunksOf[d]) \cap ToSet(ChunksOf[e]) = {}

ASSUME NoIndexAssumption == NoIndex \notin Seq(Chunks)

VARIABLES
    rows,           \* the collection: a sequence of chunks
    index,          \* _bm25: the sequence of chunks it was built from, or NoIndex
    dirty,          \* _dirty
    upload,         \* how far each document of Uploads is
    indexing,       \* the collection has been dropped and not yet filled again
    resets,         \* re-indexings so far
    pc,             \* where each reader is
    acc             \* the rows a rebuilding reader has read, its offset being their number

\* History variables, read by no action.
VARIABLES
    lost,           \* the latest refresh came while a rebuild was under way
    due,            \* the uploaded chunks a reader's query ought to find
    raced,          \* lost, when the query began
    base,           \* the rows there were when a reader began to rebuild
    dropped         \* whether they have been dropped since

historyVars == <<lost, due, raced, base, dropped>>
storeVars == <<rows, upload, indexing, resets>>
vars == <<storeVars, index, dirty, pc, acc, historyVars>>

Steps == {"idle", "check", "paging", "assign", "clear", "run"}
Stages == {"new", "stored", "returned"}

\* The readers between finding _dirty set and clearing it.
Rebuilding == {r \in Readers : pc[r] \in {"paging", "assign", "clear"}}

TypeOK ==
    /\ rows \in Seq(Chunks)
    /\ index \in Seq(Chunks) \cup {NoIndex}
    /\ dirty \in BOOLEAN
    /\ upload \in [Uploads -> Stages]
    /\ indexing \in BOOLEAN
    /\ resets \in 0..MaxResets
    /\ pc \in [Readers -> Steps]
    /\ acc \in [Readers -> Seq(Chunks)]
    /\ due \in [Readers -> SUBSET Chunks]
    /\ lost \in BOOLEAN
    /\ raced \in [Readers -> BOOLEAN]
    /\ base \in [Readers -> Seq(Chunks)]
    /\ dropped \in [Readers -> BOOLEAN]

Init ==
    /\ rows \in {<<>>, Corpus}
    /\ index = NoIndex
    /\ dirty = TRUE
    /\ upload = [d \in Uploads |-> "new"]
    /\ indexing = FALSE
    /\ resets = 0
    /\ pc = [r \in Readers |-> "idle"]
    /\ acc = [r \in Readers |-> <<>>]
    /\ due = [r \in Readers |-> {}]
    /\ lost = FALSE
    /\ raced = [r \in Readers |-> FALSE]
    /\ base = [r \in Readers |-> <<>>]
    /\ dropped = [r \in Readers |-> FALSE]

Goto(r, step) == pc' = [pc EXCEPT ![r] = step]

-----------------------------------------------------------------------------
(* A query.                                                                *)

\* A query reaches the retriever.
Ask(r) ==
    /\ pc[r] = "idle"
    /\ Goto(r, "check")
    /\ due' = [due EXCEPT ![r] =
                  ToSet(rows) \cap Rows({d \in Uploads : upload[d] = "returned"})]
    /\ raced' = [raced EXCEPT ![r] = lost]
    /\ UNCHANGED <<storeVars, index, dirty, acc, lost, base, dropped>>

\* Mutant: any index will do.
CheckOnlyMissing(r) ==
    /\ pc[r] = "check"
    /\ Goto(r, IF index = NoIndex THEN "paging" ELSE "run")
    /\ base' = [base EXCEPT ![r] = IF pc'[r] = "paging" THEN rows ELSE @]
    /\ UNCHANGED <<storeVars, index, dirty, acc, lost, due, raced, dropped>>

\* _current looks at _dirty and _bm25.
Check(r) ==
    /\ pc[r] = "check"
    /\ Goto(r, IF dirty \/ index = NoIndex THEN "paging" ELSE "run")
    /\ base' = [base EXCEPT ![r] = IF pc'[r] = "paging" THEN rows ELSE @]
    /\ UNCHANGED <<storeVars, index, dirty, acc, lost, due, raced, dropped>>

\* What get(limit=page_size, offset=offset) returns.
PageFrom(offset) ==
    LET end == IF offset + PageSize < Len(rows) THEN offset + PageSize ELSE Len(rows)
    IN  SubSeq(rows, offset + 1, end)

\* Mutant: the offset falls one row behind.
ReadPageAgain(r) ==
    LET page == PageFrom(IF acc[r] = <<>> THEN 0 ELSE Len(acc[r]) - 1)
    IN  /\ pc[r] = "paging"
        /\ acc' = [acc EXCEPT ![r] = @ \o page]
        /\ Goto(r, IF Len(page) < PageSize THEN "assign" ELSE "paging")
        /\ UNCHANGED <<storeVars, index, dirty, historyVars>>

\* One page of iter_chunks; a short one is the last.
ReadPage(r) ==
    LET page == PageFrom(Len(acc[r]))
    IN  /\ pc[r] = "paging"
        /\ acc' = [acc EXCEPT ![r] = @ \o page]
        /\ Goto(r, IF Len(page) < PageSize THEN "assign" ELSE "paging")
        /\ UNCHANGED <<storeVars, index, dirty, historyVars>>

\* The rows read so far go into the index or are forgotten.
EndRebuild(r) ==
    /\ acc' = [acc EXCEPT ![r] = <<>>]
    /\ base' = [base EXCEPT ![r] = <<>>]
    /\ dropped' = [dropped EXCEPT ![r] = FALSE]

\* self._bm25 = BM25Retriever(...)
Assign(r) ==
    /\ pc[r] = "assign"
    /\ index' = acc[r]
    /\ Goto(r, "clear")
    /\ EndRebuild(r)
    /\ UNCHANGED <<storeVars, dirty, lost, due, raced>>

\* self._dirty = False
Clear(r) ==
    /\ pc[r] = "clear"
    /\ dirty' = FALSE
    /\ Goto(r, "run")
    /\ UNCHANGED <<storeVars, index, acc, historyVars>>

EndQuery(r) ==
    /\ Goto(r, "idle")
    /\ due' = [due EXCEPT ![r] = {}]
    /\ raced' = [raced EXCEPT ![r] = FALSE]

\* The store raises: the query fails and the index stays as it is.
ReadFails(r) ==
    /\ pc[r] = "paging"
    /\ EndRebuild(r)
    /\ EndQuery(r)
    /\ UNCHANGED <<storeVars, index, dirty, lost>>

\* return self._bm25, read again, and the search in it.
Run(r) ==
    /\ pc[r] = "run"
    /\ EndQuery(r)
    /\ UNCHANGED <<storeVars, index, dirty, acc, lost, base, dropped>>

-----------------------------------------------------------------------------
(* Uploads and re-indexing.                                                *)

\* The document is chunked and embedded, and store.add appends its chunks.
Store(d) ==
    /\ upload[d] = "new"
    /\ upload' = [upload EXCEPT ![d] = "stored"]
    /\ rows' = rows \o ChunksOf[d]
    /\ UNCHANGED <<index, dirty, indexing, resets, pc, acc, historyVars>>

\* refresh_retriever, on which ingest_document returns.
Refresh(d) ==
    /\ upload[d] = "stored"
    /\ upload' = [upload EXCEPT ![d] = "returned"]
    /\ dirty' = TRUE
    /\ lost' = (Rebuilding # {})
    /\ UNCHANGED <<rows, index, indexing, resets, pc, acc, due, raced, base, dropped>>

\* ingest(reset=True) drops the collection, uploads included ...
ResetStore ==
    /\ ~indexing
    /\ resets < MaxResets
    /\ resets' = resets + 1
    /\ indexing' = TRUE
    /\ rows' = <<>>
    /\ due' = [r \in Readers |-> {}]
    /\ dropped' = [r \in Readers |-> pc[r] \in {"paging", "assign"}]
    /\ UNCHANGED <<index, dirty, upload, pc, acc, lost, raced, base>>

\* ... and adds the chunks of the directory, without a refresh.
AddCorpus ==
    /\ indexing
    /\ indexing' = FALSE
    /\ rows' = rows \o Corpus
    /\ UNCHANGED <<index, dirty, upload, resets, pc, acc, historyVars>>

-----------------------------------------------------------------------------
Proceed(r) ==
    \/ Check(r)
    \/ ReadPage(r)
    \/ ReadFails(r)
    \/ Assign(r)
    \/ Clear(r)
    \/ Run(r)

Next ==
    \/ \E r \in Readers : Ask(r)
    \/ \E r \in Readers : Proceed(r)
    \/ \E d \in Uploads : Store(d)
    \/ \E d \in Uploads : Refresh(d)
    \/ ResetStore
    \/ AddCorpus

Spec == Init /\ [][Next]_vars

-----------------------------------------------------------------------------
(* Safety.                                                                 *)

\* A query finds every chunk whose upload had returned when it began, unless the latest
\* refresh before it fell into a rebuild: one refresh that no rebuild overlaps makes up
\* for every earlier one that was lost.
VisibleUnlessRaced ==
    [][\A r \in Readers :
         Run(r) /\ ~raced[r] => due[r] \subseteq ToSet(index)]_vars

\* Pages cut while other threads add are together the rows there were and some of those
\* added since, each once and in order, as long as the collection is not dropped.
PagingReadsAPrefix ==
    \A r \in Readers :
        pc[r] = "assign" /\ ~dropped[r] =>
            IsPrefix(base[r], acc[r]) /\ IsPrefix(acc[r], rows)

\* The docstring of ingest_document: an upload is visible to the very next query.
VisibleToTheNextQuery ==
    [][\A r \in Readers : Run(r) => due[r] \subseteq ToSet(index)]_vars
=============================================================================
