--------------------------- MODULE AnswerPipeline ---------------------------
(***************************************************************************)
(* RAGEngine._answer (tools/rag/engine.py): one question from sanitizing   *)
(* to its audit record, for several requests at a time on one engine (a    *)
(* server runs them in a thread pool) while the engine's hot-reload        *)
(* setters run and documents are added or re-indexed.                      *)
(*                                                                         *)
(* The engine takes no lock and no snapshot of its fields: every stage     *)
(* reads self._guard, self._confidence_threshold, self._cache, self._llm,  *)
(* self._system_prompt and the version labels when it gets there.  A stage *)
(* is an action, and a stage that reads one of these fields twice, with a  *)
(* model call or other work in between, is two.                            *)
(*                                                                         *)
(* Data.  A chunk is an id and the revision of its text: re-indexing a     *)
(* corpus keeps the ids and renews the texts and access tags.  Prompts and *)
(* models are numbered in the order they are installed.  An answer's text  *)
(* is what it was generated from.  What retrieval ranks where, what the    *)
(* guard decides and what the model writes are free choices.               *)
(***************************************************************************)
EXTENDS Naturals, Sequences, SequencesExt

CONSTANTS
    Requests,       \* the calls of answer()
    Questions,      \* sanitized retrieval queries
    Blank,          \* the question of which sanitizing leaves nothing
    Injections,     \* the questions inspect_query calls unsafe
    InputGuard,     \* _input_guard_enabled
    Callers,        \* authenticated callers
    Roles,          \* the roles that access tags name
    RolesOf,        \* auth_context.roles of each caller
    Chunks,         \* chunk ids
    Corpus,         \* the chunks of the indexed directory; the others are uploads
    Tags,           \* access tags of each revision of each chunk
    TopK,           \* _top_k
    Scores,         \* the scores retrieval gives
    Thresholds,     \* the confidence thresholds operators choose from
    CiteSets,       \* the sets of [S#] tags the model may write
    Guards,         \* whether the engine is built with a guard: {TRUE}, {FALSE} or either
    HotReload,      \* the setters operators use while requests run
    MaxRevision,    \* bound: revisions of a chunk
    MaxReloads,     \* bound: uses of setters, uploads and re-indexings
    Nothing         \* no key, no text, no decision

ASSUME PipelineAssumption ==
    /\ Injections \subseteq Questions /\ Blank \notin Questions
    /\ InputGuard \in BOOLEAN /\ Guards \subseteq BOOLEAN
    /\ RolesOf \in [Callers -> SUBSET Roles]
    /\ Corpus \subseteq Chunks
    /\ TopK \in Nat \ {0}
    /\ Scores \subseteq Nat /\ Thresholds \subseteq Nat
    /\ CiteSets \subseteq SUBSET Nat
    /\ HotReload \subseteq {"guard", "cache", "threshold", "prompt", "llm"}
    /\ MaxRevision \in Nat \ {0} /\ MaxReloads \in Nat
    /\ Tags \in [Chunks -> [1..MaxRevision -> SUBSET Roles]]

Revisions == 1..MaxRevision
Sources == [id : Chunks, rev : Revisions]

\* is_entitled: untagged, or the caller has one of the tags.
Entitled(caller, source) ==
    LET tags == Tags[source.id][source.rev]
    IN  tags = {} \/ tags \cap RolesOf[caller] # {}

Stages == {"new", "guard", "evaluate", "judging", "count", "retrieve", "confidence",
           "filter", "lookup", "read", "generate", "put", "store", "output", "screening",
           "unscreened", "returned", "failed"}
Zones == {"pass", "restricted", "reject"}
Answered == {"ok", "output_blocked"}
Abstentions == {"empty", "blocked", "guard_v2_reject", "empty_kb", "no_chunks",
                "low_confidence"}
Failures == {"VectorStoreError", "RetrievalError", "LLMUnavailableError",
             "AssertionError", "AttributeError"}

Texts == [question : Questions, seen : Seq(Sources), prompt : Nat \ {0},
          llm : Nat \ {0}, cites : SUBSET Nat, leak : BOOLEAN]
Asked == [question : Questions \cup {Blank}, caller : Callers]
Keys == [question : Questions, ids : Seq(Chunks), label : Nat \ {0}]
Changes == {"guard_installed", "guard_removed", "cache_installed", "cache_removed",
            "threshold", "prompt", "llm"}
Outcomes == [status : Answered \cup Abstentions \cup Failures, warned : BOOLEAN]
Records == [event : Abstentions \cup {"ok"}, chunks : SUBSET Chunks]

ASSUME NothingAssumption ==
    Nothing \notin Zones \cup Texts \cup Asked \cup Keys \cup Outcomes

VARIABLES
    \* the engine's fields
    guardOn,        \* _guard is not None
    cacheOn,        \* _cache is not None
    threshold,      \* _confidence_threshold
    prompt,         \* _system_prompt
    label,          \* _system_prompt_version
    llm,            \* _llm; _llm_version never changes
    \* the stores behind it
    present,        \* the chunks in the vector store
    rev,            \* the latest revision of each chunk, 0 before it exists
    indexing,       \* corpus chunks between the reset and the add of a re-indexing
    qa,             \* table qa_cache: a function from keys to texts
    reloads         \* setters, uploads and re-indexings used so far

engineVars == <<guardOn, cacheOn, threshold, prompt, label, llm>>
corpusVars == <<present, rev, indexing>>

VARIABLES
    \* the locals of each request
    pc,             \* the stage it is at
    asked,          \* its question and caller
    zone,           \* the zone of the guard's decision, Nothing without one
    docs,           \* retrieved: a sequence of sources
    scores,         \* their scores
    key,            \* cache_key
    text,           \* text
    out,            \* how it ended, Nothing before
    records         \* the outcome records it wrote to the audit log

(***************************************************************************)
(* History variable, read by no action: the changes setters made since a   *)
(* request began.                                                          *)
(***************************************************************************)
VARIABLE touched

historyVars == <<touched>>
requestVars == <<asked, zone, docs, scores, key, text, out, records, historyVars>>
vars == <<engineVars, corpusVars, qa, reloads, pc, requestVars>>

Ids(sources) == [i \in DOMAIN sources |-> sources[i].id]

IdSet(sources) == {sources[i].id : i \in DOMAIN sources}

Init ==
    /\ guardOn \in Guards
    /\ cacheOn = TRUE
    /\ threshold \in Thresholds
    /\ prompt = 1 /\ label = 1 /\ llm = 1
    /\ present \in {{}, Corpus}
    /\ rev = [c \in Chunks |-> IF c \in present THEN 1 ELSE 0]
    /\ indexing = {}
    /\ qa = <<>>
    /\ reloads = 0
    /\ pc = [r \in Requests |-> "new"]
    /\ asked = [r \in Requests |-> Nothing]
    /\ zone = [r \in Requests |-> Nothing]
    /\ docs = [r \in Requests |-> <<>>]
    /\ scores = [r \in Requests |-> <<>>]
    /\ key = [r \in Requests |-> Nothing]
    /\ text = [r \in Requests |-> Nothing]
    /\ out = [r \in Requests |-> Nothing]
    /\ records = [r \in Requests |-> <<>>]
    /\ touched = [r \in Requests |-> {}]

-----------------------------------------------------------------------------
(* How a request ends.                                                     *)

Goto(r, stage) == pc' = [pc EXCEPT ![r] = stage]

\* _write_audit: a sink that fails is logged and the request goes on, so a record stands
\* for the attempt.
WriteAudit(r, event, ids) ==
    records' = [records EXCEPT ![r] = Append(@, [event |-> event, chunks |-> ids])]

\* _record_exit: an Answer with a fixed message, no citations and no sources.
RecordExit(r, status, ids) ==
    /\ WriteAudit(r, status, ids)
    /\ out' = [out EXCEPT ![r] = [status |-> status, warned |-> FALSE]]
    /\ docs' = [docs EXCEPT ![r] = <<>>]
    /\ scores' = [scores EXCEPT ![r] = <<>>]
    /\ Goto(r, "returned")

\* An exception leaves answer(); no record is written on the way.
Raise(r, error) ==
    /\ out' = [out EXCEPT ![r] = [status |-> error, warned |-> FALSE]]
    /\ docs' = [docs EXCEPT ![r] = <<>>]
    /\ scores' = [scores EXCEPT ![r] = <<>>]
    /\ Goto(r, "failed")
    /\ UNCHANGED records

Continue(r, stage) ==
    /\ Goto(r, stage)
    /\ UNCHANGED <<out, docs, scores, records>>

Outside == <<engineVars, corpusVars, reloads>>

-----------------------------------------------------------------------------
(* The stages of _answer.                                                  *)

\* The legacy input guard, before retrieval or the model see the query.
RunInputGuard(r, q) ==
    IF InputGuard /\ q \in Injections THEN RecordExit(r, "blocked", {}) ELSE Continue(r, "guard")

\* Sanitize, the empty exit, the input guard.
Begin(r) ==
    /\ pc[r] = "new"
    /\ \E q \in Questions \cup {Blank}, c \in Callers :
          /\ asked' = [asked EXCEPT ![r] = [question |-> q, caller |-> c]]
          /\ IF q = Blank THEN RecordExit(r, "empty", {}) ELSE RunInputGuard(r, q)
    /\ UNCHANGED <<Outside, qa, zone, key, text, touched>>

\* _run_guard_v2 tests self._guard ...
EnterGuard(r) ==
    /\ pc[r] = "guard"
    /\ Continue(r, IF guardOn THEN "evaluate" ELSE "count")
    /\ UNCHANGED <<Outside, qa, asked, zone, key, text, historyVars>>

\* ... reads it again to have it evaluate the query ...
EvaluateQuery(r) ==
    /\ pc[r] = "evaluate"
    /\ IF guardOn THEN Continue(r, "judging") ELSE Raise(r, "AttributeError")
    /\ UNCHANGED <<Outside, qa, asked, zone, key, text, historyVars>>

\* ... and has the decision; a rejection reads it once more, for its audit fields.
JudgeQuery(r) ==
    /\ pc[r] = "judging"
    /\ \E z \in Zones :
          /\ zone' = [zone EXCEPT ![r] = z]
          /\ IF z # "reject" THEN Continue(r, "count")
             ELSE IF guardOn THEN RecordExit(r, "guard_v2_reject", {})
             ELSE Raise(r, "AttributeError")
    /\ UNCHANGED <<Outside, qa, asked, key, text, historyVars>>

\* The empty-corpus check.
CountChunks(r) ==
    /\ pc[r] = "count"
    /\ \/ Raise(r, "VectorStoreError")
       \/ present = {} /\ RecordExit(r, "empty_kb", {})
       \/ present # {} /\ Continue(r, "retrieve")
    /\ UNCHANGED <<Outside, qa, asked, zone, key, text, historyVars>>

\* The rankings retrieval may return to a caller: rows of distinct chunks that the caller
\* is entitled to by the row's own tags.  The rows are of the store, as it is or as it was:
\* a BM25 index built before chunks were dropped or indexed again still holds what it then
\* read.  A hybrid retriever orders by fused ranks and scores by another measure, so the
\* scores need not fall.
Rankings(caller) ==
    LET visible == {s \in Sources : s.rev <= rev[s.id] /\ Entitled(caller, s)}
        Orders(n) == {rows \in [1..n -> visible] : IsInjective(Ids(rows))}
    IN  UNION {Orders(n) \X [1..n -> Scores] : n \in 0..TopK}

\* Rewrite the query, retrieve, and abstain when nothing was found.  The rewriter, the
\* embedder and the store may raise.
Retrieve(r) ==
    /\ pc[r] = "retrieve"
    /\ \/ Raise(r, "RetrievalError")
       \/ \E ranking \in Rankings(asked[r].caller) :
            IF ranking[1] = <<>> THEN RecordExit(r, "no_chunks", {})
            ELSE /\ docs' = [docs EXCEPT ![r] = ranking[1]]
                 /\ scores' = [scores EXCEPT ![r] = ranking[2]]
                 /\ Goto(r, "confidence")
                 /\ UNCHANGED <<out, records>>
    /\ UNCHANGED <<Outside, qa, asked, zone, key, text, historyVars>>

\* Mutant: leave abstaining to the filter.
CheckConfidenceNever(r) ==
    /\ pc[r] = "confidence"
    /\ Continue(r, "filter")
    /\ UNCHANGED <<Outside, qa, asked, zone, key, text, historyVars>>

\* Abstain when the best score is below the threshold.
CheckConfidence(r) ==
    /\ pc[r] = "confidence"
    /\ IF \A i \in DOMAIN scores[r] : scores[r][i] < threshold
       THEN RecordExit(r, "low_confidence", IdSet(docs[r]))
       ELSE Continue(r, "filter")
    /\ UNCHANGED <<Outside, qa, asked, zone, key, text, historyVars>>

\* The positions of a set in increasing order.
Increasing(positions) ==
    {s \in UNION {[1..n -> positions] : n \in 0..TopK} :
        /\ \A i, j \in DOMAIN s : i < j => s[i] < s[j]
        /\ \A p \in positions : \E i \in DOMAIN s : s[i] = p}

\* Keep the chunks that reach the threshold, read a second time.
FilterChunks(r) ==
    /\ pc[r] = "filter"
    /\ \E kept \in Increasing({i \in DOMAIN docs[r] : scores[r][i] >= threshold}) :
          docs' = [docs EXCEPT ![r] = [i \in DOMAIN kept |-> @[kept[i]]]]
    /\ scores' = [scores EXCEPT ![r] = <<>>]
    /\ Goto(r, "lookup")
    /\ UNCHANGED <<Outside, qa, asked, zone, key, text, out, records, historyVars>>

\* Mutants: a key that forgets the order of the chunks, and one that forgets the chunks.
CacheKeyUnordered(r) ==
    [question |-> asked[r].question, ids |-> IdSet(docs[r]), label |-> label]

CacheKeyOfQuestion(r) == [question |-> asked[r].question, ids |-> <<>>, label |-> label]

\* compute_cache_key: the query, the ordered chunk ids and the version labels, of which
\* only the prompt's ever changes.
CacheKey(r) == [question |-> asked[r].question, ids |-> Ids(docs[r]), label |-> label]

\* Mutant: the key is computed even without a cache.
LookUpAlwaysKeyed(r) ==
    /\ pc[r] = "lookup"
    /\ key' = [key EXCEPT ![r] = CacheKey(r)]
    /\ Continue(r, "read")
    /\ UNCHANGED <<Outside, qa, asked, zone, text, historyVars>>

\* _get_or_generate_answer: with a cache, compute the key ...
LookUp(r) ==
    /\ pc[r] = "lookup"
    /\ IF cacheOn
       THEN Continue(r, "read") /\ key' = [key EXCEPT ![r] = CacheKey(r)]
       ELSE Continue(r, "generate") /\ UNCHANGED key
    /\ UNCHANGED <<Outside, qa, asked, zone, text, historyVars>>

\* ... and read self._cache again to get what is under it.  A get that fails or finds an
\* expired row is a miss.
ReadCache(r) ==
    /\ pc[r] = "read"
    /\ IF ~cacheOn THEN Raise(r, "AttributeError") /\ UNCHANGED text
       ELSE \/ Continue(r, "generate") /\ UNCHANGED text
            \/ /\ key[r] \in DOMAIN qa
               /\ text' = [text EXCEPT ![r] = qa[key[r]]]
               /\ Continue(r, "output")
    /\ UNCHANGED <<Outside, qa, asked, zone, key, historyVars>>

\* The call of the model, with the prompt and model of this moment.
Generate(r) ==
    /\ pc[r] = "generate"
    /\ \/ Raise(r, "LLMUnavailableError") /\ UNCHANGED text
       \/ \E cites \in CiteSets, leak \in BOOLEAN :
            /\ text' = [text EXCEPT ![r] =
                  [question |-> asked[r].question, seen |-> docs[r], prompt |-> prompt,
                   llm |-> llm, cites |-> cites, leak |-> leak]]
            /\ Continue(r, IF key[r] = Nothing THEN "output" ELSE "put")
    /\ UNCHANGED <<Outside, qa, asked, zone, key, historyVars>>

\* A looked up key is a reason to store, the assertion says, for there to be a cache ...
AssertCache(r) ==
    /\ pc[r] = "put"
    /\ IF cacheOn THEN Continue(r, "store") ELSE Raise(r, "AssertionError")
    /\ UNCHANGED <<Outside, qa, asked, zone, key, text, historyVars>>

\* Mutant: the key is computed again for the write.
PutUnderNewKey(r) ==
    /\ pc[r] = "store"
    /\ IF ~cacheOn
       THEN Raise(r, "AttributeError") /\ UNCHANGED qa
       ELSE /\ Continue(r, "output")
            /\ qa' = [k \in DOMAIN qa \cup {CacheKey(r)} |->
                         IF k = CacheKey(r) THEN text[r] ELSE qa[k]]
    /\ UNCHANGED <<Outside, asked, zone, key, text, historyVars>>

\* ... which is read again: store the text under the key of the lookup, or fail to,
\* silently.
PutInCache(r) ==
    /\ pc[r] = "store"
    /\ IF ~cacheOn
       THEN Raise(r, "AttributeError") /\ UNCHANGED qa
       ELSE /\ Continue(r, "output")
            /\ \/ UNCHANGED qa
               \/ qa' = [k \in DOMAIN qa \cup {key[r]} |->
                            IF k = key[r] THEN text[r] ELSE qa[k]]
    /\ UNCHANGED <<Outside, asked, zone, key, text, historyVars>>

Respond(r, status, sources, warned) ==
    /\ out' = [out EXCEPT ![r] = [status |-> status, warned |-> warned]]
    /\ docs' = [docs EXCEPT ![r] = sources]
    /\ Goto(r, "returned")
    /\ key' = [key EXCEPT ![r] = Nothing]
    /\ UNCHANGED scores

\* Mutant: only restricted requests are screened.
ScreenOnlyRestricted(r) ==
    /\ pc[r] = "output"
    /\ Continue(r, IF guardOn /\ zone[r] = "restricted" THEN "screening" ELSE "unscreened")
    /\ UNCHANGED <<Outside, qa, asked, zone, key, text, historyVars>>

\* _apply_output_guard screens with a guard that is there and has made a decision on this
\* request.
EnterOutputGuard(r) ==
    /\ pc[r] = "output"
    /\ Continue(r, IF guardOn /\ zone[r] # Nothing THEN "screening" ELSE "unscreened")
    /\ UNCHANGED <<Outside, qa, asked, zone, key, text, historyVars>>

\* Mutant: a request the guard decided on is taken to have its record.
RecordUndecided(r) ==
    /\ pc[r] = "unscreened"
    /\ IF guardOn \/ zone[r] # Nothing
       THEN UNCHANGED records ELSE WriteAudit(r, "ok", IdSet(docs[r]))
    /\ Respond(r, "ok", docs[r], FALSE)
    /\ UNCHANGED <<Outside, qa, asked, zone, text, historyVars>>

\* Otherwise the answer goes out as it is, with its record if self._guard, read again, is
\* None, and without one if there is a guard by now.
SkipScreening(r) ==
    /\ pc[r] = "unscreened"
    /\ IF guardOn THEN UNCHANGED records ELSE WriteAudit(r, "ok", IdSet(docs[r]))
    /\ Respond(r, "ok", docs[r], FALSE)
    /\ UNCHANGED <<Outside, qa, asked, zone, text, historyVars>>

\* Block a leak, warn in the restricted zone, and write the record.  self._guard is read
\* again before and after the screening, and missing it at either fails the same way.
ScreenOutput(r) ==
    /\ pc[r] = "screening"
    /\ IF ~guardOn THEN Raise(r, "AttributeError") /\ UNCHANGED key
       ELSE IF text[r].leak
       THEN Respond(r, "output_blocked", <<>>, FALSE) /\ WriteAudit(r, "ok", {})
       ELSE /\ Respond(r, "ok", docs[r], zone[r] = "restricted")
            /\ WriteAudit(r, "ok", IdSet(docs[r]))
    /\ UNCHANGED <<Outside, qa, asked, zone, text, historyVars>>

\* _extract_citations: the sources of the tags that have one, by position.
Citations(r) == [i \in text[r].cites \cap DOMAIN docs[r] |-> docs[r][i]]

-----------------------------------------------------------------------------
(* The operators: the setters of the engine, uploads and re-indexing.      *)

InFlight == {r \in Requests : pc[r] \notin {"new", "returned", "failed"}}

Reload(name, change) ==
    /\ name \in HotReload
    /\ reloads < MaxReloads
    /\ reloads' = reloads + 1
    /\ touched' = [r \in Requests |->
                      IF r \in InFlight THEN touched[r] \cup {change} ELSE touched[r]]
    /\ UNCHANGED <<corpusVars, qa, pc, asked, zone, docs, scores, key, text, out, records>>

\* update_guard with a pipeline or None.
UpdateGuard ==
    /\ Reload("guard", IF guardOn THEN "guard_removed" ELSE "guard_installed")
    /\ guardOn' = ~guardOn
    /\ UNCHANGED <<cacheOn, threshold, prompt, label, llm>>

\* update_cache with a cache on the same file or None.
UpdateCache ==
    /\ Reload("cache", IF cacheOn THEN "cache_removed" ELSE "cache_installed")
    /\ cacheOn' = ~cacheOn
    /\ UNCHANGED <<guardOn, threshold, prompt, label, llm>>

\* update_confidence_threshold.
UpdateThreshold ==
    /\ Reload("threshold", "threshold")
    /\ threshold' \in Thresholds \ {threshold}
    /\ UNCHANGED <<guardOn, cacheOn, prompt, label, llm>>

\* update_system_prompt, with a new text ...
UpdatePrompt ==
    /\ prompt = label
    /\ Reload("prompt", "prompt")
    /\ prompt' = prompt + 1
    /\ UNCHANGED <<guardOn, cacheOn, threshold, label, llm>>

\* ... and update_system_prompt_version, with its new label: text first, label second.
UpdateLabel ==
    /\ label # prompt
    /\ label' = prompt
    /\ UNCHANGED <<guardOn, cacheOn, threshold, prompt, llm, corpusVars, qa, reloads, pc,
                   requestVars>>

\* update_llm: there is no setter of _llm_version.
UpdateLLM ==
    /\ Reload("llm", "llm")
    /\ llm' = llm + 1
    /\ UNCHANGED <<guardOn, cacheOn, threshold, prompt, label>>

\* ingest_document: an upload gets fresh ids.
Upload(c) ==
    /\ c \in Chunks \ Corpus
    /\ rev[c] = 0
    /\ reloads < MaxReloads
    /\ reloads' = reloads + 1
    /\ present' = present \cup {c}
    /\ rev' = [rev EXCEPT ![c] = 1]
    /\ UNCHANGED <<engineVars, indexing, qa, pc, requestVars>>

\* ingest(reset=True) drops the collection, uploads included ...
ResetStore ==
    /\ indexing = {}
    /\ reloads < MaxReloads
    /\ \A c \in Corpus : rev[c] < MaxRevision
    /\ reloads' = reloads + 1
    /\ present' = {}
    /\ indexing' = Corpus
    /\ UNCHANGED <<engineVars, rev, qa, pc, requestVars>>

\* ... loads and embeds the corpus, and adds it under the ids it had before.
AddCorpus ==
    /\ indexing # {}
    /\ present' = present \cup indexing
    /\ rev' = [c \in Chunks |-> IF c \in indexing THEN rev[c] + 1 ELSE rev[c]]
    /\ indexing' = {}
    /\ UNCHANGED <<engineVars, qa, reloads, pc, requestVars>>

\* A row outlives its TTL.
Expire ==
    /\ \E k \in DOMAIN qa : qa' = [j \in DOMAIN qa \ {k} |-> qa[j]]
    /\ UNCHANGED <<engineVars, corpusVars, reloads, pc, requestVars>>

-----------------------------------------------------------------------------
Proceed(r) ==
    \/ EnterGuard(r)
    \/ EvaluateQuery(r)
    \/ JudgeQuery(r)
    \/ CountChunks(r)
    \/ Retrieve(r)
    \/ CheckConfidence(r)
    \/ FilterChunks(r)
    \/ LookUp(r)
    \/ ReadCache(r)
    \/ Generate(r)
    \/ AssertCache(r)
    \/ PutInCache(r)
    \/ EnterOutputGuard(r)
    \/ SkipScreening(r)
    \/ ScreenOutput(r)

Operate ==
    \/ UpdateGuard
    \/ UpdateCache
    \/ UpdateThreshold
    \/ UpdatePrompt
    \/ UpdateLabel
    \/ UpdateLLM
    \/ \E c \in Chunks : Upload(c)
    \/ ResetStore
    \/ AddCorpus
    \/ Expire

Next ==
    \/ \E r \in Requests : Begin(r)
    \/ \E r \in Requests : Proceed(r)
    \/ Operate

Spec == Init /\ [][Next]_vars

-----------------------------------------------------------------------------
(* Safety.                                                                 *)

TypeOK ==
    /\ guardOn \in BOOLEAN /\ cacheOn \in BOOLEAN
    /\ threshold \in Thresholds
    /\ prompt \in Nat \ {0} /\ label \in 1..prompt /\ llm \in Nat \ {0}
    /\ present \subseteq Chunks /\ indexing \subseteq Corpus
    /\ rev \in [Chunks -> 0..MaxRevision]
    /\ \A c \in present : rev[c] # 0
    /\ DOMAIN qa \subseteq Keys /\ qa \in [DOMAIN qa -> Texts]
    /\ reloads \in 0..MaxReloads
    /\ pc \in [Requests -> Stages]
    /\ asked \in [Requests -> Asked \cup {Nothing}]
    /\ zone \in [Requests -> Zones \cup {Nothing}]
    /\ docs \in [Requests -> Seq(Sources)]
    /\ scores \in [Requests -> Seq(Scores)]
    /\ key \in [Requests -> Keys \cup {Nothing}]
    /\ text \in [Requests -> Texts \cup {Nothing}]
    /\ out \in [Requests -> Outcomes \cup {Nothing}]
    /\ records \in [Requests -> Seq(Records)]
    /\ touched \in [Requests -> SUBSET Changes]

Delivered(r) == pc[r] = "returned" /\ out[r].status = "ok"

\* The sources an answer is shown with are, position by position, the ones its text was
\* generated from, so that each [S#] tag names what the model read at that number; a
\* source differs in its revision only if its id has been indexed again.
AnswerMatchesSources ==
    \A r \in Requests : Delivered(r) =>
        /\ Ids(text[r].seen) = Ids(docs[r])
        /\ \A i \in DOMAIN docs[r] :
              text[r].seen[i] # docs[r][i] => rev[docs[r][i].id] > 1
        /\ \A i \in DOMAIN Citations(r) : Citations(r)[i].id = text[r].seen[i].id

\* An answer, generated or cached, is made only of text its caller is entitled to, except
\* for chunks whose id has been indexed again.
AnswerIsEntitled ==
    \A r \in Requests : Delivered(r) =>
        \A i \in DOMAIN text[r].seen :
            \/ Entitled(asked[r].caller, text[r].seen[i])
            \/ rev[text[r].seen[i].id] > 1

\* A cached text was generated for the question and the chunks of its key, by a prompt at
\* least as new as the key's label.
CacheEntriesMatchKeys ==
    \A k \in DOMAIN qa :
        /\ qa[k].question = k.question
        /\ Ids(qa[k].seen) = k.ids
        /\ qa[k].prompt >= k.label

\* The model is given at least one source, unless the threshold moved between the two
\* reads of it by some request.
NoAnswerFromNothing ==
    \A r \in Requests :
        text[r] # Nothing /\ text[r].seen = <<>> => "threshold" \in touched[r]

\* Unless its guard is removed meanwhile, a request the guard has judged delivers no leak,
\* cached or new, and its restricted answers carry the warning.
ScreenedUnlessGuardRemoved ==
    \A r \in Requests :
        Delivered(r) /\ zone[r] # Nothing /\ "guard_removed" \notin touched[r] =>
            /\ ~text[r].leak
            /\ zone[r] = "restricted" => out[r].warned

\* No request writes two outcome records, and one that returns writes one, whatever is
\* removed meanwhile; only a guard installed meanwhile can keep it from its record.
AuditedOnce ==
    \A r \in Requests :
        /\ Len(records[r]) <= 1
        /\ pc[r] = "returned" /\ "guard_installed" \notin touched[r] => Len(records[r]) = 1

\* The record of a delivered answer names the chunks its text was generated from.
AuditNamesTheSources ==
    \A r \in Requests :
        Delivered(r) /\ records[r] # <<>> =>
            records[r][1] = [event |-> "ok", chunks |-> IdSet(text[r].seen)]

\* A request fails by an error of the engine's own only when the cache or the guard it had
\* found was removed meanwhile: installing one, or any other setter, fails no request.
InternalErrorsNeedAReload ==
    \A r \in Requests : pc[r] = "failed" =>
        /\ out[r].status = "AssertionError" => "cache_removed" \in touched[r]
        /\ out[r].status = "AttributeError" =>
              touched[r] \cap {"cache_removed", "guard_removed"} # {}
=============================================================================
