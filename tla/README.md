# Specifications of kuhaku

TLA+ models of kuhaku, the runs that check them with TLC and the theorems about them that
TLAPS proves. The models are written from the code under `src/src/kuhaku`; a comment above
each definition names what it stands for, and `PROJECT.json` (`map`) gives the lines.

## The system

kuhaku is a Python library. An application builds a `RAG` facade, gives it documents and
asks it questions; or it builds an `Extractor` and has fields taken out of texts; and it
measures either with an `EvaluationRunner`. Everything runs in the application's process,
on the application's threads (the answer cache is written for a FastAPI thread pool,
`tools/rag/cache.py:17`); only the contradiction judge and the query rewriter start threads
of their own. Several processes may share one store directory, one cache file, one audit
log, one results database and one decisions file.

| Component | State it keeps | Operations | Talks to |
|---|---|---|---|
| Resolution (`core/resolve`, `tools/rag/resolve`) | remembered decisions in a JSON file | `resolve`, `consent_and_prepare`, `activate`, `JsonMemory.get/put` | the user, the environment |
| Facade (`__init__.py`) | the parts it has built | construction, `ingest`, `load_documents`, `ask` | resolution, everything below |
| Ingestion, chunking (`tools/rag/ingestion.py`, `loader.py`, `chunking.py`) | none | `ingest`, `ingest_single_document`, chunkers | embedder, store |
| Store writer lock (`tools/rag/resolve/store_policy.py`) | a lock file with a pid | enter, judge, break, leave | `RAG.ingest`, the user's terminal |
| Vector store (`tools/rag/vectorstore.py`) | a Chroma collection and a handle on it | `add`, `query`, `count`, `iter_chunks`, `reset` | disk, other processes |
| Retrievers (`tools/rag/retriever.py`, `sparse_retriever.py`, `reranker.py`) | a BM25 index and its dirty flag | `retrieve`, `refresh` | embedder, vector store |
| Answer engine (`tools/rag/engine.py`) | references to its parts, threshold, prompt, version labels; no lock | `answer`, `retrieve`, `ingest_document`, twelve `update_*` setters | every part of the RAG |
| Answer cache (`tools/rag/cache.py`) | SQLite table of texts by key, with their age | `get`, `put` | engine |
| Query rewriter, contradiction detector | a rewrite cache; a table of findings | `rewrite`, `detect` | LLM |
| Authentication and authorization (`core/auth`) | registered providers, keys, roles, rules | `authenticate`, `check`, `load_file` | the application |
| Guard v2, input policy, output guard (`core/security`) | degradation of its second stage | `evaluate`, `inspect_query`, `evaluate_output` | engine, extraction |
| Audit log (`core/security/audit.py`) | a JSONL file and a write lock | `record`, `read_recent` | engine, extraction |
| Circuit breaker and retry (`core/retry.py`) | state, failure and success counts, time of opening; one lock | `call`, `_before_call`, `_on_success`, `_on_failure`, `call_with_retry` | wraps each provider's HTTP request |
| LLM providers (`core/llm`) | HTTP settings, last usage | `generate` | breaker, model servers |
| Extraction (`tools/extraction`) | one context per call; the data a conversation carries | `Extractor.extract`, `Router.extract`, the steps | LLM, guard, audit |
| Evaluation (`evaluation`) | result stores, the judge of a shared metric | `run`, `add_result`, `summary` | engine or extractor under test |
| Observability, configuration | metric instruments, a cached summary; settings | `record_*`, `get_metrics_summary` | everything |

What is hard here, and what the properties are therefore about:

- *The engine's fields change under a running request.* The setters of a live engine take
  no lock and a request takes no snapshot (`docs/extending.md` recommends the setters for
  an engine behind a facade). Each read of a field in `_answer` can see another value than
  the read before. `ConfigAuthorizationPolicy.check` reads its two tables the same way.
- *Answers are replayed from a cache shared by callers with different rights*, over a
  corpus that is uploaded to and re-indexed meanwhile.
- *The breaker's reports come late.* Calls run outside its lock, so what is reported to a
  half-open circuit may be about a call made while it was closed.
- *The writer lock is a file that is judged by contents and removed by path*, between
  processes that crash and pids that are given again; the decisions file is rewritten
  through a temporary name that every process shares.
- *Every way out of a request has to leave the right audit record*, also when the store,
  the retriever or the model raises.
- *The BM25 index is rebuilt lazily* by whichever thread finds it dirty, while other
  threads add documents.
- *Indexing is destructive first*: the collection is dropped before anything is read, and
  rows go by ids made from file names, which the store keeps the first of.
- *A conversation has no memory of its own*: what was extracted earlier travels in the
  results, is shown to a model again, excuses values from evidence, and must neither get
  lost in a detour nor leak into the next object.
- *What was looked up is not what is used*: packages, models and terminals change between
  the probe, the consent and the build.
- *Evaluation runs overlap* on one store and on metrics that are shared and completed in
  place.

`PROJECT.json` (`hazards`) lists these, line by line, with the properties that answer them.


## The modules

Modules about parts that act on shared state have one action per stretch of code between two
points where somebody else can change what the code reads; modules about computations have
operators only.

| Module | Stands for | State | Actions |
|---|---|---|---|
| `CircuitBreaker` | `CircuitBreaker` and `call_with_retry` in `core/retry.py`, with the outcomes of `OllamaProvider.generate` | `state`, `failureCount`, `successCount`, `sinceOpened` (the time since `_opened_at` was set); per thread where its call is | `Admit`, `Probe`, `Reject` (`_before_call`), `AttemptSucceeds`, `RetryAttempt`, `GiveUp` (the request, outside the lock), `OnSuccess`, `OnFailure`; `Tick`, `DependencyChanges` |
| `WriterLock` | `guard_single_writer` and `_holder_alive` in `store_policy.py`, called by `RAG.ingest` | the lock file with its pid and who created it, the processes and their pids; per writer where it is | one per system call: `CreateLock`, `OpenFails`, `ReadPid`, `Probe`, `Ask`, `Unlink`, `Reopen`, `WritePid`, `Leave`; `Start`, `Exit`, `Crash` of processes |
| `AnswerPipeline` | `RAGEngine._answer` and what runs beside it: the setters, `QueryAnswerCache`, upload and re-indexing | the engine's fields, the store, the table `qa_cache`; per request its stage and the locals of `_answer` | one per stage, and one for each further read of a field within it (`EvaluateQuery`, `ReadCache`, `AssertCache`, `PutInCache`, `SkipScreening`); one per setter; `Upload`, `ResetStore`, `AddCorpus`, `Expire` |
| `SparseIndex` | `StoreBackedBM25Retriever`, `ChromaVectorStore.iter_chunks`, the refresh after an upload | the rows of the store in order, the index, its dirty flag; per reader where it is and the rows it has read | `Ask`, `Check`, `ReadPage`, `ReadFails`, `Assign`, `Clear`, `Run` of a query; `Store`, `Refresh` of an upload; `ResetStore`, `AddCorpus` of a re-indexing |
| `RankFusion` | `HybridRetriever.retrieve`, and `SparseRetriever.retrieve`, with fusion, combined score, re-ranking and cap | one call: its settings, the ranking of each side, the pool, the result | one per stage: `Retrieve`, `SearchDense`, `SearchSparse`, `Fuse`, `ApplyReranker`, which may fail; the arithmetic is in operators |
| `Chunking` | `chunking.py` and the packing in `ingestion.py` | none | operators: `StructuralChunks`, `ParagraphChunks`, windows, sections, the cells `_parse_markdown_table` keeps, glossaries, and the length of a chunk as it is stored |
| `Ingestion` | `ingest`, `FileSystemLoader`, `RAG.load_documents`, `ingest_single_document`, `Chroma.add` | the disk, the rows of the collection, per program where it is and what it has read | `Reset`, `Scan`, `Chunked`, `AddCorpus`; `ListFiles`, `ReadListed`, `IngestSingle`, `BatchReturns`; `Fail` at any step, `Edit` of a file |
| `Resolution` | `resolver.py`, the candidates of each kind, fingerprints, `JsonMemory.get` | none | operators: `EmbeddingCandidates`, `StoreCandidates`, `LLMCandidates`, `Choices`, `Remembered`, `Fingerprint` |
| `Setup` | `RAG.__init__` and `build_llm_provider`: what each resolves, asks consent for and builds; `JsonMemory.put` | the machine, `decisions.json` and its temporary file, per process its construction | `Start`, one `Resolve...` per kind, `PinLLM`, the two looks at the memory (`Look` of `build_llm_provider`, `Choose` of `resolve`), one per system call of `put`, `Consent`, `Build`; `Crash`, `Change` of the machine |
| `GuardZones` | the escalation and zone decision of the guard, version 2 | none | operators: `Escalation`, `DecideZone`, `Zone` |
| `RequestGate` | the provider registry, API keys and tokens, `ConfigAuthorizationPolicy`, the guard's two stages | providers, keys, clock, roles and rule, the degradation of stage 2; per request what it carries | `LogIn`, the reads of `check` (`ReadRule`, and `LookUpRole` for each role), `Stage1`, `Stage2`, which may break for good; one per operation of an administrator, `load_file` in two (`LoadRoles`, `LoadRules`); `Tick` |
| `ExtractionSteps` | the steps of the pipeline: replies, `SlotFillingStep`, `EvidenceStep`, validation, status | none | operators: `StatusFromIssues`, `ValidateData`, `Report`, `CheckEvidence` and others |
| `Conversation` | `Router`, `Extractor`, `Pipeline`, `ExtractStep` with retries and fall-back providers, and the caller that hands results back | the result the caller holds, the call under way | `Send`, `ToggleSlotFilling`; `RouteByKeyword`, `RouteByModel`, `RouteEnds`, `RouteFails`; `Prepare`, `Receive`, `ProviderFails` by an `LLMError`, `StepCrashes` by any other exception of a step, `Finish` |
| `RetrievalMetrics` | `evaluation/metrics/functions.py` | none | operators in thousandths: `RecallAtK`, `PrecisionAtK`, `MRR`, `NDCGAtK`, `HitRateAtK` |
| `EvaluationArchive` | what the docstrings of `EvaluationStore` promise: the abstract specification | the rows of each run, the summary given last, whether the store is durable | `Add`, `Report`, `Lose` of a store that is not |
| `Evaluation` | `EvaluationRunner`, both stores, `_wire_judge`, the shared `FaithfulnessMetric` | both stores, the uncommitted insert, the shared metric; per runner its run | `Begin`, `WireJudge`, `LoadDataset`, `Evaluate` of one question, `LookForRunId`, `NoteRunId`, `AppendResult` in memory, `Insert`, `Commit`, `InsertFails` in SQLite, `Summarize`; `Crash` |

The modules whose names begin with `MC` give these small instances for TLC; `CircuitBreaker`
needs none. The modules that end in `_proofs` hold the theorems. Those of `SparseIndex` and of
`RankFusion` share `Retrievers_proofs`, and those of the two that write the store, `WriterLock`
and `Ingestion` (with `Chunking`), share `Store_proofs`; this is why `RankFusion` and
`Ingestion` call their specifications `FusionSpec` and `IngestSpec`. `Ingestion` composes
`Chunking` with the store, `Setup` composes `Resolution` with the file, `RequestGate`
composes `GuardZones` with what precedes it, `Conversation` composes `ExtractionSteps`, and
`Evaluation` composes `RetrievalMetrics` with the stores and implements `EvaluationArchive`.

How the code maps to them:

- The breaker's `_before_call`, `_on_success` and `_on_failure` hold its lock and are one
  action each; the request between them is outside the lock. In the engine, which has no
  lock, a stage is an action, and each further read of a field (the guard's judgement, the
  cache's read, its assertion and its write, the second test of the output stage) is an action
  of its own. Where a later read of the same stage can only fail the same way as one before it,
  as before and after the output screening, they are one. In `Setup` and `WriterLock` an
  action is a system call; in `RequestGate` the rule, each role's grants and the two
  assignments of `load_file` are apart; in `Evaluation` each unlocked append.
- Locals that are needed later are fields of the record of the thread, request, process or
  call; those that are not are left out.
- *Data.* A chunk is an id and a revision of its text; an answer's text is a record of what
  it was generated from (question, sources, prompt, model, the tags it cites, whether it
  leaks). In `Chunking` a text is a sequence of blocks with lengths, a chunk the intervals it
  was cut from. In `Conversation` a value is the turn whose text it was read from. A score is
  a number, and ranking is a free choice among the entitled chunks. What an LLM, a
  classifier, a probe or a regular expression says is a free choice among the outcomes the
  code tells apart.
- *History variables* are read by no action and are declared apart or marked in the comment:
  `touched` in `AnswerPipeline`, `lost`, `due`, `raced`, `base` and `dropped`
  in `SparseIndex`, `last` and `overlapped` in `Setup`, `verdicts` and `changed` of a request
  in `RequestGate`, `objects`, `judged` and `ended` in `Conversation`, `indexed` and `mixed` in
  `Ingestion`, `crossed` and `rewired` in `Evaluation`, and their like.
- *Mutants.* A definition whose comment begins with "Mutant" is a plausible bug of the one
  after it. No action uses it; each property is known to fail when it takes the place of the
  original.

## The runs

| Run | Instance | States | What it shows |
|---|---|---|---|
| `breaker` | two threads, both thresholds 2, a cooldown of 2, two attempts a call | 6,843 | `TripsOnlyAfterARun`, `ClosesOnlyAfterARun`: transitions are about consecutive reports, whatever the order in which calls start and report. `FastFailsUntilCooledDown`: nothing reaches the server before the cooldown is over. `Recovers`: the circuit closes if the server stays up |
| `writer_lock` | a shell with one writer and a service with two, three pids, one crash | 61,516 | `ExclusiveUnlessMisjudged`, `LeavesOwnLock`: two writers are inside together, or one removes the other's lock, only after an override or after an unlink of another file than the one judged. `StaleMeansAbandoned`, `AbandonedLockIsBroken`: a stale lock is one a crash left, and is broken in the end |
| `hot_reload` | two requests of one guest, one manual, two thresholds; guard, cache, threshold and prompt are swapped, twice in all | 2,877,817 | which promise survives which swap: `CacheEntriesMatchKeys`, `NoAnswerFromNothing`; `ScreenedUnlessGuardRemoved`: only a guard that is removed lets a leak out; `AuditedOnce`: only a guard that is installed keeps a request that returns from its record; `InternalErrorsNeedAReload`: only a removal makes the engine fail by an error of its own |
| `corpus_changes` | two requests of a guest or a member of staff, a manual that becomes restricted when it is indexed again, an upload for staff, one change of the model | 283,254 | `AnswerMatchesSources`, `AnswerIsEntitled`, `AuditNamesTheSources`: cached text, shown sources, rights and audit record stay about the same chunks |
| `rank_fusion` | all pairs of rankings over two documents of two chunks, depths 2 and 3, with and without a cap | 926,758 | `FusionRespectsBothSides`: the score arithmetic never turns round what both sides agree on. `PoolKeepsALeader`: what a confidence threshold sees of a hybrid pool. `LeftOutForAReason`: re-ranking and cap together drop a chunk only for a full result or a full share |
| `sparse_index` | two readers, pages of two rows, uploads of one and of two chunks, one re-indexing | 674,281 | `VisibleUnlessRaced`: a query finds what was uploaded before it unless the latest refresh fell into a rebuild. `PagingReadsAPrefix`: pages cut while others add are a prefix of the store, each row once |
| `sparse_index_lost_refresh` | the same without re-indexing | | violated, see below |
| `ingestion` | two programs, four files with clashing names (one a PDF), five texts, chunks of 8 with an overlap of 2, both chunkers, three calls and an edit | 301,926 | `TextIsIndexed`: every phrase of an added document as short as the overlap is in a chunk, and of a table each cell its parser keeps. `CorpusIsOneLoad`: after a failure anywhere the corpus is nothing or one whole load. `ChunksAreFaithful`: a chunk is from one section and names the headings above it. `ChunksKeepToSize`: what is stored exceeds `chunk_size` by its headings, or by the spaces of a batch, and by nothing else |
| `setup` | two processes, two constructions with nine configurations, one change of the machine, one crash | 2,016,719 | `DecisionsSurvive`: a crash leaves `decisions.json` whole. `NoDownloadUnasked`, `BuiltAsResolved`: what is fetched was consented to, what is built was announced, although the machine changes between. `ContinuesWithLastUsed`: an automatic choice stays with the LLM used last, but for a local model recorded between its two looks at the memory |
| `request_gate` | two requests, one key, one token that expires, two roles that one credential has both of, two policy files, four changes | 412,778 | `AnswersForAConfiguredPolicy`: a verdict is that of a policy that was configured, but for the named races, of which one can only deny. `ZonesAreEarned`: neither sampling nor degradation lets a query pass, and none is rejected unjudged |
| `conversation` | three texts over two schemas with one required field, two providers, one retry | 197,446 | `NoValueOfAnotherObject`, `EarlierDataIsKept`: values neither leak into the next object nor get lost in a detour. `CompleteIsJudged`: no value of a complete result escaped the search for its quote. `RefusedIsNotShown`: no refused value reaches a model on any path. `GivesUpLast`: a call is unavailable only when every provider failed and none replied |
| `evaluation` | two runners with judges of their own and shared metrics, two questions, targets that label themselves, metrics that raise, either store, two runs, one crash | 423,136 | `KeepsAnArchive`: both stores implement `EvaluationArchive`. `MeanIsAcrossTheDataset`: the summary is the mean of what the questions scored, value by value. `JudgesAreOnlyFilledIn`, `StoresAgreeOnLatest`: whose judge scored, and which run is the latest, when runs overlap and fail |

The type invariants (`TypeOK`, `FusionTypeOK`, and `IngestTypeOK`, which is in the proof module
as only the proof uses it) are in no run: they are proved, for every module with state.

Why these bounds are enough. The hazards of the breaker, the lock, the decisions file and the
gate are between two actors whose steps interleave; the third writer of `writer_lock` is needed
for the break of a lock that a third party has just taken. In `AnswerPipeline` one request fills
the cache and the other is answered from it; each exception named by a property needs one swap,
and the second swap shows that no combination of two needs another exception. Two chunks are the
fewest with an order, a pair of tags and positions that can differ; two revisions are the fewest
at which a cached text can be about another one than the store's. In `SparseIndex` a lost
refresh needs two readers and one upload; the second upload shows that the next refresh makes up
for it, and pages of two rows make a store of three or four rows take two or three pages, with a
full last page among the cases. In `RankFusion` two chunks of each of two documents are the
fewest at which a cap passes over one chunk and takes a later one; similarities below, just
above and well above zero give a normalization with and without spread and a chunk one side did
not find that beats one it found; `Unit` is divisible by every spread, so that no rounding is
involved. In `Ingestion` the report has a section that is resumed by nothing, a paragraph of two
windows, a table wider than a chunk with a column name twice and a row too long, batches of
several glossary lines on both sides of prose and headings of three levels in no order; the file
names make the first and the second fall-back of `_unique_id` clash; the third call re-indexes
what two have added. In `Setup` the second construction is the fewest that meets a remembered
decision, on a machine that has changed once since. In `RequestGate` two changes between the
reads are the fewest that mix policies: of the rule and the grants, or a permission granted to a
role already looked up and revoked of one that is still to be. The other two give callers with
both roles their provider and the policy they are checked by. In `Conversation` three turns are
an object, a detour and the return to it, or a value that is stated, carried and carried again.
In `Evaluation` two questions and two runs are the fewest whose rows interleave.

Symmetry is used where the actors are interchangeable (no definition names one of them) and the
run has no liveness property; counts are after that reduction.

The liveness properties assume, as the code justifies:

- *breaker*: weak fairness of each thread's own steps, as every attempt ends by its request
  timeout, and of the clock. `Recovers` also has as its premise that the server stays up and
  that calls keep coming.
- *writer_lock*: weak fairness of each writer's steps; nothing is assumed about users, crashes
  or the start of processes.

Deadlock is checked except in the runs of `AnswerPipeline`, `Conversation`, `Evaluation`,
`RequestGate`, `Setup` and `Ingestion`, where the system stops when each of the finitely many
calls has ended and the bounds on changes are used up, and in `rank_fusion`, where it stops
when the call has returned.

A remark on `rank_fusion`: since normalization is relative to the ranking, the best chunk of a
side has half of the full score however weak its match is, as long as the similarities are
above zero (`PoolKeepsALeader`). Without a re-ranker the engine compares its confidence
threshold with this score (`engine.py:906`), and one of 0.5 or less turns no such pool away.

### The refinement

`EvaluationArchive` is what the protocol `EvaluationStore` promises: rows belong to the run
they were added under, and a summary is the mean over exactly the run's rows. `KeepsAnArchive`
is its specification with each run's rows mapped to those of the store in use: the list in
memory, or the committed rows of the table. An insert that is not committed, one that fails on
a locked database, the wiring of judges and every step of a runner are stutters; a commit or an
append is `Add`, `summary` is `Report`, and a crash is `Lose` in memory and a stutter in
SQLite: the archive of a durable store has no step that loses a row.

### What the violated run shows

`sparse_index_lost_refresh` (`sparse_retriever.py:171`): the dirty flag is cleared after the
rebuild, and a refresh that came meanwhile is cleared with it. The next query does not find
the uploaded document, which `engine.py:391` promises it does.

### Known divergences

Met while modelling; the models do what the code does, and where a property would fail for
one of these, its statement names the exception.

- *Breaker.* A call let through while the circuit was closed may report its success when it is
  half open; it is counted like a probe's and closes a circuit no probe has succeeded in
  (`retry.py:178`; "probes" in `:124-127`). What does hold is `ClosesOnlyAfterARun`.
- *Writer lock.* The open after a stale lock was unlinked is outside the `try`: a writer that
  loses the path there gets `FileExistsError`, not `StoreConflict` (`store_policy.py:146`,
  `:114`).
- *Engine.* `update_llm` does not change `_llm_version`, so cached answers of the replaced
  model are served on (`engine.py:190`, `cache.py:61`). A request that ends with an exception
  writes no record, and neither does one that meets a guard installed after its input stage or
  between the two tests of the output stage, where the documents promise a record whatever the
  outcome (`engine.py:856`, `docs/security.md:128`, `docs/configuration.md:86`); `AuditedOnce`
  says what is left of the promise. `_cache` and `_guard` are read again after they were
  found to be there, and where the field was set to `None` meanwhile this raises `AttributeError`
  (`engine.py:805`, `:831`, `:1028`, `:1046`, `:1076`, `:1101`); the assertion at
  `:1045` sees only some of these.
- *Ingestion.* A blank PDF raises and ends the batch, where `__init__.py:679-681` has unreadable
  files skipped; a batch run again after that adds its first documents twice. A blank tag is
  found after the collection was dropped. Without `reset`, ids that are there keep their old
  text and tags. A plain string as `access_tags` becomes its characters. Uploads go through
  `inspect_query`, the corpus does not.
- *Chunking.* A section with a heading and no text is dropped; tables and heading prefixes can
  exceed `chunk_size`; cells beyond the header are lost and of columns with one name the last
  stays (`chunking.py:160-163`), so `TextIsIndexed` asks only for cells under a heading of their
  own. `_batch_glossary` adds one character for what separates two entries where `json.dumps`
  writes two, so that a batch that just fits as it is counted is longer as it is written, by one
  for each entry beyond the second: three entries of 32 characters with a `chunk_size` of 101
  become a chunk of 102, where `chunking.py:184-185` promises the bound of prose. A proof found
  this, as short batches had hidden it from TLC. `ChunksKeepToSize` states the bound that holds
  of a chunk as it is stored, headings and spaces included, and its instance has batches of
  several entries.
- *Setup.* With `embedding_provider` set to vertex and a local model on disk, local embeddings
  are announced and Vertex's are built. `RAG()` and a tool that needs an LLM alone have
  fingerprints of different packages and never see each other's choice
  (`docs/configuration.md:156`). An approved `pip install` always fails, as the note it takes
  the package from is passed on with its quotes (`consent.py`, `CHANGELOG.md:70`).
  `build_llm_provider` records a pinned service also with `KUHAKU_AUTO=false`. Two processes in
  `put` at once share one temporary file: either can lose the other's decision
  (`memory.py:115`). The memory is read twice in choosing an LLM (`llm/__init__.py:97`,
  `resolver.py:183`): a local model that another process records in between is passed over.
- *Request gate.* `load_file` assigns roles and then the rule, while `check` reads the rule and
  then the grants, role by role (`policy.py:238-240`): a verdict may be of neither policy while a
  file is being loaded, or if rule and grants were changed between the reads. A caller whose
  permission is moved from a role still to be looked up to one already looked up is denied by
  policies that all let him pass. Stage 2 is never tried again after one runtime error
  (`classifier.py:354`).
- *Conversation.* A failed turn without data drops the data carried for its schema
  (`router.py:298`, `docs/extraction.md:200-204`). An error on a retry drops the same provider's
  earlier reply (`extract.py:105-110`), where the docstring has the call fail only without any
  reply (`:54-56`). An exception that is no `LLMError`, as of a reply without content
  (`openai_provider.py:122-125`), is not taken for a provider's failure: `_guarded` wraps it and
  the call ends with status error before any fall-back is asked (`pipeline.py:181-189`). A
  routing failure leaves no audit record. A carried value the guard refuses blocks every later
  turn that a model routes. A value nobody quoted that was rejected once and is repeated equal
  to the carried one needs no quote (`evidence.py:71`), where with `on_ungrounded="invalid"`
  anything not grounded is to make the result invalid (`docs/extraction.md:257`); what still
  holds is `CompleteIsJudged`: the quote of every value was looked for at some time.
- *Evaluation.* nDCG counts an id as often as it was retrieved and can exceed one
  (`functions.py:56-71`, `README.md:133`). A runner used twice without a new run id stores both
  runs under one (`runner.py:140`). `_wire_judge` checks before it sets. Two `add_result` of one
  store in memory can cross, as the run id and the row are appended without a lock
  (`store.py:53-55`): the run noted last is then not the one of the last row, and `summary`
  without an id is about another run than in SQLite. Two metrics of one
  name and different `k` overwrite each other's score.

## What is proved

For all values of the constants that satisfy the modules' assumptions, TLAPS checks:

- *CircuitBreaker*: `TypeOK`, `ClosedCountsTheRun`, and the action properties
  `TripsOnlyAfterARun`, `ClosesOnlyAfterARun` and `FastFailsUntilCooledDown`. The inductive
  invariant adds to the first two that in the half-open state the success counter is at
  most the run of successes since the last failure, and that while the circuit is open the
  cooldown's clock shows no more than the time since the trip: late reports move both
  counters in every state, and without those two conjuncts a probe could find counts of an
  earlier period.
- *WriterLock*, in `Store_proofs`: `TypeOK`, `ExclusiveUnlessMisjudged`, `StaleMeansAbandoned`,
  `OnlyCrashesLeaveLocks` and `LeavesOwnLock`. The inductive invariant says who may act (the
  writers of running processes), whose the file is while somebody holds the lock, which pid it
  has, and what each writer that is judging knows of it; only then does it follow that the
  file judged stale is nobody's.
- *Ingestion* with *Chunking*, in `Store_proofs`: `IngestTypeOK` and all four invariants of its
  run, for any programs, files, texts, edits and calls, any `chunk_size` above zero and any
  overlap. One part is about a document. `HardSplitCovers` finds, for a phrase anywhere in a
  long paragraph, the window that has all of it: it is at the quotient of the place and the
  stride, unless that is past the last one. `PackCovers` carries this through the greedy
  packing, paragraph by paragraph, and `BatchesCover` the same for entries. `SectionsHold` says
  of the stack of headings, step by step, that it is what a reader sees above the next block,
  whatever the order of levels (`SplitAt`). `TablesHold` follows the cells of a table into the
  row the parser makes of them (`KeptCellsAre`), and `StoredSizes` the lengths into what is
  written. Together they are `StructuralChunksHold` and `ParagraphChunksHold`. The other part is
  about the rows. `UniqueIdIsNew` is the pigeonhole principle: a file has as many names as there
  are files, so one is left. The inductive invariant keeps that count during a load
  (`LoadHolds`), and says that a load that dropped the collection and was not joined finds no
  corpus in it. Only then does Chroma, which keeps the row it has of an id, drop none of the
  load's rows, and every chunk that was added has its row (`AllRowsAdded`).
- *AnswerPipeline*: `TypeOK` and all safety properties of its passing runs. A request is
  disturbed only through the engine's fields and the cache: whatever others do, its locals stay,
  and a setter that changes a field it may still read is in its `touched` set (`QuietOrOwn`).
  Three invariants build on that. `GuardInv` ties the decision a request holds to the guard that
  is installed, until it is removed, and a missing decision or record to a missing guard, until
  one is installed; audit records, screening and the engine's own errors follow. `CacheInv` says
  that the key a request holds is still the one of its question and sources when it is used for
  the write, as nothing renews the sources after the lookup; the answer to a cache hit depends
  on it through what other requests have written. `SourcesInv` carries revisions and rights from
  retrieval to the answer: a text and the sources beside it have the same ids, and neither has a
  revision the store does not know, so a difference between them needs a chunk indexed again.
- *SparseIndex*: `TypeOK`, `PagingReadsAPrefix` and `VisibleUnlessRaced`. The inductive
  invariant says of a set of chunks that it will be found when it is among the rows each
  rebuilding reader began with and, once no further rebuild is certain, in the index; this
  holds of the uploads that have returned while no refresh is lost, and of what each query
  ought to find. It rests on lemmas about prefixes of sequences, of which `PageExtends` is the
  one about paging.
- *RankFusion*, in `Retrievers_proofs` with the former: `FusionTypeOK` and all three
  invariants, for any chunks, scores, k, depths, caps and re-rankings. The inductive invariant
  only adds that the rankings are rankings and the pool has each chunk once; the work is in what
  the two steps compute. `RanksDivide` makes the fractions exact, so that shares fall strictly
  as ranks do (`SharesFall`) and sums keep the order; `RankedEnumerates` says that a sorted list
  has each item once, in order. `CandidatesKeepALeader` counts: an item ahead of the first
  chunk of a side has to be on both sides, the first chunk is not one of them, and so there are
  fewer of them than the cut keeps. `Capped` follows the walk of `_cap_per_document` item by
  item: whatever it has passed is kept, or its document has its share, or the result is full.
- *RequestGate*: `TypeOK`, `AnswersForAConfiguredPolicy` and `ZonesAreEarned`. A request knows
  something at each stage (`Known`), and others disturb that in one way only: a change of the
  policy adds what the new policy answers to the history of the requests between their two
  reads. `Checking` is the strengthening: there, the rule that was read is the current one
  unless it has been changed; what the policy answers now, and what it answers with the
  rule that was read, are among the verdicts unless the grants have been changed too; a role
  already looked up is still not enough unless something has been granted, and one that is
  enough is still to be looked up, or some policy denied, unless something has been revoked. It
  is the invariant that shows why one *kind* of change between the reads never mixes policies,
  and why a mixture of grants denies but never permits. `AllowsIs` shows that the walk over the
  roles decides what the class describes.
- *Setup*: `TypeOK`, `DecisionsSurvive`, `NoDownloadUnasked`, `BuiltAsResolved` and the action
  property `ContinuesWithLastUsed`. `Orderly` is about each process alone: the kinds are
  settled and built in turn, so what is being built has not been built before, is what was
  announced, and was asked about where it has to be downloaded. `Whole` is about the file: as
  long as no two puts overlapped, only one process is between load and rename, what it will
  write is what was put last with its own decision changed, and the temporary file is its own.
  `LastUsedIsChosen` then shows that the choice among the candidates falls on the remembered
  one, as long as the first look has not taken it out of them.

- *Conversation*: `TypeOK`, its three invariants and both action properties. The inductive
  invariant has two parts. `Knows` says, stage by stage, what the call under way knows of what
  the caller gave it: it travels with all of it until its schema is prepared, from then on the
  schema's data is the context's prior, each reply holds values of this turn or the prior's, and
  no reply at all means that all providers so far have failed with an `LLMError`. `Remembers`
  says what vouches for the values the caller holds: the replies about the object, and the
  evidence that was looked for. That a conversation keeps its data only in the results, and so
  must carry it through every step, is why nothing less than both parts is inductive.
- *Evaluation*: `TypeOK`, its three invariants and the refinement `KeepsAnArchive`. `OneRowEach`
  is the strengthening that matters: a runner alone at its run id has stored one row for each
  question behind it, with what that question scored, which holds only because two runners at
  one id both know it (`TogetherIsShared`) and because a row is its runner's own (`Progress`).
  `OneJudge` accounts for the judge of every score, `LatestIsLastSeen` says what the last run id
  seen says of the order of the rows, also in the middle of an `add_result` as long as none
  crosses another. For the refinement, each step adds a row to its run, reports a mean or
  changes nothing of the archive, and only the crash of a store in memory loses rows. It rests
  on what the recursive functions compute for any rows: selecting from one row more
  (`SelectedAppend`), and the running totals being the mean of each metric over the rows that
  have it (`AverageIsMean`). `ScoresAreFractions` bounds recall, precision, reciprocal rank and
  hit rate by nothing and one for any ids and any k, repeated ids and more than k of them
  included; of nDCG it claims no upper bound, as there is none (see above).

*Induction over data.* The library's induction theorems take an operator, which the provers here
cannot instantiate. `NatInduct` states induction as a fact about a set of naturals, from the
well-foundedness of their order (a least counterexample); from it, `StepByStep` gives a function
over `0..N` whose value at each step is what the step makes of the one before, and
`StepsAreTyped` its range. With these the recursive functions of `Evaluation`,
`EvaluationArchive`, `RetrievalMetrics`, `RankFusion` and `Chunking` have what their definitions
say for every input. The models were brought into this form for it: rows are selected and
totalled, scores summed, items walked and documents split, packed and batched by recursive
functions instead of folds, and a sorted list is given by how many items are ahead of each. On
the way a difference from the code was found and corrected: a runner of an empty dataset asks
nothing and returns the summary at once (`runner.py:98`).

What a theorem states was checked by TLC on the instances above before it was proved, the
inductive invariants included; that of `Evaluation` also with both runners at one run id. The
assumptions are those named in the modules: positive thresholds and page sizes, finitely many
or at least one actor where the code needs it, as many names for a file as there are files
(`_unique_id` goes on counting), uploads whose ids are no file's name, the ids of two uploads
being different (they carry a random suffix), ranks of the services below that of a local
model, and the types of the constants.

Only model-checked is what lies outside the prover: the liveness properties `Recovers` and
`AbandonedLockIsBroken`, as it does not handle fairness and `ENABLED`.
`VisibleToTheNextQuery` is violated. Every other property of a run is a theorem.

## Not modelled

- *Text algorithms*: prompts, messages, patterns, tokenization, embeddings, similarity,
  classifiers, LLM judges and text metrics. Nothing the properties say depends on how they
  reach their verdict, and the verdict is a free choice.
- *Query rewriting* changes only what the retriever is asked, whose ranking is a free choice;
  *contradiction detection* adds a warning and records of its own kind inside one `try`.
- *Probes of the machine*, whose outcomes `Setup` chooses freely; *observability* and
  *configuration*, which nothing decides on or which are constants of the modules.
- Of modelled parts: metadata conversion and the recovery from a stale collection handle in
  the Chroma store; Windows, where the writer lock cannot probe a pid; masking in extraction,
  which is off by default, and steps a caller adds to the pipeline; the audit log's file; the
  chat loop and scripts, which only call what is modelled.

`PROJECT.json` (`components`) lists every part with its status, and each hazard that no
property covers has a note.

## Plan

What could come next: an abstract specification of answering that `AnswerPipeline`
implements; `Setup` and `Ingestion` over one store, for the corpus whose vectors have the wrong
dimension; the rewriter's timeout with its executor.
