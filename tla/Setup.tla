-------------------------------- MODULE Setup --------------------------------
(***************************************************************************)
(* Constructing RAG(), or a tool that calls build_llm_provider alone, in   *)
(* processes that share a project directory: each resolves its embedding   *)
(* backend, its store and its LLM in turn, asks for consent, and builds    *)
(* what it settled on (kuhaku/__init__.py, core/llm/__init__.py,           *)
(* core/resolve).  The decisions are remembered in .kuhaku/decisions.json, *)
(* which put() rewrites through a temporary file whose name every process  *)
(* shares.  Packages, models and pulled models come and go, and a process  *)
(* may be killed between any two steps.                                    *)
(***************************************************************************)
EXTENDS Resolution

CONSTANTS
    Processes,
    Machines,       \* the machines to begin with
    Configurations, \* what a process may be started with
    MaxStarts,      \* bound: constructions
    MaxChanges,     \* bound: changes of the machine from outside
    MaxCrashes      \* bound: processes killed

MachineRecord == [packages : SUBSET Packages, model : BOOLEAN, pulled : SUBSET Models]
ConfigurationRecord ==
    [tool : {"rag", "extractor"}, auto : BOOLEAN, terminal : BOOLEAN,
     retrieval : {"auto", "sparse", "hybrid"}, vertex : BOOLEAN, project : BOOLEAN,
     llm : {"auto", "ollama"} \cup Services, model : Models \cup {None},
     keys : SUBSET Services]

ASSUME SetupAssumption ==
    /\ Machines \subseteq MachineRecord
    /\ Configurations \subseteq ConfigurationRecord
    /\ Services \cap {"auto", "ollama"} = {} /\ None # "ollama"

VARIABLES
    machine,
    file, tmp,      \* decisions.json and its temporary file: [torn, decisions]
    proc,           \* each process
    last,           \* history: the entry put last for each kind
    overlapped,     \* history: a put began while another was under way
    starts, changes, crashes

files == <<file, tmp, last, overlapped>>
vars == <<machine, files, proc, starts, changes, crashes>>

NoDecisions == [k \in {} |-> None]
Absent == [torn |-> FALSE, decisions |-> NoDecisions]
Torn == [torn |-> TRUE, decisions |-> NoDecisions]

\* _load: a file that is missing or does not parse counts as empty.
Load(f) == IF f.torn THEN NoDecisions ELSE f.decisions

Unchosen == Candidate(None, 0, TRUE)

Idle == [pc |-> "idle", kind |-> "none", config |-> None, fp |-> None,
         offered |-> {},        \* the candidates probed, until one is chosen
         first |-> "unread",    \* what the first look at the memory found
         chosen |-> Unchosen,   \* the candidate settled on, as it was probed
         data |-> NoDecisions,  \* what put() has read and will write
         at |-> "none",         \* where the file it has open is now
         approved |-> FALSE, fetched |-> FALSE,  \* the model's download
         resolved |-> NoDecisions, built |-> NoDecisions]

Init ==
    /\ machine \in Machines
    /\ file = Absent /\ tmp = Absent
    /\ proc = [p \in Processes |-> Idle]
    /\ last = NoDecisions /\ overlapped = FALSE
    /\ starts = 0 /\ changes = 0 /\ crashes = 0

Putting == {"load", "open", "write", "rename"}

\* The types.
Names == {"local", "vertex", "chroma", "ollama", "null", None} \cup Services \cup Models
Tables(S) == UNION {[some -> S] : some \in SUBSET Kinds}
Fingerprints == [packages : [Packages -> BOOLEAN] \cup [{} -> BOOLEAN], model : BOOLEAN]
Decisions == Tables([candidate : Names, seen : Fingerprints])
FileRecord == [torn : BOOLEAN, decisions : Decisions]
CandidateRecord ==
    [id : Names, rank : Nat, ready : BOOLEAN, install : BOOLEAN, download : BOOLEAN]
ProcessRecord ==
    [pc : Putting \cup {"idle", "resolve", "look", "choose", "activate", "build",
                        "built", "failed"},
     kind : Kinds \cup {"none"}, config : Configurations \cup {None},
     fp : Fingerprints \cup {None}, offered : SUBSET CandidateRecord,
     first : Names \cup {"unread"}, chosen : CandidateRecord, data : Decisions,
     at : {"none", "tmp", "file", "gone"}, approved : BOOLEAN, fetched : BOOLEAN,
     resolved : Tables(Names), built : Tables(Names)]

TypeOK ==
    /\ machine \in MachineRecord
    /\ file \in FileRecord /\ tmp \in FileRecord
    /\ proc \in [Processes -> ProcessRecord]
    /\ last \in Decisions /\ overlapped \in BOOLEAN
    /\ starts \in Nat /\ changes \in Nat /\ crashes \in Nat

With(f, k, v) == [x \in DOMAIN f \cup {k} |-> IF x = k THEN v ELSE f[x]]

----------------------------------------------------------------------------
(***************************************************************************)
(* The steps of a construction, in the order of RAG.__init__.              *)
(***************************************************************************)
After(r) ==
    CASE r.kind = "embedding" -> [r EXCEPT !.pc = "resolve", !.kind = "store"]
      [] r.kind = "store"     -> [r EXCEPT !.pc = "resolve", !.kind = "llm"]
      [] OTHER                -> [r EXCEPT !.pc = "built"]

Step(p, from, next) ==
    /\ proc[p].pc = from
    /\ proc' = [proc EXCEPT ![p] = next]
    /\ UNCHANGED <<starts, changes, crashes>>

\* One snapshot of the machine gives the fingerprint of every decision.
Start(p, config) ==
    /\ proc[p].pc \in {"idle", "built", "failed"} /\ starts < MaxStarts
    /\ starts' = starts + 1
    /\ proc' = [proc EXCEPT ![p] =
                  [Idle EXCEPT !.pc = "resolve", !.config = config,
                               !.kind = IF config.tool = "rag" THEN "embedding" ELSE "llm",
                               !.fp = Fingerprint(machine, config)]]
    /\ UNCHANGED <<machine, files, changes, crashes>>

\* A candidate settled on: put it in memory unless it is what was remembered.
Settle(r, candidate, remember) ==
    [r EXCEPT !.chosen = candidate,
              !.resolved = With(@, r.kind, candidate.id),
              !.pc = IF remember THEN "load" ELSE "activate"]

Failing(r) == [r EXCEPT !.pc = "failed"]

Offer(r, candidates) == [r EXCEPT !.pc = "choose", !.offered = candidates]

\* What resolve() can make of the candidates, for a kind that is not pinned.
Settled(r, candidates, required) ==
    LET prior == Remembered(Load(file), r.kind, r.fp)
    IN  {IF id # None THEN Settle(r, CHOOSE c \in candidates : c.id = id, id # prior)
         ELSE IF required THEN Failing(r)
         ELSE After([r EXCEPT !.resolved = With(@, r.kind, None),
                              !.built = With(@, r.kind, "null")])
         : id \in Choices(candidates, prior, r.config.terminal)}

\* _resolve_retrieval_and_embedder
ResolveEmbedding(p) ==
    LET r == proc[p]
        candidates == EmbeddingCandidates(machine, r.config)
        pinned == IF r.config.vertex THEN "vertex" ELSE "local"
    IN  /\ r.kind = "embedding"
        /\ \/ /\ r.config.retrieval = "sparse"
              /\ Step(p, "resolve", After([r EXCEPT !.built = With(@, r.kind, "null")]))
           \/ /\ r.config.retrieval # "sparse" /\ ~r.config.auto
              /\ Step(p, "resolve", IF r.config.vertex \/ machine.model
                                    THEN [r EXCEPT !.pc = "build",
                                                   !.resolved = With(@, r.kind, pinned)]
                                    ELSE Failing(r))
           \/ /\ r.config.retrieval = "hybrid" /\ r.config.auto
              /\ Step(p, "resolve",
                      IF pinned \in Ids(candidates)
                      THEN Settle(r, CHOOSE c \in candidates : c.id = pinned, FALSE)
                      ELSE Failing(r))
           \/ /\ r.config.retrieval = "auto" /\ r.config.auto
              /\ Step(p, "resolve", Offer(r, candidates))
        /\ UNCHANGED <<machine, files>>

\* Without KUHAKU_AUTO: the documented baseline, Chroma.
ResolveStore(p) ==
    LET r == proc[p] IN
    /\ r.kind = "store"
    /\ Step(p, "resolve",
            IF r.config.auto THEN Offer(r, StoreCandidates(machine))
            ELSE [r EXCEPT !.pc = "build", !.resolved = With(@, r.kind, "chroma")])
    /\ UNCHANGED <<machine, files>>

\* A provider that is pinned -- a service, or Ollama with its model -- is built
\* unprobed, a service only with its key, and recorded.
PinLLM(p) ==
    LET r == proc[p]
        pinned == r.config.llm
        rank == IF pinned \in Services THEN Rank[pinned] ELSE LocalRank
        prior == Remembered(Load(file), "llm", r.fp)
    IN  /\ r.kind = "llm"
        /\ \/ pinned \in Services
           \/ pinned = "ollama" /\ r.config.model # None
        /\ Step(p, "resolve",
                IF pinned = "ollama" \/ pinned \in r.config.keys
                THEN Settle(r, Candidate(pinned, rank, TRUE), pinned # prior)
                ELSE Failing(r))
        /\ UNCHANGED <<machine, files>>

\* build_llm_provider otherwise: probe; where a key is set, look at the memory
\* to see whether local models stay in the choice.  Without KUHAKU_AUTO the
\* baseline is Ollama, which cannot be built unless ollama_model is set.
ResolveLLM(p) ==
    LET r == proc[p]
        candidates == LLMCandidates(machine, r.config)
        key == \E c \in Ready(candidates) : ~IsOllama(c.id)
    IN  /\ r.kind = "llm"
        /\ \/ r.config.llm = "auto"
           \/ r.config.llm = "ollama" /\ r.config.model = None
        /\ Step(p, "resolve",
                CASE r.config.auto -> [Offer(r, candidates) EXCEPT !.pc = IF key THEN "look" ELSE @]
                  [] ~r.config.auto /\ r.config.model # None ->
                        [r EXCEPT !.pc = "build", !.resolved = With(@, r.kind, "ollama")]
                  [] OTHER -> Failing(r))
        /\ UNCHANGED <<machine, files>>

\* The first look at the memory.
Look(p) ==
    LET r == proc[p] IN
    /\ Step(p, "look", [r EXCEPT !.pc = "choose",
                                 !.first = Remembered(Load(file), "llm", r.fp)])
    /\ UNCHANGED <<machine, files>>

\* resolve(): it looks at the memory itself, and chooses.
Choose(p) ==
    LET r == proc[p]
        bare == [r EXCEPT !.offered = {}, !.first = "unread"]
    IN  /\ \E next \in Settled(bare, Kept(r.offered, r.first), r.kind # "embedding") :
              Step(p, "choose", next)
        /\ UNCHANGED <<machine, files>>

----------------------------------------------------------------------------
(***************************************************************************)
(* JsonMemory.put: load, change, write the temporary file, rename it.      *)
(***************************************************************************)
PutLoad(p) ==
    LET r == proc[p] IN
    /\ Step(p, "load", [r EXCEPT !.pc = "open",
                          !.data = With(Load(file), r.kind, Entry(r.kind, r.fp, r.chosen.id))])
    /\ overlapped' = (overlapped \/ \E q \in Processes \ {p} : proc[q].pc \in Putting \ {"load"})
    /\ UNCHANGED <<machine, file, tmp, last>>

\* Mutant: decisions.json itself is opened and written.
PutOpenInPlace(p) ==
    /\ Step(p, "open", [proc[p] EXCEPT !.pc = "write", !.at = "file"])
    /\ file' = Torn
    /\ UNCHANGED <<machine, tmp, last, overlapped>>

\* Opening for writing empties a file that is there.
PutOpen(p) ==
    /\ Step(p, "open", [proc[p] EXCEPT !.pc = "write", !.at = "tmp"])
    /\ tmp' = Torn
    /\ UNCHANGED <<machine, file, last, overlapped>>

\* What is written goes to the file that was opened, wherever it is by now.
PutWrite(p) ==
    LET written == [torn |-> FALSE, decisions |-> proc[p].data] IN
    /\ Step(p, "write", [proc[p] EXCEPT !.pc = "rename"])
    /\ tmp' = IF proc[p].at = "tmp" THEN written ELSE tmp
    /\ file' = IF proc[p].at = "file" THEN written ELSE file
    /\ UNCHANGED <<machine, last, overlapped>>

\* The temporary file takes the place of decisions.json, for whoever has it
\* open; where another process has renamed it already, put() goes on without.
PutRename(p) ==
    LET r == proc[p]
        moved(q) == CASE proc[q].at = "tmp" -> "file" [] proc[q].at = "file" -> "gone"
                      [] OTHER -> proc[q].at
        there == tmp # Absent
    IN  /\ r.pc = "rename"
        /\ proc' = [q \in Processes |->
                      IF q = p THEN [r EXCEPT !.pc = "activate", !.at = "none", !.data = NoDecisions]
                      ELSE IF there THEN [proc[q] EXCEPT !.at = moved(q)] ELSE proc[q]]
        /\ file' = IF there THEN tmp ELSE file
        /\ tmp' = Absent
        /\ last' = With(last, r.kind, Entry(r.kind, r.fp, r.chosen.id))
        /\ UNCHANGED <<machine, overlapped, starts, changes, crashes>>

----------------------------------------------------------------------------
(***************************************************************************)
(* activate(): consent where the candidate was not ready, then build.      *)
(***************************************************************************)
\* Mutant: without a terminal, consent is taken as given.
ConsentInferred(p) ==
    LET r == proc[p] IN
    /\ \/ r.chosen.install /\ Step(p, "activate", Failing(r))
       \/ ~r.chosen.install /\ Step(p, "activate", [r EXCEPT !.pc = "build"])
    /\ UNCHANGED <<machine, files>>

\* Nobody is asked without a terminal.  An approved install never succeeds: the
\* note it takes the package from, "pip install 'kuhaku[dense]'; a first-run
\* ...", goes to pip as written, quotes and all, and pip exits with an error.
Consent(p) ==
    LET r == proc[p] IN
    /\ \/ r.chosen.install /\ Step(p, "activate", Failing(r))
       \/ /\ ~r.chosen.install /\ r.chosen.download
          /\ \/ Step(p, "activate", Failing(r))
             \/ /\ r.config.terminal
                /\ Step(p, "activate", [r EXCEPT !.pc = "build", !.approved = TRUE])
       \/ /\ ~r.chosen.install /\ ~r.chosen.download
          /\ Step(p, "activate", [r EXCEPT !.pc = "build"])
    /\ UNCHANGED <<machine, files>>

\* The builder of a kind, and the package it imports.  A local model that is
\* not on disk is downloaded as it is loaded.
Product(r) ==
    IF r.kind = "embedding" THEN IF r.config.vertex THEN "vertex" ELSE "local"
    ELSE r.resolved[r.kind]

Needs(r) ==
    CASE Product(r) = "local"  -> {"sentence-transformers", "torch"}
      [] Product(r) = "chroma" -> {"chromadb"}
      [] OTHER                 -> {}

\* Mutant: an embedder that cannot be built is replaced by none.
BuildOrNull(p) ==
    LET r == proc[p]
        usable == Needs(r) \subseteq machine.packages
    IN  /\ r.pc = "build"
        /\ Step(p, "build", After([r EXCEPT !.built =
                                     With(@, r.kind, IF usable THEN Product(r) ELSE "null")]))
        /\ UNCHANGED <<machine, files>>

\* Google's SDK, its credentials or its location may be missing.
Build(p) ==
    LET r == proc[p]
        fetches == Product(r) = "local" /\ ~machine.model
    IN  /\ r.pc = "build"
        /\ \/ /\ Needs(r) \subseteq machine.packages
              /\ Step(p, "build", After([r EXCEPT !.built = With(@, r.kind, Product(r)),
                                                  !.fetched = @ \/ fetches]))
              /\ machine' = [machine EXCEPT !.model = @ \/ fetches]
           \/ /\ Product(r) = "vertex" \/ ~(Needs(r) \subseteq machine.packages)
              /\ Step(p, "build", Failing(r))
              /\ UNCHANGED machine
        /\ UNCHANGED files

----------------------------------------------------------------------------
(***************************************************************************)
(* The environment.                                                        *)
(***************************************************************************)
Crash(p) ==
    /\ proc[p].pc \notin {"idle", "built", "failed"} /\ crashes < MaxCrashes
    /\ crashes' = crashes + 1
    /\ proc' = [proc EXCEPT ![p] = Idle]
    /\ UNCHANGED <<machine, files, starts, changes>>

Change ==
    /\ changes < MaxChanges /\ changes' = changes + 1
    /\ \/ \E package \in Packages :
            machine' = [machine EXCEPT !.packages = IF package \in @ THEN @ \ {package}
                                                    ELSE @ \cup {package}]
       \/ machine' = [machine EXCEPT !.model = ~@]
       \/ \E m \in Models :
            machine' = [machine EXCEPT !.pulled = IF m \in @ THEN @ \ {m} ELSE @ \cup {m}]
    /\ UNCHANGED <<files, proc, starts, crashes>>

Put(p) == PutLoad(p) \/ PutOpen(p) \/ PutWrite(p) \/ PutRename(p)
Resolve(p) ==
    \/ ResolveEmbedding(p) \/ ResolveStore(p) \/ PinLLM(p) \/ ResolveLLM(p)
    \/ Look(p) \/ Choose(p)
Proceed(p) == Resolve(p) \/ Put(p) \/ Consent(p) \/ Build(p)

Next ==
    \/ \E p \in Processes :
          \/ \E config \in Configurations : Start(p, config)
          \/ Proceed(p) \/ Crash(p)
    \/ Change

Spec == Init /\ [][Next]_vars

----------------------------------------------------------------------------
(***************************************************************************)
(* Properties.                                                             *)
(***************************************************************************)
\* As long as no two processes were in put() at once, decisions.json holds,
\* for each kind, what was put last: a process killed between any two of its
\* steps leaves the file whole and takes no other decision with it.  (With two
\* in put() at once one can lose the other's decision, or leave the file
\* torn until the next put.)
DecisionsSurvive == overlapped \/ file = [torn |-> FALSE, decisions |-> last]

\* The embedding model is downloaded only with the consent of somebody at the
\* terminal, given in this construction -- unless it was on disk when its
\* presence was looked up, and is gone when it is loaded.
NoDownloadUnasked ==
    \A p \in Processes : proc[p].fetched => proc[p].approved \/ ~proc[p].chosen.download

\* Whatever was settled on is what is built: no construction ends up with a
\* lesser backend than it announced.  One case is excepted: with
\* embedding_provider set to vertex and a local model on disk, the candidate
\* announced as local embeddings builds Vertex's.
BuiltAsResolved ==
    \A p \in Processes :
        LET r == proc[p] IN
        \A kind \in DOMAIN r.built \cap DOMAIN r.resolved :
            \/ r.built[kind] = r.resolved[kind]
            \/ r.resolved[kind] = None
            \/ kind = "embedding" /\ r.resolved[kind] = "local" /\ r.config.vertex

\* An automatic choice continues with the LLM used last, by whatever process,
\* if that one was found usable, a key or a local model alike.  The choice is
\* made of what was probed, and the memory is looked at twice: where a key is
\* set and the first look did not find a local model, one that another process
\* records before the second look is passed over.  No two puts may have
\* overlapped, and the process that used it must have seen the same packages:
\* RAG() and a tool that needs an LLM alone never see each other's choice.
ContinuesWithLastUsed ==
    [][\A p \in Processes :
          LET r == proc[p]
              id == last["llm"].candidate
          IN  /\ r.pc = "choose" /\ r.kind = "llm"
              /\ proc'[p] # r /\ crashes' = crashes /\ ~overlapped
              /\ "llm" \in DOMAIN last /\ last["llm"].seen = Consumed("llm", r.fp)
              /\ id \in Ids(Ready(r.offered))
              /\ IsOllama(id) => r.first = "unread" \/ r.first = id
              => proc'[p].resolved["llm"] = id]_vars
=============================================================================
