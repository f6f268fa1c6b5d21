------------------------------ MODULE Resolution ------------------------------
(***************************************************************************)
(* The decision loop of kuhaku.core.resolve and the adapters that feed it: *)
(* which candidates a machine offers for the embedding backend, the store  *)
(* and the LLM, and which of them resolve() may settle on.                 *)
(*                                                                         *)
(* A machine is a record: the packages installed, whether the embedding    *)
(* model is on disk, the Ollama models pulled.  A configuration is a       *)
(* record: the tool that is constructed ("rag", or one that wants an LLM   *)
(* alone), the KUHAKU_AUTO switch, whether a terminal is attached, the     *)
(* retrieval mode, whether embedding_provider is vertex and its project is *)
(* set, llm_provider, ollama_model, the services whose key is set.         *)
(***************************************************************************)
EXTENDS Naturals, FiniteSets

CONSTANTS
    Services,   \* the LLM services behind an API key
    Rank,       \* their safety_rank
    Models,     \* Ollama models
    None

LocalRank == 20

ASSUME ResolutionAssumption ==
    /\ Rank \in [Services -> 0 .. LocalRank - 1]
    /\ Services \cap Models = {} /\ None \notin Services \cup Models

Kinds == {"embedding", "store", "llm"}

\* What RAG's registry depends on; a registry built for the LLM alone depends
\* on nothing.
Packages == {"sentence-transformers", "torch", "chromadb"}

----------------------------------------------------------------------------
(***************************************************************************)
(* Candidates.                                                             *)
(***************************************************************************)
Candidate(id, rank, ready) ==
    [id |-> id, rank |-> rank, ready |-> ready, install |-> FALSE, download |-> FALSE]

\* Vertex is offered only where it was chosen and has its project.
EmbeddingCandidates(machine, config) ==
    LET have == "sentence-transformers" \in machine.packages
    IN  {[id |-> "local", rank |-> 0, ready |-> have /\ machine.model,
          install |-> ~have, download |-> ~machine.model]}
        \cup (IF config.vertex /\ config.project THEN {Candidate("vertex", 8, TRUE)} ELSE {})

StoreCandidates(machine) ==
    LET have == "chromadb" \in machine.packages
    IN  {[Candidate("chroma", 1, have) EXCEPT !.install = ~have]}

ServiceCandidates(config) == {Candidate(s, Rank[s], s \in config.keys) : s \in Services}

\* One candidate for each model pulled; a single one, "ollama", where
\* ollama_model is set, ready if that model is pulled, or where none is pulled.
OllamaCandidates(machine, config) ==
    IF config.model # None \/ machine.pulled = {}
    THEN {Candidate("ollama", LocalRank, config.model \in machine.pulled)}
    ELSE {Candidate(m, LocalRank, TRUE) : m \in machine.pulled}

Ready(candidates) == {c \in candidates : c.ready}
Ids(candidates) == {c.id : c \in candidates}
IsOllama(id) == id = "ollama" \/ id \in Models

LLMCandidates(machine, config) ==
    IF config.llm = "ollama" THEN OllamaCandidates(machine, config)
    ELSE ServiceCandidates(config) \cup OllamaCandidates(machine, config)

\* Mutant: a key always wins over a local model.
KeptKeysFirst(candidates, first) ==
    IF first = "unread" THEN candidates ELSE {c \in candidates : ~IsOllama(c.id)}

\* build_llm_provider: where a key is set it looks at the memory, and a key wins
\* over a local model unless a local model is what was used last.
Kept(candidates, first) ==
    IF first = "unread" \/ IsOllama(first) THEN candidates
    ELSE {c \in candidates : ~IsOllama(c.id)}

----------------------------------------------------------------------------
(***************************************************************************)
(* The memory: what of the machine a remembered decision depends on.       *)
(***************************************************************************)
Fingerprint(machine, config) ==
    [packages |-> IF config.tool = "rag" THEN [p \in Packages |-> p \in machine.packages]
                  ELSE [p \in {} |-> FALSE],
     model    |-> machine.model]

Consumed(kind, fingerprint) ==
    [packages |-> fingerprint.packages,
     model    |-> kind = "embedding" /\ fingerprint.model]

Entry(kind, fingerprint, id) == [candidate |-> id, seen |-> Consumed(kind, fingerprint)]

Remembered(decisions, kind, fingerprint) ==
    IF kind \in DOMAIN decisions /\ decisions[kind].seen = Consumed(kind, fingerprint)
    THEN decisions[kind].candidate ELSE None

----------------------------------------------------------------------------
(***************************************************************************)
(* resolve().                                                              *)
(***************************************************************************)
\* Of several candidates of the lowest rank the first registered is taken; the
\* order in which models were pulled is left open.
Safest(candidates) == {c \in candidates : \A other \in candidates : c.rank <= other.rank}

\* The candidates resolve() may settle on: the one remembered if it is usable,
\* the only one usable, the operator's, else the safest; None where nothing is.
Choices(candidates, prior, terminal) ==
    LET usable == Ready(candidates)
    IN  IF prior \in Ids(usable) THEN {prior}
        ELSE IF usable = {} THEN {None}
        ELSE IF terminal /\ Cardinality(usable) > 1 THEN Ids(usable)
        ELSE Ids(Safest(usable))
=============================================================================
