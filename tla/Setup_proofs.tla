----------------------------- MODULE Setup_proofs -----------------------------
(***************************************************************************)
(* The properties of Setup for any processes, machines, configurations,    *)
(* services and models, and any numbers of starts, changes and crashes.    *)
(*                                                                         *)
(* The inductive invariant has two parts.  Orderly is about each process   *)
(* alone: the three kinds are settled and built in turn, what is offered   *)
(* fits its kind, and what is being built has not been built before, is    *)
(* what was announced, and was asked about where it had to be downloaded.  *)
(* Whole is about decisions.json: as                                       *)
(* long as no two puts overlapped, only one process is between the load    *)
(* and the rename, what it will write is what was put last with its own    *)
(* decision changed, and the temporary file is its own.                    *)
(***************************************************************************)
EXTENDS Setup, TLAPS

Deciding == {"resolve", "look", "choose"}
Busy == Putting \cup Deciding \cup {"activate", "build"}
Writing == {"open", "write", "rename"}

BuiltBefore(kind) ==
    CASE kind = "embedding" -> {}
      [] kind = "store"     -> {"embedding"}
      [] OTHER              -> {"embedding", "store"}

Announced(r) ==
    r.kind = "embedding" => \/ r.resolved["embedding"] = "local"
                            \/ r.resolved["embedding"] = "vertex" /\ r.config.vertex

Asked(r) ==
    \/ r.approved \/ ~r.chosen.download
    \/ ~r.fetched /\ r.pc \in Putting \cup {"activate", "failed"}

\* What may be settled on: for the embedding local or Vertex's, for the store and
\* the LLM nothing that is downloaded.
Fits(r, c) ==
    /\ r.kind = "llm" => c.id # None
    /\ IF r.kind = "embedding" THEN c.id = "local" \/ (c.id = "vertex" /\ r.config.vertex)
       ELSE ~c.download

BuiltRight(r) ==
    \A kind \in DOMAIN r.built \cap DOMAIN r.resolved :
        \/ r.built[kind] = r.resolved[kind]
        \/ r.resolved[kind] = None
        \/ kind = "embedding" /\ r.resolved[kind] = "local" /\ r.config.vertex

Orderly(r) ==
    /\ r.pc # "idle" => r.config \in Configurations /\ r.fp \in Fingerprints /\ r.kind \in Kinds
    /\ r.pc \notin {"write", "rename"} => r.at = "none"
    /\ r.pc \in Busy => DOMAIN r.built \subseteq BuiltBefore(r.kind)
    /\ r.pc \in Busy /\ r.kind = "embedding" => ~r.fetched
    /\ r.pc \in Deciding /\ r.kind = "embedding" => DOMAIN r.resolved = {}
    /\ \A c \in r.offered : r.pc \in {"look", "choose"} /\ Fits(r, c)
    /\ r.pc \in Busy \ Deciding => r.kind \in DOMAIN r.resolved /\ Announced(r)
    /\ Asked(r)
    /\ BuiltRight(r)

ToBePut(r) == With(last, r.kind, Entry(r.kind, r.fp, r.chosen.id))

Whole ==
    \/ overlapped
    \/ /\ file = [torn |-> FALSE, decisions |-> last]
       /\ \A p, q \in Processes : proc[p].pc \in Writing /\ proc[q].pc \in Writing => p = q
       /\ \A p \in Processes :
             /\ proc[p].pc \in Writing => proc[p].data = ToBePut(proc[p])
             /\ proc[p].pc \in {"write", "rename"} => proc[p].at = "tmp"
             /\ proc[p].pc = "rename" => tmp = [torn |-> FALSE, decisions |-> proc[p].data]

IInv == TypeOK /\ Whole /\ \A p \in Processes : Orderly(proc[p])

-----------------------------------------------------------------------------
\* Tables over kinds: the empty one, one with an entry more, and its entries.
LEMMA EmptyTable == \A S : NoDecisions \in Tables(S)
<1> SUFFICES ASSUME NEW S
             PROVE  NoDecisions \in Tables(S)
  OBVIOUS
<1>1. NoDecisions \in [{} -> S]
  BY DEF NoDecisions
<1>2. QED
  BY <1>1 DEF Tables

\* A table with an entry more, or an entry changed.
Changed(g, f, k, v) ==
    /\ DOMAIN g = DOMAIN f \cup {k} /\ g[k] = v
    /\ \A x \in DOMAIN f \ {k} : g[x] = f[x]

LEMMA TableWith ==
    \A S : \A f \in Tables(S), k \in Kinds, v \in S :
        With(f, k, v) \in Tables(S) /\ Changed(With(f, k, v), f, k, v)
<1> SUFFICES ASSUME NEW S, NEW f \in Tables(S), NEW k \in Kinds, NEW v \in S
             PROVE  With(f, k, v) \in Tables(S) /\ Changed(With(f, k, v), f, k, v)
  OBVIOUS
<1>1. PICK some \in SUBSET Kinds : f \in [some -> S]
  BY DEF Tables
<1>2. With(f, k, v) \in [some \cup {k} -> S]
  BY <1>1 DEF With
<1>3. some \cup {k} \in SUBSET Kinds
  OBVIOUS
<1>4. With(f, k, v) \in Tables(S)
  BY <1>2, <1>3 DEF Tables
<1>5. QED
  BY <1>4 DEF With, Changed

LEMMA TableEntries ==
    ASSUME NEW S, NEW f \in Tables(S), NEW k \in DOMAIN f
    PROVE  k \in Kinds /\ f[k] \in S
<1>1. PICK some \in SUBSET Kinds : f \in [some -> S]
  BY DEF Tables
<1>2. QED
  BY <1>1

-----------------------------------------------------------------------------
\* What is loaded, looked up and put is well formed.
LEMMA LoadType == \A f \in FileRecord : Load(f) \in Decisions
BY EmptyTable DEF Load, FileRecord, Decisions

LEMMA EntryType ==
    ASSUME NEW kind \in Kinds, NEW fp \in Fingerprints, NEW id \in Names
    PROVE  Entry(kind, fp, id) \in [candidate : Names, seen : Fingerprints]
<1>1. Consumed(kind, fp) \in Fingerprints
  BY DEF Consumed, Fingerprints
<1>2. QED
  BY <1>1 DEF Entry

LEMMA FingerprintType ==
    ASSUME NEW m \in MachineRecord, NEW config \in Configurations
    PROVE  Fingerprint(m, config) \in Fingerprints
<1>1. [p \in Packages |-> p \in m.packages] \in [Packages -> BOOLEAN]
  OBVIOUS
<1>2. [p \in {} |-> FALSE] \in [{} -> BOOLEAN]
  OBVIOUS
<1>3. m.model \in BOOLEAN
  BY DEF MachineRecord
<1>4. QED
  BY <1>1, <1>2, <1>3 DEF Fingerprint, Fingerprints

\* Candidates are well formed; only the local embedding model is a download.
LEMMA CandidateTypes ==
    ASSUME NEW m \in MachineRecord, NEW config \in Configurations
    PROVE  /\ EmbeddingCandidates(m, config) \in SUBSET CandidateRecord
           /\ \A c \in EmbeddingCandidates(m, config) :
                 c.id = "local" \/ (c.id = "vertex" /\ config.vertex)
           /\ StoreCandidates(m) \in SUBSET CandidateRecord
           /\ \A c \in StoreCandidates(m) : ~c.download
           /\ LLMCandidates(m, config) \in SUBSET CandidateRecord
           /\ \A c \in LLMCandidates(m, config) : ~c.download /\ c.id # None
<1>1. \A id \in Names, rank \in Nat, ready \in BOOLEAN :
         /\ Candidate(id, rank, ready) \in CandidateRecord
         /\ ~Candidate(id, rank, ready).download
         /\ Candidate(id, rank, ready).id = id
  BY DEF Candidate, CandidateRecord
<1>2. /\ EmbeddingCandidates(m, config) \in SUBSET CandidateRecord
      /\ \A c \in EmbeddingCandidates(m, config) :
            c.id = "local" \/ (c.id = "vertex" /\ config.vertex)
  <2>1. m.model \in BOOLEAN /\ "local" \in Names /\ "vertex" \in Names
    BY DEF MachineRecord, Names
  <2>2. Candidate("vertex", 8, TRUE) \in CandidateRecord /\ Candidate("vertex", 8, TRUE).id = "vertex"
    BY <1>1, <2>1 DEF Candidate
  <2> DEFINE have == "sentence-transformers" \in m.packages
             local == [id |-> "local", rank |-> 0, ready |-> have /\ m.model,
                       install |-> ~have, download |-> ~m.model]
  <2>3. local \in CandidateRecord /\ local.id = "local"
    <3>1. have \in BOOLEAN /\ (~have) \in BOOLEAN /\ (~m.model) \in BOOLEAN /\ (have /\ m.model) \in BOOLEAN
      <4>1. have \in BOOLEAN
        OBVIOUS
      <4> HIDE DEF have
      <4>2. QED
        BY <2>1, <4>1
    <3> HIDE DEF have
    <3>2. QED
      BY <2>1, <3>1 DEF CandidateRecord
  <2>4. EmbeddingCandidates(m, config) =
           {local} \cup (IF config.vertex /\ config.project THEN {Candidate("vertex", 8, TRUE)} ELSE {})
    BY DEF EmbeddingCandidates
  <2> HIDE DEF local
  <2>5. \A c \in EmbeddingCandidates(m, config) :
           c = local \/ (c = Candidate("vertex", 8, TRUE) /\ config.vertex)
    BY <2>4, Zenon
  <2>6. QED
    BY <2>2, <2>3, <2>5
<1>3. StoreCandidates(m) \in SUBSET CandidateRecord /\ \A c \in StoreCandidates(m) : ~c.download
  <2> DEFINE have == "chromadb" \in m.packages
             store == [Candidate("chroma", 1, have) EXCEPT !.install = ~have]
  <2>1. StoreCandidates(m) = {store}
    BY DEF StoreCandidates
  <2>2. have \in BOOLEAN /\ "chroma" \in Names
    BY DEF Names
  <2> HIDE DEF have
  <2>3. store \in CandidateRecord /\ ~store.download
    BY <2>2 DEF Candidate, CandidateRecord
  <2> HIDE DEF store
  <2>4. QED
    BY <2>1, <2>3
<1>4. \A s \in Services : Rank[s] \in Nat
  BY ResolutionAssumption DEF LocalRank
<1>5. /\ ServiceCandidates(config) \in SUBSET CandidateRecord
      /\ \A c \in ServiceCandidates(config) : ~c.download /\ c.id # None
  <2>1. \A s \in Services : (s \in config.keys) \in BOOLEAN /\ s \in Names /\ s # None
    BY ResolutionAssumption DEF Names
  <2>2. \A s \in Services : /\ Candidate(s, Rank[s], s \in config.keys) \in CandidateRecord
                            /\ ~Candidate(s, Rank[s], s \in config.keys).download
                            /\ Candidate(s, Rank[s], s \in config.keys).id = s
    BY <1>1, <1>4, <2>1
  <2>3. QED
    BY <2>1, <2>2 DEF ServiceCandidates
<1>6. /\ OllamaCandidates(m, config) \in SUBSET CandidateRecord
      /\ \A c \in OllamaCandidates(m, config) : ~c.download /\ c.id # None
  <2> DEFINE ready == config.model \in m.pulled
  <2>1. /\ LocalRank \in Nat /\ "ollama" \in Names /\ m.pulled \subseteq Names
        /\ "ollama" # None /\ None \notin m.pulled /\ ready \in BOOLEAN
    BY ResolutionAssumption, SetupAssumption DEF LocalRank, Names, MachineRecord
  <2>2. \A c \in OllamaCandidates(m, config) :
           \/ c = Candidate("ollama", LocalRank, ready)
           \/ \E x \in m.pulled : c = Candidate(x, LocalRank, TRUE)
    BY DEF OllamaCandidates
  <2> HIDE DEF ready
  <2>3. /\ Candidate("ollama", LocalRank, ready) \in CandidateRecord
        /\ ~Candidate("ollama", LocalRank, ready).download
        /\ Candidate("ollama", LocalRank, ready).id = "ollama"
        /\ \A x \in m.pulled : /\ Candidate(x, LocalRank, TRUE) \in CandidateRecord
                               /\ ~Candidate(x, LocalRank, TRUE).download
                               /\ Candidate(x, LocalRank, TRUE).id = x
    BY <1>1, <2>1
  <2>4. QED
    BY <2>1, <2>2, <2>3
<1>7. QED
  BY <1>2, <1>3, <1>5, <1>6 DEF LLMCandidates

\* What is remembered is a candidate's id, or nothing.
LEMMA RememberedType ==
    ASSUME file \in FileRecord, NEW kind, NEW fp
    PROVE  Remembered(Load(file), kind, fp) \in Names
<1>1. Load(file) \in Tables([candidate : Names, seen : Fingerprints])
  BY LoadType DEF Decisions
<1>2. None \in Names
  BY DEF Names
<1>3. CASE kind \in DOMAIN Load(file)
  <2>1. Load(file)[kind] \in [candidate : Names, seen : Fingerprints]
    BY <1>1, <1>3, TableEntries
  <2>2. QED
    BY <1>2, <2>1 DEF Remembered
<1>4. CASE kind \notin DOMAIN Load(file)
  BY <1>2, <1>4 DEF Remembered
<1>5. QED
  BY <1>3, <1>4

\* What resolve() settles on is one of the candidates, or nothing.
LEMMA ChoicesAreCandidates ==
    ASSUME NEW candidates, NEW prior, NEW terminal, NEW id \in Choices(candidates, prior, terminal)
    PROVE  id = None \/ \E c \in candidates : c.id = id
BY DEF Choices, Ids, Ready, Safest

-----------------------------------------------------------------------------
\* The initial state satisfies the inductive invariant.
LEMMA IdleType == Idle \in ProcessRecord /\ Orderly(Idle)
<1>1. Unchosen \in CandidateRecord /\ ~Unchosen.download
  BY DEF Unchosen, Candidate, CandidateRecord, Names
<1>2. NoDecisions \in Decisions /\ NoDecisions \in Tables(Names)
  BY EmptyTable DEF Decisions
<1>3. DOMAIN NoDecisions = {}
  BY DEF NoDecisions
<1> HIDE DEF Unchosen, NoDecisions
<1>4. QED
  BY <1>1, <1>2, <1>3 DEF Idle, ProcessRecord, Orderly, Busy, Putting, Asked, BuiltRight

LEMMA InitIInv == Init => IInv
<1> SUFFICES ASSUME Init
             PROVE  IInv
  OBVIOUS
<1>1. NoDecisions \in Decisions /\ Absent \in FileRecord
  BY EmptyTable DEF Decisions, Absent, FileRecord
<1>2. TypeOK
  BY <1>1, IdleType, SetupAssumption DEF Init, TypeOK
<1>3. \A p \in Processes : proc[p] = Idle /\ proc[p].pc = "idle"
  BY DEF Init, Idle
<1>4. Whole
  BY <1>3 DEF Init, Whole, Absent, Writing
<1>5. QED
  BY <1>2, <1>3, <1>4, IdleType DEF IInv

-----------------------------------------------------------------------------
\* A process goes on to the next kind in good order when it has built this one.
LEMMA AfterOrderly ==
    ASSUME NEW r \in ProcessRecord,
           r.config \in Configurations, r.fp \in Fingerprints, r.kind \in Kinds, r.at = "none",
           DOMAIN r.built \subseteq BuiltBefore(r.kind) \cup {r.kind}, r.offered = {},
           r.approved \/ ~r.chosen.download, BuiltRight(r)
    PROVE  /\ After(r) \in ProcessRecord /\ Orderly(After(r))
           /\ After(r).pc \notin Writing
<1> DEFINE s == After(r)
<1>1. /\ s \in ProcessRecord
      /\ s.config = r.config /\ s.fp = r.fp /\ s.at = r.at /\ s.built = r.built
      /\ s.offered = {} /\ s.resolved = r.resolved /\ s.approved = r.approved /\ s.chosen = r.chosen
      /\ \/ r.kind = "embedding" /\ s.kind = "store" /\ s.pc = "resolve"
         \/ r.kind = "store" /\ s.kind = "llm" /\ s.pc = "resolve"
         \/ r.kind = "llm" /\ s.kind = "llm" /\ s.pc = "built"
  <2>1. CASE r.kind = "embedding"
    BY <2>1 DEF After, ProcessRecord, Kinds
  <2>2. CASE r.kind = "store"
    BY <2>2 DEF After, ProcessRecord, Kinds
  <2>3. CASE r.kind = "llm"
    BY <2>3 DEF After, ProcessRecord, Kinds
  <2>4. QED
    BY <2>1, <2>2, <2>3 DEF Kinds
<1> HIDE DEF s
<1>2. DOMAIN s.built \subseteq BuiltBefore(s.kind) \/ s.pc = "built"
  BY <1>1 DEF BuiltBefore
<1>3. BuiltRight(s)
  BY <1>1 DEF BuiltRight
<1>4. Asked(s)
  BY <1>1 DEF Asked
<1>5. Orderly(s)
  BY <1>1, <1>2, <1>3, <1>4 DEF Orderly, Busy, Deciding, Putting, Kinds
<1>6. QED
  BY <1>1, <1>5 DEF s, Writing

\* A process that has settled on a fitting candidate is in good order.
LEMMA SettleOrderly ==
    ASSUME NEW r \in ProcessRecord, Orderly(r), r.pc \in Deciding, r.offered = {},
           NEW c \in CandidateRecord, NEW remember \in BOOLEAN, Fits(r, c)
    PROVE  /\ Settle(r, c, remember) \in ProcessRecord /\ Orderly(Settle(r, c, remember))
           /\ Settle(r, c, remember).pc \notin Writing
<1> DEFINE s == Settle(r, c, remember)
           w == With(r.resolved, r.kind, c.id)
<1>1. /\ r.config \in Configurations /\ r.fp \in Fingerprints /\ r.kind \in Kinds /\ r.at = "none"
      /\ DOMAIN r.built \subseteq BuiltBefore(r.kind) /\ (r.kind = "embedding" => ~r.fetched)
      /\ BuiltRight(r)
  BY DEF Orderly, Busy, Deciding
<1>2. c.id \in Names /\ r.resolved \in Tables(Names)
  BY DEF CandidateRecord, ProcessRecord
<1>3. w \in Tables(Names) /\ Changed(w, r.resolved, r.kind, c.id)
  BY <1>1, <1>2, TableWith, Zenon
<1>4. s = [r EXCEPT !.chosen = c, !.resolved = w, !.pc = IF remember THEN "load" ELSE "activate"]
  BY DEF Settle
<1> HIDE DEF w
<1>5. /\ s \in ProcessRecord
      /\ s.config = r.config /\ s.fp = r.fp /\ s.kind = r.kind /\ s.at = r.at /\ s.built = r.built
      /\ s.resolved = w /\ s.chosen = c /\ s.fetched = r.fetched /\ s.offered = {}
      /\ s.pc \in {"load", "activate"}
  BY <1>3, <1>4 DEF ProcessRecord, Putting
<1> HIDE DEF s
<1>6. r.kind \notin DOMAIN r.built
  BY <1>1 DEF BuiltBefore
<1>7. BuiltRight(s)
  BY <1>1, <1>3, <1>5, <1>6 DEF BuiltRight, Changed
<1>8. Announced(s)
  BY <1>3, <1>5 DEF Announced, Changed, Fits
<1>9. Asked(s)
  BY <1>1, <1>5 DEF Asked, Putting, Fits
<1>10. Orderly(s)
  BY <1>1, <1>3, <1>5, <1>7, <1>8, <1>9 DEF Orderly, Busy, Deciding, Putting, Changed
<1>11. QED
  BY <1>5, <1>10 DEF s, Writing

\* Failing leaves everything as it is.
LEMMA FailingOrderly ==
    ASSUME NEW r \in ProcessRecord, Orderly(r), r.pc \in Deciding \cup {"activate", "build"},
           r.offered = {}
    PROVE  /\ Failing(r) \in ProcessRecord /\ Orderly(Failing(r))
           /\ Failing(r).pc \notin Writing
<1> DEFINE s == Failing(r)
<1>1. /\ s \in ProcessRecord
      /\ s.config = r.config /\ s.fp = r.fp /\ s.kind = r.kind /\ s.at = r.at /\ s.built = r.built
      /\ s.resolved = r.resolved /\ s.chosen = r.chosen /\ s.fetched = r.fetched
      /\ s.approved = r.approved /\ s.pc = "failed" /\ s.offered = {}
  BY DEF Failing, ProcessRecord
<1> HIDE DEF s
<1>2. Asked(s) /\ BuiltRight(s)
  BY <1>1 DEF Orderly, Asked, BuiltRight, Deciding, Putting
<1>3. Orderly(s)
  BY <1>1, <1>2 DEF Orderly, Busy, Deciding, Putting
<1>4. QED
  BY <1>1, <1>3 DEF s, Writing

\* Whatever resolve() settles on for a kind leaves the process in good order.
LEMMA SettledOrderly ==
    ASSUME TypeOK, NEW r \in ProcessRecord, Orderly(r), r.pc \in Deciding, r.offered = {},
           NEW candidates \in SUBSET CandidateRecord, NEW required \in BOOLEAN,
           \A c \in candidates : Fits(r, c),
           NEW next \in Settled(r, candidates, required)
    PROVE  next \in ProcessRecord /\ Orderly(next) /\ next.pc \notin Writing
<1> DEFINE prior == Remembered(Load(file), r.kind, r.fp)
<1>1. PICK id \in Choices(candidates, prior, r.config.terminal) :
         next = IF id # None THEN Settle(r, CHOOSE c \in candidates : c.id = id, id # prior)
                ELSE IF required THEN Failing(r)
                ELSE After([r EXCEPT !.resolved = With(@, r.kind, None),
                                     !.built = With(@, r.kind, "null")])
  BY DEF Settled
<1> HIDE DEF prior
<1>2. CASE id # None
  <2> DEFINE c == CHOOSE c \in candidates : c.id = id
  <2>1. \E x \in candidates : x.id = id
    BY <1>2, ChoicesAreCandidates
  <2>2. c \in candidates
    BY <2>1
  <2>3. next = Settle(r, c, id # prior)
    BY <1>1, <1>2
  <2>4. (id # prior) \in BOOLEAN
    OBVIOUS
  <2> HIDE DEF c
  <2>5. QED
    BY <2>2, <2>3, <2>4, SettleOrderly
<1>3. CASE id = None /\ required
  BY <1>1, <1>3, FailingOrderly
<1>4. CASE id = None /\ ~required
  <2> DEFINE resolved == With(r.resolved, r.kind, None)
             built == With(r.built, r.kind, "null")
             s == [r EXCEPT !.resolved = resolved, !.built = built]
  <2>1. /\ r.config \in Configurations /\ r.fp \in Fingerprints /\ r.kind \in Kinds /\ r.at = "none"
        /\ DOMAIN r.built \subseteq BuiltBefore(r.kind)
        /\ BuiltRight(r) /\ (r.approved \/ ~r.chosen.download)
    BY DEF Orderly, Busy, Deciding, Asked, Putting
  <2>2. None \in Names /\ "null" \in Names /\ r.resolved \in Tables(Names) /\ r.built \in Tables(Names)
    BY DEF ProcessRecord, Names
  <2>3. resolved \in Tables(Names) /\ Changed(resolved, r.resolved, r.kind, None)
    BY <2>1, <2>2, TableWith, Zenon
  <2>4. built \in Tables(Names) /\ Changed(built, r.built, r.kind, "null")
    BY <2>1, <2>2, TableWith, Zenon
  <2>5. next = After(s)
    BY <1>1, <1>4
  <2> HIDE DEF resolved, built
  <2>6. /\ s \in ProcessRecord
        /\ s.config = r.config /\ s.fp = r.fp /\ s.kind = r.kind /\ s.at = r.at
        /\ s.built = built /\ s.resolved = resolved /\ s.offered = {}
        /\ s.approved = r.approved /\ s.chosen = r.chosen
    BY <2>3, <2>4 DEF ProcessRecord
  <2> HIDE DEF s
  <2>7. BuiltRight(s)
    BY <2>1, <2>3, <2>4, <2>6 DEF BuiltRight, Changed
  <2>8. QED
    BY <2>1, <2>4, <2>5, <2>6, <2>7, AfterOrderly DEF Changed
<1>5. QED
  BY <1>2, <1>3, <1>4

-----------------------------------------------------------------------------
\* A process that neither comes from a put nor goes into its middle leaves the
\* files and what is known of them.
LEMMA QuietStep ==
    ASSUME IInv, NEW p \in Processes, NEW from, NEW next \in ProcessRecord,
           Step(p, from, next), Orderly(next), from \notin Writing, next.pc \notin Writing,
           UNCHANGED files, machine' \in MachineRecord
    PROVE  IInv'
<1>1. /\ proc[p].pc = from
      /\ proc' \in [Processes -> ProcessRecord]
      /\ \A q \in Processes : proc'[q] = IF q = p THEN next ELSE proc[q]
  BY DEF IInv, TypeOK, Step
<1>2. UNCHANGED <<file, tmp, last, overlapped, starts, changes, crashes>>
  BY DEF Step, files
<1>3. TypeOK'
  BY <1>1, <1>2 DEF IInv, TypeOK
<1>4. \A q \in Processes : Orderly(proc'[q])
  BY <1>1 DEF IInv
<1>5. \A q \in Processes : proc'[q].pc \in Writing => proc'[q] = proc[q]
  BY <1>1
<1>6. Whole'
  <2>1. CASE overlapped
    BY <1>2, <2>1 DEF Whole
  <2>2. CASE ~overlapped
    BY <1>2, <1>5, <2>2 DEF IInv, Whole, ToBePut, Writing
  <2>3. QED
    BY <2>1, <2>2
<1>7. QED
  BY <1>3, <1>4, <1>6 DEF IInv

\* Resolving a kind keeps the invariant.
LEMMA ResolveKeepsIInv ==
    ASSUME IInv, NEW p \in Processes, Resolve(p)
    PROVE  IInv'
<1> DEFINE r == proc[p]
<1>1. /\ r \in ProcessRecord /\ Orderly(r) /\ machine \in MachineRecord /\ TypeOK
  BY DEF IInv, TypeOK
<1>2. UNCHANGED machine /\ UNCHANGED files /\ r.pc \in Deciding
  BY DEF Resolve, ResolveEmbedding, ResolveStore, PinLLM, ResolveLLM, Look, Choose, Step, Deciding
<1>3. /\ r.config \in Configurations /\ r.config \in ConfigurationRecord
      /\ r.fp \in Fingerprints /\ r.kind \in Kinds /\ r.at = "none"
      /\ DOMAIN r.built \subseteq BuiltBefore(r.kind) /\ (r.kind = "embedding" => ~r.fetched)
      /\ BuiltRight(r) /\ (r.approved \/ ~r.chosen.download)
      /\ r.kind = "embedding" => DOMAIN r.resolved = {}
  BY <1>1, <1>2, SetupAssumption DEF Orderly, Busy, Deciding, Asked, Putting
<1>15. r.pc = "resolve" => r.offered = {}
  BY <1>1 DEF Orderly
<1> HIDE DEF r
<1>4. ASSUME NEW next \in ProcessRecord, NEW from \in Deciding, Step(p, from, next), Orderly(next),
             next.pc \notin Writing
      PROVE  IInv'
  BY <1>1, <1>2, <1>4, QuietStep DEF Writing, Deciding
<1>5. ASSUME NEW id \in Names, NEW next, next = [r EXCEPT !.pc = "build", !.resolved = With(@, r.kind, id)],
             r.offered = {},
             r.kind = "embedding" => id = "local" \/ (id = "vertex" /\ r.config.vertex)
      PROVE  next \in ProcessRecord /\ Orderly(next) /\ next.pc \notin Writing
  <2> DEFINE w == With(r.resolved, r.kind, id)
  <2>1. w \in Tables(Names) /\ Changed(w, r.resolved, r.kind, id)
    <3>1. r.resolved \in Tables(Names)
      BY <1>1 DEF ProcessRecord
    <3>2. QED
      BY <1>3, <3>1, TableWith, Zenon
  <2> HIDE DEF w
  <2>2. /\ next \in ProcessRecord
        /\ next.config = r.config /\ next.fp = r.fp /\ next.kind = r.kind /\ next.at = r.at
        /\ next.built = r.built /\ next.resolved = w /\ next.chosen = r.chosen
        /\ next.fetched = r.fetched /\ next.approved = r.approved /\ next.pc = "build"
        /\ next.offered = {}
    BY <1>1, <1>5, <2>1 DEF ProcessRecord, w
  <2>3. r.kind \notin DOMAIN r.built
    BY <1>3 DEF BuiltBefore
  <2>4. BuiltRight(next)
    BY <1>3, <2>1, <2>2, <2>3 DEF BuiltRight, Changed
  <2>5. Announced(next) /\ Asked(next)
    BY <1>3, <1>5, <2>1, <2>2 DEF Announced, Asked, Changed
  <2>6. Orderly(next)
    BY <1>3, <2>1, <2>2, <2>4, <2>5 DEF Orderly, Busy, Deciding, Putting, Changed
  <2>7. QED
    BY <2>2, <2>6 DEF Writing
\* Offering candidates that fit.
<1>9. ASSUME NEW candidates \in SUBSET CandidateRecord, \A c \in candidates : Fits(r, c),
             NEW pc \in {"look", "choose"}, NEW first \in Names \cup {"unread"},
             NEW next, next = [r EXCEPT !.pc = pc, !.offered = candidates, !.first = first]
      PROVE  next \in ProcessRecord /\ Orderly(next) /\ next.pc \notin Writing
  <2>1. /\ next \in ProcessRecord
        /\ next.config = r.config /\ next.fp = r.fp /\ next.kind = r.kind /\ next.at = r.at
        /\ next.built = r.built /\ next.resolved = r.resolved /\ next.chosen = r.chosen
        /\ next.fetched = r.fetched /\ next.approved = r.approved /\ next.pc = pc
        /\ next.offered = candidates
    BY <1>1, <1>9 DEF ProcessRecord
  <2>2. BuiltRight(next) /\ Asked(next)
    BY <1>3, <2>1 DEF BuiltRight, Asked
  <2>3. \A c \in next.offered : Fits(next, c)
    BY <1>9, <2>1 DEF Fits
  <2>4. Orderly(next)
    BY <1>3, <2>1, <2>2, <2>3 DEF Orderly, Busy, Deciding, Putting
  <2>5. QED
    BY <2>1, <2>4 DEF Writing
<1>10. r.offered \in SUBSET CandidateRecord /\ r.first \in Names \cup {"unread"}
  BY <1>1 DEF ProcessRecord
<1>6. CASE ResolveEmbedding(p)
  <2> DEFINE candidates == EmbeddingCandidates(machine, r.config)
             pinned == IF r.config.vertex THEN "vertex" ELSE "local"
  <2>1. r.kind = "embedding" /\ r.pc = "resolve"
    BY <1>6 DEF ResolveEmbedding, Step, r
  <2>2. /\ candidates \in SUBSET CandidateRecord
        /\ \A c \in candidates : Fits(r, c)
    BY <1>1, <1>3, <2>1, CandidateTypes DEF Fits
  <2>3. CASE Step(p, "resolve", After([r EXCEPT !.built = With(@, r.kind, "null")])) /\ r.config.retrieval = "sparse"
    <3> DEFINE built == With(r.built, r.kind, "null")
               s == [r EXCEPT !.built = built]
    <3>1. "null" \in Names /\ r.built \in Tables(Names)
      BY <1>1 DEF Names, ProcessRecord
    <3>2. built \in Tables(Names) /\ Changed(built, r.built, r.kind, "null")
      BY <1>3, <3>1, TableWith, Zenon
    <3> HIDE DEF built
    <3>3. /\ s \in ProcessRecord
          /\ s.config = r.config /\ s.fp = r.fp /\ s.kind = r.kind /\ s.at = r.at
          /\ s.built = built /\ s.resolved = r.resolved /\ s.offered = r.offered
          /\ s.approved = r.approved /\ s.chosen = r.chosen
      BY <1>1, <3>2 DEF ProcessRecord
    <3>4. Step(p, "resolve", After(s))
      BY <2>3 DEF built
    <3> HIDE DEF s
    <3>5. DOMAIN r.resolved = {}
      BY <1>3, <2>1
    <3>6. BuiltRight(s)
      BY <3>3, <3>5 DEF BuiltRight
    <3>7. QED
      BY <1>3, <1>4, <1>15, <2>1, <3>2, <3>3, <3>4, <3>6, AfterOrderly DEF Changed, Deciding
  <2>4. CASE Step(p, "resolve", [r EXCEPT !.pc = "build", !.resolved = With(@, r.kind, pinned)])
    <3>1. pinned \in Names /\ (pinned = "local" \/ (pinned = "vertex" /\ r.config.vertex))
      BY DEF Names
    <3> HIDE DEF pinned
    <3>2. QED
      BY <1>4, <1>5, <1>15, <2>1, <2>4, <3>1 DEF Deciding
  <2>5. CASE Step(p, "resolve", Failing(r))
    BY <1>1, <1>4, <1>15, <2>1, <2>5, FailingOrderly DEF Deciding
  <2>6. CASE pinned \in Ids(candidates)
             /\ Step(p, "resolve", Settle(r, CHOOSE c \in candidates : c.id = pinned, FALSE))
    <3> DEFINE c == CHOOSE c \in candidates : c.id = pinned
    <3>1. c \in candidates
      BY <2>6 DEF Ids
    <3>2. Step(p, "resolve", Settle(r, c, FALSE))
      BY <2>6
    <3> HIDE DEF c, candidates
    <3>3. QED
      BY <1>1, <1>4, <1>15, <2>1, <2>2, <3>1, <3>2, SettleOrderly DEF Deciding
  <2>7. CASE Step(p, "resolve", Offer(r, candidates))
    <3> HIDE DEF candidates
    <3>1. Offer(r, candidates) = [r EXCEPT !.pc = "choose", !.offered = candidates, !.first = r.first]
      BY <1>1 DEF Offer, ProcessRecord
    <3> DEFINE next == Offer(r, candidates)
    <3>2. next \in ProcessRecord /\ Orderly(next) /\ next.pc \notin Writing
      BY <1>9, <1>10, <2>2, <3>1
    <3> HIDE DEF next
    <3>3. QED
      BY <1>4, <2>7, <3>2 DEF Deciding, next
  <2>8. QED
    BY <1>6, <2>3, <2>4, <2>5, <2>6, <2>7 DEF ResolveEmbedding, r
<1>7. CASE ResolveStore(p)
  <2> DEFINE candidates == StoreCandidates(machine)
  <2>1. r.kind = "store" /\ r.pc = "resolve"
    BY <1>7 DEF ResolveStore, Step, r
  <2>2. candidates \in SUBSET CandidateRecord /\ \A c \in candidates : Fits(r, c)
    BY <1>1, <1>3, <2>1, CandidateTypes DEF Fits
  <2>3. CASE Step(p, "resolve", [r EXCEPT !.pc = "build", !.resolved = With(@, r.kind, "chroma")])
    <3>1. "chroma" \in Names
      BY DEF Names
    <3>2. QED
      BY <1>4, <1>5, <1>15, <2>1, <2>3, <3>1 DEF Deciding
  <2>4. CASE Step(p, "resolve", Offer(r, candidates))
    <3> HIDE DEF candidates
    <3>1. Offer(r, candidates) = [r EXCEPT !.pc = "choose", !.offered = candidates, !.first = r.first]
      BY <1>1 DEF Offer, ProcessRecord
    <3> DEFINE next == Offer(r, candidates)
    <3>2. next \in ProcessRecord /\ Orderly(next) /\ next.pc \notin Writing
      BY <1>9, <1>10, <2>2, <3>1
    <3> HIDE DEF next
    <3>3. QED
      BY <1>4, <2>4, <3>2 DEF Deciding, next
  <2>5. QED
    BY <1>7, <2>3, <2>4 DEF ResolveStore, r
<1>8. CASE PinLLM(p)
  <2> DEFINE prior == Remembered(Load(file), "llm", r.fp)
             pinned == r.config.llm
             rank == IF pinned \in Services THEN Rank[pinned] ELSE LocalRank
             c == Candidate(pinned, rank, TRUE)
  <2>1. r.kind = "llm" /\ r.pc = "resolve" /\ (pinned \in Services \/ pinned = "ollama")
    BY <1>8 DEF PinLLM, Step, r
  <2>2. CASE Step(p, "resolve", Failing(r))
    BY <1>1, <1>4, <1>15, <2>1, <2>2, FailingOrderly DEF Deciding
  <2>3. CASE Step(p, "resolve", Settle(r, c, pinned # prior))
    <3>1. c \in CandidateRecord /\ Fits(r, c)
      <4>1. pinned \in Names /\ rank \in Nat /\ pinned # None
        BY <2>1, ResolutionAssumption, SetupAssumption DEF Names, LocalRank
      <4> HIDE DEF pinned, rank
      <4>2. QED
        BY <2>1, <4>1 DEF Candidate, CandidateRecord, Fits
    <3>2. (pinned # prior) \in BOOLEAN
      OBVIOUS
    <3> HIDE DEF c, prior, pinned
    <3>3. QED
      BY <1>1, <1>4, <1>15, <2>1, <2>3, <3>1, <3>2, SettleOrderly DEF Deciding
  <2>4. QED
    BY <1>8, <2>2, <2>3 DEF PinLLM, r
<1>11. CASE ResolveLLM(p)
  <2> DEFINE candidates == LLMCandidates(machine, r.config)
             key == \E c \in Ready(candidates) : ~IsOllama(c.id)
             next == [Offer(r, candidates) EXCEPT !.pc = IF key THEN "look" ELSE @]
  <2>1. r.kind = "llm" /\ r.pc = "resolve"
    BY <1>11 DEF ResolveLLM, Step, r
  <2>2. candidates \in SUBSET CandidateRecord /\ \A c \in candidates : Fits(r, c)
    BY <1>1, <1>3, <2>1, CandidateTypes DEF Fits
  <2>3. CASE Step(p, "resolve", Failing(r))
    BY <1>1, <1>4, <1>15, <2>1, <2>3, FailingOrderly DEF Deciding
  <2>4. CASE Step(p, "resolve", [r EXCEPT !.pc = "build", !.resolved = With(@, r.kind, "ollama")])
    <3>1. "ollama" \in Names
      BY DEF Names
    <3>2. QED
      BY <1>4, <1>5, <1>15, <2>1, <2>4, <3>1 DEF Deciding
  <2>5. CASE Step(p, "resolve", next)
    <3> DEFINE pc == IF key THEN "look" ELSE "choose"
    <3> HIDE DEF candidates, key
    <3>1. next = [r EXCEPT !.pc = pc, !.offered = candidates, !.first = r.first]
      BY <1>1 DEF Offer, ProcessRecord
    <3>2. pc \in {"look", "choose"}
      OBVIOUS
    <3> HIDE DEF pc
    <3>3. next \in ProcessRecord /\ Orderly(next) /\ next.pc \notin Writing
      BY <1>9, <1>10, <2>2, <3>1, <3>2
    <3> HIDE DEF next
    <3>4. QED
      BY <1>4, <2>5, <3>3 DEF Deciding
  <2>6. QED
    BY <1>11, <2>3, <2>4, <2>5 DEF ResolveLLM, r
<1>12. CASE Look(p)
  <2> DEFINE prior == Remembered(Load(file), "llm", r.fp)
             next == [r EXCEPT !.pc = "choose", !.first = prior]
  <2>1. Step(p, "look", next)
    BY <1>12 DEF Look, r
  <2>2. prior \in Names
    BY <1>1, RememberedType DEF TypeOK
  <2>3. next = [r EXCEPT !.pc = "choose", !.offered = r.offered, !.first = prior]
    BY <1>1 DEF ProcessRecord
  <2>4. \A c \in r.offered : Fits(r, c)
    BY <1>1 DEF Orderly
  <2> HIDE DEF prior
  <2>5. next \in ProcessRecord /\ Orderly(next) /\ next.pc \notin Writing
    BY <1>9, <1>10, <2>2, <2>3, <2>4
  <2> HIDE DEF next
  <2>6. QED
    BY <1>4, <2>1, <2>5 DEF Deciding
<1>13. CASE Choose(p)
  <2> DEFINE bare == [r EXCEPT !.offered = {}, !.first = "unread"]
             candidates == Kept(r.offered, r.first)
             required == r.kind # "embedding"
  <2>1. r.pc = "choose"
    BY <1>13 DEF Choose, Step, r
  <2>2. PICK next \in Settled(bare, candidates, required) : Step(p, "choose", next)
    BY <1>13 DEF Choose, r
  <2>3. candidates \subseteq r.offered
    BY DEF Kept
  <2>4. /\ bare \in ProcessRecord
        /\ bare.config = r.config /\ bare.fp = r.fp /\ bare.kind = r.kind /\ bare.at = r.at
        /\ bare.built = r.built /\ bare.resolved = r.resolved /\ bare.chosen = r.chosen
        /\ bare.fetched = r.fetched /\ bare.approved = r.approved /\ bare.pc = "choose"
        /\ bare.offered = {}
    BY <1>1, <2>1 DEF ProcessRecord
  <2> HIDE DEF bare, candidates
  <2>5. BuiltRight(bare) /\ Asked(bare)
    BY <1>3, <2>4 DEF BuiltRight, Asked
  <2>6. Orderly(bare)
    BY <1>3, <2>4, <2>5 DEF Orderly, Busy, Deciding, Putting
  <2>7. \A c \in candidates : Fits(bare, c)
    BY <1>1, <2>3, <2>4 DEF Orderly, Fits
  <2>8. candidates \in SUBSET CandidateRecord /\ required \in BOOLEAN
    BY <1>10, <2>3
  <2> HIDE DEF required
  <2>9. QED
    BY <1>1, <1>4, <2>2, <2>4, <2>6, <2>7, <2>8, SettledOrderly DEF Deciding
<1>14. QED
  BY <1>6, <1>7, <1>8, <1>11, <1>12, <1>13 DEF Resolve

-----------------------------------------------------------------------------
\* A step inside put() changes the stage, the data and the file it has open; the
\* process stays in good order.
LEMMA PutOrderly ==
    ASSUME NEW r \in ProcessRecord, Orderly(r), r.pc \in Putting,
           NEW pc \in Putting \cup {"activate"}, NEW at \in {"none", "tmp", "file", "gone"},
           NEW data \in Decisions, pc \notin {"write", "rename"} => at = "none",
           NEW next, next = [r EXCEPT !.pc = pc, !.at = at, !.data = data]
    PROVE  next \in ProcessRecord /\ Orderly(next)
<1>1. /\ next \in ProcessRecord
      /\ next.config = r.config /\ next.fp = r.fp /\ next.kind = r.kind
      /\ next.built = r.built /\ next.resolved = r.resolved /\ next.chosen = r.chosen
      /\ next.fetched = r.fetched /\ next.approved = r.approved
      /\ next.pc = pc /\ next.at = at /\ next.offered = r.offered
  BY DEF ProcessRecord
<1>2. Asked(next) /\ BuiltRight(next)
  BY <1>1 DEF Orderly, Asked, BuiltRight, Putting
<1>3. Orderly(next)
  BY <1>1, <1>2 DEF Orderly, Busy, Deciding, Putting, Announced
<1>4. QED
  BY <1>1, <1>3

\* What put() reads and what it will write.
LEMMA PutTypes ==
    ASSUME IInv, NEW p \in Processes, proc[p].pc \in Putting
    PROVE  /\ proc[p] \in ProcessRecord /\ Orderly(proc[p])
           /\ proc[p].kind \in Kinds /\ proc[p].data \in Decisions
           /\ ToBePut(proc[p]) \in Decisions
           /\ With(Load(file), proc[p].kind, Entry(proc[p].kind, proc[p].fp, proc[p].chosen.id)) \in Decisions
           /\ ToBePut(proc[p]) # NoDecisions
<1> DEFINE r == proc[p]
           v == Entry(r.kind, r.fp, r.chosen.id)
<1>1. r \in ProcessRecord /\ Orderly(r)
  BY DEF IInv, TypeOK
<1>2. r.kind \in Kinds /\ r.fp \in Fingerprints /\ r.chosen.id \in Names /\ r.data \in Decisions
  BY <1>1 DEF Orderly, Putting, ProcessRecord, CandidateRecord
<1>3. v \in [candidate : Names, seen : Fingerprints]
  BY <1>2, EntryType
<1>4. last \in Decisions /\ Load(file) \in Decisions
  BY LoadType DEF IInv, TypeOK
<1> HIDE DEF v, r
<1>5. \A f \in Decisions : With(f, r.kind, v) \in Decisions /\ Changed(With(f, r.kind, v), f, r.kind, v)
  BY <1>2, <1>3, TableWith, Zenon DEF Decisions
<1>6. ToBePut(r) = With(last, r.kind, v)
  BY DEF ToBePut, v
<1>7. r.kind \in DOMAIN ToBePut(r)
  BY <1>4, <1>5, <1>6 DEF Changed
<1>8. ToBePut(r) # NoDecisions
  BY <1>7 DEF NoDecisions
<1>9. QED
  BY <1>1, <1>2, <1>4, <1>5, <1>6, <1>8 DEF r, v

\* A step of put() that changes no process but its own.
LEMMA PutStep ==
    ASSUME IInv, NEW p \in Processes, NEW from \in Putting, NEW next \in ProcessRecord,
           Step(p, from, next), Orderly(next), next.pc \in Writing,
           file' \in FileRecord, tmp' \in FileRecord, UNCHANGED <<machine, last>>,
           overlapped' \in BOOLEAN, overlapped => overlapped',
           ~overlapped' => /\ \A q \in Processes \ {p} : proc[q].pc \notin Writing
                           /\ file' = file
                           /\ next.data = ToBePut(next)
                           /\ next.pc \in {"write", "rename"} => next.at = "tmp"
                           /\ next.pc = "rename" => tmp' = [torn |-> FALSE, decisions |-> next.data]
    PROVE  IInv'
<1>1. /\ proc' \in [Processes -> ProcessRecord]
      /\ \A q \in Processes : proc'[q] = IF q = p THEN next ELSE proc[q]
      /\ UNCHANGED <<starts, changes, crashes>>
  BY DEF IInv, TypeOK, Step
<1>2. TypeOK'
  BY <1>1 DEF IInv, TypeOK
<1>3. \A q \in Processes : Orderly(proc'[q])
  BY <1>1 DEF IInv
<1>4. Whole'
  <2>1. CASE overlapped'
    BY <2>1 DEF Whole
  <2>2. CASE ~overlapped'
    <3>1. \A q \in Processes : proc'[q].pc \in Writing => q = p
      BY <1>1, <2>2
    <3>2. file' = [torn |-> FALSE, decisions |-> last']
      BY <2>2 DEF IInv, Whole
    <3>3. ToBePut(proc[p])' = ToBePut(next)
      BY <1>1 DEF ToBePut
    <3>4. proc'[p] = next
      BY <1>1
    <3>5. \A q \in Processes :
             /\ proc'[q].pc \in Writing => proc'[q].data = ToBePut(proc[q])'
             /\ proc'[q].pc \in {"write", "rename"} => proc'[q].at = "tmp"
             /\ proc'[q].pc = "rename" => tmp' = [torn |-> FALSE, decisions |-> proc'[q].data]
      BY <2>2, <3>1, <3>3, <3>4 DEF Writing
    <3>6. QED
      BY <3>1, <3>2, <3>5 DEF Whole
  <2>3. QED
    BY <2>1, <2>2
<1>5. QED
  BY <1>2, <1>3, <1>4 DEF IInv

\* Every step of put() keeps the invariant.
LEMMA PutKeepsIInv ==
    ASSUME IInv, NEW p \in Processes, Put(p)
    PROVE  IInv'
<1> DEFINE r == proc[p]
<1>1. r.pc \in Putting
  BY DEF Put, PutLoad, PutOpen, PutWrite, PutRename, Step, Putting
<1>2. /\ r \in ProcessRecord /\ Orderly(r) /\ r.kind \in Kinds /\ r.data \in Decisions
      /\ ToBePut(r) \in Decisions /\ ToBePut(r) # NoDecisions
      /\ With(Load(file), r.kind, Entry(r.kind, r.fp, r.chosen.id)) \in Decisions
  BY <1>1, PutTypes
<1>3. /\ file \in FileRecord /\ tmp \in FileRecord /\ overlapped \in BOOLEAN /\ last \in Decisions
      /\ Torn \in FileRecord /\ Absent \in FileRecord
      /\ \A d \in Decisions : [torn |-> FALSE, decisions |-> d] \in FileRecord
  BY EmptyTable DEF IInv, TypeOK, Torn, Absent, FileRecord, Decisions
<1>4. ~overlapped /\ r.pc \in Writing =>
         /\ \A q \in Processes \ {p} : proc[q].pc \notin Writing
         /\ r.data = ToBePut(r)
         /\ r.pc \in {"write", "rename"} => r.at = "tmp"
         /\ r.pc = "rename" => tmp = [torn |-> FALSE, decisions |-> r.data]
  BY DEF IInv, Whole
<1>5. ~overlapped => file = [torn |-> FALSE, decisions |-> last]
  BY DEF IInv, Whole
<1> HIDE DEF r
<1>6. CASE PutLoad(p)
  <2> DEFINE data == With(Load(file), r.kind, Entry(r.kind, r.fp, r.chosen.id))
             next == [r EXCEPT !.pc = "open", !.data = data]
  <2>1. r.pc = "load" /\ Step(p, "load", next)
    BY <1>6 DEF PutLoad, Step, r
  <2>2. r.at = "none"
    BY <1>2, <2>1 DEF Orderly
  <2> HIDE DEF data
  <2>3. /\ next = [r EXCEPT !.pc = "open", !.at = "none", !.data = data]
        /\ next.pc = "open" /\ next.data = data /\ next.kind = r.kind /\ next.fp = r.fp
        /\ next.chosen = r.chosen
    BY <1>2, <2>2 DEF ProcessRecord
  <2> HIDE DEF next
  <2>4. next \in ProcessRecord /\ Orderly(next)
    BY <1>2, <2>1, <2>3, PutOrderly DEF Putting, data
  <2>5. ~overlapped => data = ToBePut(next)
    BY <1>5, <2>3 DEF Load, ToBePut, data
  <2>6. /\ overlapped' = (overlapped \/ \E q \in Processes \ {p} : proc[q].pc \in Putting \ {"load"})
        /\ UNCHANGED <<machine, file, tmp, last>>
    BY <1>6 DEF PutLoad
  <2>7. /\ overlapped' \in BOOLEAN /\ (overlapped => overlapped')
        /\ ~overlapped' => ~overlapped /\ \A q \in Processes \ {p} : proc[q].pc \notin Writing
    BY <1>3, <2>6 DEF Putting, Writing
  <2>8. QED
    BY <1>3, <2>1, <2>3, <2>4, <2>5, <2>6, <2>7, PutStep DEF Putting, Writing
<1>7. CASE PutOpen(p)
  <2> DEFINE next == [r EXCEPT !.pc = "write", !.at = "tmp"]
  <2>1. r.pc = "open" /\ Step(p, "open", next)
    BY <1>7 DEF PutOpen, Step, r
  <2>2. /\ next = [r EXCEPT !.pc = "write", !.at = "tmp", !.data = r.data]
        /\ next.pc = "write" /\ next.at = "tmp" /\ next.data = r.data /\ next.kind = r.kind
        /\ next.fp = r.fp /\ next.chosen = r.chosen
    BY <1>2 DEF ProcessRecord
  <2> HIDE DEF next
  <2>3. next \in ProcessRecord /\ Orderly(next)
    BY <1>2, <2>1, <2>2, PutOrderly DEF Putting
  <2>4. ToBePut(next) = ToBePut(r)
    BY <2>2 DEF ToBePut
  <2>5. tmp' = Torn /\ UNCHANGED <<machine, file, last, overlapped>>
    BY <1>7 DEF PutOpen
  <2>6. QED
    BY <1>3, <1>4, <2>1, <2>2, <2>3, <2>4, <2>5, PutStep DEF Putting, Writing
<1>8. CASE PutWrite(p)
  <2> DEFINE next == [r EXCEPT !.pc = "rename"]
  <2>1. r.pc = "write" /\ Step(p, "write", next)
    BY <1>8 DEF PutWrite, Step, r
  <2>2. /\ next = [r EXCEPT !.pc = "rename", !.at = r.at, !.data = r.data]
        /\ next.pc = "rename" /\ next.at = r.at /\ next.data = r.data /\ next.kind = r.kind
        /\ next.fp = r.fp /\ next.chosen = r.chosen /\ r.at \in {"none", "tmp", "file", "gone"}
    BY <1>2 DEF ProcessRecord
  <2> HIDE DEF next
  <2>3. next \in ProcessRecord /\ Orderly(next)
    BY <1>2, <2>1, <2>2, PutOrderly DEF Putting
  <2>4. ToBePut(next) = ToBePut(r)
    BY <2>2 DEF ToBePut
  <2>5. /\ tmp' = IF r.at = "tmp" THEN [torn |-> FALSE, decisions |-> r.data] ELSE tmp
        /\ file' = IF r.at = "file" THEN [torn |-> FALSE, decisions |-> r.data] ELSE file
        /\ UNCHANGED <<machine, last, overlapped>>
    BY <1>8 DEF PutWrite, r
  <2>6. tmp' \in FileRecord /\ file' \in FileRecord
    BY <1>2, <1>3, <2>5
  <2>7. ~overlapped => r.at = "tmp" /\ file' = file /\ tmp' = [torn |-> FALSE, decisions |-> r.data]
    BY <1>4, <2>1, <2>5 DEF Writing
  <2>8. QED
    BY <1>3, <1>4, <2>1, <2>2, <2>3, <2>4, <2>5, <2>6, <2>7, PutStep DEF Putting, Writing
<1>9. CASE PutRename(p)
  <2> DEFINE next == [r EXCEPT !.pc = "activate", !.at = "none", !.data = NoDecisions]
             there == tmp # Absent
  <2>1. r.pc = "rename" /\ \A q \in Processes : proc[q] \in ProcessRecord /\ Orderly(proc[q])
    BY <1>9 DEF PutRename, IInv, TypeOK, r
  <2>2. next \in ProcessRecord /\ Orderly(next) /\ next.pc = "activate"
    <3>1. NoDecisions \in Decisions
      BY EmptyTable DEF Decisions
    <3> HIDE DEF next
    <3>2. next \in ProcessRecord /\ Orderly(next)
      BY <1>2, <2>1, <3>1, PutOrderly DEF Putting, next
    <3>3. next.pc = "activate"
      BY <1>2 DEF ProcessRecord, next
    <3>4. QED
      BY <3>2, <3>3
  <2>3. ASSUME NEW q \in Processes, q # p
        PROVE  \E at \in {"none", "tmp", "file", "gone"} :
                  /\ proc'[q] = [proc[q] EXCEPT !.at = at]
                  /\ proc[q].at = "none" => at = "none"
    <3>1. proc[q].at \in {"none", "tmp", "file", "gone"} /\ proc[q] = [proc[q] EXCEPT !.at = proc[q].at]
      BY <2>1 DEF ProcessRecord
    <3>2. CASE there
      BY <1>9, <2>3, <3>1, <3>2 DEF PutRename
    <3>3. CASE ~there
      BY <1>9, <2>3, <3>1, <3>3 DEF PutRename
    <3>4. QED
      BY <3>2, <3>3
  <2>4. proc'[p] = next
    BY <1>9 DEF PutRename, r
  <2> HIDE DEF next
  <2>5. ASSUME NEW q \in Processes, q # p
        PROVE  proc'[q] \in ProcessRecord /\ Orderly(proc'[q]) /\ proc'[q].pc = proc[q].pc
    <3>1. PICK at \in {"none", "tmp", "file", "gone"} :
             proc'[q] = [proc[q] EXCEPT !.at = at] /\ (proc[q].at = "none" => at = "none")
      BY <2>3, <2>5
    <3> DEFINE o == proc[q]
               s == proc'[q]
    <3>2. o \in ProcessRecord /\ Orderly(o) /\ s = [o EXCEPT !.at = at] /\ (o.at = "none" => at = "none")
      BY <2>1, <3>1
    <3> HIDE DEF o, s
    <3>3. /\ s \in ProcessRecord
          /\ s.config = o.config /\ s.fp = o.fp /\ s.kind = o.kind
          /\ s.built = o.built /\ s.resolved = o.resolved /\ s.chosen = o.chosen
          /\ s.fetched = o.fetched /\ s.approved = o.approved
          /\ s.pc = o.pc /\ s.at = at /\ s.offered = o.offered
      BY <3>2 DEF ProcessRecord
    <3>4. Asked(s) /\ BuiltRight(s)
      BY <3>2, <3>3 DEF Orderly, Asked, BuiltRight
    <3>5. Orderly(s)
      BY <3>2, <3>3, <3>4 DEF Orderly, Announced, Fits
    <3>6. QED
      BY <3>3, <3>5 DEF o, s
  <2>6. /\ file' = IF there THEN tmp ELSE file
        /\ tmp' = Absent /\ last' = ToBePut(r)
        /\ UNCHANGED <<machine, overlapped, starts, changes, crashes>>
        /\ proc' = [q \in Processes |-> proc'[q]]
    BY <1>9 DEF PutRename, ToBePut, r
  <2>7. TypeOK'
    <3>1. \A q \in Processes : proc'[q] \in ProcessRecord
      BY <2>2, <2>4, <2>5
    <3>2. proc' \in [Processes -> ProcessRecord]
      BY <2>6, <3>1
    <3>3. file' \in FileRecord /\ tmp' \in FileRecord /\ last' \in Decisions
      BY <1>2, <1>3, <2>6
    <3>4. QED
      BY <2>6, <3>2, <3>3 DEF IInv, TypeOK
  <2>8. Whole'
    <3>1. CASE overlapped
      BY <2>6, <3>1 DEF Whole
    <3>2. CASE ~overlapped
      <4>1. tmp = [torn |-> FALSE, decisions |-> ToBePut(r)]
        BY <1>4, <2>1, <3>2 DEF Writing
      <4>2. there
        BY <1>2, <4>1 DEF Absent
      <4>3. file' = [torn |-> FALSE, decisions |-> last']
        BY <2>6, <4>1, <4>2
      <4>4. \A q \in Processes : proc'[q].pc \notin Writing
        BY <1>4, <2>1, <2>2, <2>4, <2>5, <3>2 DEF Writing
      <4>5. QED
        BY <4>3, <4>4 DEF Whole, Writing
    <3>3. QED
      BY <3>1, <3>2
  <2>9. \A q \in Processes : Orderly(proc'[q])
    BY <2>2, <2>4, <2>5
  <2>10. QED
    BY <2>7, <2>8, <2>9 DEF IInv
<1>10. QED
  BY <1>6, <1>7, <1>8, <1>9 DEF Put

-----------------------------------------------------------------------------
\* Consent keeps the invariant: only what is approved, or is no download, is built.
LEMMA ConsentKeepsIInv ==
    ASSUME IInv, NEW p \in Processes, Consent(p)
    PROVE  IInv'
<1> DEFINE r == proc[p]
<1>1. /\ r \in ProcessRecord /\ Orderly(r) /\ machine \in MachineRecord
      /\ r.pc = "activate" /\ UNCHANGED machine /\ UNCHANGED files
      /\ r.offered = {}
  BY DEF Consent, Step, IInv, TypeOK, Orderly
<1>2. PICK next : /\ Step(p, "activate", next)
                  /\ \/ next = Failing(r)
                     \/ next = [r EXCEPT !.pc = "build", !.approved = TRUE]
                     \/ ~r.chosen.download /\ next = [r EXCEPT !.pc = "build"]
  BY DEF Consent
<1> HIDE DEF r
<1>3. next \in ProcessRecord /\ Orderly(next) /\ next.pc \notin Writing
  <2>1. CASE next = Failing(r)
    BY <1>1, <2>1, FailingOrderly
  <2>2. CASE next # Failing(r)
    <3>1. /\ next \in ProcessRecord
          /\ next.config = r.config /\ next.fp = r.fp /\ next.kind = r.kind /\ next.at = r.at
          /\ next.built = r.built /\ next.resolved = r.resolved /\ next.chosen = r.chosen
          /\ next.fetched = r.fetched /\ next.pc = "build" /\ next.offered = {}
          /\ next.approved \/ ~r.chosen.download
      BY <1>1, <1>2, <2>2 DEF ProcessRecord, Putting
    <3>2. Asked(next) /\ BuiltRight(next) /\ Announced(next)
      BY <1>1, <3>1 DEF Orderly, Asked, BuiltRight, Announced, Busy, Deciding
    <3>3. Orderly(next)
      BY <1>1, <3>1, <3>2 DEF Orderly, Busy, Deciding, Putting
    <3>4. QED
      BY <3>1, <3>3 DEF Writing
  <2>3. QED
    BY <2>1, <2>2
<1>4. QED
  BY <1>1, <1>2, <1>3, QuietStep DEF Writing

\* Building keeps the invariant: what is built is what was announced.
LEMMA BuildKeepsIInv ==
    ASSUME IInv, NEW p \in Processes, Build(p)
    PROVE  IInv'
<1> DEFINE r == proc[p]
           fetches == Product(r) = "local" /\ ~machine.model
           built == With(r.built, r.kind, Product(r))
           s == [r EXCEPT !.built = built, !.fetched = @ \/ fetches]
<1>1. /\ r \in ProcessRecord /\ Orderly(r) /\ machine \in MachineRecord
      /\ r.pc = "build" /\ UNCHANGED files /\ r.offered = {}
  BY DEF Build, Step, IInv, TypeOK, Orderly
<1>2. /\ r.config \in Configurations /\ r.fp \in Fingerprints /\ r.kind \in Kinds /\ r.at = "none"
      /\ DOMAIN r.built \subseteq BuiltBefore(r.kind) /\ r.kind \in DOMAIN r.resolved
      /\ Announced(r) /\ BuiltRight(r) /\ (r.approved \/ ~r.chosen.download)
  BY <1>1 DEF Orderly, Busy, Deciding, Asked, Putting
<1>3. CASE Step(p, "build", Failing(r)) /\ UNCHANGED machine
  BY <1>1, <1>3, FailingOrderly, QuietStep DEF Writing
<1>4. CASE Step(p, "build", After(s)) /\ machine' = [machine EXCEPT !.model = @ \/ fetches]
  <2>1. r.resolved[r.kind] \in Names /\ r.built \in Tables(Names) /\ r.fetched \in BOOLEAN
    BY <1>1, <1>2, TableEntries DEF ProcessRecord
  <2>2. Product(r) \in Names
    BY <1>2, <2>1 DEF Product, Names, Kinds
  <2>3. built \in Tables(Names) /\ Changed(built, r.built, r.kind, Product(r))
    BY <1>2, <2>1, <2>2, TableWith, Zenon
  <2>4. machine' \in MachineRecord
    BY <1>1, <1>4 DEF MachineRecord
  <2>5. (r.fetched \/ fetches) \in BOOLEAN
    BY <2>1
  <2> HIDE DEF built, fetches
  <2>6. /\ s \in ProcessRecord
        /\ s.config = r.config /\ s.fp = r.fp /\ s.kind = r.kind /\ s.at = r.at
        /\ s.built = built /\ s.resolved = r.resolved /\ s.offered = {}
        /\ s.approved = r.approved /\ s.chosen = r.chosen
    BY <1>1, <2>3, <2>5 DEF ProcessRecord
  <2> HIDE DEF s
  <2>7. \/ Product(r) = r.resolved[r.kind]
        \/ r.kind = "embedding" /\ r.resolved[r.kind] = "local" /\ r.config.vertex
    <3>1. CASE r.kind = "embedding"
      <4>1. CASE r.config.vertex
        BY <1>2, <3>1, <4>1 DEF Announced, Product
      <4>2. CASE ~r.config.vertex
        BY <1>2, <3>1, <4>2 DEF Announced, Product
      <4>3. QED
        BY <4>1, <4>2
    <3>2. CASE r.kind # "embedding"
      BY <3>2 DEF Product
    <3>3. QED
      BY <3>1, <3>2
  <2>8. BuiltRight(s)
    BY <1>2, <2>3, <2>6, <2>7 DEF BuiltRight, Changed
  <2>9. After(s) \in ProcessRecord /\ Orderly(After(s)) /\ After(s).pc \notin Writing
    BY <1>2, <2>3, <2>6, <2>8, AfterOrderly DEF Changed
  <2>10. QED
    BY <1>1, <1>4, <2>4, <2>9, QuietStep DEF Writing
<1>5. QED
  BY <1>3, <1>4 DEF Build

\* A process that starts, or is killed, keeps the invariant.
LEMMA StartKeepsIInv ==
    ASSUME IInv, NEW p \in Processes, NEW next \in ProcessRecord,
           proc' = [proc EXCEPT ![p] = next], Orderly(next), next.pc \notin Writing,
           UNCHANGED <<machine, files>>, starts' \in Nat, crashes' \in Nat, changes' \in Nat
    PROVE  IInv'
<1>1. /\ proc' \in [Processes -> ProcessRecord]
      /\ \A q \in Processes : proc'[q] = IF q = p THEN next ELSE proc[q]
  BY DEF IInv, TypeOK
<1>2. UNCHANGED <<file, tmp, last, overlapped>>
  BY DEF files
<1>3. TypeOK'
  BY <1>1, <1>2 DEF IInv, TypeOK
<1>4. \A q \in Processes : Orderly(proc'[q])
  BY <1>1 DEF IInv
<1>5. \A q \in Processes : proc'[q].pc \in Writing => proc'[q] = proc[q]
  BY <1>1
<1>6. Whole'
  <2>1. CASE overlapped
    BY <1>2, <2>1 DEF Whole
  <2>2. CASE ~overlapped
    BY <1>2, <1>5, <2>2 DEF IInv, Whole, ToBePut, Writing
  <2>3. QED
    BY <2>1, <2>2
<1>7. QED
  BY <1>3, <1>4, <1>6 DEF IInv

\* Every step of the specification keeps the inductive invariant.
LEMMA NextIInv == IInv /\ [Next]_vars => IInv'
<1> SUFFICES ASSUME IInv, [Next]_vars
             PROVE  IInv'
  OBVIOUS
<1>1. CASE UNCHANGED vars
  BY <1>1 DEF vars, files, IInv, TypeOK, Whole, ToBePut, Orderly, Asked, BuiltRight, Announced
<1>2. ASSUME NEW p \in Processes, NEW config \in Configurations, Start(p, config)
      PROVE  IInv'
  <2> DEFINE kind == IF config.tool = "rag" THEN "embedding" ELSE "llm"
             fp == Fingerprint(machine, config)
             next == [Idle EXCEPT !.pc = "resolve", !.config = config, !.kind = kind, !.fp = fp]
  <2>1. fp \in Fingerprints /\ kind \in Kinds
    BY FingerprintType DEF IInv, TypeOK, Kinds
  <2>2. /\ proc' = [proc EXCEPT ![p] = next] /\ UNCHANGED <<machine, files, changes, crashes>>
        /\ starts' = starts + 1
    BY <1>2 DEF Start
  <2> HIDE DEF kind, fp
  <2>3. Idle \in ProcessRecord
    BY IdleType
  <2>4. /\ next \in ProcessRecord
        /\ next.config = config /\ next.fp = fp /\ next.kind = kind /\ next.at = "none"
        /\ next.built = NoDecisions /\ next.resolved = NoDecisions /\ next.chosen = Unchosen
        /\ next.fetched = FALSE /\ next.pc = "resolve" /\ next.offered = {}
    BY <2>1, <2>3 DEF ProcessRecord, Idle
  <2>5. DOMAIN NoDecisions = {} /\ ~Unchosen.download
    BY DEF NoDecisions, Unchosen, Candidate
  <2> HIDE DEF next
  <2>6. Orderly(next) /\ next.pc \notin Writing
    BY <2>1, <2>4, <2>5 DEF Orderly, Busy, Deciding, Putting, Asked, BuiltRight, Announced, Writing
  <2>7. starts' \in Nat /\ crashes' \in Nat /\ changes' \in Nat
    BY <2>2 DEF IInv, TypeOK
  <2>8. QED
    BY <2>2, <2>4, <2>6, <2>7, StartKeepsIInv
<1>3. ASSUME NEW p \in Processes, Crash(p)
      PROVE  IInv'
  <2>1. Idle.pc \notin Writing
    BY DEF Idle, Writing
  <2> HIDE DEF Idle
  <2>2. starts' \in Nat /\ crashes' \in Nat /\ changes' \in Nat
    BY <1>3 DEF Crash, IInv, TypeOK
  <2>3. proc' = [proc EXCEPT ![p] = Idle] /\ UNCHANGED <<machine, files>>
    BY <1>3 DEF Crash
  <2>4. QED
    BY <2>1, <2>2, <2>3, IdleType, StartKeepsIInv
<1>4. ASSUME NEW p \in Processes, Proceed(p)
      PROVE  IInv'
  BY <1>4, ResolveKeepsIInv, PutKeepsIInv, ConsentKeepsIInv, BuildKeepsIInv DEF Proceed
<1>5. CASE Change
  <2>1. machine' \in MachineRecord
    <3>1. /\ machine \in MachineRecord
          /\ machine.packages \in SUBSET Packages /\ machine.model \in BOOLEAN
          /\ machine.pulled \in SUBSET Models
      BY DEF IInv, TypeOK, MachineRecord
    <3>2. ASSUME NEW package \in Packages,
                 machine' = [machine EXCEPT !.packages = IF package \in @ THEN @ \ {package}
                                                         ELSE @ \cup {package}]
          PROVE  machine' \in MachineRecord
      <4> DEFINE some == IF package \in machine.packages THEN machine.packages \ {package}
                         ELSE machine.packages \cup {package}
      <4>1. some \in SUBSET Packages
        BY <3>1, <3>2
      <4>2. machine' = [machine EXCEPT !.packages = some]
        BY <3>2
      <4> HIDE DEF some
      <4>3. QED
        BY <3>1, <4>1, <4>2 DEF MachineRecord
    <3>3. CASE machine' = [machine EXCEPT !.model = ~@]
      BY <3>1, <3>3 DEF MachineRecord
    <3>4. ASSUME NEW m \in Models,
                 machine' = [machine EXCEPT !.pulled = IF m \in @ THEN @ \ {m} ELSE @ \cup {m}]
          PROVE  machine' \in MachineRecord
      <4> DEFINE some == IF m \in machine.pulled THEN machine.pulled \ {m}
                         ELSE machine.pulled \cup {m}
      <4>1. some \in SUBSET Models
        BY <3>1, <3>4
      <4>2. machine' = [machine EXCEPT !.pulled = some]
        BY <3>4
      <4> HIDE DEF some
      <4>3. QED
        BY <3>1, <4>1, <4>2 DEF MachineRecord
    <3>5. QED
      BY <1>5, <3>2, <3>3, <3>4 DEF Change
  <2>2. UNCHANGED <<file, tmp, last, overlapped, proc, starts, crashes>> /\ changes' = changes + 1
    BY <1>5 DEF Change, files
  <2>3. QED
    BY <2>1, <2>2 DEF IInv, TypeOK, Whole, ToBePut, Orderly, Asked, BuiltRight, Announced
<1>6. QED
  BY <1>1, <1>2, <1>3, <1>4, <1>5 DEF Next

\* The invariant holds in every reachable state.
LEMMA Invariance == Spec => []IInv
BY InitIInv, NextIInv, PTL DEF Spec

-----------------------------------------------------------------------------
\* The machine, the files and every process's construction keep their types.
THEOREM TypeCorrect == Spec => []TypeOK
<1>1. IInv => TypeOK
  BY DEF IInv
<1>2. QED
  BY <1>1, Invariance, PTL

\* Without overlapping puts, decisions.json holds what was put last for each
\* kind, whoever is killed where.
THEOREM DecisionsTheorem == Spec => []DecisionsSurvive
<1>1. IInv => DecisionsSurvive
  BY DEF IInv, Whole, DecisionsSurvive
<1>2. QED
  BY <1>1, Invariance, PTL

\* The embedding model is downloaded only with consent, or where it was on disk
\* when it was looked up.
THEOREM DownloadTheorem == Spec => []NoDownloadUnasked
<1>1. IInv => NoDownloadUnasked
  BY DEF IInv, Orderly, Asked, NoDownloadUnasked
<1>2. QED
  BY <1>1, Invariance, PTL

\* What is built is what was announced, but for Vertex under the name of local
\* embeddings.
THEOREM BuiltTheorem == Spec => []BuiltAsResolved
<1>1. IInv => BuiltAsResolved
  BY DEF IInv, Orderly, BuiltRight, BuiltAsResolved
<1>2. QED
  BY <1>1, Invariance, PTL

-----------------------------------------------------------------------------
\* A remembered LLM that is usable and kept is the only choice.
LEMMA LastUsedIsChosen ==
    ASSUME NEW offered, NEW first, NEW terminal, NEW id \in Ids(Ready(offered)),
           IsOllama(id) => first = "unread" \/ first = id
    PROVE  Choices(Kept(offered, first), id, terminal) = {id}
<1>1. PICK c \in offered : c.ready /\ c.id = id
  BY DEF Ids, Ready
<1>2. c \in Kept(offered, first)
  BY <1>1 DEF Kept
<1>3. id \in Ids(Ready(Kept(offered, first)))
  BY <1>1, <1>2 DEF Ids, Ready
<1>4. QED
  BY <1>3 DEF Choices

\* A step in which a process that has its candidates moves on is its choice.
LEMMA OnlyChoosingChooses ==
    ASSUME IInv, Next, NEW p \in Processes, proc[p].pc = "choose",
           proc'[p] # proc[p], crashes' = crashes
    PROVE  Choose(p)
<1>1. proc \in [Processes -> ProcessRecord] /\ crashes \in Nat /\ proc[p].at = "none"
  BY DEF IInv, TypeOK, Orderly
<1>2. ASSUME NEW q \in Processes, NEW from, NEW next, Step(q, from, next)
      PROVE  q = p /\ from = "choose"
  BY <1>1, <1>2 DEF Step
<1>3. ASSUME NEW q \in Processes, NEW config \in Configurations, Start(q, config)
      PROVE  FALSE
  BY <1>1, <1>3 DEF Start
<1>4. ASSUME NEW q \in Processes, Crash(q)
      PROVE  FALSE
  BY <1>1, <1>4 DEF Crash
<1>5. CASE Change
  BY <1>5 DEF Change
<1>6. ASSUME NEW q \in Processes, Proceed(q)
      PROVE  Choose(p)
  <2>1. CASE Resolve(q)
    <3>1. CASE Choose(q)
      BY <1>2, <3>1 DEF Choose
    <3>2. CASE Look(q)
      BY <1>2, <3>2 DEF Look
    <3>3. CASE ResolveEmbedding(q)
      BY <1>1, <3>3 DEF ResolveEmbedding, Step
    <3>4. CASE ResolveStore(q)
      BY <1>1, <3>4 DEF ResolveStore, Step
    <3>5. CASE PinLLM(q)
      BY <1>1, <3>5 DEF PinLLM, Step
    <3>6. CASE ResolveLLM(q)
      BY <1>1, <3>6 DEF ResolveLLM, Step
    <3>7. QED
      BY <2>1, <3>1, <3>2, <3>3, <3>4, <3>5, <3>6 DEF Resolve
  <2>2. CASE PutLoad(q) \/ PutOpen(q) \/ PutWrite(q)
    BY <1>2, <2>2 DEF PutLoad, PutOpen, PutWrite
  <2>3. CASE PutRename(q)
    <3>1. q # p
      BY <2>3 DEF PutRename
    <3>2. proc'[p] = proc[p] \/ proc'[p] = [proc[p] EXCEPT !.at = "none"]
      BY <1>1, <2>3, <3>1 DEF PutRename
    <3>3. proc[p] = [proc[p] EXCEPT !.at = "none"]
      BY <1>1 DEF ProcessRecord
    <3>4. QED
      BY <3>2, <3>3
  <2>4. CASE Consent(q)
    BY <1>2, <2>4 DEF Consent
  <2>5. CASE Build(q)
    BY <1>2, <2>5 DEF Build
  <2>6. QED
    BY <1>6, <2>1, <2>2, <2>3, <2>4, <2>5 DEF Proceed, Put
<1>7. QED
  BY <1>3, <1>4, <1>5, <1>6 DEF Next

\* An automatic choice continues with the LLM used last where that was found
\* usable and was not recorded between the two looks.
LEMMA ContinuesStep ==
    ASSUME IInv, Next, NEW p \in Processes, proc[p].pc = "choose", proc[p].kind = "llm",
           proc'[p] # proc[p], crashes' = crashes, ~overlapped,
           "llm" \in DOMAIN last, last["llm"].seen = Consumed("llm", proc[p].fp),
           last["llm"].candidate \in Ids(Ready(proc[p].offered)),
           IsOllama(last["llm"].candidate) =>
              proc[p].first = "unread" \/ proc[p].first = last["llm"].candidate
    PROVE  proc'[p].resolved["llm"] = last["llm"].candidate
<1> DEFINE r == proc[p]
           id == last["llm"].candidate
           prior == Remembered(Load(file), "llm", r.fp)
           candidates == Kept(r.offered, r.first)
           bare == [r EXCEPT !.offered = {}, !.first = "unread"]
<1>1. /\ r \in ProcessRecord /\ Orderly(r)
      /\ file = [torn |-> FALSE, decisions |-> last]
      /\ proc \in [Processes -> ProcessRecord]
  BY DEF IInv, TypeOK, Whole
<1>2. prior = id
  BY <1>1 DEF Load, Remembered
<1>3. Choices(candidates, id, r.config.terminal) = {id}
  BY LastUsedIsChosen
<1>4. id # None
  <2>1. \E c \in r.offered : c.id = id
    BY DEF Ids, Ready
  <2>2. QED
    BY <1>1, <2>1 DEF Orderly, Fits
<1>5. /\ bare.kind = "llm" /\ bare.fp = r.fp /\ bare.config = r.config
      /\ bare.resolved = r.resolved /\ bare \in ProcessRecord
  BY <1>1 DEF ProcessRecord
<1>6. PICK next \in Settled(bare, candidates, TRUE) : Step(p, "choose", next)
  <2>1. (r.kind # "embedding") = TRUE
    OBVIOUS
  <2>2. QED
    BY <2>1, OnlyChoosingChooses DEF Choose
<1>7. proc'[p] = next
  BY <1>1, <1>6 DEF Step
<1>8. (CHOOSE c \in candidates : c.id = id).id = id
  <2>1. id \in Choices(candidates, id, r.config.terminal)
    BY <1>3
  <2>2. \E c \in candidates : c.id = id
    BY <1>4, <2>1, ChoicesAreCandidates
  <2>3. QED
    BY <2>2
<1> DEFINE c == CHOOSE c \in candidates : c.id = id
<1> HIDE DEF bare
<1>9. next = Settle(bare, c, id # prior)
  BY <1>2, <1>3, <1>4, <1>5, <1>6 DEF Settled
<1>10. c.id = id
  BY <1>8
<1> HIDE DEF c, id, r
<1>11. With(r.resolved, "llm", id)["llm"] = id
  BY DEF With
<1>12. next.resolved = With(r.resolved, "llm", id)
  BY <1>5, <1>9, <1>10 DEF Settle, ProcessRecord
<1>13. QED
  BY <1>7, <1>11, <1>12 DEF id

\* Whichever process used an LLM last, the next automatic choice on the same
\* packages continues with it, if it found it usable and, for a local model, it
\* was not recorded between the two looks at the memory.
THEOREM ContinuesTheorem == Spec => ContinuesWithLastUsed
<1>1. ASSUME IInv, [Next]_vars
      PROVE  [\A p \in Processes :
                LET r == proc[p]
                    id == last["llm"].candidate
                IN  /\ r.pc = "choose" /\ r.kind = "llm"
                    /\ proc'[p] # r /\ crashes' = crashes /\ ~overlapped
                    /\ "llm" \in DOMAIN last /\ last["llm"].seen = Consumed("llm", r.fp)
                    /\ id \in Ids(Ready(r.offered))
                    /\ IsOllama(id) => r.first = "unread" \/ r.first = id
                    => proc'[p].resolved["llm"] = id]_vars
  BY <1>1, ContinuesStep
<1>2. QED
  BY <1>1, Invariance, PTL DEF Spec, ContinuesWithLastUsed
=============================================================================
