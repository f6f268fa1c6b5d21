----------------------- MODULE AnswerPipeline_proofs -----------------------
(***************************************************************************)
(* The safety properties of AnswerPipeline for any requests, callers,      *)
(* corpora and numbers of reloads.                                         *)
(*                                                                         *)
(* Each property is about one request at a time.  Whatever else happens,   *)
(* other requests and operators leave a request's locals alone, and a      *)
(* setter used while it runs is in its touched set (Quiet); so each        *)
(* invariant is shown for a quiet step and for the request's own actions.  *)
(* What requests share is the answer cache: CacheEntriesMatchKeys carries  *)
(* what one request may rely on of another.                                *)
(***************************************************************************)
EXTENDS AnswerPipeline, SequenceTheorems, TLAPS

BeforeLookup == {"guard", "evaluate", "judging", "count", "retrieve", "confidence", "filter",
                 "lookup"}
Running == BeforeLookup \cup {"read", "generate", "put", "store", "output", "screening",
                             "unscreened"}

\* What the locals hold at each stage.
StageDataOf(r) ==
    /\ pc[r] \in Running => asked[r] \in Asked /\ asked[r].question \in Questions
    /\ pc[r] \in {"returned", "failed"} => asked[r] \in Asked
    /\ pc[r] \in BeforeLookup \cup {"new"} => key[r] = Nothing
    /\ pc[r] \in {"read", "put", "store"} => key[r] # Nothing
    /\ pc[r] \in {"put", "store", "output", "screening", "unscreened"} => text[r] # Nothing

StageData == \A r \in Requests : StageDataOf(r)

\* A corpus that is being indexed again has a revision left.
RoomToIndex == indexing # {} => \A c \in Corpus : rev[c] < MaxRevision

TypeInv == TypeOK /\ StageData /\ RoomToIndex

-----------------------------------------------------------------------------
(* Sequences.                                                              *)

\* A function on 1..n is a sequence of length n.
LEMMA FunctionIsSeq ==
    ASSUME NEW S, NEW n \in Nat, NEW f \in [1..n -> S]
    PROVE  f \in Seq(S) /\ Len(f) = n /\ DOMAIN f = 1..n
  BY IsASeq, SMT

\* The ids of sources are a sequence of chunks of the same length.
LEMMA IdsType ==
    ASSUME NEW s \in Seq(Sources)
    PROVE  /\ Ids(s) \in Seq(Chunks)
           /\ DOMAIN Ids(s) = DOMAIN s
           /\ \A i \in DOMAIN s : s[i] \in Sources /\ Ids(s)[i] = s[i].id
           /\ IdSet(s) \subseteq Chunks
<1>1. Len(s) \in Nat /\ DOMAIN s = 1..Len(s) /\ \A i \in 1..Len(s) : s[i] \in Sources
  BY LenProperties, ElementOfSeq
<1>2. \A i \in DOMAIN s : s[i].id \in Chunks
  BY <1>1 DEF Sources
<1>3. Ids(s) \in [1..Len(s) -> Chunks]
  BY <1>1, <1>2 DEF Ids
<1>4. Ids(s) \in Seq(Chunks)
  BY <1>1, <1>3, FunctionIsSeq
<1> QED
  BY <1>1, <1>2, <1>4 DEF Ids, IdSet

-----------------------------------------------------------------------------
(* What a step leaves alone.                                               *)

\* The locals of a request stay as they are.
Untouched(r) ==
    /\ pc'[r] = pc[r] /\ asked'[r] = asked[r] /\ zone'[r] = zone[r]
    /\ docs'[r] = docs[r] /\ scores'[r] = scores[r] /\ key'[r] = key[r]
    /\ text'[r] = text[r] /\ out'[r] = out[r] /\ records'[r] = records[r]

\* A setter used while the request runs is in its touched set.
Noted(r) ==
    /\ touched[r] \subseteq touched'[r]
    /\ pc[r] \in Running =>
          /\ guardOn /\ ~guardOn' => "guard_removed" \in touched'[r]
          /\ ~guardOn /\ guardOn' => "guard_installed" \in touched'[r]
          /\ cacheOn /\ ~cacheOn' => "cache_removed" \in touched'[r]
          /\ threshold' # threshold => "threshold" \in touched'[r]

Quiet(r) == Untouched(r) /\ Noted(r)

\* No step takes a prompt, a model or a revision back.
Grows ==
    /\ prompt <= prompt' /\ llm <= llm'
    /\ \A c \in Chunks : rev[c] <= rev'[c]

\* A request's own step changes nothing outside its locals but the cache, and no locals of
\* another request.
OwnStep(r) ==
    /\ UNCHANGED <<Outside, touched>>
    /\ \A s \in Requests \ {r} : Untouched(s)

USE DEF Outside, engineVars, corpusVars, historyVars

LEMMA OwnSteps ==
    ASSUME TypeOK, NEW r \in Requests, Begin(r) \/ Proceed(r)
    PROVE  OwnStep(r)
<1> USE DEF TypeOK, OwnStep, Untouched, Goto, Continue, Raise, RecordExit, WriteAudit,
            Respond
<1>1. CASE Begin(r)
  BY <1>1 DEF Begin, RunInputGuard
<1>2. CASE EnterGuard(r)
  BY <1>2 DEF EnterGuard
<1>3. CASE JudgeQuery(r)
  BY <1>3 DEF JudgeQuery
<1>4. CASE CountChunks(r)
  BY <1>4 DEF CountChunks
<1>5. CASE Retrieve(r)
  BY <1>5 DEF Retrieve
<1>6. CASE CheckConfidence(r)
  BY <1>6 DEF CheckConfidence
<1>7. CASE FilterChunks(r)
  BY <1>7 DEF FilterChunks
<1>8. CASE LookUp(r)
  BY <1>8 DEF LookUp
<1>9. CASE Generate(r)
  BY <1>9 DEF Generate
<1>10. CASE PutInCache(r)
  BY <1>10 DEF PutInCache
<1>11. CASE EnterOutputGuard(r)
  BY <1>11 DEF EnterOutputGuard
<1>12. CASE ScreenOutput(r)
  BY <1>12 DEF ScreenOutput
<1>13. CASE EvaluateQuery(r)
  BY <1>13 DEF EvaluateQuery
<1>14. CASE ReadCache(r)
  BY <1>14 DEF ReadCache
<1>15. CASE AssertCache(r)
  BY <1>15 DEF AssertCache
<1>16. CASE SkipScreening(r)
  BY <1>16 DEF SkipScreening
<1> QED
  BY <1>1, <1>2, <1>3, <1>4, <1>5, <1>6, <1>7, <1>8, <1>9, <1>10, <1>11, <1>12, <1>13,
     <1>14, <1>15, <1>16
  DEF Proceed

\* A setter leaves the locals alone and notes its change for the requests that run.
LEMMA ReloadEffect ==
    ASSUME TypeOK, NEW name, NEW change \in Changes, Reload(name, change)
    PROVE  /\ UNCHANGED <<corpusVars, qa, pc, asked, zone, docs, scores, key, text, out, records>>
           /\ reloads' \in 0..MaxReloads
           /\ touched' \in [Requests -> SUBSET Changes]
           /\ \A r \in Requests :
                 /\ touched[r] \subseteq touched'[r]
                 /\ pc[r] \in Running => change \in touched'[r]
<1>1. /\ UNCHANGED <<corpusVars, qa, pc, asked, zone, docs, scores, key, text, out, records>>
      /\ reloads' \in 0..MaxReloads
  BY PipelineAssumption DEF Reload, TypeOK
<1>2. \A r \in Requests :
         touched'[r] = IF r \in InFlight THEN touched[r] \cup {change} ELSE touched[r]
  BY DEF Reload
<1>3. \A r \in Requests : touched[r] \in SUBSET Changes
  BY DEF TypeOK
<1>4. \A r \in Requests : pc[r] \in Running => r \in InFlight
  BY DEF InFlight, Running, BeforeLookup
<1>5. touched' \in [Requests -> SUBSET Changes]
  BY <1>3 DEF Reload
<1> QED
  BY <1>1, <1>2, <1>4, <1>5

LEMMA OperatorSteps ==
    ASSUME TypeOK, Operate
    PROVE  Grows /\ \A r \in Requests : Quiet(r)
<1> USE DEF Grows, Quiet, Untouched, Noted, requestVars
<1>0. /\ prompt \in Nat \ {0} /\ label \in 1..prompt /\ llm \in Nat \ {0}
      /\ present \subseteq Chunks /\ indexing \subseteq Corpus
      /\ rev \in [Chunks -> 0..MaxRevision]
      /\ guardOn \in BOOLEAN /\ cacheOn \in BOOLEAN
  BY DEF TypeOK
<1>1. CASE UpdateGuard
  <2>1. CASE guardOn
    <3>1. Reload("guard", "guard_removed") /\ ~guardOn'
      BY <1>1, <2>1 DEF UpdateGuard
    <3> QED
      BY <1>0, <1>1, <2>1, <3>1, ReloadEffect DEF UpdateGuard, Changes
  <2>2. CASE ~guardOn
    <3>1. Reload("guard", "guard_installed") /\ guardOn'
      BY <1>1, <2>2 DEF UpdateGuard
    <3> QED
      BY <1>0, <1>1, <2>2, <3>1, ReloadEffect DEF UpdateGuard, Changes
  <2> QED
    BY <2>1, <2>2
<1>2. CASE UpdateCache
  <2>1. CASE cacheOn
    <3>1. Reload("cache", "cache_removed") /\ ~cacheOn'
      BY <1>2, <2>1 DEF UpdateCache
    <3> QED
      BY <1>0, <1>2, <2>1, <3>1, ReloadEffect DEF UpdateCache, Changes
  <2>2. CASE ~cacheOn
    <3>1. Reload("cache", "cache_installed")
      BY <1>2, <2>2 DEF UpdateCache
    <3> QED
      BY <1>0, <1>2, <2>2, <3>1, ReloadEffect DEF UpdateCache, Changes
  <2> QED
    BY <2>1, <2>2
<1>3. CASE UpdateThreshold
  BY <1>0, <1>3, ReloadEffect DEF UpdateThreshold, Changes
<1>4. CASE UpdatePrompt
  BY <1>0, <1>4, ReloadEffect DEF UpdatePrompt, Changes
<1>5. CASE UpdateLabel
  BY <1>0, <1>5 DEF UpdateLabel
<1>6. CASE UpdateLLM
  BY <1>0, <1>6, ReloadEffect DEF UpdateLLM, Changes
<1> USE <1>0
<1>7. CASE \E c \in Chunks : Upload(c)
  BY <1>7 DEF Upload
<1>8. CASE ResetStore
  BY <1>8 DEF ResetStore
<1>9. CASE AddCorpus
  BY <1>9 DEF AddCorpus
<1>10. CASE Expire
  BY <1>10 DEF Expire
<1> QED
  BY <1>1, <1>2, <1>3, <1>4, <1>5, <1>6, <1>7, <1>8, <1>9, <1>10 DEF Operate

\* For each request a step is its own or quiet.
LEMMA QuietOrOwn ==
    ASSUME TypeOK, [Next]_vars, NEW r \in Requests
    PROVE  Grows /\ (Quiet(r) \/ ((Begin(r) \/ Proceed(r)) /\ OwnStep(r)))
<1>1. CASE Operate
  BY <1>1, OperatorSteps
<1>2. CASE \E s \in Requests : Begin(s) \/ Proceed(s)
  <2>1. PICK s \in Requests : Begin(s) \/ Proceed(s)
    BY <1>2
  <2>2. OwnStep(s)
    BY <2>1, OwnSteps
  <2>3. Grows
    BY <2>2 DEF OwnStep, Grows, TypeOK
  <2>4. CASE s = r
    BY <2>1, <2>2, <2>3, <2>4
  <2>5. CASE s # r
    BY <2>2, <2>3, <2>5 DEF OwnStep, Quiet, Noted
  <2> QED
    BY <2>4, <2>5
<1>3. CASE UNCHANGED vars
  BY <1>3 DEF vars, requestVars, Grows, Quiet, Untouched, Noted, TypeOK
<1> QED
  BY <1>1, <1>2, <1>3 DEF Next

-----------------------------------------------------------------------------
(* Types.                                                                  *)

LEMMA InitTypeInv ==
    ASSUME Init
    PROVE  TypeInv
<1> USE PipelineAssumption DEF Init
<1>1. /\ guardOn \in BOOLEAN /\ cacheOn \in BOOLEAN /\ threshold \in Thresholds
      /\ prompt \in Nat \ {0} /\ label \in 1..prompt /\ llm \in Nat \ {0}
      /\ reloads \in 0..MaxReloads
  OBVIOUS
<1>2. /\ present \subseteq Chunks /\ indexing \subseteq Corpus
      /\ rev \in [Chunks -> 0..MaxRevision]
      /\ \A c \in present : rev[c] # 0
  OBVIOUS
<1>3. DOMAIN qa \subseteq Keys /\ qa \in [DOMAIN qa -> Texts]
  OBVIOUS
<1>4. <<>> \in Seq(Sources) /\ <<>> \in Seq(Scores) /\ <<>> \in Seq(Records)
  BY EmptySeq
<1>5. /\ pc \in [Requests -> Stages]
      /\ asked \in [Requests -> Asked \cup {Nothing}]
      /\ zone \in [Requests -> Zones \cup {Nothing}]
      /\ key \in [Requests -> Keys \cup {Nothing}]
      /\ text \in [Requests -> Texts \cup {Nothing}]
      /\ out \in [Requests -> Outcomes \cup {Nothing}]
      /\ touched \in [Requests -> SUBSET HotReload]
  BY DEF Stages
<1>6. /\ docs \in [Requests -> Seq(Sources)]
      /\ scores \in [Requests -> Seq(Scores)]
      /\ records \in [Requests -> Seq(Records)]
  BY <1>4
<1>7. TypeOK
  BY <1>1, <1>2, <1>3, <1>5, <1>6 DEF TypeOK
<1>8. StageData /\ RoomToIndex
  BY DEF StageData, StageDataOf, RoomToIndex, Running, BeforeLookup, Stages
<1> QED
  BY <1>7, <1>8 DEF TypeInv

\* The parts of TypeOK that a request's own step changes.
LocalsTyped ==
    /\ DOMAIN qa \subseteq Keys /\ qa \in [DOMAIN qa -> Texts]
    /\ pc \in [Requests -> Stages]
    /\ asked \in [Requests -> Asked \cup {Nothing}]
    /\ zone \in [Requests -> Zones \cup {Nothing}]
    /\ docs \in [Requests -> Seq(Sources)]
    /\ scores \in [Requests -> Seq(Scores)]
    /\ key \in [Requests -> Keys \cup {Nothing}]
    /\ text \in [Requests -> Texts \cup {Nothing}]
    /\ out \in [Requests -> Outcomes \cup {Nothing}]
    /\ records \in [Requests -> Seq(Records)]

\* The variables in which an exit ends a request.
EndTyped ==
    /\ pc \in [Requests -> Stages]
    /\ docs \in [Requests -> Seq(Sources)]
    /\ scores \in [Requests -> Seq(Scores)]
    /\ out \in [Requests -> Outcomes \cup {Nothing}]
    /\ records \in [Requests -> Seq(Records)]

LEMMA WriteAuditTyped ==
    ASSUME TypeOK, NEW r \in Requests, NEW event \in Abstentions \cup {"ok"},
           NEW ids \in SUBSET Chunks, WriteAudit(r, event, ids)
    PROVE  /\ records' \in [Requests -> Seq(Records)]
           /\ records'[r] = Append(records[r], [event |-> event, chunks |-> ids])
<1>1. [event |-> event, chunks |-> ids] \in Records
  BY DEF Records
<1>2. Append(records[r], [event |-> event, chunks |-> ids]) \in Seq(Records)
  BY <1>1, AppendProperties DEF TypeOK
<1> QED
  BY <1>2 DEF TypeOK, WriteAudit

LEMMA RecordExitTyped ==
    ASSUME TypeOK, NEW r \in Requests, NEW status \in Abstentions,
           NEW ids \in SUBSET Chunks, RecordExit(r, status, ids)
    PROVE  EndTyped' /\ pc'[r] = "returned"
<1>1. records' \in [Requests -> Seq(Records)]
  BY WriteAuditTyped DEF RecordExit
<1>2. [status |-> status, warned |-> FALSE] \in Outcomes
  BY DEF Outcomes
<1>3. <<>> \in Seq(Sources) /\ <<>> \in Seq(Scores)
  BY EmptySeq
<1> QED
  BY <1>1, <1>2, <1>3 DEF TypeOK, EndTyped, RecordExit, Goto, Stages

LEMMA RaiseTyped ==
    ASSUME TypeOK, NEW r \in Requests, NEW error \in Failures, Raise(r, error)
    PROVE  EndTyped' /\ pc'[r] = "failed"
<1>1. [status |-> error, warned |-> FALSE] \in Outcomes
  BY DEF Outcomes
<1>2. <<>> \in Seq(Sources) /\ <<>> \in Seq(Scores)
  BY EmptySeq
<1> QED
  BY <1>1, <1>2 DEF TypeOK, EndTyped, Raise, Goto, Stages

LEMMA ContinueTyped ==
    ASSUME TypeOK, NEW r \in Requests, NEW stage \in Stages, Continue(r, stage)
    PROVE  EndTyped' /\ pc'[r] = stage
  BY DEF TypeOK, EndTyped, Continue, Goto

LEMMA RespondTyped ==
    ASSUME TypeOK, NEW r \in Requests, NEW status \in Answered, NEW sources \in Seq(Sources),
           NEW warned \in BOOLEAN, Respond(r, status, sources, warned),
           records' \in [Requests -> Seq(Records)]
    PROVE  /\ EndTyped' /\ pc'[r] = "returned"
           /\ key' \in [Requests -> Keys \cup {Nothing}]
<1>1. [status |-> status, warned |-> warned] \in Outcomes
  BY DEF Outcomes
<1> QED
  BY <1>1 DEF TypeOK, EndTyped, Respond, Goto, Stages

\* Up to the lookup a request sets its zone, its sources and how it ends.
LEMMA EarlyStepTyped ==
    ASSUME TypeInv, NEW r \in Requests, pc[r] \in BeforeLookup,
           EndTyped', pc'[r] \in BeforeLookup \cup {"returned", "failed"},
           zone' \in [Requests -> Zones \cup {Nothing}],
           UNCHANGED <<Outside, qa, asked, key, text, historyVars>>
    PROVE  LocalsTyped' /\ StageDataOf(r)'
<1>1. TypeOK /\ StageDataOf(r)
  BY DEF TypeInv, StageData
<1>2. LocalsTyped'
  BY <1>1 DEF TypeOK, EndTyped, LocalsTyped
<1>3. asked'[r] = asked[r] /\ key'[r] = key[r] /\ pc[r] \in Running
  BY DEF Running
<1>4. StageDataOf(r)'
  BY <1>1, <1>3 DEF StageDataOf, Running, BeforeLookup
<1> QED
  BY <1>2, <1>4

LEMMA BeginTyped ==
    ASSUME TypeInv, NEW r \in Requests, Begin(r)
    PROVE  LocalsTyped' /\ StageDataOf(r)'
<1>1. TypeOK
  BY DEF TypeInv
<1>2. EndTyped' /\ pc'[r] \in {"guard", "returned"}
  BY <1>1, ContinueTyped, RecordExitTyped DEF Begin, RunInputGuard, Abstentions, Stages
<1>3. PICK q \in Questions \cup {Blank}, c \in Callers :
        /\ asked' = [asked EXCEPT ![r] = [question |-> q, caller |-> c]]
        /\ pc'[r] = "guard" => q \in Questions
  BY <1>1 DEF Begin, RunInputGuard, RecordExit, Continue, Goto, TypeOK
<1>4. [question |-> q, caller |-> c] \in Asked
  BY DEF Asked
<1>5. LocalsTyped'
  BY <1>1, <1>2, <1>3, <1>4 DEF Begin, RunInputGuard, TypeOK, EndTyped, LocalsTyped
<1>6. StageDataOf(r)'
  BY <1>1, <1>2, <1>3, <1>4
  DEF Begin, RunInputGuard, TypeOK, TypeInv, StageData, StageDataOf, Running, BeforeLookup
<1> QED
  BY <1>5, <1>6

LEMMA EnterGuardTyped ==
    ASSUME TypeInv, NEW r \in Requests, EnterGuard(r)
    PROVE  LocalsTyped' /\ StageDataOf(r)'
<1>1. TypeOK
  BY DEF TypeInv
<1>2. EndTyped' /\ pc'[r] \in {"evaluate", "count"}
  BY <1>1, ContinueTyped DEF EnterGuard, Stages
<1> QED
  BY <1>1, <1>2, EarlyStepTyped DEF EnterGuard, BeforeLookup, TypeOK

LEMMA EvaluateQueryTyped ==
    ASSUME TypeInv, NEW r \in Requests, EvaluateQuery(r)
    PROVE  LocalsTyped' /\ StageDataOf(r)'
<1>1. TypeOK
  BY DEF TypeInv
<1>2. EndTyped' /\ pc'[r] \in {"judging", "failed"}
  BY <1>1, ContinueTyped, RaiseTyped DEF EvaluateQuery, Stages, Failures
<1> QED
  BY <1>1, <1>2, EarlyStepTyped DEF EvaluateQuery, BeforeLookup, TypeOK

LEMMA JudgeQueryTyped ==
    ASSUME TypeInv, NEW r \in Requests, JudgeQuery(r)
    PROVE  LocalsTyped' /\ StageDataOf(r)'
<1>1. TypeOK
  BY DEF TypeInv
<1>2. EndTyped' /\ pc'[r] \in {"count", "returned", "failed"}
  BY <1>1, ContinueTyped, RecordExitTyped, RaiseTyped
  DEF JudgeQuery, Stages, Abstentions, Failures
<1>3. zone' \in [Requests -> Zones \cup {Nothing}]
  BY <1>1 DEF JudgeQuery, TypeOK
<1> QED
  BY <1>2, <1>3, EarlyStepTyped DEF JudgeQuery, BeforeLookup

LEMMA CountChunksTyped ==
    ASSUME TypeInv, NEW r \in Requests, CountChunks(r)
    PROVE  LocalsTyped' /\ StageDataOf(r)'
<1>1. TypeOK
  BY DEF TypeInv
<1>2. EndTyped' /\ pc'[r] \in {"retrieve", "returned", "failed"}
  BY <1>1, ContinueTyped, RecordExitTyped, RaiseTyped
  DEF CountChunks, Stages, Abstentions, Failures
<1> QED
  BY <1>1, <1>2, EarlyStepTyped DEF CountChunks, BeforeLookup, TypeOK

\* A ranking is of rows of the store, as it is or was, that the caller is entitled to, each
\* with a score.
LEMMA RankingType ==
    ASSUME TypeOK, NEW caller \in Callers, NEW ranking \in Rankings(caller)
    PROVE  /\ ranking[1] \in Seq(Sources)
           /\ DOMAIN ranking[1] = 1..Len(ranking[1])
           /\ \A i \in DOMAIN ranking[1] :
                 /\ ranking[1][i].rev <= rev[ranking[1][i].id]
                 /\ Entitled(caller, ranking[1][i])
           /\ ranking[2] \in Seq(Scores)
           /\ DOMAIN ranking[2] = DOMAIN ranking[1]
<1> DEFINE visible == {s \in Sources : s.rev <= rev[s.id] /\ Entitled(caller, s)}
       Orders(n) == {rows \in [1..n -> visible] : IsInjective(Ids(rows))}
<1>1. PICK n \in 0..TopK : ranking \in Orders(n) \X [1..n -> Scores]
  BY Zenon DEF Rankings
<1>2. ranking[1] \in [1..n -> visible] /\ ranking[2] \in [1..n -> Scores]
  BY <1>1
<1>3. n \in Nat
  BY PipelineAssumption
<1>4. Len(ranking[1]) = n /\ ranking[1] \in Seq(Sources)
  <2>1. ranking[1] \in [1..n -> Sources]
    BY <1>2
  <2> QED
    BY <1>3, <2>1, FunctionIsSeq
<1>5. ranking[2] \in Seq(Scores)
  BY <1>2, <1>3, FunctionIsSeq
<1> QED
  BY <1>2, <1>3, <1>4, <1>5

LEMMA RetrieveTyped ==
    ASSUME TypeInv, NEW r \in Requests, Retrieve(r)
    PROVE  LocalsTyped' /\ StageDataOf(r)'
<1>1. TypeOK /\ asked[r] \in Asked /\ asked[r].caller \in Callers
  BY DEF TypeInv, Retrieve, StageData, StageDataOf, Running, BeforeLookup, Asked
<1>2. EndTyped' /\ pc'[r] \in {"confidence", "returned", "failed"}
  <2>1. CASE Raise(r, "RetrievalError")
    BY <1>1, <2>1, RaiseTyped DEF Failures
  <2>2. ASSUME NEW ranking \in Rankings(asked[r].caller),
               RecordExit(r, "no_chunks", {})
        PROVE  EndTyped' /\ pc'[r] = "returned"
    BY <1>1, <2>2, RecordExitTyped DEF Abstentions
  <2>3. ASSUME NEW ranking \in Rankings(asked[r].caller),
               docs' = [docs EXCEPT ![r] = ranking[1]],
               scores' = [scores EXCEPT ![r] = ranking[2]],
               Goto(r, "confidence"), UNCHANGED <<out, records>>
        PROVE  EndTyped' /\ pc'[r] = "confidence"
    <3>1. ranking[1] \in Seq(Sources) /\ ranking[2] \in Seq(Scores)
      BY <1>1, RankingType
    <3> QED
      BY <1>1, <2>3, <3>1 DEF TypeOK, EndTyped, Goto, Stages
  <2> QED
    BY <2>1, <2>2, <2>3 DEF Retrieve
<1> QED
  BY <1>1, <1>2, EarlyStepTyped DEF Retrieve, BeforeLookup, TypeOK

LEMMA CheckConfidenceTyped ==
    ASSUME TypeInv, NEW r \in Requests, CheckConfidence(r)
    PROVE  LocalsTyped' /\ StageDataOf(r)'
<1>1. TypeOK /\ IdSet(docs[r]) \subseteq Chunks
  BY IdsType DEF TypeInv, TypeOK
<1>2. EndTyped' /\ pc'[r] \in {"filter", "returned"}
  BY <1>1, ContinueTyped, RecordExitTyped DEF CheckConfidence, Stages, Abstentions
<1> QED
  BY <1>1, <1>2, EarlyStepTyped DEF CheckConfidence, BeforeLookup, TypeOK

\* Selected positions in increasing order are a sequence of these positions, and an empty
\* one only if none is selected.
LEMMA IncreasingType ==
    ASSUME NEW positions, NEW kept \in Increasing(positions)
    PROVE  /\ Len(kept) \in Nat /\ DOMAIN kept = 1..Len(kept)
           /\ \A i \in DOMAIN kept : kept[i] \in positions
           /\ positions # {} => DOMAIN kept # {}
<1>1. /\ kept \in UNION {[1..n -> positions] : n \in 0..TopK}
      /\ \A p \in positions : \E i \in DOMAIN kept : kept[i] = p
  BY DEF Increasing
<1>2. PICK n \in 0..TopK : kept \in [1..n -> positions]
  BY <1>1
<1>3. n \in Nat /\ Len(kept) = n
  BY <1>2, PipelineAssumption, FunctionIsSeq
<1> QED
  BY <1>1, <1>2, <1>3

LEMMA FilterChunksTyped ==
    ASSUME TypeInv, NEW r \in Requests, FilterChunks(r)
    PROVE  LocalsTyped' /\ StageDataOf(r)'
<1>1. TypeOK
  BY DEF TypeInv
<1>2. PICK kept \in Increasing({i \in DOMAIN docs[r] : scores[r][i] >= threshold}) :
        docs' = [docs EXCEPT ![r] = [i \in DOMAIN kept |-> @[kept[i]]]]
  BY DEF FilterChunks
<1>3. /\ Len(kept) \in Nat /\ DOMAIN kept = 1..Len(kept)
      /\ \A i \in DOMAIN kept : kept[i] \in DOMAIN docs[r]
  BY IncreasingType
<1>4. \A i \in DOMAIN docs[r] : docs[r][i] \in Sources
  BY <1>1, IdsType DEF TypeOK
<1>5. [i \in DOMAIN kept |-> docs[r][kept[i]]] \in [1..Len(kept) -> Sources]
  BY <1>3, <1>4
<1>6. [i \in DOMAIN kept |-> docs[r][kept[i]]] \in Seq(Sources)
  BY <1>3, <1>5, FunctionIsSeq
<1>7. <<>> \in Seq(Scores)
  BY EmptySeq
<1>8. EndTyped' /\ pc'[r] = "lookup"
  BY <1>1, <1>2, <1>6, <1>7 DEF FilterChunks, TypeOK, EndTyped, Goto, Stages
<1> QED
  BY <1>1, <1>8, EarlyStepTyped DEF FilterChunks, BeforeLookup, TypeOK

\* A key is made of the sanitized question, the ids of the sources and the label.
LEMMA CacheKeyType ==
    ASSUME TypeInv, NEW r \in Requests, pc[r] \in Running
    PROVE  CacheKey(r) \in Keys /\ CacheKey(r) # Nothing
<1>1. /\ asked[r].question \in Questions
      /\ docs[r] \in Seq(Sources)
      /\ label \in Nat \ {0}
  BY DEF TypeInv, TypeOK, StageData, StageDataOf
<1>2. Ids(docs[r]) \in Seq(Chunks)
  BY <1>1, IdsType
<1>3. CacheKey(r) \in Keys
  BY <1>1, <1>2 DEF CacheKey, Keys
<1> QED
  BY <1>3, NothingAssumption

LEMMA LookUpTyped ==
    ASSUME TypeInv, NEW r \in Requests, LookUp(r)
    PROVE  LocalsTyped' /\ StageDataOf(r)'
<1>1. TypeOK /\ StageDataOf(r) /\ pc[r] \in Running
  BY DEF TypeInv, StageData, LookUp, Running, BeforeLookup
<1>2. CacheKey(r) \in Keys /\ CacheKey(r) # Nothing
  BY <1>1, CacheKeyType
<1>3. /\ EndTyped' /\ pc'[r] \in {"read", "generate"}
      /\ key' \in [Requests -> Keys \cup {Nothing}]
      /\ pc'[r] = "read" => key'[r] # Nothing
  <2>1. CASE cacheOn
    BY <1>1, <1>2, <2>1, ContinueTyped DEF LookUp, TypeOK, Stages
  <2>2. CASE ~cacheOn
    BY <1>1, <2>2, ContinueTyped DEF LookUp, TypeOK, Stages
  <2> QED
    BY <2>1, <2>2
<1>4. LocalsTyped'
  BY <1>1, <1>3 DEF LookUp, TypeOK, EndTyped, LocalsTyped
<1>5. StageDataOf(r)'
  BY <1>1, <1>3 DEF LookUp, StageDataOf, Running, BeforeLookup
<1> QED
  BY <1>4, <1>5

LEMMA ReadCacheTyped ==
    ASSUME TypeInv, NEW r \in Requests, ReadCache(r)
    PROVE  LocalsTyped' /\ StageDataOf(r)'
<1>1. TypeOK /\ StageDataOf(r) /\ pc[r] \in Running
  BY DEF TypeInv, StageData, ReadCache, Running
<1>2. EndTyped' /\ pc'[r] \in {"failed", "generate", "output"}
  BY <1>1, ContinueTyped, RaiseTyped DEF ReadCache, Stages, Failures
<1>3. /\ text' \in [Requests -> Texts \cup {Nothing}]
      /\ pc'[r] = "output" => text'[r] \in Texts
  <2>1. CASE UNCHANGED text /\ pc'[r] # "output"
    BY <1>1, <2>1 DEF TypeOK
  <2>2. CASE key[r] \in DOMAIN qa /\ text' = [text EXCEPT ![r] = qa[key[r]]]
    BY <1>1, <2>2 DEF TypeOK
  <2>3. (UNCHANGED text /\ pc'[r] # "output")
        \/ (key[r] \in DOMAIN qa /\ text' = [text EXCEPT ![r] = qa[key[r]]])
    BY <1>1, ContinueTyped, RaiseTyped DEF ReadCache, Stages, Failures
  <2> QED
    BY <2>1, <2>2, <2>3
<1>4. LocalsTyped'
  BY <1>1, <1>2, <1>3 DEF ReadCache, TypeOK, EndTyped, LocalsTyped
<1>5. StageDataOf(r)'
  BY <1>1, <1>2, <1>3, NothingAssumption DEF ReadCache, StageDataOf, Running, BeforeLookup
<1> QED
  BY <1>4, <1>5

LEMMA GenerateTyped ==
    ASSUME TypeInv, NEW r \in Requests, Generate(r)
    PROVE  LocalsTyped' /\ StageDataOf(r)'
<1>1. TypeOK /\ StageDataOf(r) /\ asked[r].question \in Questions
  BY DEF TypeInv, StageData, StageDataOf, Generate, Running
<1>2. /\ EndTyped' /\ pc'[r] \in {"failed", "output", "put"}
      /\ pc'[r] = "put" => key[r] # Nothing
  BY <1>1, ContinueTyped, RaiseTyped DEF Generate, Stages, Failures
<1>3. /\ text' \in [Requests -> Texts \cup {Nothing}]
      /\ pc'[r] # "failed" => text'[r] \in Texts
  <2>1. CASE Raise(r, "LLMUnavailableError") /\ UNCHANGED text
    BY <1>1, <2>1, RaiseTyped DEF TypeOK, Failures
  <2>2. ASSUME NEW cites \in CiteSets, NEW leak \in BOOLEAN,
               text' = [text EXCEPT ![r] =
                  [question |-> asked[r].question, seen |-> docs[r], prompt |-> prompt,
                   llm |-> llm, cites |-> cites, leak |-> leak]]
        PROVE  text' \in [Requests -> Texts \cup {Nothing}] /\ text'[r] \in Texts
    <3>1. cites \in SUBSET Nat
      BY PipelineAssumption
    <3>2. [question |-> asked[r].question, seen |-> docs[r], prompt |-> prompt,
           llm |-> llm, cites |-> cites, leak |-> leak] \in Texts
      BY <1>1, <3>1 DEF TypeOK, Texts
    <3> QED
      BY <1>1, <2>2, <3>2 DEF TypeOK
  <2> QED
    BY <2>1, <2>2 DEF Generate
<1>4. LocalsTyped'
  BY <1>1, <1>2, <1>3 DEF Generate, TypeOK, EndTyped, LocalsTyped
<1>5. StageDataOf(r)'
  BY <1>1, <1>2, <1>3, NothingAssumption
  DEF Generate, StageDataOf, Running, BeforeLookup, TypeOK
<1> QED
  BY <1>4, <1>5

LEMMA AssertCacheTyped ==
    ASSUME TypeInv, NEW r \in Requests, AssertCache(r)
    PROVE  LocalsTyped' /\ StageDataOf(r)'
<1>1. TypeOK /\ StageDataOf(r)
  BY DEF TypeInv, StageData
<1>2. EndTyped' /\ pc'[r] \in {"store", "failed"}
  BY <1>1, ContinueTyped, RaiseTyped DEF AssertCache, Stages, Failures
<1>3. LocalsTyped'
  BY <1>1, <1>2 DEF AssertCache, TypeOK, EndTyped, LocalsTyped
<1>4. StageDataOf(r)'
  BY <1>1, <1>2 DEF AssertCache, StageDataOf, Running, BeforeLookup
<1> QED
  BY <1>3, <1>4

LEMMA PutInCacheTyped ==
    ASSUME TypeInv, NEW r \in Requests, PutInCache(r)
    PROVE  LocalsTyped' /\ StageDataOf(r)'
<1>1. TypeOK /\ StageDataOf(r) /\ key[r] \in Keys /\ text[r] \in Texts
  BY DEF TypeInv, TypeOK, StageData, StageDataOf, PutInCache
<1>2. EndTyped' /\ pc'[r] \in {"failed", "output"}
  BY <1>1, ContinueTyped, RaiseTyped DEF PutInCache, Stages, Failures
<1>3. DOMAIN qa' \subseteq Keys /\ qa' \in [DOMAIN qa' -> Texts]
  <2>1. CASE UNCHANGED qa
    BY <1>1, <2>1 DEF TypeOK
  <2>2. CASE qa' = [k \in DOMAIN qa \cup {key[r]} |-> IF k = key[r] THEN text[r] ELSE qa[k]]
    BY <1>1, <2>2 DEF TypeOK
  <2> QED
    BY <2>1, <2>2 DEF PutInCache
<1>4. LocalsTyped'
  BY <1>1, <1>2, <1>3 DEF PutInCache, TypeOK, EndTyped, LocalsTyped
<1>5. StageDataOf(r)'
  BY <1>1, <1>2 DEF PutInCache, StageDataOf, Running, BeforeLookup
<1> QED
  BY <1>4, <1>5

LEMMA EnterOutputGuardTyped ==
    ASSUME TypeInv, NEW r \in Requests, EnterOutputGuard(r)
    PROVE  LocalsTyped' /\ StageDataOf(r)'
<1>1. TypeOK /\ StageDataOf(r)
  BY DEF TypeInv, StageData
<1>2. EndTyped' /\ pc'[r] \in {"screening", "unscreened"}
  BY <1>1, ContinueTyped DEF EnterOutputGuard, Stages
<1>3. LocalsTyped'
  BY <1>1, <1>2 DEF EnterOutputGuard, TypeOK, EndTyped, LocalsTyped
<1>4. StageDataOf(r)'
  BY <1>1, <1>2 DEF EnterOutputGuard, StageDataOf, Running, BeforeLookup
<1> QED
  BY <1>3, <1>4

LEMMA SkipScreeningTyped ==
    ASSUME TypeInv, NEW r \in Requests, SkipScreening(r)
    PROVE  LocalsTyped' /\ StageDataOf(r)'
<1>1. TypeOK /\ StageDataOf(r) /\ docs[r] \in Seq(Sources) /\ IdSet(docs[r]) \subseteq Chunks
  BY IdsType DEF TypeInv, TypeOK, StageData
<1>2. /\ EndTyped' /\ pc'[r] = "returned"
      /\ key' \in [Requests -> Keys \cup {Nothing}]
  <2>1. records' \in [Requests -> Seq(Records)]
    BY <1>1, WriteAuditTyped DEF SkipScreening, TypeOK
  <2> QED
    BY <1>1, <2>1, RespondTyped DEF SkipScreening, Answered
<1>3. LocalsTyped'
  BY <1>1, <1>2 DEF SkipScreening, TypeOK, EndTyped, LocalsTyped
<1>4. StageDataOf(r)'
  BY <1>1, <1>2 DEF SkipScreening, StageDataOf, Running, BeforeLookup
<1> QED
  BY <1>3, <1>4

LEMMA ScreenOutputTyped ==
    ASSUME TypeInv, NEW r \in Requests, ScreenOutput(r)
    PROVE  LocalsTyped' /\ StageDataOf(r)'
<1>1. TypeOK /\ StageDataOf(r) /\ docs[r] \in Seq(Sources) /\ IdSet(docs[r]) \subseteq Chunks
  BY IdsType DEF TypeInv, TypeOK, StageData
<1>2. /\ EndTyped' /\ pc'[r] \in {"failed", "returned"}
      /\ key' \in [Requests -> Keys \cup {Nothing}]
  <2>1. CASE ~guardOn
    BY <1>1, <2>1, RaiseTyped DEF ScreenOutput, Failures, TypeOK
  <2>2. CASE guardOn
    <3>1. records' \in [Requests -> Seq(Records)]
      <4>1. PICK ids \in SUBSET Chunks : WriteAudit(r, "ok", ids)
        BY <1>1, <2>2 DEF ScreenOutput
      <4> QED
        BY <1>1, <4>1, WriteAuditTyped, Zenon
    <3>2. <<>> \in Seq(Sources)
      BY EmptySeq
    <3>3. CASE text[r].leak
      <4>1. Respond(r, "output_blocked", <<>>, FALSE)
        BY <2>2, <3>3 DEF ScreenOutput
      <4> QED
        BY <1>1, <3>1, <3>2, <4>1, RespondTyped DEF Answered
    <3>4. CASE ~text[r].leak
      <4>1. Respond(r, "ok", docs[r], zone[r] = "restricted")
        BY <2>2, <3>4 DEF ScreenOutput
      <4> QED
        BY <1>1, <3>1, <4>1, RespondTyped DEF Answered
    <3> QED
      BY <3>3, <3>4
  <2> QED
    BY <2>1, <2>2
<1>3. LocalsTyped'
  BY <1>1, <1>2 DEF ScreenOutput, TypeOK, EndTyped, LocalsTyped
<1>4. StageDataOf(r)'
  BY <1>1, <1>2 DEF ScreenOutput, StageDataOf, Running, BeforeLookup
<1> QED
  BY <1>3, <1>4

LEMMA OwnStepTyped ==
    ASSUME TypeInv, NEW r \in Requests, Begin(r) \/ Proceed(r)
    PROVE  TypeInv'
<1>1. LocalsTyped' /\ StageDataOf(r)'
  BY BeginTyped, EnterGuardTyped, EvaluateQueryTyped, JudgeQueryTyped, CountChunksTyped,
     RetrieveTyped, CheckConfidenceTyped, FilterChunksTyped, LookUpTyped, ReadCacheTyped,
     GenerateTyped, AssertCacheTyped, PutInCacheTyped, EnterOutputGuardTyped,
     SkipScreeningTyped, ScreenOutputTyped
  DEF Proceed
<1>2. OwnStep(r)
  BY OwnSteps DEF TypeInv
<1>3. TypeOK'
  BY <1>1, <1>2 DEF TypeInv, TypeOK, LocalsTyped, OwnStep
<1>4. StageData'
  BY <1>1, <1>2 DEF TypeInv, StageData, StageDataOf, OwnStep, Untouched
<1>5. RoomToIndex'
  BY <1>2 DEF TypeInv, RoomToIndex, OwnStep
<1> QED
  BY <1>3, <1>4, <1>5 DEF TypeInv

LEMMA OperatorStepTyped ==
    ASSUME TypeInv, Operate
    PROVE  TypeInv'
<1>0. TypeOK
  BY DEF TypeInv
<1>1. \A r \in Requests : Quiet(r)
  BY <1>0, OperatorSteps
<1>2. StageData'
  BY <1>1 DEF TypeInv, StageData, StageDataOf, Quiet, Untouched
<1> USE PipelineAssumption DEF TypeInv, TypeOK, requestVars
<1>3. TypeOK' /\ RoomToIndex'
  <2>1. CASE UpdateGuard
    <3>1. PICK change \in Changes : Reload("guard", change)
      BY <2>1 DEF UpdateGuard, Changes
    <3> QED
      BY <1>0, <2>1, <3>1, ReloadEffect DEF UpdateGuard, RoomToIndex
  <2>2. CASE UpdateCache
    <3>1. PICK change \in Changes : Reload("cache", change)
      BY <2>2 DEF UpdateCache, Changes
    <3> QED
      BY <1>0, <2>2, <3>1, ReloadEffect DEF UpdateCache, RoomToIndex
  <2>3. CASE UpdateThreshold
    <3>1. "threshold" \in Changes /\ Reload("threshold", "threshold")
      BY <2>3 DEF UpdateThreshold, Changes
    <3> QED
      BY <1>0, <2>3, <3>1, ReloadEffect DEF UpdateThreshold, RoomToIndex
  <2>4. CASE UpdatePrompt
    <3>1. "prompt" \in Changes /\ Reload("prompt", "prompt")
      BY <2>4 DEF UpdatePrompt, Changes
    <3> QED
      BY <1>0, <2>4, <3>1, ReloadEffect DEF UpdatePrompt, RoomToIndex
  <2>5. CASE UpdateLabel
    BY <2>5 DEF UpdateLabel, RoomToIndex
  <2>6. CASE UpdateLLM
    <3>1. "llm" \in Changes /\ Reload("llm", "llm")
      BY <2>6 DEF UpdateLLM, Changes
    <3> QED
      BY <1>0, <2>6, <3>1, ReloadEffect DEF UpdateLLM, RoomToIndex
  <2>7. CASE \E c \in Chunks : Upload(c)
    BY <2>7 DEF Upload, RoomToIndex
  <2>8. CASE ResetStore
    BY <2>8 DEF ResetStore, RoomToIndex
  <2>9. CASE AddCorpus
    BY <2>9 DEF AddCorpus, RoomToIndex
  <2>10. CASE Expire
    BY <2>10 DEF Expire, RoomToIndex
  <2> QED
    BY <2>1, <2>2, <2>3, <2>4, <2>5, <2>6, <2>7, <2>8, <2>9, <2>10 DEF Operate
<1> QED
  BY <1>2, <1>3

LEMMA TypeStep ==
    ASSUME TypeInv, [Next]_vars
    PROVE  TypeInv'
<1>1. CASE \E r \in Requests : Begin(r) \/ Proceed(r)
  BY <1>1, OwnStepTyped
<1>2. CASE Operate
  BY <1>2, OperatorStepTyped
<1>3. CASE UNCHANGED vars
  BY <1>3 DEF vars, requestVars, TypeInv, TypeOK, StageData, StageDataOf, RoomToIndex
<1> QED
  BY <1>1, <1>2, <1>3 DEF Next

\* Locals, stores and engine keep their types, and the locals a stage needs are set.
THEOREM TypeCorrect == Spec => [](TypeOK /\ StageData)
<1>1. Init => TypeInv
  BY InitTypeInv
<1>2. TypeInv /\ [Next]_vars => TypeInv'
  BY TypeStep
<1>3. TypeInv => TypeOK /\ StageData
  BY DEF TypeInv
<1> QED
  BY <1>1, <1>2, <1>3, PTL DEF Spec

-----------------------------------------------------------------------------
(* What the ways to go on or to end do to the request's own locals.        *)

Went(r, stage) ==
    /\ pc'[r] = stage
    /\ docs'[r] = docs[r] /\ scores'[r] = scores[r] /\ out'[r] = out[r]
    /\ records'[r] = records[r]

Failed(r, error) ==
    /\ pc'[r] = "failed"
    /\ out'[r].status = error
    /\ docs'[r] = <<>>
    /\ records'[r] = records[r]

Abstained(r) ==
    /\ pc'[r] = "returned"
    /\ out'[r].status \in Abstentions
    /\ docs'[r] = <<>>
    /\ records[r] = <<>> => Len(records'[r]) = 1

Recorded(r, event, ids) ==
    records[r] = <<>> =>
        Len(records'[r]) = 1 /\ records'[r][1] = [event |-> event, chunks |-> ids]

Answers(r, status, sources, warned) ==
    /\ pc'[r] = "returned"
    /\ out'[r].status = status /\ out'[r].warned = warned
    /\ docs'[r] = sources

LEMMA AuditEffect ==
    ASSUME TypeOK, NEW r \in Requests, NEW event, NEW ids, WriteAudit(r, event, ids)
    PROVE  Recorded(r, event, ids)
<1>1. records'[r] = Append(records[r], [event |-> event, chunks |-> ids])
  BY DEF TypeOK, WriteAudit
<1> QED
  BY <1>1 DEF Recorded

LEMMA ContinueEffect ==
    ASSUME TypeOK, NEW r \in Requests, NEW stage, Continue(r, stage)
    PROVE  Went(r, stage)
  BY DEF TypeOK, Continue, Goto, Went

LEMMA RaiseEffect ==
    ASSUME TypeOK, NEW r \in Requests, NEW error, Raise(r, error)
    PROVE  Failed(r, error)
  BY DEF TypeOK, Raise, Goto, Failed

LEMMA RecordExitEffect ==
    ASSUME TypeOK, NEW r \in Requests, NEW status \in Abstentions, NEW ids,
           RecordExit(r, status, ids)
    PROVE  Abstained(r)
<1>1. WriteAudit(r, status, ids)
  BY DEF RecordExit
<1>2. Recorded(r, status, ids)
  BY <1>1, AuditEffect
<1> QED
  BY <1>2 DEF TypeOK, RecordExit, Goto, Abstained, Recorded

LEMMA RespondEffect ==
    ASSUME TypeOK, NEW r \in Requests, NEW status, NEW sources, NEW warned,
           Respond(r, status, sources, warned)
    PROVE  Answers(r, status, sources, warned)
  BY DEF TypeOK, Respond, Goto, Answers

LEMMA BeginEffect ==
    ASSUME TypeOK, NEW r \in Requests, Begin(r)
    PROVE  /\ pc[r] = "new"
           /\ Went(r, "guard") \/ Abstained(r)
           /\ UNCHANGED <<qa, zone, key, text>>
<1>1. UNCHANGED <<qa, zone, key, text>> /\ pc[r] = "new"
  BY DEF Begin, RunInputGuard
<1>2. \/ Continue(r, "guard")
      \/ RecordExit(r, "empty", {})
      \/ RecordExit(r, "blocked", {})
  BY DEF Begin, RunInputGuard
<1> QED
  BY <1>1, <1>2, ContinueEffect, RecordExitEffect DEF Abstentions

LEMMA EnterGuardEffect ==
    ASSUME TypeOK, NEW r \in Requests, EnterGuard(r)
    PROVE  /\ pc[r] = "guard"
           /\ Went(r, IF guardOn THEN "evaluate" ELSE "count")
           /\ UNCHANGED <<qa, asked, zone, key, text>>
  BY ContinueEffect DEF EnterGuard

LEMMA EvaluateQueryEffect ==
    ASSUME TypeOK, NEW r \in Requests, EvaluateQuery(r)
    PROVE  /\ pc[r] = "evaluate"
           /\ IF guardOn THEN Went(r, "judging") ELSE Failed(r, "AttributeError")
           /\ UNCHANGED <<qa, asked, zone, key, text>>
  BY ContinueEffect, RaiseEffect DEF EvaluateQuery

LEMMA JudgeQueryEffect ==
    ASSUME TypeOK, NEW r \in Requests, JudgeQuery(r)
    PROVE  /\ pc[r] = "judging" /\ zone'[r] \in Zones
           /\ \/ Went(r, "count")
              \/ Abstained(r)
              \/ ~guardOn /\ Failed(r, "AttributeError")
           /\ UNCHANGED <<qa, asked, key, text>>
<1>1. /\ UNCHANGED <<qa, asked, key, text>>
      /\ pc[r] = "judging"
      /\ \E z \in Zones : zone' = [zone EXCEPT ![r] = z]
  BY DEF JudgeQuery
<1>2. \/ Continue(r, "count")
      \/ RecordExit(r, "guard_v2_reject", {})
      \/ ~guardOn /\ Raise(r, "AttributeError")
  BY DEF JudgeQuery
<1>3. zone'[r] \in Zones
  BY <1>1 DEF TypeOK
<1> QED
  BY <1>1, <1>2, <1>3, ContinueEffect, RecordExitEffect, RaiseEffect DEF Abstentions

LEMMA CountChunksEffect ==
    ASSUME TypeOK, NEW r \in Requests, CountChunks(r)
    PROVE  /\ pc[r] = "count"
           /\ Went(r, "retrieve") \/ Abstained(r) \/ Failed(r, "VectorStoreError")
           /\ UNCHANGED <<qa, asked, zone, key, text>>
  BY ContinueEffect, RecordExitEffect, RaiseEffect DEF CountChunks, Abstentions

\* What is retrieved: rows of the store, now or earlier, that the caller is entitled to, with
\* their scores.
Retrieved(r) ==
    /\ pc'[r] = "confidence"
    /\ docs'[r] # <<>>
    /\ DOMAIN scores'[r] = DOMAIN docs'[r]
    /\ \A i \in DOMAIN docs'[r] :
          /\ docs'[r][i].rev <= rev[docs'[r][i].id]
          /\ Entitled(asked[r].caller, docs'[r][i])
    /\ records'[r] = records[r]

LEMMA RetrieveEffect ==
    ASSUME TypeInv, NEW r \in Requests, Retrieve(r)
    PROVE  /\ pc[r] = "retrieve"
           /\ Retrieved(r) \/ Abstained(r) \/ Failed(r, "RetrievalError")
           /\ UNCHANGED <<qa, asked, zone, key, text>>
<1>1. TypeOK /\ asked[r].caller \in Callers
  BY DEF TypeInv, Retrieve, StageData, StageDataOf, Running, BeforeLookup, Asked
<1>2. CASE Raise(r, "RetrievalError")
  BY <1>1, <1>2, RaiseEffect DEF Retrieve
<1>3. CASE RecordExit(r, "no_chunks", {})
  BY <1>1, <1>3, RecordExitEffect DEF Retrieve, Abstentions
<1>4. ASSUME NEW ranking \in Rankings(asked[r].caller), ranking[1] # <<>>,
             docs' = [docs EXCEPT ![r] = ranking[1]],
             scores' = [scores EXCEPT ![r] = ranking[2]],
             Goto(r, "confidence"), UNCHANGED <<out, records>>
      PROVE  Retrieved(r)
  <2>1. docs'[r] = ranking[1] /\ scores'[r] = ranking[2] /\ pc'[r] = "confidence"
    BY <1>1, <1>4 DEF TypeOK, Goto
  <2>2. /\ \A i \in DOMAIN ranking[1] :
              /\ ranking[1][i].rev <= rev[ranking[1][i].id]
              /\ Entitled(asked[r].caller, ranking[1][i])
        /\ DOMAIN ranking[2] = DOMAIN ranking[1]
    BY <1>1, RankingType
  <2> QED
    BY <1>1, <1>4, <2>1, <2>2 DEF Retrieved, TypeOK
<1> QED
  BY <1>2, <1>3, <1>4 DEF Retrieve

LEMMA CheckConfidenceEffect ==
    ASSUME TypeOK, NEW r \in Requests, CheckConfidence(r)
    PROVE  /\ pc[r] = "confidence"
           /\ \/ Abstained(r)
              \/ Went(r, "filter") /\ \E i \in DOMAIN scores[r] : scores[r][i] >= threshold
           /\ UNCHANGED <<qa, asked, zone, key, text>>
<1>1. \/ RecordExit(r, "low_confidence", IdSet(docs[r]))
      \/ /\ Continue(r, "filter")
         /\ ~ \A i \in DOMAIN scores[r] : scores[r][i] < threshold
  BY DEF CheckConfidence
<1>2. \A i \in DOMAIN scores[r] : scores[r][i] \in Nat /\ threshold \in Nat
  BY PipelineAssumption, ElementOfSeq, LenProperties DEF TypeOK
<1> QED
  BY <1>1, <1>2, ContinueEffect, RecordExitEffect DEF CheckConfidence, Abstentions

\* What is kept: some of the sources, and at least one if a score reaches the threshold.
LEMMA FilterChunksEffect ==
    ASSUME TypeOK, NEW r \in Requests, FilterChunks(r)
    PROVE  /\ pc[r] = "filter" /\ pc'[r] = "lookup"
           /\ \A i \in DOMAIN docs'[r] : \E j \in DOMAIN docs[r] : docs'[r][i] = docs[r][j]
           /\ (\E i \in DOMAIN docs[r] : scores[r][i] >= threshold) => docs'[r] # <<>>
           /\ UNCHANGED <<qa, asked, zone, key, text, out, records>>
<1> DEFINE positions == {i \in DOMAIN docs[r] : scores[r][i] >= threshold}
<1>1. PICK kept \in Increasing(positions) :
        docs' = [docs EXCEPT ![r] = [i \in DOMAIN kept |-> @[kept[i]]]]
  BY DEF FilterChunks
<1>2. /\ \A i \in DOMAIN kept : kept[i] \in DOMAIN docs[r]
      /\ positions # {} => DOMAIN kept # {}
  BY IncreasingType
<1>3. docs'[r] = [i \in DOMAIN kept |-> docs[r][kept[i]]]
  BY <1>1 DEF TypeOK
<1>4. pc'[r] = "lookup"
  BY DEF FilterChunks, Goto, TypeOK
<1> QED
  BY <1>2, <1>3, <1>4 DEF FilterChunks

LEMMA LookUpEffect ==
    ASSUME TypeOK, NEW r \in Requests, LookUp(r)
    PROVE  /\ pc[r] = "lookup"
           /\ IF cacheOn THEN Went(r, "read") /\ key'[r] = CacheKey(r)
                         ELSE Went(r, "generate") /\ key'[r] = key[r]
           /\ UNCHANGED <<qa, asked, zone, text>>
  BY ContinueEffect DEF LookUp, TypeOK

LEMMA ReadCacheEffect ==
    ASSUME TypeOK, NEW r \in Requests, ReadCache(r)
    PROVE  /\ pc[r] = "read"
           /\ \/ ~cacheOn /\ Failed(r, "AttributeError") /\ text' = text
              \/ cacheOn /\ Went(r, "generate") /\ text' = text
              \/ Went(r, "output") /\ key[r] \in DOMAIN qa /\ text'[r] = qa[key[r]]
           /\ UNCHANGED <<qa, asked, zone, key>>
  BY ContinueEffect, RaiseEffect DEF ReadCache, TypeOK

LEMMA GenerateEffect ==
    ASSUME TypeOK, NEW r \in Requests, Generate(r)
    PROVE  /\ pc[r] = "generate"
           /\ \/ Failed(r, "LLMUnavailableError") /\ text'[r] = text[r]
              \/ /\ Went(r, IF key[r] = Nothing THEN "output" ELSE "put")
                 /\ text'[r].question = asked[r].question
                 /\ text'[r].seen = docs[r]
                 /\ text'[r].prompt = prompt
           /\ UNCHANGED <<qa, asked, zone, key>>
  BY ContinueEffect, RaiseEffect DEF Generate, TypeOK

LEMMA AssertCacheEffect ==
    ASSUME TypeOK, NEW r \in Requests, AssertCache(r)
    PROVE  /\ pc[r] = "put"
           /\ IF cacheOn THEN Went(r, "store") ELSE Failed(r, "AssertionError")
           /\ UNCHANGED <<qa, asked, zone, key, text>>
  BY ContinueEffect, RaiseEffect DEF AssertCache

LEMMA PutInCacheEffect ==
    ASSUME TypeOK, NEW r \in Requests, PutInCache(r)
    PROVE  /\ pc[r] = "store"
           /\ IF cacheOn THEN Went(r, "output") ELSE Failed(r, "AttributeError")
           /\ \A k \in DOMAIN qa' :
                 \/ k \in DOMAIN qa /\ qa'[k] = qa[k]
                 \/ k = key[r] /\ qa'[k] = text[r]
           /\ UNCHANGED <<asked, zone, key, text>>
<1>1. IF cacheOn THEN Continue(r, "output") ELSE Raise(r, "AttributeError")
  BY DEF PutInCache
<1>2. \A k \in DOMAIN qa' :
        \/ k \in DOMAIN qa /\ qa'[k] = qa[k]
        \/ k = key[r] /\ qa'[k] = text[r]
  <2>1. CASE UNCHANGED qa
    BY <2>1
  <2>2. CASE qa' = [k \in DOMAIN qa \cup {key[r]} |-> IF k = key[r] THEN text[r] ELSE qa[k]]
    BY <2>2
  <2> QED
    BY <2>1, <2>2 DEF PutInCache
<1> QED
  BY <1>1, <1>2, ContinueEffect, RaiseEffect DEF PutInCache

LEMMA EnterOutputGuardEffect ==
    ASSUME TypeOK, NEW r \in Requests, EnterOutputGuard(r)
    PROVE  /\ pc[r] = "output"
           /\ Went(r, IF guardOn /\ zone[r] # Nothing THEN "screening" ELSE "unscreened")
           /\ UNCHANGED <<qa, asked, zone, key, text>>
  BY ContinueEffect DEF EnterOutputGuard

LEMMA SkipScreeningEffect ==
    ASSUME TypeOK, NEW r \in Requests, SkipScreening(r)
    PROVE  /\ pc[r] = "unscreened"
           /\ Answers(r, "ok", docs[r], FALSE)
           /\ IF guardOn THEN records'[r] = records[r] ELSE Recorded(r, "ok", IdSet(docs[r]))
           /\ UNCHANGED <<qa, asked, zone, text>>
<1>1. /\ Respond(r, "ok", docs[r], FALSE)
      /\ IF guardOn THEN UNCHANGED records ELSE WriteAudit(r, "ok", IdSet(docs[r]))
  BY DEF SkipScreening
<1> QED
  BY <1>1, RespondEffect, AuditEffect DEF SkipScreening

LEMMA ScreenOutputEffect ==
    ASSUME TypeOK, NEW r \in Requests, ScreenOutput(r)
    PROVE  /\ pc[r] = "screening"
           /\ IF ~guardOn THEN Failed(r, "AttributeError")
              ELSE IF text[r].leak
              THEN Answers(r, "output_blocked", <<>>, FALSE) /\ Recorded(r, "ok", {})
              ELSE /\ Answers(r, "ok", docs[r], zone[r] = "restricted")
                   /\ Recorded(r, "ok", IdSet(docs[r]))
           /\ UNCHANGED <<qa, asked, zone, text>>
<1>1. IF ~guardOn THEN Raise(r, "AttributeError")
      ELSE IF text[r].leak
      THEN Respond(r, "output_blocked", <<>>, FALSE) /\ WriteAudit(r, "ok", {})
      ELSE /\ Respond(r, "ok", docs[r], zone[r] = "restricted")
           /\ WriteAudit(r, "ok", IdSet(docs[r]))
  BY DEF ScreenOutput
<1> QED
  BY <1>1, RaiseEffect, RespondEffect, AuditEffect DEF ScreenOutput

-----------------------------------------------------------------------------
(* The guard, the audit log and errors.                                    *)

Judged == {"count", "retrieve", "confidence", "filter", "lookup", "read", "generate", "put",
           "store", "output", "screening", "unscreened"}

\* A decision says that the guard was there, and is unless it has been removed; no decision
\* says that it was not, and is not unless it has been installed; a key says that the cache
\* was there.  Records are written at the end.
GuardOf(r) ==
    /\ pc[r] \in {"new", "guard", "evaluate", "judging"} => zone[r] = Nothing
    /\ pc[r] \in {"evaluate", "judging"} /\ "guard_removed" \notin touched[r] => guardOn
    /\ pc[r] \in Judged =>
          /\ zone[r] # Nothing /\ "guard_removed" \notin touched[r] => guardOn
          /\ zone[r] = Nothing /\ "guard_installed" \notin touched[r] => ~guardOn
    /\ pc[r] = "screening" => zone[r] # Nothing
    /\ pc[r] = "unscreened" =>
          /\ zone[r] # Nothing => "guard_removed" \in touched[r]
          /\ "guard_installed" \notin touched[r] => ~guardOn
    /\ pc[r] \in {"read", "generate", "put", "store"} /\ key[r] # Nothing
          /\ "cache_removed" \notin touched[r] => cacheOn
    /\ pc[r] # "returned" => records[r] = <<>>
    /\ pc[r] = "returned" =>
          /\ Len(records[r]) <= 1
          /\ "guard_installed" \notin touched[r] => Len(records[r]) = 1
    /\ Delivered(r) /\ zone[r] # Nothing /\ "guard_removed" \notin touched[r] =>
          /\ ~text[r].leak
          /\ zone[r] = "restricted" => out[r].warned
    /\ pc[r] = "failed" =>
          /\ out[r].status = "AssertionError" => "cache_removed" \in touched[r]
          /\ out[r].status = "AttributeError" =>
                touched[r] \cap {"cache_removed", "guard_removed"} # {}

LEMMA GuardQuiet ==
    ASSUME TypeInv, NEW r \in Requests, GuardOf(r), Quiet(r)
    PROVE  GuardOf(r)'
  BY DEF GuardOf, Quiet, Untouched, Noted, Delivered, Judged, Running, BeforeLookup


\* Abstaining, and errors that are not the engine's own, are fine at any stage.
LEMMA GuardAtExits ==
    ASSUME NEW r \in Requests, GuardOf(r), pc[r] # "returned", touched' = touched,
           \/ Abstained(r)
           \/ \E error \in Failures \ {"AssertionError", "AttributeError"} : Failed(r, error)
    PROVE  GuardOf(r)'
<1>1. CASE Abstained(r)
  <2>1. pc'[r] = "returned" /\ out'[r].status # "ok"
    BY <1>1 DEF Abstained, Abstentions
  <2>2. Len(records'[r]) = 1
    BY <1>1 DEF Abstained, GuardOf
  <2> QED
    BY <2>1, <2>2 DEF GuardOf, Delivered, Judged
<1>2. ASSUME NEW error \in Failures \ {"AssertionError", "AttributeError"}, Failed(r, error)
      PROVE  GuardOf(r)'
  BY <1>2 DEF GuardOf, Failed, Delivered, Judged
<1> QED
  BY <1>1, <1>2

LEMMA GuardOwn ==
    ASSUME TypeInv, NEW r \in Requests, GuardOf(r), Begin(r) \/ Proceed(r), OwnStep(r)
    PROVE  GuardOf(r)'
<1>1. TypeOK /\ StageDataOf(r) /\ Nothing \notin Zones
  BY NothingAssumption DEF TypeInv, StageData
<1>2. guardOn' = guardOn /\ cacheOn' = cacheOn /\ touched' = touched
  BY DEF OwnStep
<1> USE <1>1, <1>2 DEF Failures
<1>3. CASE Begin(r)
  <2>1. pc[r] = "new" /\ zone' = zone /\ (Went(r, "guard") \/ Abstained(r))
    BY <1>3, BeginEffect
  <2> QED
    BY <2>1, GuardAtExits DEF GuardOf, Went, Delivered, Judged
<1>4. CASE EnterGuard(r)
  BY <1>4, EnterGuardEffect DEF GuardOf, Went, Delivered, Judged
<1>5. CASE JudgeQuery(r)
  <2>1. /\ pc[r] = "judging" /\ zone'[r] # Nothing
        /\ \/ Went(r, "count")
           \/ Abstained(r)
           \/ ~guardOn /\ Failed(r, "AttributeError")
    BY <1>5, JudgeQueryEffect
  <2>2. CASE Went(r, "count")
    BY <2>1, <2>2 DEF GuardOf, Went, Delivered, Judged
  <2>3. CASE ~guardOn /\ Failed(r, "AttributeError")
    BY <2>1, <2>3 DEF GuardOf, Failed, Delivered, Judged
  <2> QED
    BY <2>1, <2>2, <2>3, GuardAtExits
<1>6. CASE CountChunks(r)
  <2>1. /\ pc[r] = "count" /\ zone' = zone
        /\ Went(r, "retrieve") \/ Abstained(r) \/ Failed(r, "VectorStoreError")
    BY <1>6, CountChunksEffect
  <2>2. CASE Went(r, "retrieve")
    BY <2>1, <2>2 DEF GuardOf, Went, Delivered, Judged
  <2> QED
    BY <2>1, <2>2, GuardAtExits
<1>7. CASE Retrieve(r)
  <2>1. /\ pc[r] = "retrieve" /\ zone' = zone
        /\ Retrieved(r) \/ Abstained(r) \/ Failed(r, "RetrievalError")
    BY <1>7, RetrieveEffect
  <2>2. CASE Retrieved(r)
    BY <2>1, <2>2 DEF GuardOf, Retrieved, Delivered, Judged
  <2> QED
    BY <2>1, <2>2, GuardAtExits
<1>8. CASE CheckConfidence(r)
  <2>1. /\ pc[r] = "confidence" /\ zone' = zone
        /\ Abstained(r) \/ Went(r, "filter")
    BY <1>8, CheckConfidenceEffect
  <2>2. CASE Went(r, "filter")
    BY <2>1, <2>2 DEF GuardOf, Went, Delivered, Judged
  <2> QED
    BY <2>1, <2>2, GuardAtExits
<1>9. CASE FilterChunks(r)
  BY <1>9, FilterChunksEffect DEF GuardOf, Delivered, Judged
<1>10. CASE LookUp(r)
  BY <1>10, LookUpEffect DEF GuardOf, Went, Delivered, Judged, StageDataOf, BeforeLookup
<1>11. CASE Generate(r)
  <2>1. /\ pc[r] = "generate" /\ zone' = zone /\ key' = key
        /\ \/ Failed(r, "LLMUnavailableError")
           \/ Went(r, IF key[r] = Nothing THEN "output" ELSE "put")
    BY <1>11, GenerateEffect
  <2>2. CASE Went(r, IF key[r] = Nothing THEN "output" ELSE "put")
    BY <2>1, <2>2 DEF GuardOf, Went, Delivered, Judged
  <2> QED
    BY <2>1, <2>2, GuardAtExits
<1>12. CASE PutInCache(r)
  <2>1. /\ pc[r] = "store" /\ zone' = zone /\ key' = key
        /\ IF cacheOn THEN Went(r, "output") ELSE Failed(r, "AttributeError")
    BY <1>12, PutInCacheEffect
  <2>2. CASE cacheOn
    BY <2>1, <2>2 DEF GuardOf, Went, Delivered, Judged
  <2>3. CASE ~cacheOn
    BY <2>1, <2>3 DEF GuardOf, Failed, Delivered, Judged, StageDataOf
  <2> QED
    BY <2>2, <2>3
<1>13. CASE EnterOutputGuard(r)
  <2>1. /\ pc[r] = "output" /\ zone' = zone
        /\ Went(r, IF guardOn /\ zone[r] # Nothing THEN "screening" ELSE "unscreened")
    BY <1>13, EnterOutputGuardEffect
  <2>2. ~(guardOn /\ zone[r] # Nothing) =>
           /\ zone[r] # Nothing => "guard_removed" \in touched[r]
           /\ "guard_installed" \notin touched[r] => ~guardOn
    BY <2>1 DEF GuardOf, Judged
  <2> QED
    BY <2>1, <2>2 DEF GuardOf, Went, Delivered, Judged
<1>15. CASE SkipScreening(r)
  <2>1. /\ pc[r] = "unscreened" /\ zone' = zone /\ Answers(r, "ok", docs[r], FALSE)
        /\ IF guardOn THEN records'[r] = records[r] ELSE Recorded(r, "ok", IdSet(docs[r]))
    BY <1>15, SkipScreeningEffect
  <2>2. /\ zone[r] # Nothing => "guard_removed" \in touched[r]
        /\ "guard_installed" \notin touched[r] => ~guardOn
        /\ records[r] = <<>>
    BY <2>1 DEF GuardOf
  <2>3. /\ Len(records'[r]) <= 1
        /\ "guard_installed" \notin touched[r] => Len(records'[r]) = 1
    <3>1. CASE guardOn
      BY <2>1, <2>2, <3>1, EmptySeq
    <3>2. CASE ~guardOn
      <4>1. Len(records'[r]) = 1
        BY <2>1, <2>2, <3>2 DEF Recorded
      <4> QED
        BY <4>1
    <3> QED
      BY <3>1, <3>2
  <2> QED
    BY <2>1, <2>2, <2>3 DEF GuardOf, Answers, Delivered, Judged
<1>16. CASE EvaluateQuery(r)
  <2>1. /\ pc[r] = "evaluate" /\ zone' = zone
        /\ IF guardOn THEN Went(r, "judging") ELSE Failed(r, "AttributeError")
    BY <1>16, EvaluateQueryEffect
  <2>2. CASE guardOn
    BY <2>1, <2>2 DEF GuardOf, Went, Delivered, Judged
  <2>3. CASE ~guardOn
    BY <2>1, <2>3 DEF GuardOf, Failed, Delivered, Judged
  <2> QED
    BY <2>2, <2>3
<1>17. CASE ReadCache(r)
  <2>1. /\ pc[r] = "read" /\ zone' = zone /\ key' = key
        /\ \/ ~cacheOn /\ Failed(r, "AttributeError")
           \/ cacheOn /\ Went(r, "generate")
           \/ Went(r, "output")
    BY <1>17, ReadCacheEffect
  <2>2. CASE ~cacheOn /\ Failed(r, "AttributeError")
    BY <2>1, <2>2 DEF GuardOf, Failed, Delivered, Judged, StageDataOf
  <2>3. CASE cacheOn /\ Went(r, "generate")
    BY <2>1, <2>3 DEF GuardOf, Went, Delivered, Judged
  <2>4. CASE Went(r, "output")
    BY <2>1, <2>4 DEF GuardOf, Went, Delivered, Judged
  <2> QED
    BY <2>1, <2>2, <2>3, <2>4
<1>18. CASE AssertCache(r)
  <2>1. /\ pc[r] = "put" /\ zone' = zone /\ key' = key
        /\ IF cacheOn THEN Went(r, "store") ELSE Failed(r, "AssertionError")
    BY <1>18, AssertCacheEffect
  <2>2. CASE cacheOn
    BY <2>1, <2>2 DEF GuardOf, Went, Delivered, Judged
  <2>3. CASE ~cacheOn
    BY <2>1, <2>3 DEF GuardOf, Failed, Delivered, Judged, StageDataOf
  <2> QED
    BY <2>2, <2>3
<1>14. CASE ScreenOutput(r)
  <2>1. /\ pc[r] = "screening" /\ zone' = zone /\ text' = text
        /\ IF ~guardOn THEN Failed(r, "AttributeError")
           ELSE IF text[r].leak
           THEN Answers(r, "output_blocked", <<>>, FALSE) /\ Recorded(r, "ok", {})
           ELSE /\ Answers(r, "ok", docs[r], zone[r] = "restricted")
                /\ Recorded(r, "ok", IdSet(docs[r]))
    BY <1>14, ScreenOutputEffect
  <2>2. CASE ~guardOn
    BY <2>1, <2>2 DEF GuardOf, Failed, Delivered, Judged
  <2>3. CASE guardOn
    <3>1. Len(records'[r]) = 1
      BY <2>1, <2>3 DEF GuardOf, Recorded
    <3>2. /\ pc'[r] = "returned"
          /\ out'[r].status = "ok" => ~text'[r].leak
          /\ zone'[r] = "restricted" /\ out'[r].status = "ok" => out'[r].warned
      BY <2>1, <2>3 DEF Answers
    <3> QED
      BY <3>1, <3>2 DEF GuardOf, Delivered, Judged
  <2> QED
    BY <2>2, <2>3
<1> QED
  BY <1>3, <1>4, <1>5, <1>6, <1>7, <1>8, <1>9, <1>10, <1>11, <1>12, <1>13, <1>14, <1>15,
     <1>16, <1>17, <1>18
  DEF Proceed

GuardInv == TypeInv /\ \A r \in Requests : GuardOf(r)

LEMMA GuardStep ==
    ASSUME GuardInv, [Next]_vars
    PROVE  GuardInv'
<1>1. TypeInv /\ TypeInv' /\ TypeOK
  BY TypeStep DEF GuardInv, TypeInv
<1>2. ASSUME NEW r \in Requests
      PROVE  GuardOf(r)'
  <2>1. GuardOf(r)
    BY DEF GuardInv
  <2>2. Quiet(r) \/ ((Begin(r) \/ Proceed(r)) /\ OwnStep(r))
    BY <1>1, QuietOrOwn
  <2> QED
    BY <1>1, <2>1, <2>2, GuardQuiet, GuardOwn
<1> QED
  BY <1>1, <1>2 DEF GuardInv

THEOREM GuardCorrect == Spec => []GuardInv
<1>1. Init => GuardInv
  <2> SUFFICES ASSUME Init PROVE GuardInv
    OBVIOUS
  <2>1. TypeInv
    BY InitTypeInv
  <2>2. \A r \in Requests : pc[r] = "new" /\ zone[r] = Nothing /\ records[r] = <<>>
    BY DEF Init
  <2>3. \A r \in Requests : GuardOf(r)
    BY <2>2 DEF GuardOf, Delivered, Judged
  <2> QED
    BY <2>1, <2>3 DEF GuardInv
<1>2. GuardInv /\ [Next]_vars => GuardInv'
  BY GuardStep
<1> QED
  BY <1>1, <1>2, PTL DEF Spec

\* A request that returned wrote one outcome record unless a guard was installed meanwhile,
\* and none writes two.
THEOREM AuditTheorem == Spec => []AuditedOnce
<1>1. GuardInv => AuditedOnce
  <2> SUFFICES ASSUME GuardInv, NEW r \in Requests
               PROVE  /\ Len(records[r]) <= 1
                      /\ pc[r] = "returned" /\ "guard_installed" \notin touched[r]
                            => Len(records[r]) = 1
    BY DEF AuditedOnce
  <2>1. GuardOf(r)
    BY DEF GuardInv
  <2>2. CASE pc[r] = "returned"
    BY <2>1, <2>2, Zenon DEF GuardOf
  <2>3. CASE pc[r] # "returned"
    <3>1. records[r] = <<>>
      BY <2>1, <2>3 DEF GuardOf
    <3> QED
      BY <2>3, <3>1, EmptySeq
  <2> QED
    BY <2>2, <2>3
<1> QED
  BY <1>1, GuardCorrect, PTL

\* Judged requests deliver no leak, and restricted ones a warning, unless the guard was
\* removed meanwhile.
THEOREM ScreeningTheorem == Spec => []ScreenedUnlessGuardRemoved
<1>1. GuardInv => ScreenedUnlessGuardRemoved
  BY DEF GuardInv, GuardOf, ScreenedUnlessGuardRemoved
<1> QED
  BY <1>1, GuardCorrect, PTL

\* The engine's own errors need a cache or guard that was removed meanwhile.
THEOREM ErrorsTheorem == Spec => []InternalErrorsNeedAReload
<1>1. GuardInv => InternalErrorsNeedAReload
  BY DEF GuardInv, GuardOf, InternalErrorsNeedAReload
<1> QED
  BY <1>1, GuardCorrect, PTL

-----------------------------------------------------------------------------
(* The cache and the threshold.                                            *)

\* What a request holds a key for is what it looked up.
KeyOf(r) ==
    /\ pc[r] \in {"read", "generate", "put", "store"} /\ key[r] # Nothing =>
          /\ key[r].question = asked[r].question
          /\ key[r].ids = Ids(docs[r])
          /\ key[r].label <= prompt
    /\ pc[r] \in {"put", "store"} =>
          /\ text[r].question = key[r].question
          /\ Ids(text[r].seen) = key[r].ids
          /\ text[r].prompt >= key[r].label

CacheInv == TypeInv /\ CacheEntriesMatchKeys /\ \A r \in Requests : KeyOf(r)

LEMMA KeyQuiet ==
    ASSUME TypeInv, Grows, NEW r \in Requests, KeyOf(r), Quiet(r), TypeInv'
    PROVE  KeyOf(r)'
<1>1. key[r] # Nothing => key[r].label \in Nat
  BY DEF TypeInv, TypeOK, Keys
<1>2. prompt \in Nat /\ prompt' \in Nat /\ prompt <= prompt'
  BY DEF TypeInv, TypeOK, Grows
<1>3. pc'[r] = pc[r] /\ key'[r] = key[r] /\ asked'[r] = asked[r]
      /\ text'[r] = text[r] /\ docs'[r] = docs[r]
  BY DEF Quiet, Untouched
<1>4. Ids(docs[r])' = Ids(docs'[r]) /\ Ids(text[r].seen)' = Ids(text'[r].seen)
  BY DEF Ids
<1> QED
  BY <1>1, <1>2, <1>3, <1>4 DEF KeyOf

LEMMA KeyOwn ==
    ASSUME CacheInv, NEW r \in Requests, Begin(r) \/ Proceed(r), OwnStep(r)
    PROVE  KeyOf(r)'
<1>1. TypeOK /\ StageDataOf(r) /\ TypeInv /\ KeyOf(r)
  BY DEF CacheInv, TypeInv, StageData
<1>2. prompt' = prompt
  BY DEF OwnStep
<1> USE <1>1, <1>2 DEF KeyOf, Went, Failed, Abstained, Answers, Ids
<1>3. CASE Begin(r)
  BY <1>3, BeginEffect
<1>4. CASE EnterGuard(r)
  BY <1>4, EnterGuardEffect
<1>5. CASE JudgeQuery(r)
  BY <1>5, JudgeQueryEffect
<1>6. CASE CountChunks(r)
  BY <1>6, CountChunksEffect
<1>7. CASE Retrieve(r)
  BY <1>7, RetrieveEffect DEF Retrieved
<1>8. CASE CheckConfidence(r)
  BY <1>8, CheckConfidenceEffect
<1>9. CASE FilterChunks(r)
  BY <1>9, FilterChunksEffect
<1>10. CASE LookUp(r)
  <2>1. label <= prompt
    BY DEF TypeOK
  <2>2. /\ pc[r] = "lookup" /\ key[r] = Nothing /\ pc'[r] \in {"read", "generate"}
        /\ key'[r] \in {CacheKey(r), key[r]}
        /\ asked' = asked /\ docs'[r] = docs[r]
    BY <1>10, LookUpEffect DEF StageDataOf, BeforeLookup
  <2>3. key'[r] # Nothing => /\ key'[r].question = asked[r].question
                             /\ key'[r].ids = Ids(docs[r])
                             /\ key'[r].label = label
    BY <2>2 DEF CacheKey
  <2>4. pc'[r] \notin {"put", "store"}
    BY <2>2
  <2> QED
    BY <2>1, <2>2, <2>3, <2>4
<1>11. CASE Generate(r)
  <2>1. prompt \in Nat /\ (key[r] # Nothing => key[r].label \in Nat)
    BY DEF TypeOK, Keys
  <2>2. pc[r] = "generate" /\ key'[r] = key[r] /\ asked'[r] = asked[r]
    BY <1>11, GenerateEffect
  <2>3. \/ Failed(r, "LLMUnavailableError")
        \/ /\ Went(r, IF key[r] = Nothing THEN "output" ELSE "put")
           /\ text'[r].question = asked[r].question
           /\ text'[r].seen = docs[r]
           /\ text'[r].prompt = prompt
    BY <1>11, GenerateEffect
  <2> QED
    BY <2>1, <2>2, <2>3
<1>12. CASE PutInCache(r)
  BY <1>12, PutInCacheEffect
<1>13. CASE EnterOutputGuard(r)
  BY <1>13, EnterOutputGuardEffect
<1>14. CASE ScreenOutput(r)
  BY <1>14, ScreenOutputEffect
<1>15. CASE SkipScreening(r)
  BY <1>15, SkipScreeningEffect
<1>16. CASE EvaluateQuery(r)
  BY <1>16, EvaluateQueryEffect
<1>17. CASE ReadCache(r)
  BY <1>17, ReadCacheEffect
<1>18. CASE AssertCache(r)
  BY <1>18, AssertCacheEffect
<1> QED
  BY <1>3, <1>4, <1>5, <1>6, <1>7, <1>8, <1>9, <1>10, <1>11, <1>12, <1>13, <1>14, <1>15,
     <1>16, <1>17, <1>18
  DEF Proceed

\* Only PutInCache adds to the table.
LEMMA TableStep ==
    ASSUME TypeOK, [Next]_vars
    PROVE  \A k \in DOMAIN qa' :
              \/ k \in DOMAIN qa /\ qa'[k] = qa[k]
              \/ \E r \in Requests : pc[r] = "store" /\ k = key[r] /\ qa'[k] = text[r]
<1>1. CASE Operate
  <2>1. qa' = qa \/ Expire
    BY <1>1 DEF Operate, UpdateGuard, UpdateCache, UpdateThreshold, UpdatePrompt, UpdateLabel,
                UpdateLLM, Reload, Upload, ResetStore, AddCorpus
  <2>2. CASE Expire
    BY <2>2 DEF Expire
  <2> QED
    BY <2>1, <2>2
<1>2. ASSUME NEW r \in Requests, Begin(r) \/ Proceed(r)
      PROVE  \/ qa' = qa
             \/ PutInCache(r)
  BY <1>2 DEF Begin, RunInputGuard, Proceed, EnterGuard, EvaluateQuery, JudgeQuery,
              CountChunks, Retrieve, CheckConfidence, FilterChunks, LookUp, ReadCache,
              Generate, AssertCache, EnterOutputGuard, SkipScreening, ScreenOutput
<1>3. ASSUME NEW r \in Requests, PutInCache(r)
      PROVE  \A k \in DOMAIN qa' :
                \/ k \in DOMAIN qa /\ qa'[k] = qa[k]
                \/ pc[r] = "store" /\ k = key[r] /\ qa'[k] = text[r]
  BY <1>3, PutInCacheEffect
<1>4. CASE UNCHANGED vars
  BY <1>4 DEF vars
<1> QED
  BY <1>1, <1>2, <1>3, <1>4 DEF Next

LEMMA CacheStep ==
    ASSUME CacheInv, [Next]_vars
    PROVE  CacheInv'
<1>1. TypeInv /\ TypeInv' /\ TypeOK
  BY TypeStep DEF CacheInv, TypeInv
<1>2. ASSUME NEW r \in Requests
      PROVE  KeyOf(r)'
  <2>1. KeyOf(r)
    BY DEF CacheInv
  <2>2. Grows /\ (Quiet(r) \/ ((Begin(r) \/ Proceed(r)) /\ OwnStep(r)))
    BY <1>1, QuietOrOwn
  <2> QED
    BY <1>1, <2>1, <2>2, KeyQuiet, KeyOwn
<1>3. CacheEntriesMatchKeys'
  <2> SUFFICES ASSUME NEW k \in DOMAIN qa'
               PROVE  /\ qa'[k].question = k.question
                      /\ Ids(qa'[k].seen) = k.ids
                      /\ qa'[k].prompt >= k.label
    BY DEF CacheEntriesMatchKeys, Ids
  <2>1. CASE k \in DOMAIN qa /\ qa'[k] = qa[k]
    BY <2>1 DEF CacheInv, CacheEntriesMatchKeys
  <2>2. CASE \E r \in Requests : pc[r] = "store" /\ k = key[r] /\ qa'[k] = text[r]
    BY <2>2 DEF CacheInv, KeyOf
  <2> QED
    BY <1>1, <2>1, <2>2, TableStep
<1> QED
  BY <1>1, <1>2, <1>3 DEF CacheInv

LEMMA InitCacheInv ==
    ASSUME Init
    PROVE  CacheInv
<1>1. TypeInv
  BY InitTypeInv
<1>2. CacheEntriesMatchKeys /\ \A r \in Requests : KeyOf(r)
  BY DEF Init, CacheEntriesMatchKeys, KeyOf
<1> QED
  BY <1>1, <1>2 DEF CacheInv

\* What is cached belongs to the question, the chunks and the prompt of its key.
THEOREM CacheTheorem == Spec => []CacheEntriesMatchKeys
<1>1. Init => CacheInv
  BY InitCacheInv
<1>2. CacheInv /\ [Next]_vars => CacheInv'
  BY CacheStep
<1>3. CacheInv => CacheEntriesMatchKeys
  BY DEF CacheInv
<1> QED
  BY <1>1, <1>2, <1>3, PTL DEF Spec

\* Each source has a score while the threshold is applied, and some source passes it unless
\* it moves.
SomethingOf(r) ==
    /\ pc[r] \in {"confidence", "filter"} => DOMAIN scores[r] = DOMAIN docs[r]
    /\ pc[r] = "filter" /\ "threshold" \notin touched[r] =>
          \E i \in DOMAIN scores[r] : scores[r][i] >= threshold
    /\ pc[r] \in {"lookup", "read", "generate"} /\ "threshold" \notin touched[r]
          => docs[r] # <<>>
    /\ text[r] # Nothing /\ text[r].seen = <<>> => "threshold" \in touched[r]

SomethingInv == CacheInv /\ \A r \in Requests : SomethingOf(r)

LEMMA SomethingQuiet ==
    ASSUME NEW r \in Requests, SomethingOf(r), Quiet(r)
    PROVE  SomethingOf(r)'
  BY DEF SomethingOf, Quiet, Untouched, Noted, Running, BeforeLookup

LEMMA SomethingOwn ==
    ASSUME CacheInv, NEW r \in Requests, SomethingOf(r), Begin(r) \/ Proceed(r), OwnStep(r)
    PROVE  SomethingOf(r)'
<1>1. TypeOK /\ TypeInv /\ docs[r] \in Seq(Sources)
  BY DEF CacheInv, TypeInv, TypeOK
<1>2. threshold' = threshold /\ touched' = touched
  BY DEF OwnStep
<1> USE <1>1, <1>2 DEF SomethingOf, Went, Failed, Abstained, Answers
<1>3. CASE Begin(r)
  BY <1>3, BeginEffect
<1>4. CASE EnterGuard(r)
  BY <1>4, EnterGuardEffect
<1>5. CASE JudgeQuery(r)
  BY <1>5, JudgeQueryEffect
<1>6. CASE CountChunks(r)
  BY <1>6, CountChunksEffect
<1>7. CASE Retrieve(r)
  BY <1>7, RetrieveEffect DEF Retrieved
<1>8. CASE CheckConfidence(r)
  BY <1>8, CheckConfidenceEffect
<1>9. CASE FilterChunks(r)
  BY <1>9, FilterChunksEffect
<1>10. CASE LookUp(r)
  BY <1>10, LookUpEffect
<1>15. CASE SkipScreening(r)
  BY <1>15, SkipScreeningEffect
<1>16. CASE EvaluateQuery(r)
  BY <1>16, EvaluateQueryEffect
<1>18. CASE AssertCache(r)
  BY <1>18, AssertCacheEffect
<1>17. CASE ReadCache(r)
  <2>1. ASSUME key[r] \in DOMAIN qa, qa[key[r]].seen = <<>>
        PROVE  docs[r] = <<>>
    <3>1. Ids(<<>>) = Ids(docs[r])
      <4>1. pc[r] = "read" /\ key[r] # Nothing
        BY <1>17 DEF ReadCache, TypeInv, StageData, StageDataOf
      <4>2. key[r].ids = Ids(docs[r])
        BY <4>1 DEF CacheInv, KeyOf
      <4> QED
        BY <2>1, <4>2 DEF CacheInv, CacheEntriesMatchKeys
    <3>2. DOMAIN docs[r] = {}
      <4>1. DOMAIN Ids(<<>>) = {} /\ DOMAIN Ids(docs[r]) = DOMAIN docs[r]
        BY DEF Ids
      <4> QED
        BY <3>1, <4>1, Zenon
    <3>3. Len(docs[r]) \in Nat /\ DOMAIN docs[r] = 1..Len(docs[r])
      BY LenProperties
    <3>4. Len(docs[r]) = 0
      <4>1. Len(docs[r]) # 0 => 1 \in 1..Len(docs[r])
        BY <3>3
      <4> QED
        BY <3>2, <3>3, <4>1
    <3> QED
      BY <3>4, EmptySeq
  <2> QED
    BY <1>17, <2>1, ReadCacheEffect
<1>11. CASE Generate(r)
  BY <1>11, GenerateEffect
<1>12. CASE PutInCache(r)
  BY <1>12, PutInCacheEffect
<1>13. CASE EnterOutputGuard(r)
  BY <1>13, EnterOutputGuardEffect
<1>14. CASE ScreenOutput(r)
  BY <1>14, ScreenOutputEffect
<1> QED
  BY <1>3, <1>4, <1>5, <1>6, <1>7, <1>8, <1>9, <1>10, <1>11, <1>12, <1>13, <1>14, <1>15,
     <1>16, <1>17, <1>18
  DEF Proceed

\* The model is given a source unless the threshold moved under a request.
THEOREM SomethingTheorem == Spec => []NoAnswerFromNothing
<1>1. Init => SomethingInv
  <2> SUFFICES ASSUME Init PROVE SomethingInv
    OBVIOUS
  <2>1. CacheInv
    BY InitCacheInv
  <2>2. \A r \in Requests : SomethingOf(r)
    BY DEF Init, SomethingOf
  <2> QED
    BY <2>1, <2>2 DEF SomethingInv
<1>2. SomethingInv /\ [Next]_vars => SomethingInv'
  <2> SUFFICES ASSUME SomethingInv, [Next]_vars PROVE SomethingInv'
    OBVIOUS
  <2>1. CacheInv /\ CacheInv' /\ TypeOK
    BY CacheStep DEF SomethingInv, CacheInv, TypeInv
  <2>2. ASSUME NEW r \in Requests
        PROVE  SomethingOf(r)'
    <3>1. SomethingOf(r)
      BY DEF SomethingInv
    <3>2. Quiet(r) \/ ((Begin(r) \/ Proceed(r)) /\ OwnStep(r))
      BY <2>1, QuietOrOwn
    <3> QED
      BY <2>1, <3>1, <3>2, SomethingQuiet, SomethingOwn
  <2> QED
    BY <2>1, <2>2 DEF SomethingInv
<1>3. SomethingInv => NoAnswerFromNothing
  BY DEF SomethingInv, SomethingOf, NoAnswerFromNothing
<1> QED
  BY <1>1, <1>2, <1>3, PTL DEF Spec

-----------------------------------------------------------------------------
(* Sources, rights and records.                                            *)

\* Revisions of sources are not ahead of the store's.
Known(sources) == \A i \in DOMAIN sources : sources[i].rev <= rev[sources[i].id]

\* The stages at which a request has sources, and those at which it has a text for them.
Retrieval(r) ==
    \/ pc[r] \in {"confidence", "filter", "lookup", "read", "generate", "put", "store",
                 "output", "screening", "unscreened"}
    \/ Delivered(r)

Generated(r) ==
    pc[r] \in {"put", "store", "output", "screening", "unscreened"} \/ Delivered(r)

\* From retrieval to the answer, sources are the caller's to see, and a text's are the same
\* chunks as the ones beside it.
SourcesOf(r) ==
    /\ Known(docs[r])
    /\ text[r] # Nothing => Known(text[r].seen)
    /\ Retrieval(r) => \A i \in DOMAIN docs[r] : Entitled(asked[r].caller, docs[r][i])
    /\ Generated(r) => text[r] # Nothing /\ Ids(text[r].seen) = Ids(docs[r])
    /\ pc[r] # "returned" => records[r] = <<>>
    /\ Delivered(r) /\ records[r] # <<>> =>
          records[r][1] = [event |-> "ok", chunks |-> IdSet(text[r].seen)]

SourcesInv ==
    /\ CacheInv
    /\ \A k \in DOMAIN qa : Known(qa[k].seen)
    /\ \A r \in Requests : SourcesOf(r)

\* Sequences of sources with the same ids have the same set of ids.
LEMMA SameIds ==
    ASSUME NEW s \in Seq(Sources), NEW t \in Seq(Sources), Ids(s) = Ids(t)
    PROVE  /\ DOMAIN s = DOMAIN t
           /\ \A i \in DOMAIN s : s[i].id = t[i].id
           /\ IdSet(s) = IdSet(t)
<1>1. DOMAIN s = DOMAIN t
  BY DEF Ids
<1>2. \A i \in DOMAIN s : Ids(s)[i] = s[i].id /\ Ids(t)[i] = t[i].id
  BY <1>1 DEF Ids
<1>3. \A i \in DOMAIN s : s[i].id = t[i].id
  BY <1>2
<1> QED
  BY <1>1, <1>3 DEF IdSet

\* What is known stays known.
LEMMA KnownStays ==
    ASSUME TypeOK, TypeOK', Grows, NEW s \in Seq(Sources), Known(s)
    PROVE  Known(s)'
<1>1. ASSUME NEW i \in DOMAIN s
      PROVE  s[i].rev <= rev'[s[i].id]
  <2>1. s[i] \in Sources
    BY IdsType
  <2>2. s[i].id \in Chunks /\ s[i].rev \in Nat
    BY <2>1 DEF Sources, Revisions
  <2>3. rev[s[i].id] \in Nat /\ rev'[s[i].id] \in Nat
    BY <2>2, PipelineAssumption DEF TypeOK
  <2>4. s[i].rev <= rev[s[i].id] /\ rev[s[i].id] <= rev'[s[i].id]
    BY <2>2 DEF Known, Grows
  <2> QED
    BY <2>2, <2>3, <2>4
<1> QED
  BY <1>1 DEF Known

LEMMA SourcesQuiet ==
    ASSUME TypeInv, TypeInv', Grows, NEW r \in Requests, SourcesOf(r), Quiet(r)
    PROVE  SourcesOf(r)'
<1>1. TypeOK /\ TypeOK' /\ docs[r] \in Seq(Sources)
      /\ (text[r] # Nothing => text[r].seen \in Seq(Sources))
  BY DEF TypeInv, TypeOK, Texts
<1>2. /\ pc'[r] = pc[r] /\ asked'[r] = asked[r] /\ docs'[r] = docs[r] /\ text'[r] = text[r]
      /\ out'[r] = out[r] /\ records'[r] = records[r]
  BY DEF Quiet, Untouched
<1>3. Known(docs[r])'
  BY <1>1, <1>2, KnownStays DEF SourcesOf, Known
<1>4. text'[r] # Nothing => Known(text[r].seen)'
  BY <1>1, <1>2, KnownStays DEF SourcesOf, Known
<1>5. /\ Ids(docs[r])' = Ids(docs[r]) /\ Ids(text[r].seen)' = Ids(text[r].seen)
      /\ IdSet(text[r].seen)' = IdSet(text[r].seen)
  BY <1>2 DEF Ids, IdSet
<1> QED
  BY <1>2, <1>3, <1>4, <1>5 DEF SourcesOf, Delivered, Retrieval, Generated

LEMMA SourcesOwn ==
    ASSUME SourcesInv, TypeInv', NEW r \in Requests, Begin(r) \/ Proceed(r), OwnStep(r)
    PROVE  SourcesOf(r)'
<1>1. /\ TypeInv /\ TypeOK /\ StageDataOf(r) /\ SourcesOf(r) /\ docs[r] \in Seq(Sources)
      /\ text[r] # Nothing => text[r].seen \in Seq(Sources)
  BY DEF SourcesInv, CacheInv, TypeInv, TypeOK, StageData, Texts
<1>2. rev' = rev
  BY DEF OwnStep
<1> USE <1>1, <1>2 DEF SourcesOf, Known, Delivered, Retrieval, Generated, Ids, IdSet
\* Ends without an answer, and steps of no effect on sources, text and rights.
<1>ends. ASSUME pc[r] # "returned", text' = text,
                Abstained(r) \/ \E error \in Failures : Failed(r, error)
         PROVE  SourcesOf(r)'
  <2>1. /\ docs'[r] = <<>> /\ pc'[r] \in {"returned", "failed"}
        /\ pc'[r] = "returned" => out'[r].status # "ok"
        /\ pc'[r] # "returned" => records'[r] = records[r]
    BY <1>ends DEF Abstained, Abstentions, Failed
  <2> QED
    BY <1>ends, <2>1
<1>went. ASSUME NEW stage \in {"guard", "evaluate", "judging", "count", "retrieve"},
                pc[r] # "returned",
                text' = text, Went(r, stage)
         PROVE  SourcesOf(r)'
  BY <1>went DEF Went
\* An answer.
<1>answers. ASSUME pc[r] \in {"unscreened", "screening"}, NEW warned,
                   asked' = asked, text' = text, Answers(r, "ok", docs[r], warned),
                   records'[r] = records[r] \/ Recorded(r, "ok", IdSet(docs[r]))
            PROVE  SourcesOf(r)'
  <2>1. IdSet(docs[r]) = IdSet(text[r].seen)
    BY <1>answers, SameIds
  <2>2. pc'[r] = "returned" /\ docs'[r] = docs[r] /\ text'[r] # Nothing
    BY <1>answers DEF Answers
  <2>3. records'[r] = <<>> \/ records'[r][1] = [event |-> "ok", chunks |-> IdSet(text[r].seen)]
    BY <1>answers, <2>1 DEF Recorded
  <2> QED
    BY <1>answers, <2>2, <2>3
<1> USE DEF Failures
<1>5. CASE Begin(r)
  BY <1>ends, <1>went, <1>5, BeginEffect
<1>6. CASE EnterGuard(r)
  BY <1>went, <1>6, EnterGuardEffect
<1>7. CASE JudgeQuery(r)
  BY <1>ends, <1>went, <1>7, JudgeQueryEffect
<1>8. CASE CountChunks(r)
  BY <1>ends, <1>went, <1>8, CountChunksEffect
<1>9. CASE Retrieve(r)
  <2>1. CASE Retrieved(r)
    <3>1. /\ pc'[r] = "confidence" /\ text' = text /\ asked' = asked
          /\ records'[r] = <<>>
      BY <1>9, <2>1, RetrieveEffect DEF Retrieved
    <3>2. \A i \in DOMAIN docs'[r] : docs'[r][i].rev <= rev'[docs'[r][i].id]
      <4>1. \A i \in DOMAIN docs'[r] : docs'[r][i] \in Sources
        BY IdsType DEF TypeInv, TypeOK
      <4>2. \A i \in DOMAIN docs'[r] : docs'[r][i].rev \in Nat
        BY <4>1 DEF Sources, Revisions
      <4> QED
        BY <2>1, <4>2 DEF Retrieved
    <3>3. \A i \in DOMAIN docs'[r] : Entitled(asked'[r].caller, docs'[r][i])
      BY <2>1, <3>1 DEF Retrieved
    <3> QED
      BY <3>1, <3>2, <3>3
  <2> QED
    BY <1>ends, <1>9, <2>1, RetrieveEffect
<1>10. CASE CheckConfidence(r)
  <2>1. CASE Went(r, "filter")
    BY <1>10, <2>1, CheckConfidenceEffect DEF Went
  <2> QED
    BY <1>ends, <1>10, <2>1, CheckConfidenceEffect
<1>11. CASE FilterChunks(r)
  BY <1>11, FilterChunksEffect
<1>12. CASE LookUp(r)
  <2>1. /\ pc[r] = "lookup" /\ asked' = asked /\ text' = text
        /\ \E stage \in {"read", "generate"} : Went(r, stage)
    BY <1>12, LookUpEffect
  <2> QED
    BY <2>1 DEF Went
<1>17. CASE ReadCache(r)
  <2>1. /\ pc[r] = "read" /\ asked' = asked
        /\ \/ Failed(r, "AttributeError") /\ text' = text
           \/ Went(r, "generate") /\ text' = text
           \/ Went(r, "output") /\ key[r] \in DOMAIN qa /\ text'[r] = qa[key[r]]
    BY <1>17, ReadCacheEffect
  <2>2. CASE Failed(r, "AttributeError") /\ text' = text
    <3>1. \E error \in Failures : Failed(r, error)
      BY <2>2
    <3> QED
      BY <1>ends, <2>1, <2>2, <3>1, Zenon
  <2>3. CASE Went(r, "generate") /\ text' = text
    BY <2>1, <2>3 DEF Went
  <2>4. CASE Went(r, "output") /\ key[r] \in DOMAIN qa /\ text'[r] = qa[key[r]]
    <3>1. qa[key[r]] \in Texts /\ qa[key[r]] # Nothing
      BY <2>4, NothingAssumption DEF TypeOK
    <3>2. key[r] # Nothing /\ key[r].ids = Ids(docs[r])
      BY <2>1 DEF StageDataOf, SourcesInv, CacheInv, KeyOf
    <3>3. Known(qa[key[r]].seen) /\ Ids(qa[key[r]].seen) = Ids(docs[r])
      BY <2>4, <3>2 DEF SourcesInv, CacheInv, CacheEntriesMatchKeys
    <3> QED
      BY <2>1, <2>4, <3>1, <3>3 DEF Went
  <2> QED
    BY <2>1, <2>2, <2>3, <2>4
<1>18. CASE AssertCache(r)
  <2>1. CASE Went(r, "store")
    BY <1>18, <2>1, AssertCacheEffect DEF Went
  <2> QED
    BY <1>ends, <1>18, <2>1, AssertCacheEffect
<1>19. CASE EvaluateQuery(r)
  BY <1>ends, <1>went, <1>19, EvaluateQueryEffect
<1>13. CASE Generate(r)
  <2>1. /\ pc[r] = "generate" /\ asked' = asked
        /\ \/ Failed(r, "LLMUnavailableError") /\ text'[r] = text[r]
           \/ /\ Went(r, IF key[r] = Nothing THEN "output" ELSE "put")
              /\ text'[r].seen = docs[r]
    BY <1>13, GenerateEffect
  <2>2. CASE Failed(r, "LLMUnavailableError") /\ text'[r] = text[r]
    BY <2>1, <2>2 DEF Failed
  <2>3. CASE /\ Went(r, IF key[r] = Nothing THEN "output" ELSE "put")
             /\ text'[r].seen = docs[r]
    <3>1. pc'[r] \in {"output", "put"} /\ text'[r] # Nothing
      BY <2>3 DEF Went, TypeInv, StageData, StageDataOf
    <3> QED
      BY <2>1, <2>3, <3>1 DEF Went
  <2> QED
    BY <2>1, <2>2, <2>3
<1>14. CASE PutInCache(r)
  <2>1. CASE Went(r, "output")
    BY <1>14, <2>1, PutInCacheEffect DEF Went
  <2> QED
    BY <1>ends, <1>14, <2>1, PutInCacheEffect
<1>15. CASE EnterOutputGuard(r)
  <2>1. /\ pc[r] = "output" /\ asked' = asked /\ text' = text
        /\ \E stage \in {"screening", "unscreened"} : Went(r, stage)
    BY <1>15, EnterOutputGuardEffect
  <2> QED
    BY <2>1 DEF Went
<1>20. CASE SkipScreening(r)
  <2>1. /\ pc[r] = "unscreened" /\ asked' = asked /\ text' = text
        /\ Answers(r, "ok", docs[r], FALSE)
        /\ records'[r] = records[r] \/ Recorded(r, "ok", IdSet(docs[r]))
    BY <1>20, SkipScreeningEffect
  <2>2. pc[r] \in {"unscreened", "screening"}
    BY <2>1
  <2> QED
    BY <1>answers, <2>1, <2>2, Zenon
<1>16. CASE ScreenOutput(r)
  <2>1. /\ pc[r] = "screening" /\ asked' = asked /\ text' = text
        /\ \/ Failed(r, "AttributeError")
           \/ Answers(r, "output_blocked", <<>>, FALSE)
           \/ /\ Answers(r, "ok", docs[r], zone[r] = "restricted")
              /\ Recorded(r, "ok", IdSet(docs[r]))
    BY <1>16, ScreenOutputEffect
  <2>2. CASE Answers(r, "output_blocked", <<>>, FALSE)
    BY <2>1, <2>2 DEF Answers
  <2>3. CASE Answers(r, "ok", docs[r], zone[r] = "restricted") /\ Recorded(r, "ok", IdSet(docs[r]))
    BY <1>answers, <2>1, <2>3
  <2>4. CASE Failed(r, "AttributeError")
    <3>1. \E error \in Failures : Failed(r, error)
      BY <2>4
    <3>2. pc[r] # "returned" /\ text' = text
      BY <2>1
    <3> QED
      BY <1>ends, <3>1, <3>2, Zenon
  <2> QED
    BY <2>1, <2>2, <2>3, <2>4
<1> QED
  BY <1>5, <1>6, <1>7, <1>8, <1>9, <1>10, <1>11, <1>12, <1>13, <1>14, <1>15, <1>16, <1>17,
     <1>18, <1>19, <1>20
  DEF Proceed

LEMMA SourcesStep ==
    ASSUME SourcesInv, [Next]_vars
    PROVE  SourcesInv'
<1>1. /\ TypeInv /\ TypeInv' /\ TypeOK /\ TypeOK'
      /\ CacheInv'
  BY TypeStep, CacheStep DEF SourcesInv, CacheInv, TypeInv
<1>2. ASSUME NEW r \in Requests
      PROVE  SourcesOf(r)'
  <2>1. SourcesOf(r)
    BY DEF SourcesInv
  <2>2. Grows /\ (Quiet(r) \/ ((Begin(r) \/ Proceed(r)) /\ OwnStep(r)))
    BY <1>1, QuietOrOwn
  <2> QED
    BY <1>1, <2>1, <2>2, SourcesQuiet, SourcesOwn
<1>3. ASSUME NEW k \in DOMAIN qa'
      PROVE  Known(qa[k].seen)'
  <2>1. Requests # {} => Grows
    BY <1>1, QuietOrOwn
  <2>2. Grows
    <3>1. CASE Requests = {}
      <4>1. Operate \/ UNCHANGED vars
        BY <3>1 DEF Next
      <4>2. CASE UNCHANGED vars
        BY <1>1, <4>2 DEF vars, Grows, TypeOK
      <4> QED
        BY <1>1, <4>1, <4>2, OperatorSteps
    <3> QED
      BY <2>1, <3>1
  <2>3. PICK t \in Texts : t = qa'[k] /\ Known(t.seen)
    <3>1. CASE k \in DOMAIN qa /\ qa'[k] = qa[k]
      BY <1>1, <3>1 DEF SourcesInv, TypeOK
    <3>2. CASE \E r \in Requests : pc[r] = "store" /\ k = key[r] /\ qa'[k] = text[r]
      <4>1. PICK r \in Requests : pc[r] = "store" /\ k = key[r] /\ qa'[k] = text[r]
        BY <3>2
      <4>2. SourcesOf(r) /\ text[r] \in Texts /\ text[r] # Nothing
        BY <1>1, <4>1 DEF SourcesInv, SourcesOf, Generated, TypeOK
      <4> QED
        BY <4>1, <4>2 DEF SourcesOf
    <3> QED
      BY <1>1, <3>1, <3>2, TableStep
  <2>4. t.seen \in Seq(Sources)
    BY DEF Texts
  <2>5. Known(t.seen)'
    BY <1>1, <2>2, <2>3, <2>4, KnownStays
  <2> QED
    BY <2>3, <2>5 DEF Known
<1> QED
  BY <1>1, <1>2, <1>3 DEF SourcesInv

THEOREM SourcesCorrect == Spec => []SourcesInv
<1>1. Init => SourcesInv
  <2> SUFFICES ASSUME Init PROVE SourcesInv
    OBVIOUS
  <2>1. CacheInv
    BY InitCacheInv
  <2>2. DOMAIN qa = {} /\ \A r \in Requests :
          pc[r] = "new" /\ docs[r] = <<>> /\ text[r] = Nothing /\ records[r] = <<>>
    BY DEF Init
  <2>3. \A r \in Requests : SourcesOf(r)
    BY <2>2 DEF SourcesOf, Known, Delivered, Retrieval, Generated
  <2> QED
    BY <2>1, <2>2, <2>3 DEF SourcesInv
<1>2. SourcesInv /\ [Next]_vars => SourcesInv'
  BY SourcesStep
<1> QED
  BY <1>1, <1>2, PTL DEF Spec

\* What a delivered answer is made of and shown with.
LEMMA DeliveredSources ==
    ASSUME SourcesInv, NEW r \in Requests, Delivered(r)
    PROVE  /\ docs[r] \in Seq(Sources) /\ text[r].seen \in Seq(Sources)
           /\ Ids(text[r].seen) = Ids(docs[r])
           /\ \A i \in DOMAIN docs[r] :
                 text[r].seen[i] # docs[r][i] => rev[docs[r][i].id] > 1
<1>1. TypeOK /\ SourcesOf(r) /\ text[r] # Nothing
  BY DEF SourcesInv, CacheInv, TypeInv, SourcesOf, Generated
<1>2. docs[r] \in Seq(Sources) /\ text[r].seen \in Seq(Sources)
  BY <1>1 DEF TypeOK, Texts
<1>3. Ids(text[r].seen) = Ids(docs[r])
  BY <1>1 DEF SourcesOf, Generated
<1>4. ASSUME NEW i \in DOMAIN docs[r], text[r].seen[i] # docs[r][i]
      PROVE  rev[docs[r][i].id] > 1
  <2>1. /\ i \in DOMAIN text[r].seen
        /\ text[r].seen[i] \in Sources /\ docs[r][i] \in Sources
        /\ text[r].seen[i].id = docs[r][i].id
    BY <1>2, <1>3, SameIds, IdsType
  <2>2. text[r].seen[i].rev # docs[r][i].rev
    BY <1>4, <2>1 DEF Sources
  <2>3. text[r].seen[i].rev <= rev[docs[r][i].id] /\ docs[r][i].rev <= rev[docs[r][i].id]
    BY <1>1, <2>1 DEF SourcesOf, Known
  <2>4. /\ text[r].seen[i].rev \in Nat \ {0} /\ docs[r][i].rev \in Nat \ {0}
        /\ docs[r][i].id \in Chunks
    BY <2>1 DEF Sources, Revisions
  <2>5. rev[docs[r][i].id] \in Nat
    BY <1>1, <2>4, PipelineAssumption DEF TypeOK
  <2> QED
    BY <2>2, <2>3, <2>4, <2>5
<1> QED
  BY <1>2, <1>3, <1>4

\* Sources are shown at the numbers the model read them at.
THEOREM SourcesTheorem == Spec => []AnswerMatchesSources
<1>1. SourcesInv => AnswerMatchesSources
  <2> SUFFICES ASSUME SourcesInv, NEW r \in Requests, Delivered(r)
               PROVE  /\ Ids(text[r].seen) = Ids(docs[r])
                      /\ \A i \in DOMAIN docs[r] :
                            text[r].seen[i] # docs[r][i] => rev[docs[r][i].id] > 1
                      /\ \A i \in DOMAIN Citations(r) :
                            Citations(r)[i].id = text[r].seen[i].id
    BY DEF AnswerMatchesSources
  <2>1. \A i \in DOMAIN Citations(r) : i \in DOMAIN docs[r] /\ Citations(r)[i] = docs[r][i]
    BY DEF Citations
  <2> QED
    BY <2>1, DeliveredSources, SameIds
<1> QED
  BY <1>1, SourcesCorrect, PTL

\* Callers get answers made of chunks they are entitled to.
THEOREM EntitledTheorem == Spec => []AnswerIsEntitled
<1>1. SourcesInv => AnswerIsEntitled
  <2> SUFFICES ASSUME SourcesInv, NEW r \in Requests, Delivered(r),
                      NEW i \in DOMAIN text[r].seen
               PROVE  \/ Entitled(asked[r].caller, text[r].seen[i])
                      \/ rev[text[r].seen[i].id] > 1
    BY DEF AnswerIsEntitled
  <2>1. i \in DOMAIN docs[r] /\ docs[r][i].id = text[r].seen[i].id
    BY DeliveredSources, SameIds
  <2>2. Entitled(asked[r].caller, docs[r][i])
    BY <2>1 DEF SourcesInv, SourcesOf, Retrieval
  <2> QED
    BY <2>1, <2>2, DeliveredSources
<1> QED
  BY <1>1, SourcesCorrect, PTL

\* The record of an answer names the chunks of its text.
THEOREM RecordTheorem == Spec => []AuditNamesTheSources
<1>1. SourcesInv => AuditNamesTheSources
  BY DEF SourcesInv, SourcesOf, AuditNamesTheSources
<1> QED
  BY <1>1, SourcesCorrect, PTL
=============================================================================
