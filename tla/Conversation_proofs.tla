------------------------- MODULE Conversation_proofs -------------------------
(***************************************************************************)
(* The properties of Conversation for any fields, schemas and number of    *)
(* providers, retries and turns.                                           *)
(*                                                                         *)
(* Both action properties and all invariants follow from one inductive     *)
(* invariant, in two parts:                                                *)
(*   - Knows, what the call under way knows of what the caller gave it, by *)
(*     stage: until its schema is prepared it travels with all of it       *)
(*     (Routing, Preparing); after that the schema's data is the context's *)
(*     prior and nothing else was taken out (Carrying); each reply holds   *)
(*     values of this turn or the prior's, and an empty list of replies    *)
(*     means that all providers so far have failed (Extracting); a stopped *)
(*     context is one without data, for a reason that no later step can    *)
(*     turn into a complete status (Finishing);                            *)
(*   - Remembers, what vouches for the values the caller holds: the replies*)
(*     about the object, and the evidence that was looked for.             *)
(***************************************************************************)
EXTENDS Conversation, TLAPS, WellFoundedInduction

\* Data that could be parsed.
Facts == [Fields -> Values]

\* The codes of all issues.
LEMMA CodesAre ==
    Codes = {"parse_error", "schema_error", "missing", "ask", "ungrounded", "rule", "refused"}
BY DEF Codes, KindOf

\* The data of a reply that could not be parsed is told from any other.
LEMMA FactsAreData ==
    /\ NoData \in DataSets /\ NoData \notin Facts
    /\ \A d \in DataSets : d # NoData => d \in Facts
    /\ \A d \in Facts : d \in DataSets /\ d # NoData
<1>1. NoData \notin Facts
  <2>1. DOMAIN NoData = {}
    BY DEF NoData
  <2>2. \A d \in Facts : DOMAIN d = Fields
    BY DEF Facts
  <2>3. QED
    BY <2>1, <2>2, FieldsAssumption
<1>2. QED
  BY <1>1 DEF DataSets, Facts

\* What the steps make of parsed data is data with the same fields.
LEMMA OperatorsKeepFacts ==
    /\ Blank \in Facts
    /\ \A d \in Facts : DropInvalid(d) \in Facts
    /\ \A d, e \in Facts : Merge(d, e) \in Facts
    /\ \A d : ValidateData(d) \in SUBSET Codes
BY CodesAre DEF Facts, Blank, DropInvalid, Merge, Values, Null, Bad, ValidateData, SchemaCodes

\* A non-empty set of positions has a least member ...
LEMMA LeastPosition ==
    \A S \in SUBSET Nat : S # {} => \E n \in S : \A k \in S : n <= k
<1> SUFFICES ASSUME NEW S \in SUBSET Nat, S # {}
             PROVE  \E n \in S : \A k \in S : n <= k
  OBVIOUS
<1>1. IsWellFoundedOn({ss \in Nat \X Nat : ss[1] < ss[2]}, Nat)
  BY NatLessThanWellFounded DEF OpToRel
<1> DEFINE R == {ss \in Nat \X Nat : ss[1] < ss[2]}
<1>2. PICK n \in S : \A k \in S : ~(<<k, n>> \in R)
  <2>1. IsWellFoundedOn(R, Nat)
    BY <1>1
  <2> HIDE DEF R
  <2>2. QED
    BY <2>1, WFMin
<1>3. \A k \in S : n <= k
  <2> TAKE k \in S
  <2>1. k \in Nat /\ n \in Nat
    OBVIOUS
  <2>2. k < n => <<k, n>> \in R
    BY <2>1
  <2>3. QED
    BY <2>1, <2>2, <1>2
<1>4. QED
  BY <1>3

\* ... and, if they are positions of a list, a greatest.
LEMMA GreatestPosition ==
    \A N \in Nat : \A S \in SUBSET (1..N) : S # {} => \E n \in S : \A k \in S : n >= k
<1> SUFFICES ASSUME NEW N \in Nat, NEW S \in SUBSET (1..N), S # {}
             PROVE  \E n \in S : \A k \in S : n >= k
  OBVIOUS
<1> DEFINE T == {N - k : k \in S}
<1>1. T \in SUBSET Nat /\ T # {}
  <2>1. \A k \in S : k \in 1..N /\ N - k \in Nat
    OBVIOUS
  <2>2. PICK k \in S : TRUE
    OBVIOUS
  <2>3. N - k \in T
    OBVIOUS
  <2>4. QED
    BY <2>1, <2>3
<1>2. PICK m \in T : \A k \in T : m <= k
  <2> HIDE DEF T
  <2>1. QED
    BY <1>1, LeastPosition
<1>3. PICK n \in S : m = N - n
  OBVIOUS
<1>4. \A k \in S : n >= k
  <2> TAKE k \in S
  <2>1. m <= N - k
    BY <1>2
  <2>2. n \in 1..N /\ k \in 1..N
    OBVIOUS
  <2>3. QED
    BY <2>1, <2>2, <1>3
<1>5. QED
  BY <1>4

\* The reply chosen is one of those received.
LEMMA ChosenIsOne ==
    \A S : \A replies \in Seq(S) : replies # << >> => 
        \E n \in DOMAIN replies : ChooseReply(replies) = replies[n]
<1> SUFFICES ASSUME NEW S, NEW replies \in Seq(S), replies # << >>
             PROVE  \E n \in DOMAIN replies : ChooseReply(replies) = replies[n]
  OBVIOUS
<1> DEFINE usable   == {n \in DOMAIN replies : Usable(replies[n])}
           withData == {n \in DOMAIN replies : replies[n].data # NoData}
           pool     == IF withData # {} THEN withData ELSE DOMAIN replies
<1>1. Len(replies) \in Nat /\ DOMAIN replies = 1..Len(replies) /\ Len(replies) # 0
  OBVIOUS
<1>2. \A T \in SUBSET DOMAIN replies : T # {} =>
             /\ \E n \in T : \A k \in T : n <= k
             /\ \E n \in T : \A k \in T : n >= k
  <2> TAKE T \in SUBSET DOMAIN replies
  <2>1. T \in SUBSET Nat /\ T \in SUBSET (1..Len(replies))
    BY <1>1
  <2>2. QED
    BY <1>1, <2>1, LeastPosition, GreatestPosition
<1>3. /\ usable # {} => \E n \in usable : \A k \in usable : n <= k
      /\ \E n \in pool : \A k \in pool : n >= k
  <2>1. usable \in SUBSET DOMAIN replies /\ pool \in SUBSET DOMAIN replies /\ pool # {}
    BY <1>1
  <2> HIDE DEF usable, pool
  <2>2. QED
    BY <1>2, <2>1, Zenon
<1>4. ChooseReply(replies) =
        IF usable # {}
        THEN replies[CHOOSE n \in usable : \A k \in usable : n <= k]
        ELSE replies[CHOOSE n \in pool : \A k \in pool : n >= k]
  BY DEF ChooseReply
<1>5. usable \subseteq DOMAIN replies /\ pool \subseteq DOMAIN replies
  OBVIOUS
<1> HIDE DEF usable, pool
<1>6. QED
  BY <1>3, <1>4, <1>5

-----------------------------------------------------------------------------
\* A call under way has not ended and has left no record.
Ending == run.pc # "idle" => ended = NotEnded

\* Between calls no text is shown to anybody.
Idling == run.pc = "idle" => ~run.shown

\* Before the route: all the caller gave, and an empty context.
Routing ==
    run.pc = "route" => run.earlier = Given /\ run.ctx = NoCtx /\ ~run.shown

\* Routed: the schema is chosen, by a model only if the guard let all pass.
Preparing ==
    run.pc = "prepare" =>
        /\ run.ctx.schema \in Schemas /\ run.earlier = Given
        /\ run.ctx.data = NoData /\ run.ctx.prior = NoData
        /\ run.shown => ~Screened

\* No provider was asked yet.
Unstarted ==
    run.pc \in {"route", "prepare"} =>
        /\ run.provider = 1 /\ run.failed = {} /\ run.replies = << >>

\* Prepared: the schema's earlier data has become the prior, the guard let it
\* pass if the extraction goes on.
Carrying ==
    run.pc \in {"extract", "finish"} =>
        LET s == run.ctx.schema
        IN  /\ s \in Schemas
            /\ run.earlier = [Given EXCEPT ![s] = NoData]
            /\ run.ctx.prior = IF Given[s] = NoData THEN NoData ELSE DropInvalid(Given[s])
            /\ Given[s] # NoData => s \in slots
            /\ run.shown \/ run.pc = "extract" =>
                  run.text # "refused" /\ ~RefusedData(run.ctx.prior)

\* Values of this text, of the prior, or none.
Stated(data) == data # NoData => \A f \in Fields : data[f] \in ReplyValues(f)

\* What is known of a reply.
ReplyKnown(reply) ==
    Stated(reply.data) /\ (reply.data = NoData => reply.issues = {"parse_error"})

\* While providers are asked.
Extracting ==
    run.pc = "extract" =>
        /\ run.ctx.data = NoData /\ ~run.ctx.stopped
        /\ \A n \in DOMAIN run.replies : ReplyKnown(run.replies[n])
        /\ run.replies = << >> => run.failed = 1..(run.provider - 1)

\* Before the steps that follow.
Finishing ==
    run.pc = "finish" =>
        /\ Stated(run.ctx.data)
        /\ run.ctx.stopped <=> run.ctx.data = NoData
        /\ run.ctx.stopped => run.ctx.issues \cap {"refused", "parse_error"} # {}

\* What the call under way knows.
Knows == /\ Ending /\ Idling /\ Routing /\ Preparing /\ Unstarted
         /\ Carrying /\ Extracting /\ Finishing

\* No value is held whose evidence was never looked for.
HeldIsJudged ==
    \A s \in Schemas : Held[s] # NoData =>
        \A f \in Fields : Held[s][f] # Null => <<f, Held[s][f]>> \in judged

\* A complete result has data.
CompleteHasData ==
    result.status = "complete" => result.schema \in Schemas /\ result.data # NoData

\* What vouches for what the caller holds.
Remembers == NoValueOfAnotherObject /\ HeldIsJudged /\ CompleteHasData

IInv == TypeOK /\ Knows /\ Remembers

-----------------------------------------------------------------------------
\* The initial records have their types.
LEMMA StartTyped ==
    NoCtx \in Contexts /\ Nothing \in [Schemas -> DataSets] /\ NoResult \in Results /\ Idle \in Calls
<1>1. NoCtx \in Contexts
  BY FactsAreData DEF NoCtx, Contexts
<1>2. Nothing \in [Schemas -> DataSets]
  BY FactsAreData DEF Nothing
<1>3. NoResult \in Results
  BY <1>2, FactsAreData DEF NoResult, Results
<1>4. << >> \in Seq(ReplySet) /\ 1 \in 1..Providers /\ 1 + MaxRetries \in 1..(1 + MaxRetries)
  BY ConversationAssumption
<1>5. Idle \in Calls
  BY <1>1, <1>2, <1>4 DEF Idle, Calls, Kinds
<1>6. QED
  BY <1>1, <1>2, <1>3, <1>5

\* What a result leaves for the next call; nothing, if there is none.
LEMMA EarlierTyped ==
    /\ \A r \in Results : Earlier(r) \in [Schemas -> DataSets]
    /\ Earlier(NoResult) = Nothing
<1>1. \A r \in Results : Earlier(r) \in [Schemas -> DataSets]
  BY DEF Earlier, Results
<1>2. Earlier(NoResult) = Nothing
  BY ConversationAssumption DEF Earlier, NoResult, Nothing
<1>3. QED
  BY <1>1, <1>2

\* The inductive invariant holds initially.
LEMMA InitIInv == Init => IInv
<1> SUFFICES ASSUME Init
             PROVE  IInv
  OBVIOUS
<1>1. TypeOK
  <2>1. ended \in [how : {"none", "component", "unavailable", "config", "returned"}, records : 0..1]
    BY DEF Init, NotEnded
  <2>2. turn \in 0..MaxTurns /\ tricky \subseteq 1..turn /\ slots \subseteq Schemas
    BY ConversationAssumption DEF Init
  <2>3. objects \in [Schemas -> SUBSET Values] /\ judged \subseteq Fields \X Values
    BY DEF Init
  <2>4. QED
    BY <2>1, <2>2, <2>3, StartTyped DEF Init, TypeOK
<1>2. run.pc = "idle" /\ ~run.shown
  BY DEF Init, Idle
<1>3. Knows
  BY <1>2 DEF Knows, Ending, Idling, Routing, Preparing, Unstarted, Carrying, Extracting, Finishing
<1>4. Held = Nothing
  BY EarlierTyped DEF Init, Held
<1>5. Remembers
  BY <1>4 DEF Remembers, NoValueOfAnotherObject, HeldIsJudged, CompleteHasData, Nothing, Init, NoResult
<1>6. QED
  BY <1>1, <1>3, <1>5 DEF IInv

\* While the caller waits, nothing changes what it holds.
LEMMA WaitingKeeps ==
    ASSUME IInv, UNCHANGED <<result, objects, judged>>
    PROVE  Remembers' /\ Held' = Held /\ (run'.fresh = run.fresh => Given' = Given)
<1>1. Held' = Held /\ (run'.fresh = run.fresh => Given' = Given)
  BY DEF Held, Given, Earlier
<1>2. Remembers'
  BY <1>1 DEF IInv, Remembers, NoValueOfAnotherObject, HeldIsJudged, CompleteHasData
<1>3. QED
  BY <1>1, <1>2

\* One lemma for each step, beginning with the caller's.
LEMMA SendKeeps ==
    ASSUME IInv, NEW kind \in Kinds, NEW prior \in {result, NoResult}, Send(kind, prior)
    PROVE  IInv'
<1>1. /\ turn \in Nat /\ turn' = turn + 1 /\ turn' \in 0..MaxTurns
      /\ tricky' \subseteq 1..turn'
      /\ UNCHANGED <<slots, result, objects, judged>> /\ ended' = NotEnded
  BY ConversationAssumption DEF IInv, TypeOK, Send
<1>2. /\ run' \in Calls /\ run'.pc = "route" /\ run'.earlier = Earlier(prior) /\ run'.ctx = NoCtx
      /\ run'.fresh = (prior = NoResult) /\ run'.shown = FALSE
      /\ run'.provider = 1 /\ run'.failed = {} /\ run'.replies = << >>
  <2>1. run' = [pc |-> "route", text |-> kind, fresh |-> prior = NoResult, earlier |-> Earlier(prior),
                ctx |-> NoCtx, provider |-> 1, left |-> 1 + MaxRetries, replies |-> << >>,
                failed |-> {}, shown |-> FALSE]
    BY DEF Send, Idle
  <2>2. prior \in Results
    BY StartTyped DEF IInv, TypeOK
  <2>3. Earlier(prior) \in [Schemas -> DataSets] /\ NoCtx \in Contexts
    BY <2>2, EarlierTyped, StartTyped
  <2>4. << >> \in Seq(ReplySet) /\ 1 \in 1..Providers /\ 1 + MaxRetries \in 1..(1 + MaxRetries)
    BY ConversationAssumption
  <2>5. (prior = NoResult) \in BOOLEAN
    OBVIOUS
  <2> DEFINE fresh == prior = NoResult
  <2>6. run' = [pc |-> "route", text |-> kind, fresh |-> fresh, earlier |-> Earlier(prior),
                ctx |-> NoCtx, provider |-> 1, left |-> 1 + MaxRetries, replies |-> << >>,
                failed |-> {}, shown |-> FALSE] /\ fresh \in BOOLEAN /\ fresh = (prior = NoResult)
    BY <2>1
  <2> HIDE DEF fresh
  <2>7. QED
    BY <2>3, <2>4, <2>6 DEF Calls
<1>3. TypeOK'
  BY <1>1, <1>2 DEF IInv, TypeOK, NotEnded
<1>4. Remembers'
  BY <1>1, WaitingKeeps
<1>5. Given' = Earlier(prior)
  BY <1>1, <1>2, EarlierTyped DEF Given, Earlier
<1>6. Knows'
  BY <1>1, <1>2, <1>5 DEF Knows, Ending, Idling, Routing, Preparing, Unstarted, Carrying, Extracting, Finishing
<1>7. QED
  BY <1>3, <1>4, <1>6 DEF IInv

\* Switching slot filling between calls.
LEMMA ToggleKeeps ==
    ASSUME IInv, NEW s \in Schemas, ToggleSlotFilling(s)
    PROVE  IInv'
<1>1. /\ run.pc = "idle" /\ slots' \subseteq Schemas
      /\ UNCHANGED <<turn, tricky, result, run, ended, objects, judged>>
  BY DEF IInv, TypeOK, ToggleSlotFilling
<1>2. TypeOK'
  BY <1>1 DEF IInv, TypeOK
<1>3. Knows'
  BY <1>1 DEF IInv, Knows, Ending, Idling, Routing, Preparing, Unstarted, Carrying, Extracting, Finishing
<1>4. QED
  BY <1>1, <1>2, <1>3, WaitingKeeps DEF IInv

\* The end of a call with an exception: one record at most.
LEMMA RaiseKeeps ==
    ASSUME IInv, NEW from \in {"route", "prepare", "extract", "finish"},
           NEW how \in {"component", "unavailable", "config"}, NEW records \in 0..1,
           Raise(from, how, records)
    PROVE  IInv' /\ run'.pc = "idle" /\ ended' = [how |-> how, records |-> records]
<1>1. /\ run.pc = from /\ run' = Idle
      /\ UNCHANGED <<turn, tricky, slots, result, objects, judged>>
  BY DEF Raise
<1>2. ended' = [how |-> how, records |-> records]
  BY <1>1 DEF IInv, Knows, Ending, Raise, NotEnded
<1>3. TypeOK'
  BY <1>1, <1>2, StartTyped DEF IInv, TypeOK
<1>4. run'.pc = "idle" /\ ~run'.shown
  BY <1>1 DEF Idle
<1>5. Knows'
  BY <1>4 DEF Knows, Ending, Idling, Routing, Preparing, Unstarted, Carrying, Extracting, Finishing
<1>6. QED
  BY <1>1, <1>2, <1>3, <1>4, <1>5, WaitingKeeps DEF IInv

\* A step within a call.
LEMMA SteppingKeeps ==
    ASSUME IInv, run.pc # "idle", run' \in Calls, run'.pc # "idle", run'.fresh = run.fresh,
           UNCHANGED <<turn, tricky, slots, result, ended, objects, judged>>
    PROVE  TypeOK' /\ Remembers' /\ Ending' /\ Idling' /\ Given' = Given
<1>1. TypeOK'
  BY DEF IInv, TypeOK
<1>2. Ending' /\ Idling'
  BY DEF IInv, Knows, Ending, Idling
<1>3. QED
  BY <1>1, <1>2, WaitingKeeps

\* The types of the parts of the call.
LEMMA CallFields ==
    ASSUME IInv
    PROVE  /\ run \in Calls /\ run.ctx \in Contexts /\ run.earlier \in [Schemas -> DataSets]
           /\ run.replies \in Seq(ReplySet) /\ run.provider \in 1..Providers
           /\ Given \in [Schemas -> DataSets]
<1>1. run \in Calls /\ result \in Results
  BY DEF IInv, TypeOK
<1>2. Given \in [Schemas -> DataSets]
  BY <1>1, StartTyped, EarlierTyped DEF Given
<1>3. QED
  BY <1>1, <1>2 DEF Calls

\* A schema is chosen, by keyword or by the model.
LEMMA RouteKeeps ==
    ASSUME IInv, NEW s \in Schemas, RouteByKeyword(s) \/ RouteByModel(s)
    PROVE  IInv' /\ run'.pc # "idle"
<1>1. /\ run.pc = "route" /\ UNCHANGED <<turn, tricky, slots, result, ended, objects, judged>>
      /\ \/ run' = Chosen(s)
         \/ run' = [Chosen(s) EXCEPT !.shown = TRUE] /\ ~Screened
  BY DEF RouteByKeyword, RouteByModel, Step
<1>2. run \in Calls /\ run.ctx = NoCtx /\ run.earlier = Given /\ ~run.shown
  BY <1>1 DEF IInv, TypeOK, Knows, Routing
<1> DEFINE ctx == [run.ctx EXCEPT !.schema = s]
<1>3. ctx \in Contexts /\ ctx.schema = s /\ ctx.data = NoData /\ ctx.prior = NoData
  <2>1. run.ctx \in Contexts /\ run.ctx.data = NoData /\ run.ctx.prior = NoData
    BY <1>2, StartTyped DEF NoCtx
  <2>2. QED
    BY <2>1 DEF Contexts
<1>4. Chosen(s) = [run EXCEPT !.pc = "prepare", !.ctx = ctx]
  BY <1>2 DEF Chosen, Calls
<1> HIDE DEF ctx
<1>5. /\ Chosen(s) \in Calls /\ Chosen(s).pc = "prepare" /\ Chosen(s).ctx = ctx
      /\ Chosen(s).earlier = run.earlier /\ Chosen(s).fresh = run.fresh /\ Chosen(s).shown = run.shown
      /\ Chosen(s).provider = run.provider /\ Chosen(s).failed = run.failed
      /\ Chosen(s).replies = run.replies
  BY <1>2, <1>3, <1>4 DEF Calls
<1>6. /\ run' \in Calls /\ run'.pc = "prepare" /\ run'.ctx = ctx
      /\ run'.earlier = run.earlier /\ run'.fresh = run.fresh
      /\ run'.provider = run.provider /\ run'.failed = run.failed /\ run'.replies = run.replies
      /\ run'.shown => ~Screened
  <2>1. CASE run' = Chosen(s)
    BY <2>1, <1>2, <1>5
  <2>2. CASE run' = [Chosen(s) EXCEPT !.shown = TRUE] /\ ~Screened
    <3> DEFINE c == Chosen(s)
    <3>1. c \in Calls /\ run' = [c EXCEPT !.shown = TRUE]
      BY <1>5, <2>2
    <3> HIDE DEF c
    <3>2. /\ run' \in Calls /\ run'.pc = c.pc /\ run'.ctx = c.ctx
          /\ run'.earlier = c.earlier /\ run'.fresh = c.fresh
          /\ run'.provider = c.provider /\ run'.failed = c.failed /\ run'.replies = c.replies
      BY <3>1 DEF Calls
    <3>3. QED
      BY <3>2, <2>2, <1>5 DEF c
  <2>3. QED
    BY <1>1, <2>1, <2>2
<1>7. TypeOK' /\ Remembers' /\ Ending' /\ Idling' /\ Given' = Given
  BY <1>1, <1>6, SteppingKeeps
<1>8. run'.text = run.text
  BY <1>1, <1>2, <1>4 DEF Calls
<1>9. Screened' <=> Screened
  BY <1>1, <1>6, <1>8 DEF Screened, RefusedData
<1>10. Preparing' /\ Unstarted'
  BY <1>1, <1>2, <1>3, <1>6, <1>7, <1>9 DEF Preparing, Unstarted, IInv, Knows
<1>11. Knows'
  BY <1>6, <1>7, <1>10 DEF Knows, Routing, Carrying, Extracting, Finishing
<1>12. QED
  BY <1>6, <1>7, <1>11 DEF IInv

\* Dropping the values a schema refuses adds none that the guard refuses.
LEMMA RefusedAfterDropping ==
    ASSUME IInv
    PROVE  \A d \in Facts : RefusedData(DropInvalid(d)) => RefusedData(d)
<1>1. Null \notin tricky
  BY DEF IInv, TypeOK, Null
<1>2. \A d \in Facts : d # NoData
  BY FactsAreData
<1>3. QED
  BY <1>1, <1>2 DEF RefusedData, DropInvalid

\* The schema's data is taken out of what travels on, and screened.
LEMMA PrepareKeeps ==
    ASSUME IInv, Prepare
    PROVE  IInv' /\ (run'.pc = "idle" => ended'.how # "returned")
<1> DEFINE s       == run.ctx.schema
           carried == run.earlier[s]
           refused == run.text = "refused" \/ RefusedData(carried)
<1>1. /\ run.pc = "prepare" /\ s \in Schemas /\ run.earlier = Given
      /\ run.ctx.data = NoData /\ run.ctx.prior = NoData
      /\ run.provider = 1 /\ run.failed = {} /\ run.replies = << >>
      /\ run.shown => ~Screened
  BY DEF IInv, Knows, Preparing, Unstarted, Prepare, Unwanted
<1>2. CASE Raise("prepare", "config", 0)
  <2>1. IInv' /\ ended' = [how |-> "config", records |-> 0]
    BY <1>2, RaiseKeeps
  <2>2. QED
    BY <2>1
<1>3. CASE (carried # NoData => s \in slots) /\ Step("prepare", Prepared(carried, refused))
  <2>1. carried \in DataSets /\ Given[s] = carried
    BY <1>1, CallFields
  <2> DEFINE prior  == IF carried = NoData THEN NoData ELSE DropInvalid(carried)
             issues == IF refused THEN {"refused"} ELSE {}
             ctx    == [run.ctx EXCEPT !.prior = prior, !.stopped = refused, !.issues = issues]
             left   == [run.earlier EXCEPT ![s] = NoData]
             pc     == IF refused THEN "finish" ELSE "extract"
  <2>2. run' = [run EXCEPT !.earlier = left, !.ctx = ctx, !.pc = pc]
    BY <1>3, CallFields DEF Step, Prepared, Calls, Contexts
  <2>3. prior \in DataSets /\ issues \in SUBSET Codes /\ refused \in BOOLEAN
    BY <2>1, FactsAreData, OperatorsKeepFacts, CodesAre DEF RefusedData
  <2>4. left \in [Schemas -> DataSets] /\ left = [Given EXCEPT ![s] = NoData]
    BY <1>1, CallFields, FactsAreData
  <2>5. /\ ctx \in Contexts /\ ctx.prior = prior /\ ctx.stopped = refused /\ ctx.issues = issues
        /\ ctx.schema = s /\ ctx.data = NoData
    <3> HIDE DEF prior, issues, refused
    <3>1. QED
      BY <1>1, <2>3, CallFields DEF Contexts
  <2>6. ~refused => ~RefusedData(prior)
    <3>1. carried # NoData => (RefusedData(DropInvalid(carried)) => RefusedData(carried))
      BY <2>1, FactsAreData, RefusedAfterDropping
    <3>2. ~RefusedData(NoData)
      BY DEF RefusedData
    <3>3. QED
      BY <3>1, <3>2
  <2>7. run.shown => ~refused
    BY <1>1 DEF Screened
  <2>8. pc \in {"extract", "finish"} /\ (pc = "extract" <=> ~refused)
    OBVIOUS
  <2>9. issues = IF refused THEN {"refused"} ELSE {}
    OBVIOUS
  <2>10. prior = IF Given[s] = NoData THEN NoData ELSE DropInvalid(Given[s])
    BY <2>1
  <2>11. ~refused => run.text # "refused"
    OBVIOUS
  <2> HIDE DEF prior, issues, ctx, left, pc, refused, carried
  <2>12. /\ run' \in Calls /\ run'.earlier = left /\ run'.ctx = ctx /\ run'.pc = pc
         /\ run'.fresh = run.fresh /\ run'.text = run.text /\ run'.shown = run.shown
         /\ run'.provider = run.provider /\ run'.failed = run.failed /\ run'.replies = run.replies
    BY <2>2, <2>4, <2>5, <2>8, CallFields DEF Calls
  <2>13. UNCHANGED <<turn, tricky, slots, result, ended, objects, judged>>
    BY <1>3 DEF Step
  <2>14. TypeOK' /\ Remembers' /\ Ending' /\ Idling' /\ Given' = Given
    BY <1>1, <2>8, <2>12, <2>13, SteppingKeeps
  <2>15. RefusedData(run.ctx.prior)' <=> RefusedData(prior)
    BY <2>5, <2>12, <2>13 DEF RefusedData
  <2>16. Carrying'
    <3>1. run'.shown \/ run'.pc = "extract" => ~refused
      BY <2>7, <2>8, <2>12
    <3>2. run'.shown \/ run'.pc = "extract" => run'.text # "refused" /\ ~RefusedData(run.ctx.prior)'
      BY <3>1, <2>6, <2>11, <2>12, <2>15
    <3>3. /\ run'.ctx.schema = s /\ s \in Schemas
          /\ run'.earlier = [Given' EXCEPT ![s] = NoData]
          /\ run'.ctx.prior = IF Given'[s] = NoData THEN NoData ELSE DropInvalid(Given'[s])
          /\ Given'[s] # NoData => s \in slots'
      BY <1>1, <1>3, <2>1, <2>4, <2>5, <2>10, <2>12, <2>13, <2>14
    <3> HIDE DEF s
    <3>4. QED
      BY <3>2, <3>3 DEF Carrying
  <2>17. Extracting'
    BY <1>1, <2>5, <2>8, <2>12, ConversationAssumption DEF Extracting
  <2>18. Finishing'
    BY <2>5, <2>8, <2>9, <2>12 DEF Finishing, Stated
  <2>19. Knows'
    BY <2>8, <2>12, <2>14, <2>16, <2>17, <2>18 DEF Knows, Routing, Preparing, Unstarted
  <2>20. QED
    BY <2>8, <2>12, <2>14, <2>19 DEF IInv
<1>4. QED
  BY <1>2, <1>3 DEF Prepare, Unwanted

\* A reply states values of this turn or the prior's.
LEMMA RepliesKnown ==
    \A reply \in Replies : reply \in ReplySet /\ ReplyKnown(reply)
<1>1. ASSUME NEW d \in Facts, \A f \in Fields : d[f] \in ReplyValues(f), NEW new \in BOOLEAN
      PROVE  Parsed(d, new) \in ReplySet /\ ReplyKnown(Parsed(d, new))
  <2>1. ValidateData(d) \in SUBSET Codes /\ d \in DataSets /\ d # NoData
    BY OperatorsKeepFacts, FactsAreData
  <2>2. QED
    BY <1>1, <2>1 DEF Parsed, ReplySet, ReplyKnown, Stated
<1>2. Unparsable \in ReplySet /\ ReplyKnown(Unparsable)
  BY FactsAreData, CodesAre DEF Unparsable, ReplySet, ReplyKnown, Stated
<1>3. \A reply \in Replies :
         \/ reply = Unparsable
         \/ \E d \in Facts, new \in BOOLEAN :
               (\A f \in Fields : d[f] \in ReplyValues(f)) /\ reply = Parsed(d, new)
  <2> DEFINE D     == {d \in [Fields -> Values] : \A f \in Fields : d[f] \in ReplyValues(f)}
             flags == IF run.ctx.prior = NoData THEN {FALSE} ELSE BOOLEAN
  <2>1. \A d \in D : d \in Facts /\ \A f \in Fields : d[f] \in ReplyValues(f)
    BY DEF Facts
  <2>2. flags \subseteq BOOLEAN
    OBVIOUS
  <2>3. Replies = {Parsed(d, new) : d \in D, new \in flags} \cup {Unparsable}
    BY DEF Replies
  <2> HIDE DEF D, flags
  <2>4. QED
    BY <2>1, <2>2, <2>3
<1>4. QED
  BY <1>1, <1>2, <1>3

\* The context after a reply was committed, and after the blank one was.
LEMMA CommitEffect ==
    \A c \in Contexts, r \in ReplySet :
        /\ Commit(c, r) \in Contexts
        /\ Commit(c, r).schema = c.schema /\ Commit(c, r).prior = c.prior
        /\ Commit(c, r).data = r.data
        /\ Commit(c, r).issues = c.issues \cup r.issues
        /\ Commit(c, r).stopped <=> c.stopped \/ r.data = NoData
<1> SUFFICES ASSUME NEW c \in Contexts, NEW r \in ReplySet
             PROVE  /\ Commit(c, r) \in Contexts
                    /\ Commit(c, r).schema = c.schema /\ Commit(c, r).prior = c.prior
                    /\ Commit(c, r).data = r.data
                    /\ Commit(c, r).issues = c.issues \cup r.issues
                    /\ Commit(c, r).stopped <=> c.stopped \/ r.data = NoData
  OBVIOUS
<1> DEFINE value   == r.issues = {}
           issues  == c.issues \cup r.issues
           stopped == c.stopped \/ r.data = NoData
<1>1. /\ value \in BOOLEAN /\ stopped \in BOOLEAN /\ issues \in SUBSET Codes
      /\ r.data \in DataSets /\ r.new \in BOOLEAN
  BY DEF ReplySet, Contexts
<1>2. Commit(c, r) = [c EXCEPT !.data = r.data, !.new = r.new, !.value = value,
                               !.issues = issues, !.stopped = stopped]
  BY DEF Commit, Contexts
<1>3. stopped = (c.stopped \/ r.data = NoData) /\ issues = c.issues \cup r.issues
  OBVIOUS
<1> HIDE DEF value, issues, stopped
<1>4. QED
  BY <1>1, <1>2, <1>3 DEF Contexts

\* The same for an empty text.
LEMMA CommitBlankEffect ==
    \A c \in Contexts :
        /\ CommitBlank(c) \in Contexts
        /\ CommitBlank(c).schema = c.schema /\ CommitBlank(c).prior = c.prior
        /\ CommitBlank(c).data = Blank /\ CommitBlank(c).stopped = c.stopped
<1> SUFFICES ASSUME NEW c \in Contexts
             PROVE  /\ CommitBlank(c) \in Contexts
                    /\ CommitBlank(c).schema = c.schema /\ CommitBlank(c).prior = c.prior
                    /\ CommitBlank(c).data = Blank /\ CommitBlank(c).stopped = c.stopped
  OBVIOUS
<1> DEFINE value   == ValidateData(Blank) = {}
           issues  == c.issues \cup ValidateData(Blank)
<1>1. /\ value \in BOOLEAN /\ issues \in SUBSET Codes /\ Blank \in DataSets
  BY OperatorsKeepFacts, FactsAreData DEF Contexts
<1>2. CommitBlank(c) = [c EXCEPT !.data = Blank, !.new = FALSE, !.value = value, !.issues = issues]
  BY DEF CommitBlank, Contexts
<1> HIDE DEF value, issues
<1>3. QED
  BY <1>1, <1>2 DEF Contexts

\* What is left to show when the extract step goes on, and when it ends.
LEMMA AskingKeeps ==
    ASSUME IInv, run.pc = "extract", run' \in Calls, run'.pc = "extract",
           run'.fresh = run.fresh, run'.text = run.text, run'.earlier = run.earlier,
           run'.ctx = run.ctx,
           UNCHANGED <<turn, tricky, slots, result, ended, objects, judged>>,
           \A n \in DOMAIN run'.replies : ReplyKnown(run'.replies[n]),
           run'.replies = << >> => run'.failed = 1..(run'.provider - 1)
    PROVE  IInv'
<1>1. TypeOK' /\ Remembers' /\ Ending' /\ Idling' /\ Given' = Given
  BY SteppingKeeps
<1>2. Carrying'
  BY <1>1 DEF IInv, Knows, Carrying, RefusedData
<1>3. Extracting'
  <2>1. run'.ctx.data = NoData /\ ~run'.ctx.stopped
    BY DEF IInv, Knows, Extracting
  <2>2. QED
    BY <2>1 DEF Extracting, ReplyKnown, Stated, ReplyValues
<1>4. Knows'
  BY <1>1, <1>2, <1>3 DEF Knows, Routing, Preparing, Unstarted, Finishing
<1>5. QED
  BY <1>1, <1>4 DEF IInv

\* The second half: the extract step ends.
LEMMA CommittingKeeps ==
    ASSUME IInv, run.pc = "extract", run' \in Calls, run'.pc = "finish",
           run'.fresh = run.fresh, run'.text = run.text, run'.earlier = run.earlier,
           run'.ctx.schema = run.ctx.schema, run'.ctx.prior = run.ctx.prior,
           UNCHANGED <<turn, tricky, slots, result, ended, objects, judged>>,
           Stated(run'.ctx.data),
           run'.ctx.stopped <=> run'.ctx.data = NoData,
           run'.ctx.stopped => "parse_error" \in run'.ctx.issues
    PROVE  IInv'
<1>1. TypeOK' /\ Remembers' /\ Ending' /\ Idling' /\ Given' = Given
  BY SteppingKeeps
<1>2. Carrying'
  BY <1>1 DEF IInv, Knows, Carrying, RefusedData
<1>3. Finishing'
  BY DEF Finishing, Stated, ReplyValues
<1>4. Knows'
  BY <1>1, <1>2, <1>3 DEF Knows, Routing, Preparing, Unstarted, Extracting
<1>5. QED
  BY <1>1, <1>4 DEF IInv

\* An empty text is extracted without a model.
LEMMA ExtractBlankKeeps ==
    ASSUME IInv, ExtractBlank
    PROVE  IInv' /\ run'.pc # "idle"
<1> DEFINE ctx == CommitBlank(run.ctx)
<1>1. /\ run.pc = "extract" /\ run.ctx.data = NoData /\ ~run.ctx.stopped
      /\ UNCHANGED <<turn, tricky, slots, result, ended, objects, judged>>
  BY DEF ExtractBlank, Step, IInv, Knows, Extracting
<1>2. /\ ctx \in Contexts /\ ctx.schema = run.ctx.schema /\ ctx.prior = run.ctx.prior
      /\ ctx.data = Blank /\ ~ctx.stopped
  BY <1>1, CallFields, CommitBlankEffect
<1>3. run' = [run EXCEPT !.pc = "finish", !.ctx = ctx]
  BY CallFields DEF ExtractBlank, Step, Calls
<1> HIDE DEF ctx
<1>4. /\ run' \in Calls /\ run'.pc = "finish" /\ run'.fresh = run.fresh /\ run'.text = run.text
      /\ run'.earlier = run.earlier /\ run'.ctx = ctx
  BY <1>2, <1>3, CallFields DEF Calls
<1>5. Blank # NoData /\ Stated(Blank)
  BY OperatorsKeepFacts, FactsAreData DEF Stated, Blank, ReplyValues
<1>6. QED
  BY <1>1, <1>2, <1>4, <1>5, CommittingKeeps

\* What the committed reply makes of the call.
LEMMA CommittedEffect ==
    ASSUME IInv, run.pc = "extract"
    PROVE  \A replies \in Seq(ReplySet) :
               replies # << >> /\ (\A n \in DOMAIN replies : ReplyKnown(replies[n])) =>
                 LET c == Committed(replies)
                 IN  /\ c \in Calls /\ c.pc = "finish" /\ c.fresh = run.fresh /\ c.text = run.text
                     /\ c.earlier = run.earlier /\ c.ctx.schema = run.ctx.schema
                     /\ c.ctx.prior = run.ctx.prior /\ Stated(c.ctx.data)
                     /\ c.ctx.stopped <=> c.ctx.data = NoData
                     /\ c.ctx.stopped => "parse_error" \in c.ctx.issues
                     /\ c.failed = run.failed
<1> SUFFICES ASSUME NEW replies \in Seq(ReplySet), replies # << >>,
                    \A n \in DOMAIN replies : ReplyKnown(replies[n])
             PROVE  LET c == Committed(replies)
                    IN  /\ c \in Calls /\ c.pc = "finish" /\ c.fresh = run.fresh /\ c.text = run.text
                        /\ c.earlier = run.earlier /\ c.ctx.schema = run.ctx.schema
                        /\ c.ctx.prior = run.ctx.prior /\ Stated(c.ctx.data)
                        /\ c.ctx.stopped <=> c.ctx.data = NoData
                        /\ c.ctx.stopped => "parse_error" \in c.ctx.issues
                        /\ c.failed = run.failed
  OBVIOUS
<1> DEFINE reply == ChooseReply(replies)
           ctx   == Commit(run.ctx, reply)
<1>1. reply \in ReplySet /\ ReplyKnown(reply)
  <2>1. PICK n \in DOMAIN replies : reply = replies[n]
    BY ChosenIsOne, Zenon
  <2>2. QED
    BY <2>1
<1> HIDE DEF reply
<1>2. ~run.ctx.stopped
  BY DEF IInv, Knows, Extracting
<1>3. /\ ctx \in Contexts /\ ctx.schema = run.ctx.schema /\ ctx.prior = run.ctx.prior
      /\ ctx.data = reply.data /\ ctx.issues = run.ctx.issues \cup reply.issues
      /\ ctx.stopped <=> reply.data = NoData
  BY <1>1, <1>2, CallFields, CommitEffect
<1>4. Committed(replies) = [run EXCEPT !.provider = 1, !.left = 1 + MaxRetries, !.replies = << >>,
                                       !.pc = "finish", !.ctx = ctx]
  BY CallFields DEF Committed, Asking, Calls, reply
<1> HIDE DEF ctx
<1>5. << >> \in Seq(ReplySet) /\ 1 \in 1..Providers /\ 1 + MaxRetries \in 1..(1 + MaxRetries)
  BY ConversationAssumption
<1> DEFINE c == Committed(replies)
<1>6. /\ c \in Calls /\ c.pc = "finish" /\ c.fresh = run.fresh /\ c.text = run.text
      /\ c.earlier = run.earlier /\ c.ctx = ctx /\ c.failed = run.failed
  BY <1>3, <1>4, <1>5, CallFields DEF Calls
<1>7. QED
  BY <1>1, <1>3, <1>6 DEF ReplyKnown

\* The call when the next provider's turn comes.
LEMMA AskingEffect ==
    ASSUME IInv
    PROVE  \A n \in 1..Providers, replies \in Seq(ReplySet) :
               LET c == Asking(n, replies)
               IN  /\ c \in Calls /\ c.pc = run.pc /\ c.fresh = run.fresh /\ c.text = run.text
                   /\ c.earlier = run.earlier /\ c.ctx = run.ctx /\ c.failed = run.failed
                   /\ c.provider = n /\ c.replies = replies
<1>1. 1 + MaxRetries \in 1..(1 + MaxRetries)
  BY ConversationAssumption
<1>2. QED
  BY <1>1, CallFields DEF Asking, Calls

\* Showing the text to a model changes nothing else.
LEMMA ShownEffect ==
    \A c \in Calls :
        LET d == [c EXCEPT !.shown = TRUE]
        IN  /\ d \in Calls /\ d.pc = c.pc /\ d.fresh = c.fresh /\ d.text = c.text
            /\ d.earlier = c.earlier /\ d.ctx = c.ctx /\ d.failed = c.failed
            /\ d.provider = c.provider /\ d.replies = c.replies
BY DEF Calls

\* Nor does noting that a provider failed.
LEMMA FailedEffect ==
    \A c \in Calls, n \in 1..Providers :
        LET d == [c EXCEPT !.failed = @ \cup {n}, !.shown = TRUE]
        IN  /\ d \in Calls /\ d.pc = c.pc /\ d.fresh = c.fresh /\ d.text = c.text
            /\ d.earlier = c.earlier /\ d.ctx = c.ctx /\ d.failed = c.failed \cup {n}
            /\ d.provider = c.provider /\ d.replies = c.replies
<1> SUFFICES ASSUME NEW c \in Calls, NEW n \in 1..Providers
             PROVE  LET d == [c EXCEPT !.failed = @ \cup {n}, !.shown = TRUE]
                    IN  /\ d \in Calls /\ d.pc = c.pc /\ d.fresh = c.fresh /\ d.text = c.text
                        /\ d.earlier = c.earlier /\ d.ctx = c.ctx /\ d.failed = c.failed \cup {n}
                        /\ d.provider = c.provider /\ d.replies = c.replies
  OBVIOUS
<1> DEFINE failed == c.failed \cup {n}
<1>1. failed \in SUBSET (1..Providers)
  BY DEF Calls
<1>2. [c EXCEPT !.failed = @ \cup {n}, !.shown = TRUE] = [c EXCEPT !.failed = failed, !.shown = TRUE]
  BY DEF Calls
<1> HIDE DEF failed
<1>3. LET d == [c EXCEPT !.failed = failed, !.shown = TRUE]
      IN  /\ d \in Calls /\ d.pc = c.pc /\ d.fresh = c.fresh /\ d.text = c.text
          /\ d.earlier = c.earlier /\ d.ctx = c.ctx /\ d.failed = failed
          /\ d.provider = c.provider /\ d.replies = c.replies
  BY <1>1 DEF Calls
<1>4. QED
  BY <1>2, <1>3 DEF failed

\* One more reply is known like the others.
LEMMA AppendKnown ==
    ASSUME IInv, run.pc = "extract"
    PROVE  \A reply \in Replies :
             /\ Append(run.replies, reply) \in Seq(ReplySet)
             /\ Append(run.replies, reply) # << >>
             /\ \A n \in DOMAIN Append(run.replies, reply) : ReplyKnown(Append(run.replies, reply)[n])
<1> TAKE reply \in Replies
<1>1. reply \in ReplySet /\ ReplyKnown(reply) /\ run.replies \in Seq(ReplySet)
  BY RepliesKnown, CallFields
<1>2. \A n \in DOMAIN run.replies : ReplyKnown(run.replies[n])
  BY DEF IInv, Knows, Extracting
<1> DEFINE r == run.replies
<1> HIDE DEF r
<1>3. \A n \in DOMAIN Append(r, reply) : \/ n \in DOMAIN r /\ Append(r, reply)[n] = r[n]
                                        \/ Append(r, reply)[n] = reply
  BY <1>1 DEF r
<1>4. QED
  BY <1>1, <1>2, <1>3 DEF r

\* A reply is committed, fed back, or left for the next provider.
LEMMA ReceiveKeeps ==
    ASSUME IInv, run.pc = "extract", NEW reply \in Replies, Receive(reply)
    PROVE  IInv' /\ run'.pc # "idle"
<1> DEFINE replies == Append(run.replies, reply)
<1>1. /\ replies \in Seq(ReplySet) /\ replies # << >>
      /\ \A n \in DOMAIN replies : ReplyKnown(replies[n])
  BY AppendKnown
<1> HIDE DEF replies
<1>2. /\ UNCHANGED <<turn, tricky, slots, result, ended, objects, judged>>
      /\ \/ run' = [Committed(replies) EXCEPT !.shown = TRUE]
         \/ run.left > 1 /\ run' = [[run EXCEPT !.left = @ - 1] EXCEPT !.shown = TRUE]
         \/ run.provider # Providers /\ run' = [Asking(run.provider + 1, replies) EXCEPT !.shown = TRUE]
  BY DEF Receive, Step, replies
<1>3. CASE run' = [Committed(replies) EXCEPT !.shown = TRUE]
  <2> DEFINE c == Committed(replies)
  <2>1. /\ c \in Calls /\ c.pc = "finish" /\ c.fresh = run.fresh /\ c.text = run.text
        /\ c.earlier = run.earlier /\ c.ctx.schema = run.ctx.schema
        /\ c.ctx.prior = run.ctx.prior /\ Stated(c.ctx.data)
        /\ c.ctx.stopped <=> c.ctx.data = NoData
        /\ c.ctx.stopped => "parse_error" \in c.ctx.issues
    BY <1>1, CommittedEffect
  <2> HIDE DEF c
  <2>2. /\ run' \in Calls /\ run'.pc = c.pc /\ run'.fresh = c.fresh /\ run'.text = c.text
        /\ run'.earlier = c.earlier /\ run'.ctx = c.ctx
    BY <1>3, <2>1, ShownEffect DEF c
  <2>3. IInv'
    BY <1>2, <2>1, <2>2, CommittingKeeps
  <2>4. QED
    BY <2>1, <2>2, <2>3
<1>4. CASE run.left > 1 /\ run' = [[run EXCEPT !.left = @ - 1] EXCEPT !.shown = TRUE]
  <2> DEFINE left == run.left - 1
             c    == [run EXCEPT !.left = left]
  <2>1. left \in 1..(1 + MaxRetries)
    BY <1>4, CallFields, ConversationAssumption DEF Calls
  <2>2. [run EXCEPT !.left = @ - 1] = c
    BY CallFields DEF Calls
  <2> HIDE DEF left
  <2>3. /\ c \in Calls /\ c.pc = run.pc /\ c.fresh = run.fresh /\ c.text = run.text
        /\ c.earlier = run.earlier /\ c.ctx = run.ctx /\ c.failed = run.failed
        /\ c.provider = run.provider /\ c.replies = run.replies
    BY <2>1, CallFields DEF Calls
  <2> HIDE DEF c
  <2>4. /\ run' \in Calls /\ run'.pc = c.pc /\ run'.fresh = c.fresh /\ run'.text = c.text
        /\ run'.earlier = c.earlier /\ run'.ctx = c.ctx /\ run'.failed = c.failed
        /\ run'.provider = c.provider /\ run'.replies = c.replies
    BY <1>4, <2>2, <2>3, ShownEffect
  <2>5. /\ \A n \in DOMAIN run.replies : ReplyKnown(run.replies[n])
        /\ run.replies = << >> => run.failed = 1..(run.provider - 1)
    BY DEF IInv, Knows, Extracting
  <2>6. IInv'
    BY <1>2, <2>3, <2>4, <2>5, AskingKeeps
  <2>7. QED
    BY <2>3, <2>4, <2>6
<1>5. CASE run.provider # Providers /\ run' = [Asking(run.provider + 1, replies) EXCEPT !.shown = TRUE]
  <2> DEFINE c == Asking(run.provider + 1, replies)
  <2>1. run.provider + 1 \in 1..Providers
    BY <1>5, CallFields, ConversationAssumption
  <2>2. /\ c \in Calls /\ c.pc = run.pc /\ c.fresh = run.fresh /\ c.text = run.text
        /\ c.earlier = run.earlier /\ c.ctx = run.ctx /\ c.replies = replies
    BY <1>1, <2>1, AskingEffect
  <2> HIDE DEF c
  <2>3. /\ run' \in Calls /\ run'.pc = c.pc /\ run'.fresh = c.fresh /\ run'.text = c.text
        /\ run'.earlier = c.earlier /\ run'.ctx = c.ctx /\ run'.replies = c.replies
    BY <1>5, <2>2, ShownEffect DEF c
  <2>4. IInv'
    BY <1>1, <1>2, <2>2, <2>3, AskingKeeps
  <2>5. QED
    BY <2>2, <2>3, <2>4
<1>6. QED
  BY <1>2, <1>3, <1>4, <1>5

\* A provider fails: only the last gives up, and only without any reply.
LEMMA ProviderFailsKeeps ==
    ASSUME IInv, ProviderFails
    PROVE  /\ IInv'
           /\ run'.pc = "idle" => /\ run.failed \cup {run.provider} = 1..Providers
                                 /\ run.replies = << >>
                                 /\ ended' = [how |-> "unavailable", records |-> 1]
<1>1. \/ run.provider < Providers /\ Failing(Asking(run.provider + 1, run.replies))
      \/ run.replies # << >> /\ Failing(Committed(run.replies))
      \/ run.provider >= Providers /\ run.replies = << >> /\ Raise("extract", "unavailable", 1)
  BY CallFields, ConversationAssumption DEF ProviderFails
<1>2. run.pc = "extract"
  BY <1>1 DEF Failing, Step, Raise
<1>3. /\ \A n \in DOMAIN run.replies : ReplyKnown(run.replies[n])
      /\ run.replies = << >> => run.failed = 1..(run.provider - 1)
  BY <1>2 DEF IInv, Knows, Extracting
<1>4. CASE run.provider < Providers /\ Failing(Asking(run.provider + 1, run.replies))
  <2> DEFINE c == Asking(run.provider + 1, run.replies)
  <2>1. run.provider + 1 \in 1..Providers
    BY <1>4, CallFields, ConversationAssumption
  <2>2. /\ c \in Calls /\ c.pc = run.pc /\ c.fresh = run.fresh /\ c.text = run.text
        /\ c.earlier = run.earlier /\ c.ctx = run.ctx /\ c.failed = run.failed
        /\ c.provider = run.provider + 1 /\ c.replies = run.replies
    BY <2>1, CallFields, AskingEffect
  <2>3. /\ run' = [c EXCEPT !.failed = @ \cup {run.provider}, !.shown = TRUE]
        /\ UNCHANGED <<turn, tricky, slots, result, ended, objects, judged>>
    BY <1>4 DEF Failing, Step
  <2> HIDE DEF c
  <2>4. /\ run' \in Calls /\ run'.pc = c.pc /\ run'.fresh = c.fresh /\ run'.text = c.text
        /\ run'.earlier = c.earlier /\ run'.ctx = c.ctx /\ run'.failed = c.failed \cup {run.provider}
        /\ run'.provider = c.provider /\ run'.replies = c.replies
    BY <2>2, <2>3, CallFields, FailedEffect
  <2>5. run'.replies = << >> => run'.failed = 1..(run'.provider - 1)
    <3>1. (1..(run.provider - 1)) \cup {run.provider} = 1..run.provider
      BY CallFields, ConversationAssumption
    <3>2. /\ run'.provider - 1 = run.provider /\ run'.replies = run.replies
          /\ run'.failed = run.failed \cup {run.provider}
      BY <2>2, <2>4, CallFields, ConversationAssumption
    <3>3. run.replies = << >> => run'.failed = 1..run.provider
      BY <1>3, <3>1, <3>2
    <3>4. QED
      BY <3>2, <3>3
  <2>6. IInv'
    BY <1>2, <1>3, <2>2, <2>3, <2>4, <2>5, AskingKeeps
  <2>7. QED
    BY <1>2, <2>2, <2>4, <2>6
<1>5. CASE run.replies # << >> /\ Failing(Committed(run.replies))
  <2> DEFINE c == Committed(run.replies)
  <2>1. /\ c \in Calls /\ c.pc = "finish" /\ c.fresh = run.fresh /\ c.text = run.text
        /\ c.earlier = run.earlier /\ c.ctx.schema = run.ctx.schema
        /\ c.ctx.prior = run.ctx.prior /\ Stated(c.ctx.data)
        /\ c.ctx.stopped <=> c.ctx.data = NoData
        /\ c.ctx.stopped => "parse_error" \in c.ctx.issues
    BY <1>2, <1>3, <1>5, CallFields, CommittedEffect
  <2>2. /\ run' = [c EXCEPT !.failed = @ \cup {run.provider}, !.shown = TRUE]
        /\ UNCHANGED <<turn, tricky, slots, result, ended, objects, judged>>
    BY <1>5 DEF Failing, Step
  <2> HIDE DEF c
  <2>3. /\ run' \in Calls /\ run'.pc = c.pc /\ run'.fresh = c.fresh /\ run'.text = c.text
        /\ run'.earlier = c.earlier /\ run'.ctx = c.ctx
    BY <2>1, <2>2, CallFields, FailedEffect
  <2>4. IInv'
    BY <1>2, <2>1, <2>2, <2>3, CommittingKeeps
  <2>5. QED
    BY <2>1, <2>3, <2>4
<1>6. CASE run.provider >= Providers /\ run.replies = << >> /\ Raise("extract", "unavailable", 1)
  <2>1. IInv' /\ ended' = [how |-> "unavailable", records |-> 1]
    BY <1>6, RaiseKeeps
  <2>2. run.provider = Providers
    BY <1>6, CallFields, ConversationAssumption
  <2>3. (1..(Providers - 1)) \cup {Providers} = 1..Providers
    BY ConversationAssumption
  <2>4. QED
    BY <1>3, <1>6, <2>1, <2>2, <2>3
<1>7. QED
  BY <1>1, <1>4, <1>5, <1>6

\* No result is complete without data that could be parsed and were let pass.
LEMMA StatusEffect ==
    \A issues \in SUBSET Codes :
        /\ StatusFromIssues(issues) \in {"blocked", "failed", "invalid", "needs_clarification", "complete"}
        /\ issues \cap {"refused", "parse_error"} # {} => StatusFromIssues(issues) # "complete"
<1> SUFFICES ASSUME NEW issues \in SUBSET Codes
             PROVE  /\ StatusFromIssues(issues) \in
                          {"blocked", "failed", "invalid", "needs_clarification", "complete"}
                    /\ issues \cap {"refused", "parse_error"} # {} => StatusFromIssues(issues) # "complete"
  OBVIOUS
<1> DEFINE kinds == {KindOf[i] : i \in issues}
<1>1. StatusFromIssues(issues) =
          CASE "blocked" \in kinds -> "blocked"
            [] "blocked" \notin kinds /\ "retryable" \in kinds -> "failed"
            [] kinds \cap {"blocked", "retryable"} = {} /\ "invalid" \in kinds -> "invalid"
            [] kinds = {"needs_clarification"} -> "needs_clarification"
            [] OTHER -> "complete"
  BY DEF StatusFromIssues
<1>2. "refused" \in issues => "blocked" \in kinds
  BY DEF KindOf
<1>3. "parse_error" \in issues => "retryable" \in kinds
  BY DEF KindOf
<1> HIDE DEF kinds
<1>4. QED
  BY <1>1, <1>2, <1>3

\* Slot filling takes the data over, with the earlier object or without.
LEMMA FillEffect ==
    \A c \in Contexts : c.data # NoData =>
        LET d == FillSlots(c)
        IN  /\ d \in Contexts /\ d.new = c.new
            /\ c.prior = NoData => d.data = c.data /\ d.prior = NoData
            /\ c.prior # NoData /\ c.new => d.data = c.data /\ d.prior = NoData
            /\ c.prior # NoData /\ ~c.new => d.data = Merge(c.prior, c.data) /\ d.prior = c.prior
<1> SUFFICES ASSUME NEW c \in Contexts, c.data # NoData
             PROVE  LET d == FillSlots(c)
                    IN  /\ d \in Contexts /\ d.new = c.new
                        /\ c.prior = NoData => d.data = c.data /\ d.prior = NoData
                        /\ c.prior # NoData /\ c.new => d.data = c.data /\ d.prior = NoData
                        /\ c.prior # NoData /\ ~c.new =>
                              d.data = Merge(c.prior, c.data) /\ d.prior = c.prior
  OBVIOUS
<1>1. CASE c.prior = NoData
  BY <1>1 DEF FillSlots
<1>2. CASE c.prior # NoData /\ c.new
  <2>1. FillSlots(c) = [c EXCEPT !.prior = NoData]
    BY <1>2 DEF FillSlots
  <2>2. [c EXCEPT !.prior = NoData] \in Contexts /\ [c EXCEPT !.prior = NoData].data = c.data
        /\ [c EXCEPT !.prior = NoData].prior = NoData /\ [c EXCEPT !.prior = NoData].new = c.new
    BY FactsAreData DEF Contexts
  <2>3. QED
    BY <1>2, <2>1, <2>2
<1>3. CASE c.prior # NoData /\ ~c.new
  <2> DEFINE merged == Merge(c.prior, c.data)
             value  == ValidateData(merged) = {}
             issues == (c.issues \ SchemaCodes) \cup ValidateData(merged)
             d      == [c EXCEPT !.data = merged, !.value = value, !.issues = issues]
  <2>1. FillSlots(c) = d
    BY <1>3 DEF FillSlots, Contexts
  <2>2. merged \in DataSets
    BY <1>3, FactsAreData, OperatorsKeepFacts DEF Contexts
  <2>3. value \in BOOLEAN /\ issues \in SUBSET Codes
    BY OperatorsKeepFacts DEF Contexts
  <2> HIDE DEF merged, value, issues
  <2>4. d \in Contexts /\ d.data = merged /\ d.prior = c.prior /\ d.new = c.new
    BY <2>2, <2>3 DEF Contexts
  <2>5. QED
    BY <1>3, <2>1, <2>4 DEF merged
<1>4. QED
  BY <1>1, <1>2, <1>3

\* Evidence and validation add issues only.
LEMMA CheckEffect ==
    \A c \in Contexts, quoted \in SUBSET Fields, found \in SUBSET {"rule", "ask"} :
        LET d == Validate(CheckEvidence(c, quoted), found)
        IN  d \in Contexts /\ d.new = c.new /\ d.data = c.data /\ d.prior = c.prior
<1> SUFFICES ASSUME NEW c \in Contexts, NEW quoted \in SUBSET Fields, NEW found \in SUBSET {"rule", "ask"}
             PROVE  LET d == Validate(CheckEvidence(c, quoted), found)
                    IN  d \in Contexts /\ d.new = c.new /\ d.data = c.data /\ d.prior = c.prior
  OBVIOUS
<1>1. \A b \in Contexts, more \in SUBSET Codes :
         LET d == [b EXCEPT !.issues = @ \cup more]
         IN  d \in Contexts /\ d.new = b.new /\ d.data = b.data /\ d.prior = b.prior
  <2> TAKE b \in Contexts, more \in SUBSET Codes
  <2> DEFINE issues == b.issues \cup more
  <2>1. issues \in SUBSET Codes
    BY DEF Contexts
  <2>2. [b EXCEPT !.issues = @ \cup more] = [b EXCEPT !.issues = issues]
    BY DEF Contexts
  <2> HIDE DEF issues
  <2>3. LET d == [b EXCEPT !.issues = issues]
        IN  d \in Contexts /\ d.new = b.new /\ d.data = b.data /\ d.prior = b.prior
    BY <2>1 DEF Contexts
  <2>4. QED
    BY <2>2, <2>3
<1> DEFINE e == CheckEvidence(c, quoted)
<1>2. e \in Contexts /\ e.new = c.new /\ e.data = c.data /\ e.prior = c.prior
  <2>1. {"ungrounded"} \in SUBSET Codes
    BY CodesAre
  <2>2. e = c \/ e = [c EXCEPT !.issues = @ \cup {"ungrounded"}]
    BY DEF CheckEvidence
  <2>3. QED
    BY <1>1, <2>1, <2>2
<1> HIDE DEF e
<1>3. Validate(e, found) = e \/ Validate(e, found) = [e EXCEPT !.issues = @ \cup found]
  BY DEF Validate
<1>4. found \in SUBSET Codes
  BY CodesAre
<1>5. LET d == Validate(e, found)
      IN  d \in Contexts /\ d.new = c.new /\ d.data = c.data /\ d.prior = c.prior
  BY <1>1, <1>2, <1>3, <1>4
<1>6. QED
  BY <1>5 DEF e

\* What the caller gave was held before, and is still vouched for.
LEMMA GivenIsKnown ==
    ASSUME IInv
    PROVE  \A s \in Schemas : Given[s] # NoData =>
             /\ Given[s] \in Facts
             /\ \A f \in Fields :
                   /\ Given[s][f] \in {Null, Bad} \cup ObjectsSoFar[s]
                   /\ Given[s][f] # Null => <<f, Given[s][f]>> \in judged
<1> TAKE s \in Schemas
<1> HAVE Given[s] # NoData
<1>1. ~run.fresh /\ Given[s] = Held[s]
  BY DEF Given, Held, Nothing
<1>2. ObjectsSoFar = objects
  BY <1>1 DEF ObjectsSoFar
<1>3. Given[s] \in Facts
  BY CallFields, FactsAreData
<1>4. QED
  BY <1>1, <1>2, <1>3 DEF IInv, Remembers, NoValueOfAnotherObject, HeldIsJudged

\* A call that has returned leaves nothing behind but its result.
LEMMA ReturningKeeps ==
    ASSUME IInv, run.pc # "idle", run' = Idle, result' \in Results,
           ended' = [how |-> "returned", records |-> ended.records + 1],
           objects' \in [Schemas -> SUBSET Values], judged' \subseteq Fields \X Values,
           UNCHANGED <<turn, tricky, slots>>
    PROVE  TypeOK' /\ Knows'
<1>1. ended' = [how |-> "returned", records |-> 1]
  BY DEF IInv, Knows, Ending, NotEnded
<1>2. TypeOK'
  BY <1>1, StartTyped DEF IInv, TypeOK
<1>3. run'.pc = "idle" /\ ~run'.shown
  BY DEF Idle
<1>4. Knows'
  BY <1>3 DEF Knows, Ending, Idling, Routing, Preparing, Unstarted, Carrying, Extracting, Finishing
<1>5. QED
  BY <1>2, <1>4

\* The router ends the call itself: all that was given is given back.
LEMMA RouteEndsKeeps ==
    ASSUME IInv, NEW status \in {"blocked", "no_match"}, RouteEnds(status)
    PROVE  IInv' /\ Held' = Given
<1>1. /\ run.pc = "route" /\ run' = Idle
      /\ result' = [NoResult EXCEPT !.status = status, !.earlier = run.earlier]
      /\ ended' = [how |-> "returned", records |-> ended.records + 1]
      /\ objects' = ObjectsSoFar
      /\ UNCHANGED <<turn, tricky, slots, judged>>
  BY DEF RouteEnds, Return
<1>2. run.earlier = Given /\ Given \in [Schemas -> DataSets]
  BY <1>1, CallFields DEF IInv, Knows, Routing
<1>3. result' = [status |-> status, schema |-> None, data |-> NoData, earlier |-> Given]
  BY <1>1, <1>2 DEF NoResult
<1>4. result' \in Results
  BY <1>2, <1>3, FactsAreData DEF Results
<1>5. objects' \in [Schemas -> SUBSET Values] /\ judged' \subseteq Fields \X Values
  BY <1>1 DEF IInv, TypeOK, ObjectsSoFar
<1>6. TypeOK' /\ Knows'
  BY <1>1, <1>4, <1>5, ReturningKeeps
<1>7. Held' = Given
  <2>1. Held' = [s \in Schemas |-> Given[s]]
    BY <1>3, ConversationAssumption DEF Held, Earlier
  <2>2. QED
    BY <1>2, <2>1
<1>8. Remembers'
  BY <1>1, <1>3, <1>7, GivenIsKnown
     DEF Remembers, NoValueOfAnotherObject, HeldIsJudged, CompleteHasData
<1>9. QED
  BY <1>6, <1>7, <1>8 DEF IInv

\* The body of EarlierDataIsKept.
DataIsKept ==
    \A s \in Schemas :
          \/ Held'[s] = Given[s]
          \/ /\ result'.schema = s
             /\ \/ run.ctx.new \/ Given[s] = NoData \/ result'.data = NoData
                \/ \A f \in Fields : Given[s][f] \in {Null, Bad}
                                   \/ result'.data[f] \in {Given[s][f], turn, Bad}

\* The data a result gets: the reply's, or the reply's over the earlier.
LEMMA FinishedData ==
    ASSUME IInv, run.pc = "finish", run.ctx.data # NoData, NEW quoted \in SUBSET Fields,
           NEW found \in SUBSET {"rule", "ask"}
    PROVE  LET s    == run.ctx.schema
               fill == IF s \in slots THEN FillSlots(run.ctx) ELSE run.ctx
               c    == Validate(CheckEvidence(fill, quoted), found)
           IN  /\ c \in Contexts /\ c.new = run.ctx.new
               /\ \/ /\ c.data = run.ctx.data /\ c.prior = NoData
                     /\ run.ctx.new \/ Given[s] = NoData
                  \/ /\ Given[s] # NoData /\ ~run.ctx.new /\ c.prior = DropInvalid(Given[s])
                     /\ c.data = Merge(c.prior, run.ctx.data)
<1> DEFINE s    == run.ctx.schema
           fill == IF s \in slots THEN FillSlots(run.ctx) ELSE run.ctx
           c    == Validate(CheckEvidence(fill, quoted), found)
<1>1. /\ s \in Schemas /\ (Given[s] # NoData => s \in slots)
      /\ run.ctx.prior = IF Given[s] = NoData THEN NoData ELSE DropInvalid(Given[s])
  BY DEF IInv, Knows, Carrying
<1>2. Given[s] # NoData => DropInvalid(Given[s]) # NoData
  <2>1. Given[s] \in DataSets
    BY <1>1, CallFields
  <2>2. QED
    BY <2>1, FactsAreData, OperatorsKeepFacts
<1>3. run.ctx \in Contexts
  BY CallFields
<1>4. /\ fill \in Contexts /\ fill.new = run.ctx.new
      /\ \/ /\ fill.data = run.ctx.data /\ fill.prior = NoData
            /\ run.ctx.new \/ Given[s] = NoData
         \/ /\ Given[s] # NoData /\ ~run.ctx.new /\ fill.prior = DropInvalid(Given[s])
            /\ fill.data = Merge(fill.prior, run.ctx.data)
  <2>1. CASE Given[s] = NoData
    <3>1. run.ctx.prior = NoData
      BY <1>1, <2>1
    <3>2. LET d == FillSlots(run.ctx)
          IN  d \in Contexts /\ d.new = run.ctx.new /\ d.data = run.ctx.data /\ d.prior = NoData
      BY <1>3, <3>1, FillEffect
    <3>3. QED
      BY <1>3, <2>1, <3>1, <3>2
  <2>2. CASE Given[s] # NoData
    <3>1. fill = FillSlots(run.ctx) /\ run.ctx.prior = DropInvalid(Given[s]) /\ run.ctx.prior # NoData
      BY <1>1, <1>2, <2>2
    <3> HIDE DEF fill
    <3>2. CASE run.ctx.new
      <4>1. fill \in Contexts /\ fill.new = run.ctx.new /\ fill.data = run.ctx.data /\ fill.prior = NoData
        BY <1>3, <3>1, <3>2, FillEffect
      <4>2. QED
        BY <3>2, <4>1
    <3>3. CASE ~run.ctx.new
      <4>1. /\ fill \in Contexts /\ fill.new = run.ctx.new /\ fill.prior = run.ctx.prior
            /\ fill.data = Merge(run.ctx.prior, run.ctx.data)
        BY <1>3, <3>1, <3>3, FillEffect
      <4>2. QED
        BY <2>2, <3>1, <3>3, <4>1
    <3>4. QED
      BY <3>2, <3>3
  <2>3. QED
    BY <2>1, <2>2
<1> HIDE DEF fill
<1>5. c \in Contexts /\ c.new = fill.new /\ c.data = fill.data /\ c.prior = fill.prior
  BY <1>4, CheckEffect
<1> HIDE DEF c
<1>6. /\ c \in Contexts /\ c.new = run.ctx.new
      /\ \/ /\ c.data = run.ctx.data /\ c.prior = NoData
            /\ run.ctx.new \/ Given[s] = NoData
         \/ /\ Given[s] # NoData /\ ~run.ctx.new /\ c.prior = DropInvalid(Given[s])
            /\ c.data = Merge(c.prior, run.ctx.data)
  BY <1>4, <1>5
<1>7. QED
  BY <1>6 DEF c, fill

\* The steps after extract, and the result.
LEMMA FinishKeeps ==
    ASSUME IInv, run.pc = "finish", NEW quoted \in SUBSET Fields,
           NEW found \in SUBSET {"rule", "ask"}, Finish(quoted, found)
    PROVE  IInv' /\ DataIsKept
<1> DEFINE s    == run.ctx.schema
           said == IF run.ctx.data = NoData THEN {} ELSE {run.ctx.data[f] : f \in Fields}
           fill == IF s \in slots THEN FillSlots(run.ctx) ELSE run.ctx
           c    == IF run.ctx.stopped THEN run.ctx
                   ELSE Validate(CheckEvidence(fill, quoted), found)
           judgedNow == {<<f, c.data[f]>> :
                           f \in {f \in Fields : Report(c, quoted, f) \in {"source", "ungrounded"}}}
           over == c.new \/ c.data = NoData \/ run.ctx.prior = NoData
           stated == IF over THEN said ELSE ObjectsSoFar[s] \cup said
<1>1. /\ s \in Schemas /\ run.earlier = [Given EXCEPT ![s] = NoData]
      /\ run.ctx.prior = IF Given[s] = NoData THEN NoData ELSE DropInvalid(Given[s])
      /\ Stated(run.ctx.data) /\ (run.ctx.stopped <=> run.ctx.data = NoData)
      /\ run.ctx.stopped => run.ctx.issues \cap {"refused", "parse_error"} # {}
  BY DEF IInv, Knows, Carrying, Finishing
<1>2. Given \in [Schemas -> DataSets] /\ run.ctx \in Contexts /\ ObjectsSoFar \in [Schemas -> SUBSET Values]
  BY CallFields DEF IInv, TypeOK, ObjectsSoFar
<1>3. /\ run' = Idle
      /\ result' = [status |-> StatusFromIssues(c.issues), schema |-> s, data |-> c.data,
                    earlier |-> run.earlier]
      /\ ended' = [how |-> "returned", records |-> ended.records + 1]
      /\ UNCHANGED <<turn, tricky, slots>>
      /\ judged' = judged \cup judgedNow
  BY DEF Finish, Return
<1>4. objects' = [ObjectsSoFar EXCEPT ![s] = stated]
  BY <1>1, <1>2 DEF Finish
<1>5. \/ /\ c = run.ctx /\ c.data = NoData
         /\ c.issues \cap {"refused", "parse_error"} # {}
      \/ /\ run.ctx.data # NoData /\ c \in Contexts /\ c.new = run.ctx.new
         /\ \/ /\ c.data = run.ctx.data /\ c.prior = NoData
               /\ run.ctx.new \/ Given[s] = NoData
            \/ /\ Given[s] # NoData /\ ~run.ctx.new /\ c.prior = DropInvalid(Given[s])
               /\ c.data = Merge(c.prior, run.ctx.data)
  <2>1. CASE run.ctx.stopped
    BY <1>1, <2>1
  <2>2. CASE ~run.ctx.stopped
    <3>1. run.ctx.data # NoData
      BY <1>1, <2>2
    <3>2. c = Validate(CheckEvidence(fill, quoted), found)
      BY <2>2
    <3> HIDE DEF c
    <3>3. QED
      BY <3>1, <3>2, FinishedData
  <2>3. QED
    BY <2>1, <2>2
<1>6. c \in Contexts
  BY <1>2, <1>5
<1> HIDE DEF fill, c, s
<1>7. run.ctx.data # NoData => /\ run.ctx.data \in Facts
                              /\ \A f \in Fields : run.ctx.data[f] \in said
  BY <1>2, FactsAreData DEF Contexts
<1>8. said \subseteq Values
  <2>1. run.ctx.data # NoData => run.ctx.data \in [Fields -> Values]
    BY <1>7 DEF Facts
  <2>2. QED
    BY <2>1
<1>9. \A f \in Fields : c.data # NoData => c.data[f] \in Values
  <2>1. c.data # NoData => c.data \in Facts
    BY <1>6, FactsAreData DEF Contexts
  <2>2. QED
    BY <2>1 DEF Facts
<1>10. judgedNow \subseteq Fields \X Values
  <2>1. \A f \in Fields : Report(c, quoted, f) \in {"source", "ungrounded"} => c.data # NoData
    BY DEF Report
  <2>2. QED
    BY <1>9, <2>1
<1>11. TypeOK' /\ Knows'
  <2>1. result' \in Results
    <3>1. c.issues \in SUBSET Codes /\ c.data \in DataSets
      BY <1>6 DEF Contexts
    <3>2. run.earlier \in [Schemas -> DataSets]
      BY CallFields
    <3>3. QED
      BY <1>1, <1>3, <3>1, <3>2, StatusEffect DEF Results
  <2>2. objects' \in [Schemas -> SUBSET Values]
    BY <1>1, <1>2, <1>4, <1>8
  <2>3. judged' \subseteq Fields \X Values
    BY <1>3, <1>10 DEF IInv, TypeOK
  <2>4. run.pc # "idle"
    OBVIOUS
  <2>5. QED
    BY <1>3, <2>1, <2>2, <2>3, <2>4, ReturningKeeps
<1>12. \A q \in Schemas : q # s => Held'[q] = Given[q] /\ objects'[q] = ObjectsSoFar[q]
  BY <1>1, <1>2, <1>3, <1>4 DEF Held, Earlier
<1>13. Held'[s] = c.data /\ result'.schema = s /\ result'.data = c.data
  BY <1>1, <1>2, <1>3 DEF Held, Earlier
<1>14. objects'[s] = stated
  BY <1>1, <1>2, <1>4
<1>15. \A f \in Fields : c.data # NoData /\ c.data[f] # Null =>
           \/ <<f, c.data[f]>> \in judgedNow
           \/ c.prior # NoData /\ c.prior[f] = c.data[f]
  BY DEF Report, Carried
<1>16. judged' = judged \cup judgedNow
  BY <1>3
<1>17. over => stated = said
  OBVIOUS
<1>18. ~over => stated = ObjectsSoFar[s] \cup said
  OBVIOUS
<1> HIDE DEF said, judgedNow, stated
<1>19. \A q \in Schemas : q # s /\ Held'[q] # NoData =>
           \A f \in Fields : /\ Held'[q][f] \in {Null, Bad} \cup objects'[q]
                             /\ Held'[q][f] # Null => <<f, Held'[q][f]>> \in judged'
  BY <1>12, <1>16, GivenIsKnown
<1>20. ASSUME c.data # NoData =>
                \A f \in Fields : /\ c.data[f] \in {Null, Bad} \cup objects'[s]
                                  /\ c.data[f] # Null => <<f, c.data[f]>> \in judged',
              StatusFromIssues(c.issues) = "complete" => c.data # NoData
       PROVE  Remembers'
  <2>1. \A q \in Schemas : Held'[q] # NoData =>
           \A f \in Fields : /\ Held'[q][f] \in {Null, Bad} \cup objects'[q]
                             /\ Held'[q][f] # Null => <<f, Held'[q][f]>> \in judged'
    BY <1>13, <1>19, <1>20
  <2>2. NoValueOfAnotherObject' /\ HeldIsJudged'
    BY <2>1 DEF NoValueOfAnotherObject, HeldIsJudged
  <2>3. result'.status = StatusFromIssues(c.issues)
    BY <1>3
  <2>4. CompleteHasData'
    BY <1>1, <1>13, <1>20, <2>3 DEF CompleteHasData
  <2>5. QED
    BY <2>2, <2>4 DEF Remembers
<1>21. CASE c = run.ctx /\ c.data = NoData /\ c.issues \cap {"refused", "parse_error"} # {}
  <2>1. StatusFromIssues(c.issues) # "complete"
    BY <1>6, <1>21, StatusEffect DEF Contexts
  <2>2. Remembers'
    BY <1>21, <1>20, <2>1
  <2>3. DataIsKept
    BY <1>12, <1>13, <1>21 DEF DataIsKept
  <2>4. QED
    BY <1>11, <2>2, <2>3 DEF IInv
<1>22. CASE /\ run.ctx.data # NoData /\ c.new = run.ctx.new /\ c.data = run.ctx.data
            /\ c.prior = NoData /\ (run.ctx.new \/ Given[s] = NoData)
  <2>1. stated = said
    BY <1>1, <1>22, <1>17
  <2>2. /\ \A f \in Fields : c.data[f] \in objects'[s]
        /\ \A f \in Fields : c.data[f] # Null => <<f, c.data[f]>> \in judged'
    <3>1. c.data # NoData /\ \A f \in Fields : c.data[f] \in said
      BY <1>7, <1>22
    <3>2. \A f \in Fields : c.data[f] # Null => <<f, c.data[f]>> \in judgedNow
      BY <1>15, <1>22, <3>1
    <3>3. QED
      BY <1>14, <1>16, <2>1, <3>1, <3>2
  <2>3. Remembers'
    BY <1>22, <1>20, <2>2
  <2>4. DataIsKept
    BY <1>12, <1>13, <1>22 DEF DataIsKept
  <2>5. QED
    BY <1>11, <2>3, <2>4 DEF IInv
<1>23. CASE /\ run.ctx.data # NoData /\ c.new = run.ctx.new
            /\ Given[s] # NoData /\ ~run.ctx.new /\ c.prior = DropInvalid(Given[s])
            /\ c.data = Merge(c.prior, run.ctx.data)
  <2>1. Given[s] \in Facts /\ run.ctx.prior = DropInvalid(Given[s]) /\ DropInvalid(Given[s]) \in Facts
    BY <1>1, <1>23, GivenIsKnown, OperatorsKeepFacts
  <2>2. c.data \in Facts /\ c.data # NoData
    BY <1>7, <1>23, <2>1, FactsAreData, OperatorsKeepFacts
  <2>3. run.ctx.prior # NoData /\ stated = ObjectsSoFar[s] \cup said
    BY <1>23, <1>18, <2>1, <2>2, FactsAreData
  <2>4. \A f \in Fields : /\ c.prior[f] = IF Given[s][f] = Bad THEN Null ELSE Given[s][f]
                          /\ c.data[f] = IF run.ctx.data[f] = Null THEN c.prior[f] ELSE run.ctx.data[f]
    BY <1>23 DEF DropInvalid, Merge
  <2>5. \A f \in Fields : /\ Given[s][f] \in {Null, Bad} \cup ObjectsSoFar[s]
                          /\ Given[s][f] # Null => <<f, Given[s][f]>> \in judged
    BY <1>1, <1>23, GivenIsKnown
  <2>6. \A f \in Fields : c.data[f] \in {Null, Bad} \cup objects'[s]
    <3>1. \A f \in Fields : run.ctx.data[f] \in said
      BY <1>7, <1>23
    <3>2. QED
      BY <1>14, <2>3, <2>4, <2>5, <3>1
  <2>7. \A f \in Fields : c.data[f] # Null => <<f, c.data[f]>> \in judged'
    <3>1. \A f \in Fields : c.prior[f] # Null => Given[s][f] = c.prior[f]
      BY <2>4
    <3>2. QED
      BY <1>15, <1>16, <2>2, <2>5, <3>1
  <2>8. Remembers'
    BY <1>20, <2>2, <2>6, <2>7
  <2>9. \A f \in Fields : Given[s][f] \in {Null, Bad} \/ c.data[f] \in {Given[s][f], turn, Bad}
    <3>1. \A f \in Fields : run.ctx.data[f] \in {Null, Bad, turn, run.ctx.prior[f]}
      BY <1>1, <1>23 DEF Stated, ReplyValues
    <3>2. QED
      BY <1>23, <2>1, <2>4, <3>1
  <2>10. DataIsKept
    BY <1>12, <1>13, <2>9 DEF DataIsKept
  <2>11. QED
    BY <1>11, <2>8, <2>10 DEF IInv
<1>24. QED
  BY <1>5, <1>21, <1>22, <1>23

-----------------------------------------------------------------------------
\* What a step of the call does to what the caller holds.
StepKeeps ==
    /\ IInv'
    /\ Returns => DataIsKept
    /\ run.pc = "extract" /\ run'.pc = "idle" =>
          /\ ended'.records = 1
          /\ \/ ended'.how = "component"
             \/ /\ ended'.how = "unavailable" /\ run.replies = << >>
                /\ run.failed \cup {run.provider} = 1..Providers

\* Every step.
LEMMA NextKeeps == IInv /\ [Next]_vars => StepKeeps
<1> SUFFICES ASSUME IInv, [Next]_vars
             PROVE  StepKeeps
  OBVIOUS
<1>1. CASE UNCHANGED vars
  <2>1. TypeOK'
    BY <1>1 DEF IInv, TypeOK, vars
  <2>2. Knows'
    BY <1>1 DEF IInv, vars, Knows, Ending, Idling, Routing, Preparing, Unstarted, Carrying,
                Extracting, Finishing, Given, Earlier, Screened, RefusedData, ReplyKnown, Stated,
                ReplyValues
  <2>3. Remembers'
    BY <1>1, WaitingKeeps DEF vars
  <2>4. QED
    BY <1>1, <2>1, <2>2, <2>3 DEF IInv, vars, StepKeeps, Returns
<1>2. ASSUME NEW k \in Kinds, Send(k, result) \/ Send(k, NoResult)
      PROVE  StepKeeps
  <2>1. IInv'
    <3>1. CASE Send(k, result)
      BY <3>1, SendKeeps
    <3>2. CASE Send(k, NoResult)
      BY <3>2, SendKeeps
    <3>3. QED
      BY <1>2, <3>1, <3>2
  <2>2. run.pc = "idle"
    BY <1>2 DEF Send
  <2>3. QED
    BY <2>1, <2>2 DEF StepKeeps, Returns
<1>3. ASSUME NEW s \in Schemas, ToggleSlotFilling(s)
      PROVE  StepKeeps
  <2>1. IInv' /\ run.pc = "idle"
    BY <1>3, ToggleKeeps DEF ToggleSlotFilling
  <2>2. QED
    BY <2>1 DEF StepKeeps, Returns
<1>4. ASSUME NEW s \in Schemas, RouteByKeyword(s) \/ RouteByModel(s)
      PROVE  StepKeeps
  BY <1>4, RouteKeeps DEF StepKeeps, Returns
<1>5. CASE RouteCrashes
  <2>1. IInv' /\ ended' = [how |-> "component", records |-> 0] /\ run.pc = "route"
    BY <1>5, RaiseKeeps DEF RouteCrashes, Raise
  <2>2. QED
    BY <2>1 DEF StepKeeps, Returns
<1>6. CASE RouteFails
  <2>1. IInv' /\ ended' = [how |-> "unavailable", records |-> 0] /\ run.pc = "route"
    BY <1>6, RaiseKeeps DEF RouteFails, Raise
  <2>2. QED
    BY <2>1 DEF StepKeeps, Returns
<1>7. ASSUME NEW status \in {"blocked", "no_match"}, RouteEnds(status)
      PROVE  StepKeeps
  <2>1. IInv' /\ Held' = Given /\ run.pc = "route"
    BY <1>7, RouteEndsKeeps DEF RouteEnds, Return
  <2>2. QED
    BY <2>1 DEF StepKeeps, DataIsKept
<1>8. CASE Prepare
  BY <1>8, PrepareKeeps DEF StepKeeps, Returns, Prepare, Unwanted
<1>9. CASE ExtractBlank
  BY <1>9, ExtractBlankKeeps DEF StepKeeps, Returns
<1>10. CASE ProviderFails
  <2>1. IInv' /\ (run'.pc = "idle" => run.failed \cup {run.provider} = 1..Providers
                                     /\ run.replies = << >>
                                     /\ ended' = [how |-> "unavailable", records |-> 1])
    BY <1>10, ProviderFailsKeeps
  <2>2. QED
    BY <2>1 DEF StepKeeps, Returns
<1>11. CASE StepCrashes
  <2>1. PICK from \in {"finish", "prepare"} : Raise(from, "component", 1)
    BY <1>11 DEF StepCrashes
  <2>2. IInv' /\ ended' = [how |-> "component", records |-> 1]
    BY <2>1, RaiseKeeps
  <2>3. run.pc = from
    BY <2>1 DEF Raise
  <2>4. QED
    BY <2>2, <2>3 DEF StepKeeps, Returns
<1>12. ASSUME run.pc = "extract", NEW reply \in Replies, Receive(reply)
       PROVE  StepKeeps
  BY <1>12, ReceiveKeeps DEF StepKeeps, Returns
<1>13. ASSUME run.pc = "finish", NEW quoted \in SUBSET Fields, NEW found \in SUBSET {"rule", "ask"},
              Finish(quoted, found)
       PROVE  StepKeeps
  BY <1>13, FinishKeeps DEF StepKeeps
<1>14. CASE ProviderCrashes
  <2>1. Raise("extract", "component", 1)
    BY <1>14 DEF ProviderCrashes
  <2>2. IInv' /\ ended' = [how |-> "component", records |-> 1]
    BY <2>1, RaiseKeeps
  <2>3. QED
    BY <2>2 DEF StepKeeps, Returns
<1>15. QED
  BY <1>1, <1>2, <1>3, <1>4, <1>5, <1>6, <1>7, <1>8, <1>9, <1>10, <1>11, <1>12, <1>13, <1>14 DEF Next

\* The inductive invariant holds throughout.
THEOREM Invariance == Spec => []IInv
<1>1. IInv /\ [Next]_vars => IInv'
  BY NextKeeps DEF StepKeeps
<1>2. QED
  BY <1>1, InitIInv, PTL DEF Spec

\* Calls, results and histories keep their types.
THEOREM TypeCorrect == Spec => []TypeOK
<1>1. IInv => TypeOK
  BY DEF IInv
<1>2. QED
  BY <1>1, Invariance, PTL

\* No value of one object leaks into another, whichever schemas came between.
THEOREM NoLeakTheorem == Spec => []NoValueOfAnotherObject
<1>1. IInv => NoValueOfAnotherObject
  BY DEF IInv, Remembers
<1>2. QED
  BY <1>1, Invariance, PTL

\* A complete result states no value whose evidence was never looked for.
THEOREM JudgedTheorem == Spec => []CompleteIsJudged
<1>1. IInv => CompleteIsJudged
  <2> SUFFICES ASSUME IInv, result.status = "complete"
               PROVE  \A f \in Fields : result.data[f] # Null => <<f, result.data[f]>> \in judged
    BY DEF CompleteIsJudged
  <2>1. result.schema \in Schemas /\ result.data # NoData
    BY DEF IInv, Remembers, CompleteHasData
  <2>2. Held[result.schema] = result.data
    BY <2>1 DEF Held, Earlier
  <2>3. QED
    BY <2>1, <2>2 DEF IInv, Remembers, HeldIsJudged
<1>2. QED
  BY <1>1, Invariance, PTL

\* A model sees neither a text nor an earlier value that the guard refuses.
THEOREM RefusedTheorem == Spec => []RefusedIsNotShown
<1>1. IInv => RefusedIsNotShown
  <2> SUFFICES ASSUME IInv, run.shown
               PROVE  run.text # "refused" /\ ~RefusedData(run.ctx.prior)
    BY DEF RefusedIsNotShown
  <2>1. run.pc \in {"prepare", "extract", "finish"}
    <3>1. run.pc \in {"idle", "route", "prepare", "extract", "finish"}
      BY CallFields DEF Calls
    <3>2. QED
      BY <3>1 DEF IInv, Knows, Idling, Routing
  <2>2. CASE run.pc = "prepare"
    BY <2>2 DEF IInv, Knows, Preparing, Screened, RefusedData
  <2>3. CASE run.pc \in {"extract", "finish"}
    BY <2>3 DEF IInv, Knows, Carrying
  <2>4. QED
    BY <2>1, <2>2, <2>3
<1>2. QED
  BY <1>1, Invariance, PTL

\* What is held for a schema changes in its own turns only, which keep what
\* they do not replace.
THEOREM KeptTheorem == Spec => EarlierDataIsKept
<1>1. ASSUME IInv, [Next]_vars
      PROVE  [Returns => \A s \in Schemas :
                 \/ Held'[s] = Given[s]
                 \/ /\ result'.schema = s
                    /\ \/ run.ctx.new \/ Given[s] = NoData \/ result'.data = NoData
                       \/ \A f \in Fields : Given[s][f] \in {Null, Bad}
                                          \/ result'.data[f] \in {Given[s][f], turn, Bad}]_vars
  BY <1>1, NextKeeps DEF StepKeeps, DataIsKept
<1>2. QED
  BY <1>1, Invariance, PTL DEF Spec, EarlierDataIsKept

\* An extraction is unavailable only after every provider has failed it and
\* none came to a reply; only a crash ends it earlier.
THEOREM GivesUpTheorem == Spec => GivesUpLast
<1>1. ASSUME IInv, [Next]_vars
      PROVE  [(run.pc = "extract" /\ run'.pc = "idle") =>
                  /\ ended'.records = 1
                  /\ \/ ended'.how = "component"
                     \/ /\ ended'.how = "unavailable" /\ run.replies = << >>
                        /\ run.failed \cup {run.provider} = 1..Providers]_vars
  BY <1>1, NextKeeps DEF StepKeeps
<1>2. QED
  BY <1>1, Invariance, PTL DEF Spec, GivesUpLast
=============================================================================
