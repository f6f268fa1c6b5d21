---------------------------- MODULE Conversation ----------------------------
(***************************************************************************)
(* A conversation with an Extractor given a list of extractors             *)
(* (kuhaku/tools/extraction): each text is routed to a schema, extracted   *)
(* by that extractor's pipeline -- security, extract with retries and      *)
(* fall-back providers, slot filling, evidence, validation -- and the      *)
(* caller hands the result back with the next text.  kuhaku itself keeps   *)
(* nothing between calls: all memory travels in the results.               *)
(*                                                                         *)
(* The input guard is on, masking is off (its default), evidence rejects   *)
(* (on_ungrounded = "invalid"), and an audit log path is given.            *)
(***************************************************************************)
EXTENDS ExtractionSteps

CONSTANTS
    Schemas,      \* the names of the extractors
    None,         \* no schema
    Providers,    \* length of [llm, *fallback_llms]
    MaxRetries,   \* further calls per provider
    MaxTurns      \* bound: texts in the conversation

ASSUME ConversationAssumption ==
    /\ None \notin Schemas
    /\ Providers \in Nat \ {0} /\ MaxRetries \in Nat /\ MaxTurns \in Nat

\* What a text is to the checks: refused by the guard's patterns, blank, or
\* such that only the values read from it are refused.
Kinds == {"plain", "blank", "refused", "tricky"}

VARIABLES
    turn,       \* number of texts so far
    tricky,     \* those whose values the guard refuses later
    slots,      \* the extractors whose slot_filling step is enabled
    result,     \* the result the caller holds and hands back
    run,        \* the call under way: its stage and text, what each extractor
                \*   left behind as it travels on, the context, the provider
                \*   being asked, the calls left to it, what the others came
                \*   to; history: whether the caller began a conversation,
                \*   the providers that failed, whether a model saw the text
    ended,      \* history: how the last call ended, and its audit records
    objects,    \* history: the values replies stated for each schema's object
    judged      \* history: the values whose evidence was looked for

vars == <<turn, tricky, slots, result, run, ended, objects, judged>>

Nothing == [s \in Schemas |-> NoData]
NoCtx == [schema |-> None, prior |-> NoData, data |-> NoData, new |-> FALSE,
          value |-> FALSE, issues |-> {}, stopped |-> FALSE]
NoResult == [status |-> "none", schema |-> None, data |-> NoData, earlier |-> Nothing]
NotEnded == [how |-> "none", records |-> 0]
Idle == [pc |-> "idle", text |-> "blank", fresh |-> FALSE, earlier |-> Nothing,
         ctx |-> NoCtx, provider |-> 1, left |-> 1 + MaxRetries, replies |-> << >>,
         failed |-> {}, shown |-> FALSE]

Init ==
    /\ turn = 0 /\ tricky = {} /\ slots = Schemas /\ result = NoResult
    /\ run = Idle /\ ended = NotEnded
    /\ objects = [s \in Schemas |-> {}] /\ judged = {}

\* Router._earlier: what each extractor left behind, the last result's included.
Earlier(prior) ==
    [s \in Schemas |-> IF s = prior.schema /\ prior.data # NoData
                       THEN prior.data ELSE prior.earlier[s]]

RefusedData(data) ==
    data # NoData /\ \E f \in Fields : data[f] \in tricky

\* A step of the call under way.
Step(from, next) ==
    /\ run.pc = from /\ run' = next
    /\ UNCHANGED <<turn, tricky, slots, result, ended, objects, judged>>

\* The end of a call with an exception: the caller keeps the result it has.
Raise(from, how, records) ==
    /\ run.pc = from /\ run' = Idle
    /\ ended' = [how |-> how, records |-> ended.records + records]
    /\ UNCHANGED <<turn, tricky, slots, result, objects, judged>>

\* The end of a call with a result, which is recorded in the audit log.
Return(from, r) ==
    /\ run.pc = from /\ run' = Idle
    /\ result' = r
    /\ ended' = [how |-> "returned", records |-> ended.records + 1]
    /\ UNCHANGED <<turn, tricky, slots>>

ObjectsSoFar == IF run.fresh THEN [s \in Schemas |-> {}] ELSE objects

----------------------------------------------------------------------------
(***************************************************************************)
(* The caller sends a text with the last result or with none, and may      *)
(* enable or disable an extractor's slot filling between calls.            *)
(***************************************************************************)
Send(kind, prior) ==
    /\ run.pc = "idle" /\ turn < MaxTurns
    /\ turn' = turn + 1
    /\ tricky' = IF kind = "tricky" THEN tricky \cup {turn'} ELSE tricky
    /\ run' = [Idle EXCEPT !.pc = "route", !.text = kind, !.earlier = Earlier(prior),
                           !.fresh = prior = NoResult]
    /\ ended' = NotEnded
    /\ UNCHANGED <<slots, result, objects, judged>>

ToggleSlotFilling(s) ==
    /\ run.pc = "idle" /\ turn < MaxTurns
    /\ slots' = IF s \in slots THEN slots \ {s} ELSE slots \cup {s}
    /\ UNCHANGED <<turn, tricky, result, run, ended, objects, judged>>

----------------------------------------------------------------------------
(***************************************************************************)
(* Router.extract: a keyword route in front of the model's.  The guard     *)
(* sees the text and every earlier value before a model chooses.           *)
(***************************************************************************)
Chosen(s) == [run EXCEPT !.pc = "prepare", !.ctx.schema = s]

Screened == run.text = "refused" \/ \E s \in Schemas : RefusedData(run.earlier[s])

RouteByKeyword(s) == Step("route", Chosen(s))

\* A caller's route crashes, or names a schema that is not registered.
RouteCrashes == Raise("route", "component", 0)

RouteByModel(s) ==
    run.text # "blank" /\ ~Screened /\ Step("route", [Chosen(s) EXCEPT !.shown = TRUE])

\* No provider could be reached for the choice.
RouteFails == run.text # "blank" /\ ~Screened /\ Raise("route", "unavailable", 0)

\* The outcomes the router ends itself: refused, or nothing fits (a blank
\* text, the model's choice, or unusable replies), with all it was given.
RouteEnds(status) ==
    /\ \/ status = "blocked" /\ run.text # "blank" /\ Screened
       \/ status = "no_match" /\ (run.text = "blank" \/ ~Screened)
    /\ Return("route", [NoResult EXCEPT !.status = status, !.earlier = run.earlier])
    /\ objects' = ObjectsSoFar
    /\ UNCHANGED judged

----------------------------------------------------------------------------
(***************************************************************************)
(* Extractor.extract: the schema's earlier data is taken out of what       *)
(* travels on; the steps are prepared -- the guard sees the text and the   *)
(* carried values, slot filling drops those that break the schema.         *)
(***************************************************************************)
Prepared(carried, refused) ==
    [run EXCEPT !.earlier[run.ctx.schema] = NoData,
                !.ctx.prior   = IF carried = NoData THEN NoData ELSE DropInvalid(carried),
                !.ctx.stopped = refused,
                !.ctx.issues  = IF refused THEN {"refused"} ELSE {},
                !.pc          = IF refused THEN "finish" ELSE "extract"]

\* Nothing can take the data over: slot filling is disabled.
Unwanted(carried) == carried # NoData /\ run.ctx.schema \notin slots

\* Mutant: the guard is shown the text only.
PrepareTextOnly ==
    /\ run.pc = "prepare"
    /\ LET carried == run.earlier[run.ctx.schema]
       IN  IF Unwanted(carried) THEN Raise("prepare", "config", 0)
           ELSE Step("prepare", Prepared(carried, run.text = "refused"))

Prepare ==
    /\ run.pc = "prepare"
    /\ LET carried == run.earlier[run.ctx.schema]
       IN  IF Unwanted(carried) THEN Raise("prepare", "config", 0)
           ELSE Step("prepare",
                     Prepared(carried, run.text = "refused" \/ RefusedData(carried)))

ExtractBlank ==
    /\ run.text = "blank"
    /\ Step("extract", [run EXCEPT !.pc = "finish", !.ctx = CommitBlank(@)])

ReplyValues(f) ==
    {Null, Bad, turn} \cup (IF run.ctx.prior = NoData THEN {} ELSE {run.ctx.prior[f]})

Values == {Null, Bad} \cup 1..MaxTurns

\* Only with earlier data is the model asked whether a new object starts.
Replies ==
    {Parsed(d, new) : d \in {d \in [Fields -> Values] : \A f \in Fields : d[f] \in ReplyValues(f)},
                      new \in IF run.ctx.prior = NoData THEN {FALSE} ELSE BOOLEAN}
        \cup {Unparsable}

Asking(n, replies) == [run EXCEPT !.provider = n, !.left = 1 + MaxRetries, !.replies = replies]
Committed(replies) ==
    [Asking(1, << >>) EXCEPT !.pc = "finish", !.ctx = Commit(@, ChooseReply(replies))]

\* A reply is fed back while it is unusable and calls are left; else it is
\* what this provider came to, and the next one is asked if it is unusable.
Receive(reply) ==
    LET replies == Append(run.replies, reply)
        next    == IF Usable(reply) THEN Committed(replies)
                   ELSE IF run.left > 1 THEN [run EXCEPT !.left = @ - 1]
                   ELSE IF run.provider = Providers THEN Committed(replies)
                   ELSE Asking(run.provider + 1, replies)
    IN  run.text # "blank" /\ Step("extract", [next EXCEPT !.shown = TRUE])

Failing(next) ==
    Step("extract", [next EXCEPT !.failed = @ \cup {run.provider}, !.shown = TRUE])

\* Mutant: the error of the last provider is raised whatever others replied.
ProviderFailsRaising ==
    /\ run.text # "blank"
    /\ IF run.provider < Providers THEN Failing(Asking(run.provider + 1, run.replies))
       ELSE Raise("extract", "unavailable", 1)

\* A call to the provider raises LLMError: what it replied to earlier calls,
\* unusable as it was, is lost.
ProviderFails ==
    /\ run.text # "blank"
    /\ IF run.provider < Providers THEN Failing(Asking(run.provider + 1, run.replies))
       ELSE IF run.replies # << >> THEN Failing(Committed(run.replies))
       ELSE Raise("extract", "unavailable", 1)

\* A call to the provider raises anything else (what is not content has no
\* strip(), say): that is the extract step's crash, whoever is left to ask.
ProviderCrashes == run.text # "blank" /\ Raise("extract", "component", 1)

(***************************************************************************)
(* The steps after extract, unless stopped, and the result.  quoted: the   *)
(* fields whose evidence holds; found: what the caller's rules report.     *)
(***************************************************************************)
Finish(quoted, found) ==
    LET s    == run.ctx.schema
        said == IF run.ctx.data = NoData THEN {} ELSE {run.ctx.data[f] : f \in Fields}
        fill == IF s \in slots THEN FillSlots(run.ctx) ELSE run.ctx
        ctx  == IF run.ctx.stopped THEN run.ctx
                ELSE Validate(CheckEvidence(fill, quoted), found)
    IN  /\ run.text = "blank" => quoted = {}
        /\ Return("finish", [status  |-> StatusFromIssues(ctx.issues), schema |-> s,
                             data    |-> ctx.data,
                             earlier |-> run.earlier])
        /\ objects' = [ObjectsSoFar EXCEPT ![s] =
                         IF ctx.new \/ ctx.data = NoData \/ run.ctx.prior = NoData
                         THEN said ELSE @ \cup said]
        /\ judged' = judged \cup
              {<<f, ctx.data[f]>> : f \in {f \in Fields : Report(ctx, quoted, f) \in {"source", "ungrounded"}}}

\* A rule of the caller, or a step of the caller's, raises while the steps are
\* prepared or run.
StepCrashes ==
    \/ Raise("finish", "component", 1)
    \/ Raise("prepare", "component", 1) /\ ~Unwanted(run.earlier[run.ctx.schema])

Next ==
    \/ \E k \in Kinds : Send(k, result) \/ Send(k, NoResult)
    \/ \E s \in Schemas : ToggleSlotFilling(s) \/ RouteByKeyword(s) \/ RouteByModel(s)
    \/ RouteCrashes \/ RouteFails
    \/ \E status \in {"blocked", "no_match"} : RouteEnds(status)
    \/ Prepare \/ ExtractBlank \/ ProviderFails \/ ProviderCrashes \/ StepCrashes
    \/ run.pc = "extract" /\ \E reply \in Replies : Receive(reply)
    \/ run.pc = "finish" /\ \E quoted \in SUBSET Fields, found \in SUBSET {"rule", "ask"} :
                                Finish(quoted, found)

Spec == Init /\ [][Next]_vars

----------------------------------------------------------------------------
Codes == DOMAIN KindOf
DataSets == {NoData} \cup [Fields -> Values]
ReplySet == [data : DataSets, new : BOOLEAN, issues : SUBSET Codes]
Contexts == [schema : Schemas \cup {None}, prior : DataSets, data : DataSets, new : BOOLEAN,
             value : BOOLEAN, issues : SUBSET Codes, stopped : BOOLEAN]
Results == [status : {"none", "no_match", "blocked", "failed", "invalid",
                      "needs_clarification", "complete"},
            schema : Schemas \cup {None}, data : DataSets, earlier : [Schemas -> DataSets]]
Calls == [pc : {"idle", "route", "prepare", "extract", "finish"}, text : Kinds,
          fresh : BOOLEAN, earlier : [Schemas -> DataSets], ctx : Contexts,
          provider : 1..Providers, left : 1..(1 + MaxRetries), replies : Seq(ReplySet),
          failed : SUBSET (1..Providers), shown : BOOLEAN]

TypeOK ==
    /\ turn \in 0..MaxTurns /\ tricky \subseteq 1..turn /\ slots \subseteq Schemas
    /\ result \in Results /\ run \in Calls
    /\ ended \in [how : {"none", "component", "unavailable", "config", "returned"}, records : 0..1]
    /\ objects \in [Schemas -> SUBSET Values] /\ judged \subseteq Fields \X Values

Returns == run.pc # "idle" /\ run'.pc = "idle" /\ ended'.how = "returned"

\* What each extractor held when the call began, and what it holds after it.
Given == IF run.fresh THEN Nothing ELSE Earlier(result)
Held == Earlier(result)

(***************************************************************************)
(* What a conversation holds for a schema changes only in a turn routed to *)
(* that schema.  Such a turn keeps every value it does not replace by one  *)
(* of its own, unless the model says that a new object begins; only a turn *)
(* that ends without any data loses it.  (An order interrupted by a        *)
(* complaint is picked up again: Router.extract's pop of the carried data, *)
(* the metadata of the results, and slot filling.)                         *)
(***************************************************************************)
EarlierDataIsKept ==
    [][Returns => \A s \in Schemas :
          \/ Held'[s] = Given[s]
          \/ /\ result'.schema = s
             /\ \/ run.ctx.new \/ Given[s] = NoData \/ result'.data = NoData
                \/ \A f \in Fields : Given[s][f] \in {Null, Bad}
                                   \/ result'.data[f] \in {Given[s][f], turn, Bad}]_vars

(***************************************************************************)
(* Every value a result holds was stated by a reply about the same object  *)
(* in the same conversation: a finished extraction never leaks its values  *)
(* into the next (SlotFillingStep), whichever schemas came in between.     *)
(***************************************************************************)
NoValueOfAnotherObject ==
    \A s \in Schemas : Held[s] # NoData =>
        \A f \in Fields : Held[s][f] \in {Null, Bad} \cup objects[s]

(***************************************************************************)
(* A complete result states no value whose evidence was never looked for:  *)
(* carrying a value over excuses it from a quote only if an earlier turn   *)
(* has checked it (EvidenceStep's PRIOR).                                  *)
(***************************************************************************)
CompleteIsJudged ==
    result.status = "complete" =>
        \A f \in Fields : result.data[f] # Null => <<f, result.data[f]>> \in judged

(***************************************************************************)
(* A model is never asked about a text, or shown an earlier value, that    *)
(* the input guard refuses -- also when a keyword route chose and when the *)
(* value came from a text the guard let through.                           *)
(***************************************************************************)
RefusedIsNotShown ==
    run.shown => /\ run.text # "refused"
                 /\ ~RefusedData(run.ctx.prior)

(***************************************************************************)
(* An extraction is given up as unavailable only after every provider has  *)
(* failed it with an LLMError, and none came to a reply: a reply with data *)
(* survives the errors of the providers asked after it.  Only an exception *)
(* of another kind, which ExtractStep.run does not take for a provider's   *)
(* failure, ends the call before that, as a step that crashed.  Either way *)
(* it leaves one audit record.                                             *)
(***************************************************************************)
GivesUpLast ==
    [][(run.pc = "extract" /\ run'.pc = "idle") =>
          /\ ended'.records = 1
          /\ \/ ended'.how = "component"
             \/ /\ ended'.how = "unavailable" /\ run.replies = << >>
                /\ run.failed \cup {run.provider} = 1..Providers]_vars

=============================================================================
