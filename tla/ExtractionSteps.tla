-------------------------- MODULE ExtractionSteps --------------------------
(***************************************************************************)
(* What the steps of an extraction compute (kuhaku/tools/extraction/steps, *)
(* parsing.py, result.py, context.py): replies, the choice between them,   *)
(* slot filling, evidence and the status of a result.                      *)
(*                                                                         *)
(* A field's value is Null, a value the schema refuses, or the number of   *)
(* the turn of the conversation whose text it was read from.  That is all  *)
(* the checks tell apart: equality with an earlier value, and origin.      *)
(***************************************************************************)
EXTENDS Integers, FiniteSets, Sequences

CONSTANTS
    Fields,     \* fields of every schema
    Required    \* those that do not accept null

ASSUME FieldsAssumption == Fields # {} /\ Required \subseteq Fields

Null == 0
Bad == -1
NoData == << >>

Blank == [f \in Fields |-> Null]

(***************************************************************************)
(* Issues are known by their code; the kind decides the status.            *)
(***************************************************************************)
KindOf == [parse_error  |-> "retryable",  schema_error |-> "retryable",
           missing      |-> "needs_clarification",
           ask          |-> "needs_clarification",
           ungrounded   |-> "invalid",    rule         |-> "invalid",
           refused      |-> "blocked"]

SchemaCodes == {"missing", "schema_error"}

StatusFromIssues(issues) ==
    LET kinds == {KindOf[i] : i \in issues}
    IN  CASE "blocked" \in kinds -> "blocked"
          [] "blocked" \notin kinds /\ "retryable" \in kinds -> "failed"
          [] kinds \cap {"blocked", "retryable"} = {} /\ "invalid" \in kinds -> "invalid"
          [] kinds = {"needs_clarification"} -> "needs_clarification"
          [] OTHER -> "complete"

ValidateData(data) ==
    {c \in SchemaCodes : \/ c = "schema_error" /\ \E f \in Fields : data[f] = Bad
                         \/ c = "missing" /\ \E f \in Required : data[f] = Null}

(***************************************************************************)
(* A reply of one provider: its data (NoData when it could not be parsed), *)
(* whether it says that the text starts a new object, and its issues.      *)
(***************************************************************************)
Unparsable == [data |-> NoData, new |-> FALSE, issues |-> {"parse_error"}]
Parsed(data, new) == [data |-> data, new |-> new, issues |-> ValidateData(data)]

Usable(reply) == \A i \in reply.issues : KindOf[i] # "retryable"

\* The first usable reply, else the last with data, else the last.
ChooseReply(replies) ==
    LET usable   == {n \in DOMAIN replies : Usable(replies[n])}
        withData == {n \in DOMAIN replies : replies[n].data # NoData}
    IN  IF usable # {}
        THEN replies[CHOOSE n \in usable : \A k \in usable : n <= k]
        ELSE LET pool == IF withData # {} THEN withData ELSE DOMAIN replies
             IN  replies[CHOOSE n \in pool : \A k \in pool : n >= k]

(***************************************************************************)
(* The context an extraction carries from step to step.                    *)
(***************************************************************************)
Commit(ctx, reply) ==
    [ctx EXCEPT !.data = reply.data,
                !.new = reply.new,
                !.value = reply.issues = {},
                !.issues = @ \cup reply.issues,
                !.stopped = @ \/ reply.data = NoData]

\* An empty text: what the model would answer, without a call.
CommitBlank(ctx) ==
    [ctx EXCEPT !.data = Blank, !.new = FALSE,
                !.value = ValidateData(Blank) = {},
                !.issues = @ \cup ValidateData(Blank)]

\* Mutant: what this turn leaves out is forgotten.
MergeReplacing(earlier, current) == current

Merge(earlier, current) ==
    [f \in Fields |-> IF current[f] = Null THEN earlier[f] ELSE current[f]]

DropInvalid(data) == [f \in Fields |-> IF data[f] = Bad THEN Null ELSE data[f]]

\* Mutant: a new object does not end the earlier one.
FillSlotsAlways(ctx) ==
    IF ctx.prior = NoData \/ ctx.data = NoData THEN ctx
    ELSE LET merged == Merge(ctx.prior, ctx.data)
         IN  [ctx EXCEPT !.data = merged,
                         !.value = ValidateData(merged) = {},
                         !.issues = (@ \ SchemaCodes) \cup ValidateData(merged)]

FillSlots(ctx) ==
    IF ctx.prior = NoData \/ ctx.data = NoData THEN ctx
    ELSE IF ctx.new THEN [ctx EXCEPT !.prior = NoData]
    ELSE LET merged == Merge(ctx.prior, ctx.data)
         IN  [ctx EXCEPT !.data = merged,
                         !.value = ValidateData(merged) = {},
                         !.issues = (@ \ SchemaCodes) \cup ValidateData(merged)]

(***************************************************************************)
(* Evidence: quoted is the set of fields whose quote is in the text and    *)
(* states the value.  A value that is not quoted counts as carried over    *)
(* when the earlier data holds the same one, else as ungrounded, which     *)
(* with on_ungrounded = "invalid" rejects the result.                      *)
(***************************************************************************)
\* Mutant: any earlier value of the field excuses the new one.
CarriedAny(ctx, f) == ctx.prior # NoData /\ ctx.prior[f] # Null

Carried(ctx, f) == ctx.prior # NoData /\ ctx.prior[f] = ctx.data[f]

Report(ctx, quoted, f) ==
    CASE ctx.data = NoData -> "none"
      [] ctx.data # NoData /\ ctx.data[f] = Null -> "missing"
      [] ctx.data # NoData /\ ctx.data[f] # Null /\ f \in quoted -> "source"
      [] OTHER -> IF Carried(ctx, f) THEN "prior" ELSE "ungrounded"

CheckEvidence(ctx, quoted) ==
    IF \E f \in Fields : Report(ctx, quoted, f) = "ungrounded"
    THEN [ctx EXCEPT !.issues = @ \cup {"ungrounded"}]
    ELSE ctx

\* A caller's rules run on the validated instance only.
Validate(ctx, found) ==
    IF ctx.value THEN [ctx EXCEPT !.issues = @ \cup found] ELSE ctx

=============================================================================
