----------------------------- MODULE RequestGate -----------------------------
(***************************************************************************)
(* What stands before an answer: authentication through the registry of    *)
(* providers, ConfigAuthorizationPolicy.check, and the guard's zones       *)
(* (kuhaku/core/auth, kuhaku/core/security), used by requests of several   *)
(* threads while an administrator registers and removes providers and keys *)
(* and changes the policy, tokens expire and the stage-2 model breaks.     *)
(* The application makes the three calls in this order, as policy.py says  *)
(* ("before invoking RAG.ask()"); the engine makes the last one.           *)
(*                                                                         *)
(* One (resource, action) pair stands for all: rules of different pairs    *)
(* never meet.  Administrators work one at a time, but for load_file,      *)
(* whose two assignments other changes may come between.                   *)
(***************************************************************************)
EXTENDS GuardZones, Naturals, FiniteSets

CONSTANTS
    Requests,
    Roles, Permissions, Wildcard,
    Keys,           \* API keys
    Claims,         \* the roles and permissions each key and token carries
    Tokens,         \* bearer tokens signed with the configured secret
    Expiry,         \* the time each token expires
    Policies,       \* the policies of the files the administrator loads
    NoRule,
    MaxChanges,     \* bound: changes by the administrator
    MaxTime         \* bound: the clock

\* A rule says which roles or permissions are needed; a role is granted permissions.
Rules == [roles : SUBSET (Roles \cup {Wildcard}), permissions : SUBSET (Permissions \cup {Wildcard})]
Grants == UNION {[some -> SUBSET (Permissions \cup {Wildcard})] : some \in SUBSET Roles}

ASSUME GateAssumption ==
    /\ Wildcard \notin Permissions \cup Roles
    /\ Claims \in [Keys \cup Tokens ->
                    [roles : SUBSET Roles, permissions : SUBSET Permissions]]
    /\ Expiry \in [Tokens -> Nat]
    /\ Policies \subseteq [roles : Grants, rule : Rules]
    /\ NoRule \notin Rules

VARIABLES
    providers,  \* AuthProviderRegistry: the names registered, the default
    keys,       \* APIKeyAuthProvider: the keys that are registered
    now,        \* the clock
    roles,      \* ConfigAuthorizationPolicy._roles
    rule,       \* ConfigAuthorizationPolicy._rules, for the pair
    loading,    \* the rule of a file whose roles are in place, its rules not yet
    degraded,   \* Stage2Classifier._degraded
    changes,    \* count, for the bound
    request     \* each request: stage, context, the rule it has read, the
                \*   roles it has yet to look up, score, why stage 2 is
                \*   asked, zone, whether stage 2 judged it; history, kept
                \*   until the guard: the verdicts of the policies configured
                \*   since its check began, and how they changed

Providers == {"noop", "keys", "jwt"}

admin == <<providers, keys, roles, rule, loading>>
vars == <<admin, now, degraded, changes, request>>

Anonymous == [authenticated |-> FALSE, roles |-> {}, permissions |-> {}]
Authenticated(c) == [authenticated |-> TRUE, roles |-> Claims[c].roles,
                     permissions |-> Claims[c].permissions]

RequestRecord ==
    [pc       : {"new", "rule", "roles", "denied", "guard", "stage2", "done"},
     ctx      : [authenticated : BOOLEAN, roles : SUBSET Roles, permissions : SUBSET Permissions],
     rule     : Rules \cup {NoRule}, left : SUBSET Roles,
     score    : Scores, why : {"none", "threshold", "sampled"},
     zone     : {"none", "pass", "restricted", "reject"}, judged : BOOLEAN,
     verdicts : SUBSET BOOLEAN, changed : SUBSET {"granted", "revoked", "rule", "load"}]

TypeOK ==
    /\ providers \in [names : SUBSET Providers, default : Providers]
    /\ providers.default \in providers.names
    /\ keys \subseteq Keys /\ now \in Nat
    /\ roles \in Grants /\ rule \in Rules \cup {NoRule} /\ loading \subseteq Rules
    /\ degraded \in BOOLEAN /\ changes \in Nat
    /\ request \in [Requests -> RequestRecord]

New == [pc |-> "new", ctx |-> Anonymous, rule |-> NoRule, left |-> {}, score |-> "low",
        why |-> "none", zone |-> "none", judged |-> FALSE, verdicts |-> {}, changed |-> {}]

Init ==
    /\ providers = [names |-> {"noop"}, default |-> "noop"]
    /\ keys = {} /\ now = 0
    /\ roles = [r \in {} |-> {}] /\ rule = NoRule /\ loading = {}
    /\ degraded \in BOOLEAN
    /\ changes = 0
    /\ request = [q \in Requests |-> New]

(***************************************************************************)
(* What a policy allows, as its class describes it (policy.py:64-72): a    *)
(* role or a permission listed on the rule, or a listed permission granted *)
(* to a role; wildcards stand for anyone and for every permission.         *)
(* Without a rule everyone is denied.                                      *)
(***************************************************************************)
Granted(grants, ctx) == UNION {grants[r] : r \in ctx.roles \cap DOMAIN grants}

Allows(grants, needed, ctx) ==
    /\ needed # NoRule
    /\ \/ Wildcard \in needed.roles \cup needed.permissions \cup Granted(grants, ctx)
       \/ ctx.roles \cap needed.roles # {}
       \/ (Granted(grants, ctx) \cup ctx.permissions) \cap needed.permissions # {}

----------------------------------------------------------------------------
(***************************************************************************)
(* The administrator.                                                      *)
(***************************************************************************)
Changes == changes < MaxChanges /\ changes' = changes + 1

\* What a policy says, unless it is half of a file; and that it is.
Verdict(grants, needed, load, ctx) ==
    IF load = {} THEN {Allows(grants, needed, ctx)} ELSE {}
Under(load) == IF load = {} THEN {} ELSE {"load"}

\* What one role is granted, and which way the table of grants is changed.
GrantsOf(grants, r) == IF r \in DOMAIN grants THEN grants[r] ELSE {}

Ways(before, after) ==
    {way \in {"granted", "revoked"} :
        \E r \in Roles :
            ~ IF way = "granted" THEN GrantsOf(after, r) \subseteq GrantsOf(before, r)
              ELSE GrantsOf(before, r) \subseteq GrantsOf(after, r)}

\* Requests in the middle of their check when the policy changes.
Witnessing(grants, needed, ways) ==
    request' = [q \in Requests |->
        IF request[q].pc # "roles" THEN request[q]
        ELSE [request[q] EXCEPT !.changed = @ \cup ways \cup Under(loading'),
                                !.verdicts = @ \cup Verdict(grants, needed, loading', request[q].ctx)]]

Register(name, makeDefault) ==
    /\ Changes
    /\ providers' = [names   |-> providers.names \cup {name},
                     default |-> IF makeDefault THEN name ELSE providers.default]
    /\ UNCHANGED <<keys, roles, rule, loading, now, degraded, request>>

Unregister(name) ==
    /\ name # providers.default
    /\ Changes
    /\ providers' = [providers EXCEPT !.names = @ \ {name}]
    /\ UNCHANGED <<keys, roles, rule, loading, now, degraded, request>>

SetDefault(name) ==
    /\ name \in providers.names
    /\ Changes
    /\ providers' = [providers EXCEPT !.default = name]
    /\ UNCHANGED <<keys, roles, rule, loading, now, degraded, request>>

AddKey(k) ==
    /\ k \notin keys /\ Changes
    /\ keys' = keys \cup {k}
    /\ UNCHANGED <<providers, roles, rule, loading, now, degraded, request>>

RemoveKey(k) ==
    /\ k \in keys /\ Changes
    /\ keys' = keys \ {k}
    /\ UNCHANGED <<providers, roles, rule, loading, now, degraded, request>>

SetRoles(grants, pending) ==
    /\ roles' = grants /\ loading' = pending
    /\ Witnessing(grants, rule, Ways(roles, grants))
    /\ UNCHANGED <<providers, keys, rule, now, degraded>>

AddRole(r, permissions) ==
    /\ Changes
    /\ SetRoles([x \in DOMAIN roles \cup {r} |-> IF x = r THEN permissions ELSE roles[x]],
                loading)

RemoveRole(r) ==
    /\ r \in DOMAIN roles /\ Changes
    /\ SetRoles([x \in DOMAIN roles \ {r} |-> roles[x]], loading)

GrantPermission(r, p) ==
    /\ Changes
    /\ SetRoles([x \in DOMAIN roles \cup {r} |->
                    (IF x \in DOMAIN roles THEN roles[x] ELSE {}) \cup (IF x = r THEN {p} ELSE {})],
                loading)

RevokePermission(r, p) ==
    /\ r \in DOMAIN roles /\ Changes
    /\ SetRoles([roles EXCEPT ![r] = @ \ {p}], loading)

AssignRule(needed, pending) ==
    /\ rule' = needed /\ loading' = pending
    /\ Witnessing(roles, needed, {"rule"})
    /\ UNCHANGED <<providers, keys, roles, now, degraded>>

SetRule(needed) == Changes /\ AssignRule(needed, loading)

\* _load_mapping: everything is read before anything is assigned; then the
\* roles and the rules are assigned one after the other.
LoadRoles(policy) ==
    /\ loading = {} /\ Changes
    /\ SetRoles(policy.roles, {policy.rule})

LoadRules ==
    /\ \E needed \in loading : AssignRule(needed, {})
    /\ UNCHANGED changes

Tick ==
    /\ now < MaxTime /\ now' = now + 1
    /\ UNCHANGED <<admin, degraded, changes, request>>

----------------------------------------------------------------------------
(***************************************************************************)
(* A request.                                                              *)
(***************************************************************************)
Step(q, from, next) ==
    /\ request[q].pc = from
    /\ request' = [request EXCEPT ![q] = next]
    /\ UNCHANGED <<admin, now, changes>>

\* What a provider makes of a credential; never an exception.
Authenticate(name, credential) ==
    IF \/ name = "keys" /\ credential \in keys
       \/ name = "jwt" /\ credential \in Tokens /\ now < Expiry[credential]
    THEN Authenticated(credential) ELSE Anonymous

LogIn(q, credential) ==
    /\ Step(q, "new", [New EXCEPT !.pc = "rule",
                                  !.ctx = Authenticate(providers.default, credential)])
    /\ UNCHANGED degraded

\* A rule that settles the matter without a look at the grants.
Settles(needed, ctx) ==
    \/ Wildcard \in needed.roles \cup needed.permissions
    \/ ctx.roles \cap needed.roles # {}
    \/ ctx.permissions \cap needed.permissions # {}

\* check() takes the rule first ...
ReadRule(q) ==
    LET ctx == request[q].ctx
        seen == [request[q] EXCEPT !.verdicts = Verdict(roles, rule, loading, ctx),
                                   !.changed = Under(loading)]
    IN  /\ Step(q, "rule",
                IF rule = NoRule THEN [seen EXCEPT !.pc = "denied"]
                ELSE IF Settles(rule, ctx) THEN [seen EXCEPT !.pc = "guard"]
                ELSE IF ctx.roles = {} THEN [seen EXCEPT !.pc = "denied"]
                ELSE [seen EXCEPT !.pc = "roles", !.rule = rule, !.left = ctx.roles])
        /\ UNCHANGED degraded

\* Mutant: any permission of a role counts, needed or not.
SufficesAny(grants, needed, r) == GrantsOf(grants, r) # {}

Suffices(grants, needed, r) ==
    Wildcard \in GrantsOf(grants, r) \/ GrantsOf(grants, r) \cap needed.permissions # {}

\* ... and then looks the context's roles up, one after the other, until one
\* is enough.
LookUpRole(q, r) ==
    LET decided == [request[q] EXCEPT !.rule = NoRule, !.left = {}]
    IN  /\ r \in request[q].left
        /\ Step(q, "roles",
                IF Suffices(roles, request[q].rule, r) THEN [decided EXCEPT !.pc = "guard"]
                ELSE IF request[q].left = {r} THEN [decided EXCEPT !.pc = "denied"]
                ELSE [request[q] EXCEPT !.left = @ \ {r}])
        /\ UNCHANGED degraded

Stage1(q, score, sampled) ==
    LET why == Escalation(score, sampled)
        scored == [request[q] EXCEPT !.score = score, !.verdicts = {}, !.changed = {}]
    IN  /\ Step(q, "guard", IF why = "none"
                            THEN [scored EXCEPT !.pc = "done", !.zone = Zone(score, why, NotRun)]
                            ELSE [scored EXCEPT !.pc = "stage2", !.why = why])
        /\ UNCHANGED degraded

\* A runtime error degrades stage 2 for as long as the process lives.
Stage2(q, label, fails) ==
    LET stage2 == IF degraded \/ fails THEN Degraded ELSE Ran(label)
    IN  /\ Step(q, "stage2", [request[q] EXCEPT
                                !.pc = "done", !.judged = stage2.ran,
                                !.zone = Zone(request[q].score, request[q].why, stage2)])
        /\ degraded' = (degraded \/ fails)

Next ==
    \/ \E name \in Providers :
          Register(name, TRUE) \/ Register(name, FALSE) \/ Unregister(name) \/ SetDefault(name)
    \/ \E k \in Keys : AddKey(k) \/ RemoveKey(k)
    \/ \E r \in Roles : RemoveRole(r)
          \/ \E p \in Permissions \cup {Wildcard} :
                AddRole(r, {p}) \/ GrantPermission(r, p) \/ RevokePermission(r, p)
    \/ \E policy \in Policies : SetRule(policy.rule) \/ LoadRoles(policy)
    \/ LoadRules \/ Tick
    \/ \E q \in Requests :
          \/ \E c \in Keys \cup Tokens : LogIn(q, c)
          \/ ReadRule(q)
          \/ \E r \in Roles : LookUpRole(q, r)
          \/ \E score \in Scores, sampled \in BOOLEAN : Stage1(q, score, sampled)
          \/ \E label \in Judgements, fails \in BOOLEAN : Stage2(q, label, fails)

Spec == Init /\ [][Next]_vars

----------------------------------------------------------------------------
(***************************************************************************)
(* Properties.                                                             *)
(***************************************************************************)
\* ConfigAuthorizationPolicy.check reads the rule and then the grants, role
\* by role, without a lock.  What it answers is what some policy configured
\* while it ran answers, but for the cases in which it may answer for a
\* mixture that was never configured: a file is being loaded, or the rule is
\* changed and the grants are, too.  Changes of the grants alone make no one
\* pass whom no policy lets pass; they deny one whom every policy let pass
\* only if something is granted and something else revoked meanwhile.
AnswersForAConfiguredPolicy ==
    \A q \in Requests :
        LET r == request[q]
            mixed == \/ "load" \in r.changed
                     \/ "rule" \in r.changed /\ r.changed \cap {"granted", "revoked"} # {}
        IN  /\ r.pc = "guard" => TRUE \in r.verdicts \/ mixed
            /\ r.pc = "denied" => \/ FALSE \in r.verdicts \/ mixed
                                  \/ {"granted", "revoked"} \subseteq r.changed

\* The guard's zones are earned.  Neither a random sample nor a degraded
\* stage 2 changes who passes unrestricted: exactly the queries that stage 1
\* scores low.  And a query is rejected only after stage 2 judged it: where
\* the model is missing, or broke during an earlier request, the same query
\* is restricted.
ZonesAreEarned ==
    \A q \in Requests :
        /\ request[q].pc = "done" => (request[q].zone = "pass" <=> request[q].score = "low")
        /\ request[q].zone = "reject" => request[q].judged /\ request[q].score # "low"

=============================================================================
