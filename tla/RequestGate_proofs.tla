-------------------------- MODULE RequestGate_proofs --------------------------
(***************************************************************************)
(* The properties of RequestGate for any requests, roles, permissions,     *)
(* keys, tokens and policy files.                                          *)
(*                                                                         *)
(* Each is about one request, which others change in one way only: a       *)
(* change of the policy adds to the history of the requests in the middle  *)
(* of their check.  So the inductive invariant is a conjunction of what a  *)
(* request knows at each of its stages, preserved by its own steps and by  *)
(* that witnessing:                                                        *)
(*   - Checking: while it looks its roles up, the rule it has is the      *)
(*     current one unless "rule" has changed; what the policy answers now  *)
(*     is a verdict, and so is what it answers with the rule read as long  *)
(*     as no grant has changed, unless a file is being loaded; no role     *)
(*     looked up suffices even now if nothing has been granted since, and  *)
(*     a role to be looked up does, or some policy denied, if nothing has  *)
(*     been revoked;                                                       *)
(*   - Judging: why stage 2 is asked tells which side of the lower         *)
(*     threshold the score is on, and no zone is there before the end.     *)
(***************************************************************************)
EXTENDS RequestGate, TLAPS

Checking(r) ==
    r.pc = "roles" =>
        /\ r.rule \in Rules /\ ~Settles(r.rule, r.ctx) /\ r.left \subseteq r.ctx.roles
        /\ loading # {} => "load" \in r.changed
        /\ \/ "load" \in r.changed
           \/ /\ Allows(roles, rule, r.ctx) \in r.verdicts
              /\ "rule" \notin r.changed => r.rule = rule
              /\ r.changed \cap {"granted", "revoked"} = {} => Allows(roles, r.rule, r.ctx) \in r.verdicts
              /\ "granted" \notin r.changed =>
                    \A x \in r.ctx.roles \ r.left : ~Suffices(roles, r.rule, x)
              /\ "revoked" \notin r.changed /\ "rule" \notin r.changed =>
                    FALSE \in r.verdicts \/ \E x \in r.left : Suffices(roles, r.rule, x)

Mixed(r) ==
    \/ "load" \in r.changed
    \/ "rule" \in r.changed /\ r.changed \cap {"granted", "revoked"} # {}

Checked(r) ==
    /\ r.pc = "guard" => TRUE \in r.verdicts \/ Mixed(r)
    /\ r.pc = "denied" => \/ FALSE \in r.verdicts \/ Mixed(r)
                          \/ {"granted", "revoked"} \subseteq r.changed

Judging(r) ==
    /\ r.pc # "done" => r.zone = "none"
    /\ r.pc = "stage2" => \/ r.why = "threshold" /\ r.score # "low"
                          \/ r.why = "sampled" /\ r.score = "low"

Earned(r) ==
    /\ r.pc = "done" => (r.zone = "pass" <=> r.score = "low")
    /\ r.zone = "reject" => r.judged /\ r.score # "low"

Known(r) == Checking(r) /\ Checked(r) /\ Judging(r) /\ Earned(r)

IInv == TypeOK /\ \A q \in Requests : Known(request[q])

-----------------------------------------------------------------------------
\* What a policy answers, as check() finds it out: at once, or from the roles.
LEMMA AllowsIs ==
    ASSUME NEW grants, NEW needed, NEW ctx
    PROVE  /\ Allows(grants, needed, ctx) \in BOOLEAN
           /\ needed = NoRule => ~Allows(grants, needed, ctx)
           /\ needed # NoRule /\ Settles(needed, ctx) => Allows(grants, needed, ctx)
           /\ needed # NoRule /\ ~Settles(needed, ctx) =>
                (Allows(grants, needed, ctx) <=> \E r \in ctx.roles : Suffices(grants, needed, r))
<1>1. \A p : p \in Granted(grants, ctx) <=> \E r \in ctx.roles : p \in GrantsOf(grants, r)
  BY DEF Granted, GrantsOf
<1>2. Wildcard \in Granted(grants, ctx) <=> \E r \in ctx.roles : Wildcard \in GrantsOf(grants, r)
  BY <1>1
<1>3. Granted(grants, ctx) \cap needed.permissions # {}
        <=> \E r \in ctx.roles : GrantsOf(grants, r) \cap needed.permissions # {}
  BY <1>1
<1>4. Settles(needed, ctx) <=> \/ Wildcard \in needed.roles \cup needed.permissions
                              \/ ctx.roles \cap needed.roles # {}
                              \/ ctx.permissions \cap needed.permissions # {}
  BY DEF Settles
<1>5. Allows(grants, needed, ctx) <=>
        needed # NoRule /\ \/ Settles(needed, ctx)
                           \/ Wildcard \in Granted(grants, ctx)
                           \/ Granted(grants, ctx) \cap needed.permissions # {}
  BY <1>4 DEF Allows
<1>6. (\E r \in ctx.roles : Suffices(grants, needed, r)) <=>
        \/ Wildcard \in Granted(grants, ctx)
        \/ Granted(grants, ctx) \cap needed.permissions # {}
  BY <1>2, <1>3 DEF Suffices
<1>7. Allows(grants, needed, ctx) \in BOOLEAN
  BY DEF Allows
<1>8. QED
  BY <1>5, <1>6, <1>7

\* What suffices still does when nothing is revoked, and what does not still
\* does not when nothing is granted.
LEMMA SufficesStill ==
    ASSUME NEW before, NEW after, NEW needed, NEW r \in Roles
    PROVE  /\ "revoked" \notin Ways(before, after) /\ Suffices(before, needed, r)
                => Suffices(after, needed, r)
           /\ "granted" \notin Ways(before, after) /\ Suffices(after, needed, r)
                => Suffices(before, needed, r)
<1>1. "revoked" \notin Ways(before, after) => GrantsOf(before, r) \subseteq GrantsOf(after, r)
  BY DEF Ways
<1>2. "granted" \notin Ways(before, after) => GrantsOf(after, r) \subseteq GrantsOf(before, r)
  BY DEF Ways
<1>3. QED
  BY <1>1, <1>2 DEF Suffices

\* A zone belongs to the score: only a low one passes, and only a judged one
\* that is not low is rejected.
LEMMA ZoneOfScore ==
    /\ \A stage2 : Zone("low", "sampled", stage2) = "pass"
    /\ Zone("low", "none", NotRun) = "pass"
    /\ \A score \in Scores \ {"low"} :
          /\ Zone(score, "threshold", Degraded) = "restricted"
          /\ \A label \in Judgements : Zone(score, "threshold", Ran(label)) \in {"restricted", "reject"}
BY DEF Zone, DecideZone, NotRun, Degraded, Ran, Scores, Judgements

\* The initial state satisfies the inductive invariant.
LEMMA InitIInv == Init => IInv
<1> SUFFICES ASSUME Init
             PROVE  IInv
  OBVIOUS
<1>1. [r \in {} |-> {}] \in Grants
  <2>1. [r \in {} |-> {}] \in [{} -> SUBSET (Permissions \cup {Wildcard})]
    OBVIOUS
  <2>2. QED
    BY <2>1 DEF Grants
<1>2. TypeOK
  BY <1>1 DEF Init, TypeOK, New, Anonymous, Providers, Scores, RequestRecord
<1>3. \A q \in Requests : request[q] = New
  BY DEF Init
<1>4. Known(New)
  BY DEF Known, New, Checking, Checked, Judging, Earned
<1>5. QED
  BY <1>2, <1>3, <1>4 DEF IInv

-----------------------------------------------------------------------------
\* A change of one half of the policy is witnessed by the requests that are
\* between their reads, and leaves what they know true.
LEMMA WitnessingKeeps ==
    ASSUME IInv, NEW ways,
           Witnessing(roles', rule', ways),
           \/ ways = Ways(roles, roles') /\ rule' = rule
           \/ ways = {"rule"} /\ roles' = roles
    PROVE  request' \in [Requests -> RequestRecord] /\ \A q \in Requests : Known(request[q])'
<1> DEFINE since == ways \cup Under(loading')
           said(ctx) == Verdict(roles', rule', loading', ctx)
<1>1. request \in [Requests -> RequestRecord]
  BY DEF IInv, TypeOK
<1>2. ASSUME NEW q \in Requests
      PROVE  \/ request[q].pc # "roles" /\ request'[q] = request[q]
             \/ /\ request[q].pc = "roles"
                /\ request'[q] = [request[q] EXCEPT !.changed = @ \cup since,
                                                    !.verdicts = @ \cup said(request[q].ctx)]
  BY DEF Witnessing
<1>3. /\ since \subseteq {"granted", "revoked", "rule", "load"}
      /\ \A ctx : said(ctx) \subseteq BOOLEAN
  BY DEF Under, Verdict, Allows, Ways
<1> HIDE DEF since, said
<1>4. ASSUME NEW q \in Requests, request[q].pc = "roles"
      PROVE  /\ request'[q] \in RequestRecord
             /\ request'[q].pc = "roles" /\ request'[q].ctx = request[q].ctx
             /\ request'[q].rule = request[q].rule /\ request'[q].left = request[q].left
             /\ request'[q].ctx.roles \subseteq Roles
             /\ request'[q].zone = request[q].zone
             /\ request'[q].changed = request[q].changed \cup since
             /\ request'[q].verdicts = request[q].verdicts \cup said(request[q].ctx)
  <2>1. /\ request[q] \in RequestRecord
        /\ request'[q] = [request[q] EXCEPT !.changed = @ \cup since,
                                            !.verdicts = @ \cup said(request[q].ctx)]
    BY <1>1, <1>2, <1>4
  <2>2. said(request[q].ctx) \subseteq BOOLEAN
    BY <1>3
  <2>3. QED
    <3> DEFINE r == request[q]
               s == request'[q]
               more == said(r.ctx)
    <3>1. /\ r \in RequestRecord /\ r.pc = "roles"
          /\ more \in SUBSET BOOLEAN /\ since \in SUBSET {"granted", "revoked", "rule", "load"}
          /\ s = [r EXCEPT !.changed = @ \cup since, !.verdicts = @ \cup more]
      BY <1>3, <1>4, <2>1, <2>2
    <3> HIDE DEF r, s, more
    <3>2. /\ s \in RequestRecord
          /\ s.pc = r.pc /\ s.ctx = r.ctx /\ s.rule = r.rule /\ s.zone = r.zone
          /\ s.left = r.left /\ s.ctx.roles \subseteq Roles
          /\ s.changed = r.changed \cup since
          /\ s.verdicts = r.verdicts \cup more
      <4>1. /\ r.changed \cup since \in SUBSET {"granted", "revoked", "rule", "load"}
            /\ r.verdicts \cup more \in SUBSET BOOLEAN
        BY <3>1 DEF RequestRecord
      <4>2. QED
        BY <3>1, <4>1 DEF RequestRecord
    <3>3. QED
      BY <3>1, <3>2 DEF r, s, more
<1>5. request' \in [Requests -> RequestRecord]
  <2>1. \A q \in Requests : request'[q] \in RequestRecord
    BY <1>1, <1>2, <1>4
  <2>2. request' = [q \in Requests |-> request'[q]]
    BY DEF Witnessing
  <2>3. QED
    BY <2>1, <2>2
<1>6. ASSUME NEW q \in Requests
      PROVE  Known(request[q])'
  <2>1. Known(request[q])
    BY DEF IInv
  <2>2. CASE request[q].pc # "roles"
    BY <1>2, <2>1, <2>2 DEF Known, Checking, Checked, Mixed, Judging, Earned
  <2>3. CASE request[q].pc = "roles"
    <3> DEFINE r == request[q]
               s == request'[q]
    <3>0. /\ s.pc = "roles" /\ s.ctx = r.ctx /\ s.rule = r.rule /\ s.left = r.left
          /\ r.ctx.roles \subseteq Roles
          /\ s.changed = r.changed \cup ways \cup Under(loading')
          /\ s.verdicts = r.verdicts \cup Verdict(roles', rule', loading', r.ctx)
      BY <1>4, <2>3 DEF since, said
    <3>1. Checking(request[q])'
      <4>1. /\ r.rule \in Rules /\ ~Settles(r.rule, r.ctx) /\ r.left \subseteq r.ctx.roles
            /\ \/ "load" \in r.changed
               \/ /\ Allows(roles, rule, r.ctx) \in r.verdicts
                  /\ "rule" \notin r.changed => r.rule = rule
                  /\ r.changed \cap {"granted", "revoked"} = {} => Allows(roles, r.rule, r.ctx) \in r.verdicts
                  /\ "granted" \notin r.changed =>
                        \A x \in r.ctx.roles \ r.left : ~Suffices(roles, r.rule, x)
                  /\ "revoked" \notin r.changed /\ "rule" \notin r.changed =>
                        FALSE \in r.verdicts \/ \E x \in r.left : Suffices(roles, r.rule, x)
        BY <2>1, <2>3 DEF Known, Checking
      <4>2. loading' # {} => "load" \in s.changed
        BY <3>0 DEF Under
      <4> HIDE DEF r, s
      <4>3. ASSUME "load" \notin s.changed
            PROVE  /\ Allows(roles', rule', s.ctx) \in s.verdicts
                   /\ "rule" \notin s.changed => s.rule = rule'
                   /\ s.changed \cap {"granted", "revoked"} = {} => Allows(roles', s.rule, s.ctx) \in s.verdicts
                   /\ "granted" \notin s.changed =>
                         \A x \in s.ctx.roles \ s.left : ~Suffices(roles', s.rule, x)
                   /\ "revoked" \notin s.changed /\ "rule" \notin s.changed =>
                         FALSE \in s.verdicts \/ \E x \in s.left : Suffices(roles', s.rule, x)
        <5>1. loading' = {} /\ "load" \notin r.changed
          BY <3>0, <4>2, <4>3
        <5>2. s.verdicts = r.verdicts \cup {Allows(roles', rule', r.ctx)}
          BY <3>0, <5>1 DEF Verdict
        <5>3. s.changed = r.changed \cup ways
          BY <3>0, <5>1 DEF Under
        <5>4. CASE ways = {"rule"} /\ roles' = roles
          BY <3>0, <4>1, <5>1, <5>2, <5>3, <5>4
        <5>5. CASE ways = Ways(roles, roles') /\ rule' = rule
          <6>1. "rule" \notin ways
            BY <5>5 DEF Ways
          <6>2. "rule" \notin s.changed => s.rule = rule' /\ r.rule = rule /\ "rule" \notin r.changed
            BY <3>0, <4>1, <5>1, <5>3, <5>5
          <6>3. \A x \in Roles :
                  /\ "revoked" \notin ways => (Suffices(roles, r.rule, x) => Suffices(roles', r.rule, x))
                  /\ "granted" \notin ways => (Suffices(roles', r.rule, x) => Suffices(roles, r.rule, x))
            BY <5>5, SufficesStill
          <6>4. ways \cap {"granted", "revoked"} = {} =>
                  (Allows(roles', r.rule, r.ctx) <=> Allows(roles, r.rule, r.ctx))
            <7>1. r.rule # NoRule
              BY <4>1, GateAssumption
            <7>2. /\ Allows(roles, r.rule, r.ctx) <=> \E x \in r.ctx.roles : Suffices(roles, r.rule, x)
                  /\ Allows(roles', r.rule, r.ctx) <=> \E x \in r.ctx.roles : Suffices(roles', r.rule, x)
              BY <4>1, <7>1, AllowsIs
            <7>3. ASSUME ways \cap {"granted", "revoked"} = {}
                  PROVE  \A x \in r.ctx.roles : Suffices(roles, r.rule, x) <=> Suffices(roles', r.rule, x)
              <8>1. "granted" \notin ways /\ "revoked" \notin ways
                BY <7>3
              <8>2. QED
                <9> TAKE x \in r.ctx.roles
                <9>1. x \in Roles
                  BY <3>0
                <9>2. QED
                  BY <6>3, <8>1, <9>1
            <7>4. QED
              BY <7>2, <7>3
          <6>5. s.changed \cap {"granted", "revoked"} = {} => Allows(roles', s.rule, s.ctx) \in s.verdicts
            <7>1. SUFFICES ASSUME s.changed \cap {"granted", "revoked"} = {}
                           PROVE  Allows(roles', r.rule, r.ctx) \in s.verdicts
              BY <3>0
            <7>2. /\ Allows(roles, r.rule, r.ctx) \in r.verdicts
                  /\ Allows(roles', r.rule, r.ctx) <=> Allows(roles, r.rule, r.ctx)
              BY <4>1, <5>1, <5>3, <6>4, <7>1
            <7>3. Allows(roles', r.rule, r.ctx) = Allows(roles, r.rule, r.ctx)
              BY <7>2, AllowsIs
            <7>4. QED
              BY <5>2, <7>2, <7>3
          <6>6. "granted" \notin s.changed =>
                  \A x \in s.ctx.roles \ s.left : ~Suffices(roles', s.rule, x)
            <7>1. SUFFICES ASSUME "granted" \notin s.changed, NEW x \in r.ctx.roles \ r.left
                           PROVE  ~Suffices(roles', r.rule, x)
              BY <3>0
            <7>2. "granted" \notin r.changed /\ "granted" \notin ways /\ x \in Roles
              BY <3>0, <5>3, <7>1
            <7>3. ~Suffices(roles, r.rule, x)
              BY <4>1, <5>1, <7>2
            <7>4. QED
              BY <6>3, <7>2, <7>3
          <6>7. "revoked" \notin s.changed /\ "rule" \notin s.changed =>
                  FALSE \in s.verdicts \/ \E x \in s.left : Suffices(roles', s.rule, x)
            <7>1. SUFFICES ASSUME "revoked" \notin s.changed, "rule" \notin s.changed
                           PROVE  FALSE \in s.verdicts \/ \E x \in r.left : Suffices(roles', r.rule, x)
              BY <3>0
            <7>2. /\ "revoked" \notin r.changed /\ "rule" \notin r.changed
                  /\ "revoked" \notin ways
              BY <5>3, <7>1
            <7>3. CASE FALSE \in r.verdicts
              BY <5>2, <7>3
            <7>4. ASSUME NEW x \in r.left, Suffices(roles, r.rule, x)
                  PROVE  \E y \in r.left : Suffices(roles', r.rule, y)
              <8>1. x \in Roles
                BY <3>0, <4>1
              <8>2. QED
                BY <6>3, <7>2, <7>4, <8>1
            <7>5. QED
              BY <4>1, <5>1, <7>2, <7>3, <7>4
          <6>8. QED
            BY <3>0, <5>2, <6>2, <6>5, <6>6, <6>7
        <5>6. QED
          BY <5>4, <5>5
      <4>4. QED
        BY <3>0, <4>1, <4>2, <4>3 DEF Checking, s
    <3>2. (Checked(request[q]) /\ Judging(request[q]) /\ Earned(request[q]))'
      BY <1>4, <2>1, <2>3 DEF Known, Checked, Mixed, Judging, Earned
    <3>3. QED
      BY <3>1, <3>2 DEF Known
  <2>4. QED
    BY <2>2, <2>3
<1>7. QED
  BY <1>5, <1>6

\* Types and knowledge make up the invariant when the policy has changed.
LEMMA PolicyChangeKeeps ==
    ASSUME IInv, NEW ways,
           Witnessing(roles', rule', ways),
           \/ ways = Ways(roles, roles') /\ rule' = rule
           \/ ways = {"rule"} /\ roles' = roles,
           roles' \in Grants, rule' \in Rules \cup {NoRule}, loading' \subseteq Rules,
           changes' \in Nat, UNCHANGED <<providers, keys, now, degraded>>
    PROVE  IInv'
<1>1. request' \in [Requests -> RequestRecord] /\ \A q \in Requests : Known(request[q])'
  BY WitnessingKeeps
<1>2. QED
  BY <1>1 DEF IInv, TypeOK

-----------------------------------------------------------------------------
\* The administrator's changes of the policy keep the invariant.
LEMMA RolesKeepIInv ==
    ASSUME IInv, NEW grants \in Grants, NEW pending \in SUBSET Rules,
           SetRoles(grants, pending), changes' \in Nat
    PROVE  IInv'
BY PolicyChangeKeeps DEF SetRoles, IInv, TypeOK

LEMMA RuleKeepsIInv ==
    ASSUME IInv, NEW needed \in Rules, NEW pending \in SUBSET Rules,
           AssignRule(needed, pending), changes' \in Nat
    PROVE  IInv'
BY PolicyChangeKeeps DEF AssignRule, IInv, TypeOK

\* Granting and revoking make tables of grants of tables of grants.
LEMMA GrantsChange ==
    ASSUME NEW table \in Grants, NEW r \in Roles, NEW p \in Permissions \cup {Wildcard}
    PROVE  /\ [x \in DOMAIN table \cup {r} |-> IF x = r THEN {p} ELSE table[x]] \in Grants
           /\ [x \in DOMAIN table \ {r} |-> table[x]] \in Grants
           /\ [x \in DOMAIN table \cup {r} |->
                (IF x \in DOMAIN table THEN table[x] ELSE {}) \cup (IF x = r THEN {p} ELSE {})] \in Grants
           /\ r \in DOMAIN table => [table EXCEPT ![r] = @ \ {p}] \in Grants
<1> DEFINE P == SUBSET (Permissions \cup {Wildcard})
<1>1. PICK some \in SUBSET Roles : table \in [some -> P]
  BY DEF Grants
<1>2. \A other \in SUBSET Roles : \A f \in [other -> P] : f \in Grants
  BY DEF Grants
<1>3. DOMAIN table = some /\ some \cup {r} \in SUBSET Roles /\ some \ {r} \in SUBSET Roles
  BY <1>1
<1>4. {p} \in P
  OBVIOUS
<1> HIDE DEF P
<1>5. [x \in some \cup {r} |-> IF x = r THEN {p} ELSE table[x]] \in [some \cup {r} -> P]
  BY <1>1, <1>4
<1>6. [x \in some \ {r} |-> table[x]] \in [some \ {r} -> P]
  BY <1>1
<1>7. [x \in some \cup {r} |-> (IF x \in some THEN table[x] ELSE {})
                                  \cup (IF x = r THEN {p} ELSE {})] \in [some \cup {r} -> P]
  BY <1>1, <1>4 DEF P
<1>8. [table EXCEPT ![r] = @ \ {p}] \in [some -> P]
  BY <1>1 DEF P
<1>9. QED
  BY <1>2, <1>3, <1>5, <1>6, <1>7, <1>8

\* Whatever the administrator does keeps the invariant.
LEMMA AdminKeepsIInv ==
    ASSUME IInv,
           \/ \E name \in Providers :
                 Register(name, TRUE) \/ Register(name, FALSE) \/ Unregister(name) \/ SetDefault(name)
           \/ \E k \in Keys : AddKey(k) \/ RemoveKey(k)
           \/ \E r \in Roles : RemoveRole(r)
                 \/ \E p \in Permissions \cup {Wildcard} :
                       AddRole(r, {p}) \/ GrantPermission(r, p) \/ RevokePermission(r, p)
           \/ \E policy \in Policies : SetRule(policy.rule) \/ LoadRoles(policy)
           \/ LoadRules \/ Tick
    PROVE  IInv'
<1>1. /\ roles \in Grants /\ rule \in Rules \cup {NoRule} /\ loading \in SUBSET Rules
      /\ changes \in Nat /\ changes + 1 \in Nat
  BY DEF IInv, TypeOK
<1>2. \A policy \in Policies : policy.roles \in Grants /\ policy.rule \in Rules
  BY GateAssumption
<1>3. ASSUME request' = request, roles' = roles, rule' = rule, loading' = loading
      PROVE  \A q \in Requests : Known(request[q])'
  BY <1>3 DEF IInv, Known, Checking, Checked, Mixed, Judging, Earned
<1>4. ASSUME NEW name \in Providers,
             Register(name, TRUE) \/ Register(name, FALSE) \/ Unregister(name) \/ SetDefault(name)
      PROVE  IInv'
  <2>1. TypeOK'
    <3> USE DEF IInv, TypeOK, Changes
    <3>1. CASE Register(name, TRUE)
      BY <3>1 DEF Register
    <3>2. CASE Register(name, FALSE)
      BY <3>2 DEF Register
    <3>3. CASE Unregister(name)
      BY <3>3 DEF Unregister
    <3>4. CASE SetDefault(name)
      BY <3>4 DEF SetDefault
    <3>5. QED
      BY <1>4, <3>1, <3>2, <3>3, <3>4
  <2>2. request' = request /\ roles' = roles /\ rule' = rule /\ loading' = loading
    BY <1>4 DEF Register, Unregister, SetDefault
  <2>3. QED
    BY <1>3, <2>1, <2>2 DEF IInv
<1>5. ASSUME NEW k \in Keys, AddKey(k) \/ RemoveKey(k)
      PROVE  IInv'
  BY <1>1, <1>3, <1>5 DEF IInv, TypeOK, Changes, AddKey, RemoveKey
<1>6. ASSUME NEW r \in Roles, RemoveRole(r)
      PROVE  IInv'
  <2>1. [x \in DOMAIN roles \ {r} |-> roles[x]] \in Grants
    BY <1>1, GrantsChange
  <2>2. QED
    BY <1>1, <1>6, <2>1, RolesKeepIInv DEF RemoveRole, Changes
<1>7. ASSUME NEW r \in Roles, NEW p \in Permissions \cup {Wildcard},
             AddRole(r, {p}) \/ GrantPermission(r, p) \/ RevokePermission(r, p)
      PROVE  IInv'
  <2>1. CASE AddRole(r, {p})
    BY <1>1, <2>1, GrantsChange, RolesKeepIInv DEF AddRole, Changes
  <2>2. CASE GrantPermission(r, p)
    BY <1>1, <2>2, GrantsChange, RolesKeepIInv DEF GrantPermission, Changes
  <2>3. CASE RevokePermission(r, p)
    BY <1>1, <2>3, GrantsChange, RolesKeepIInv DEF RevokePermission, Changes
  <2>4. QED
    BY <1>7, <2>1, <2>2, <2>3
<1>8. ASSUME NEW policy \in Policies, SetRule(policy.rule) \/ LoadRoles(policy)
      PROVE  IInv'
  <2>1. CASE SetRule(policy.rule)
    BY <1>1, <1>2, <2>1, RuleKeepsIInv DEF SetRule, Changes
  <2>2. CASE LoadRoles(policy)
    BY <1>1, <1>2, <2>2, RolesKeepIInv DEF LoadRoles, Changes
  <2>3. QED
    BY <1>8, <2>1, <2>2
<1>9. CASE LoadRules
  <2>1. PICK needed \in loading : AssignRule(needed, {})
    BY <1>9 DEF LoadRules
  <2>2. QED
    BY <1>1, <1>9, <2>1, RuleKeepsIInv DEF LoadRules
<1>10. CASE Tick
  BY <1>3, <1>10 DEF IInv, TypeOK, Tick, admin
<1>11. QED
  BY <1>4, <1>5, <1>6, <1>7, <1>8, <1>9, <1>10

-----------------------------------------------------------------------------
\* A request's own step keeps the invariant if it keeps the request's type and
\* what the request knows.
LEMMA OwnStep ==
    ASSUME IInv, NEW q \in Requests, NEW from, NEW next, Step(q, from, next),
           next \in RequestRecord,
           degraded' \in BOOLEAN, Known(next)
    PROVE  IInv'
<1>1. /\ request' \in [Requests -> RequestRecord]
      /\ \A other \in Requests : request'[other] = IF other = q THEN next ELSE request[other]
  BY DEF IInv, TypeOK, Step
<1>2. UNCHANGED <<providers, keys, now, roles, rule, loading, changes>>
  BY DEF Step, admin
<1>3. TypeOK'
  BY <1>1, <1>2 DEF IInv, TypeOK
<1>4. ASSUME NEW other \in Requests
      PROVE  Known(request[other])'
  <2>1. Known(request'[other])
    BY <1>1, <1>4 DEF IInv
  <2>2. QED
    BY <1>2, <2>1 DEF Known, Checking, Checked, Mixed, Judging, Earned
<1>5. QED
  BY <1>3, <1>4 DEF IInv

\* Whatever a request does keeps the invariant.
LEMMA RequestKeepsIInv ==
    ASSUME IInv, NEW q \in Requests,
           \/ \E c \in Keys \cup Tokens : LogIn(q, c)
           \/ ReadRule(q) \/ \E x \in Roles : LookUpRole(q, x)
           \/ \E score \in Scores, sampled \in BOOLEAN : Stage1(q, score, sampled)
           \/ \E label \in Judgements, fails \in BOOLEAN : Stage2(q, label, fails)
    PROVE  IInv'
<1> DEFINE r == request[q]
<1>1. r \in RequestRecord
  BY DEF IInv, TypeOK
<1>2. Known(r) /\ degraded \in BOOLEAN /\ rule \in Rules \cup {NoRule}
  BY DEF IInv, TypeOK
<1> HIDE DEF r
<1>3. ASSUME NEW c \in Keys \cup Tokens, LogIn(q, c)
      PROVE  IInv'
  <2> DEFINE next == [New EXCEPT !.pc = "rule", !.ctx = Authenticate(providers.default, c)]
  <2>1. Authenticate(providers.default, c)
          \in [authenticated : BOOLEAN, roles : SUBSET Roles, permissions : SUBSET Permissions]
    BY GateAssumption DEF Authenticate, Authenticated, Anonymous
  <2>2. next \in RequestRecord
    BY <2>1 DEF New, Scores, RequestRecord
  <2>3. Known(next)
    BY DEF New, Known, Checking, Checked, Judging, Earned
  <2>4. Step(q, "new", next) /\ degraded' \in BOOLEAN
    BY <1>2, <1>3 DEF LogIn
  <2> HIDE DEF next
  <2>5. QED
    BY <2>2, <2>3, <2>4, OwnStep
<1>4. CASE ReadRule(q)
  <2> DEFINE says == Verdict(roles, rule, loading, r.ctx)
             seen == [r EXCEPT !.verdicts = says, !.changed = Under(loading)]
             next == IF rule = NoRule THEN [seen EXCEPT !.pc = "denied"]
                     ELSE IF Settles(rule, r.ctx) THEN [seen EXCEPT !.pc = "guard"]
                     ELSE IF r.ctx.roles = {} THEN [seen EXCEPT !.pc = "denied"]
                     ELSE [seen EXCEPT !.pc = "roles", !.rule = rule, !.left = r.ctx.roles]
  <2>1. says \in SUBSET BOOLEAN /\ Under(loading) \in SUBSET {"load"}
    BY DEF Verdict, Under, Allows
  <2>2. r.pc = "rule" /\ Step(q, "rule", next) /\ degraded' \in BOOLEAN
    BY <1>2, <1>4 DEF ReadRule, Step, r
  <2>3. /\ next \in RequestRecord
        /\ next.ctx = r.ctx /\ next.zone = r.zone /\ next.verdicts = says
        /\ next.changed = Under(loading)
        /\ next.pc = IF rule = NoRule THEN "denied"
                     ELSE IF Settles(rule, r.ctx) THEN "guard"
                     ELSE IF r.ctx.roles = {} THEN "denied" ELSE "roles"
        /\ next.pc = "roles" => next.rule = rule /\ next.left = r.ctx.roles
    <3> HIDE DEF says
    <3>0. r.ctx.roles \in SUBSET Roles
      BY <1>1 DEF RequestRecord
    <3>1. /\ seen \in RequestRecord /\ seen.ctx = r.ctx /\ seen.zone = r.zone
          /\ seen.verdicts = says /\ seen.changed = Under(loading)
      BY <1>1, <2>1 DEF RequestRecord
    <3> HIDE DEF seen
    <3>2. \A pc \in {"denied", "guard"} :
            LET w == [seen EXCEPT !.pc = pc]
            IN  /\ w \in RequestRecord /\ w.ctx = seen.ctx /\ w.zone = seen.zone
                /\ w.verdicts = seen.verdicts /\ w.changed = seen.changed /\ w.pc = pc
      BY <3>1 DEF RequestRecord
    <3>3. LET w == [seen EXCEPT !.pc = "roles", !.rule = rule, !.left = r.ctx.roles]
          IN  /\ w \in RequestRecord /\ w.ctx = seen.ctx /\ w.zone = seen.zone
              /\ w.verdicts = seen.verdicts /\ w.changed = seen.changed /\ w.pc = "roles"
              /\ w.rule = rule /\ w.left = r.ctx.roles
      BY <1>2, <3>0, <3>1 DEF RequestRecord
    <3>4. QED
      BY <3>1, <3>2, <3>3
  <2> HIDE DEF next
  <2>4. Known(next)
    <3>1. loading # {} => "load" \in next.changed
      BY <2>3 DEF Under
    <3>2. /\ "load" \notin next.changed => Allows(roles, rule, next.ctx) \in next.verdicts
          /\ next.changed \subseteq {"load"}
      BY <2>3 DEF Under, Verdict
    <3>3. Checking(next)
      <4>1. SUFFICES ASSUME next.pc = "roles"
                     PROVE  /\ next.rule = rule /\ rule \in Rules /\ ~Settles(rule, next.ctx)
                            /\ next.left = next.ctx.roles
                            /\ "load" \notin next.changed =>
                                 FALSE \in next.verdicts \/ \E x \in next.left : Suffices(roles, rule, x)
        BY <3>1, <3>2 DEF Checking
      <4>2. /\ next.rule = rule /\ rule \in Rules /\ ~Settles(rule, next.ctx)
            /\ next.left = next.ctx.roles
        BY <1>2, <2>3, <4>1
      <4>3. Allows(roles, rule, next.ctx) = FALSE \/ \E x \in next.ctx.roles : Suffices(roles, rule, x)
        BY <4>2, AllowsIs, GateAssumption
      <4>4. QED
        BY <3>2, <4>2, <4>3
    <3>4. Checked(next)
      <4>1. next.pc = "guard" => Allows(roles, rule, next.ctx) = TRUE
        BY <2>3, AllowsIs
      <4>2. next.pc = "denied" => Allows(roles, rule, next.ctx) = FALSE
        BY <2>3, AllowsIs
      <4>3. QED
        BY <3>2, <4>1, <4>2 DEF Checked, Mixed
    <3>5. Judging(next) /\ Earned(next)
      BY <1>2, <2>2, <2>3 DEF Known, Judging, Earned
    <3>6. QED
      BY <3>3, <3>4, <3>5 DEF Known
  <2>5. QED
    BY <2>2, <2>3, <2>4, OwnStep
<1>5. ASSUME NEW x \in Roles, LookUpRole(q, x)
      PROVE  IInv'
  <2> DEFINE enough == Suffices(roles, r.rule, x)
             decided == [r EXCEPT !.rule = NoRule, !.left = {}]
             next == IF enough THEN [decided EXCEPT !.pc = "guard"]
                     ELSE IF r.left = {x} THEN [decided EXCEPT !.pc = "denied"]
                     ELSE [r EXCEPT !.left = @ \ {x}]
  <2>1. x \in r.left /\ r.pc = "roles" /\ Step(q, "roles", next) /\ degraded' \in BOOLEAN
    BY <1>2, <1>5 DEF LookUpRole, Step, r
  <2>2. /\ next \in RequestRecord
        /\ next.ctx = r.ctx /\ next.zone = r.zone /\ next.verdicts = r.verdicts
        /\ next.changed = r.changed
        /\ next.pc = IF enough THEN "guard" ELSE IF r.left = {x} THEN "denied" ELSE "roles"
        /\ next.pc = "roles" => next.rule = r.rule /\ next.left = r.left \ {x}
    <3> HIDE DEF enough
    <3>1. /\ decided \in RequestRecord /\ decided.ctx = r.ctx /\ decided.zone = r.zone
          /\ decided.verdicts = r.verdicts /\ decided.changed = r.changed
      BY <1>1 DEF RequestRecord
    <3> HIDE DEF decided
    <3>2. \A pc \in {"denied", "guard"} :
            LET w == [decided EXCEPT !.pc = pc]
            IN  /\ w \in RequestRecord /\ w.ctx = decided.ctx /\ w.zone = decided.zone
                /\ w.verdicts = decided.verdicts /\ w.changed = decided.changed /\ w.pc = pc
      BY <3>1 DEF RequestRecord
    <3>3. LET w == [r EXCEPT !.left = @ \ {x}]
          IN  /\ w \in RequestRecord /\ w.ctx = r.ctx /\ w.zone = r.zone
              /\ w.verdicts = r.verdicts /\ w.changed = r.changed /\ w.pc = r.pc
              /\ w.rule = r.rule /\ w.left = r.left \ {x}
      BY <1>1 DEF RequestRecord
    <3>4. QED
      BY <2>1, <3>1, <3>2, <3>3
  <2> HIDE DEF next
  <2>3. Known(next)
    <3>1. /\ r.rule \in Rules /\ ~Settles(r.rule, r.ctx) /\ r.left \subseteq r.ctx.roles
          /\ loading # {} => "load" \in r.changed
          /\ \/ "load" \in r.changed
             \/ /\ Allows(roles, rule, r.ctx) \in r.verdicts
                /\ "rule" \notin r.changed => r.rule = rule
                /\ r.changed \cap {"granted", "revoked"} = {} => Allows(roles, r.rule, r.ctx) \in r.verdicts
                /\ "granted" \notin r.changed =>
                      \A y \in r.ctx.roles \ r.left : ~Suffices(roles, r.rule, y)
                /\ "revoked" \notin r.changed /\ "rule" \notin r.changed =>
                      FALSE \in r.verdicts \/ \E y \in r.left : Suffices(roles, r.rule, y)
      BY <1>2, <2>1 DEF Known, Checking
    <3>2. /\ Allows(roles, r.rule, r.ctx) \in BOOLEAN
          /\ Allows(roles, r.rule, r.ctx) <=> \E y \in r.ctx.roles : Suffices(roles, r.rule, y)
      BY <3>1, AllowsIs, GateAssumption
    <3>3. ~Mixed(r) => Allows(roles, r.rule, r.ctx) \in r.verdicts
      BY <3>1 DEF Mixed
    <3>4. Checking(next)
      <4>1. SUFFICES ASSUME next.pc = "roles"
                     PROVE  Checking(next)
        BY DEF Checking
      <4>2. ~enough /\ next.rule = r.rule /\ next.left = r.left \ {x}
        BY <2>2, <4>1
      <4> HIDE DEF r
      <4>3. QED
        BY <2>2, <3>1, <4>1, <4>2 DEF Checking
    <3>5. Checked(next)
      <4>1. CASE next.pc = "guard"
        <5>1. Allows(roles, r.rule, r.ctx) = TRUE
          BY <2>1, <2>2, <3>1, <3>2, <4>1
        <5>2. QED
          BY <2>2, <3>3, <4>1, <5>1 DEF Checked, Mixed
      <4>2. CASE next.pc = "denied"
        <5>1. ~enough /\ r.left = {x}
          BY <2>2, <4>2
        <5>2. CASE Mixed(r) \/ {"granted", "revoked"} \subseteq r.changed
          BY <2>2, <4>2, <5>2 DEF Checked, Mixed
        <5>3. CASE ~Mixed(r) /\ "granted" \notin r.changed
          <6>1. \A y \in r.ctx.roles \ {x} : ~Suffices(roles, r.rule, y)
            BY <3>1, <5>1, <5>3 DEF Mixed
          <6>2. Allows(roles, r.rule, r.ctx) = FALSE
            BY <3>2, <5>1, <6>1
          <6>3. QED
            BY <2>2, <3>3, <4>2, <5>3, <6>2 DEF Checked
        <5>4. CASE ~Mixed(r) /\ "revoked" \notin r.changed /\ "granted" \in r.changed
          <6>1. "rule" \notin r.changed /\ "load" \notin r.changed
            BY <5>4 DEF Mixed
          <6>2. FALSE \in r.verdicts
            BY <3>1, <5>1, <5>4, <6>1
          <6>3. QED
            BY <2>2, <4>2, <6>2 DEF Checked
        <5>5. QED
          BY <5>2, <5>3, <5>4
      <4>3. CASE next.pc = "roles"
        BY <4>3 DEF Checked
      <4>4. QED
        BY <2>2, <4>1, <4>2, <4>3
    <3>6. Judging(next) /\ Earned(next)
      BY <1>2, <2>1, <2>2 DEF Known, Judging, Earned
    <3>7. QED
      BY <3>4, <3>5, <3>6 DEF Known
  <2>4. QED
    BY <2>1, <2>2, <2>3, OwnStep
<1>6. ASSUME NEW score \in Scores, NEW sampled \in BOOLEAN, Stage1(q, score, sampled)
      PROVE  IInv'
  <2> DEFINE why == Escalation(score, sampled)
             scored == [r EXCEPT !.score = score, !.verdicts = {}, !.changed = {}]
             next == IF why = "none"
                     THEN [scored EXCEPT !.pc = "done", !.zone = Zone(score, why, NotRun)]
                     ELSE [scored EXCEPT !.pc = "stage2", !.why = why]
  <2>1. /\ why \in {"none", "threshold", "sampled"}
        /\ why = "threshold" <=> score # "low"
    BY DEF Escalation
  <2>2. why = "none" => Zone(score, why, NotRun) = "pass"
    BY <2>1, ZoneOfScore
  <2>3. r.pc = "guard" /\ Step(q, "guard", next) /\ degraded' \in BOOLEAN
    BY <1>2, <1>6 DEF Stage1, Step, r
  <2> HIDE DEF why
  <2>4. next \in RequestRecord
    BY <1>1, <2>1, <2>2 DEF RequestRecord
  <2>5. Known(next)
    <3>1. /\ next.score = score
          /\ why = "none" => next.pc = "done" /\ next.zone = "pass"
          /\ why # "none" => next.pc = "stage2" /\ next.zone = r.zone /\ next.why = why
      BY <1>1, <2>2
    <3> HIDE DEF next
    <3>2. Checking(next) /\ Checked(next)
      BY <1>2, <2>3, <3>1 DEF Known, Checking, Checked
    <3>3. Judging(next) /\ Earned(next)
      BY <1>2, <2>1, <2>3, <3>1 DEF Known, Judging, Earned
    <3>4. QED
      BY <3>2, <3>3 DEF Known
  <2> HIDE DEF next
  <2>6. QED
    BY <2>3, <2>4, <2>5, OwnStep
<1>7. ASSUME NEW label \in Judgements, NEW fails \in BOOLEAN, Stage2(q, label, fails)
      PROVE  IInv'
  <2> DEFINE stage2 == IF degraded \/ fails THEN Degraded ELSE Ran(label)
             zone == Zone(r.score, r.why, stage2)
             next == [r EXCEPT !.pc = "done", !.judged = stage2.ran, !.zone = zone]
  <2>1. /\ stage2 \in {Degraded, Ran(label)} /\ stage2.ran \in BOOLEAN
        /\ stage2.ran <=> stage2 = Ran(label)
    BY DEF Degraded, Ran
  <2>2. r.pc = "stage2" /\ Step(q, "stage2", next) /\ degraded' \in BOOLEAN
    BY <1>2, <1>7 DEF Stage2, Step, r
  <2>3. /\ zone \in {"pass", "restricted", "reject"}
        /\ zone = "pass" <=> r.score = "low"
        /\ zone = "reject" => stage2.ran /\ r.score # "low"
    <3> HIDE DEF stage2
    <3>1. CASE r.score = "low"
      BY <1>2, <2>2, <3>1, ZoneOfScore DEF Known, Judging
    <3>2. CASE r.score # "low" /\ stage2 = Degraded
      BY <1>1, <1>2, <2>2, <3>2, ZoneOfScore DEF Known, Judging, RequestRecord
    <3>3. CASE r.score # "low" /\ stage2 = Ran(label)
      BY <1>1, <1>2, <2>1, <2>2, <3>3, ZoneOfScore DEF Known, Judging, RequestRecord
    <3>4. QED
      BY <2>1, <3>1, <3>2, <3>3
  <2> HIDE DEF zone, stage2
  <2>4. next \in RequestRecord
    BY <1>1, <2>1, <2>3 DEF RequestRecord
  <2>5. Known(next)
    <3>1. /\ next.verdicts = r.verdicts /\ next.changed = r.changed /\ next.score = r.score
          /\ next.pc = "done" /\ next.zone = zone /\ next.judged = stage2.ran
      BY <1>1
    <3> HIDE DEF next
    <3>2. Checking(next) /\ Checked(next)
      BY <1>2, <2>2, <3>1 DEF Known, Checking, Checked
    <3>3. Judging(next) /\ Earned(next)
      BY <2>3, <3>1 DEF Judging, Earned
    <3>4. QED
      BY <3>2, <3>3 DEF Known
  <2> HIDE DEF next
  <2>6. QED
    BY <2>2, <2>4, <2>5, OwnStep
<1>8. QED
  BY <1>3, <1>4, <1>5, <1>6, <1>7

\* Every step of the specification keeps the inductive invariant.
LEMMA NextIInv == IInv /\ [Next]_vars => IInv'
<1> SUFFICES ASSUME IInv, [Next]_vars
             PROVE  IInv'
  OBVIOUS
<1>1. CASE UNCHANGED vars
  BY <1>1 DEF vars, admin, IInv, TypeOK, Known, Checking, Checked, Mixed, Judging, Earned
<1>2. CASE Next
  BY <1>2, AdminKeepsIInv, RequestKeepsIInv DEF Next
<1>3. QED
  BY <1>1, <1>2

\* The invariant holds in every reachable state.
LEMMA Invariance == Spec => []IInv
BY InitIInv, NextIInv, PTL DEF Spec

-----------------------------------------------------------------------------
\* The variables keep their types, and the registry's default provider is always
\* registered, whatever the administrator does.
THEOREM TypeCorrect == Spec => []TypeOK
<1>1. IInv => TypeOK
  BY DEF IInv
<1>2. QED
  BY <1>1, Invariance, PTL

\* check() answers for a policy configured while it ran unless a file was being
\* loaded or both the rule and the grants changed between its reads; it may
\* also deny what every policy allowed, if grants were both given and revoked.
THEOREM PolicyTheorem == Spec => []AnswersForAConfiguredPolicy
<1>1. IInv => AnswersForAConfiguredPolicy
  BY DEF IInv, Known, Checked, Mixed, AnswersForAConfiguredPolicy
<1>2. QED
  BY <1>1, Invariance, PTL

\* Exactly the low scores pass, and nothing is rejected that stage 2 has not
\* judged, for any requests, samples and failures of the stage-2 model.
THEOREM ZonesTheorem == Spec => []ZonesAreEarned
<1>1. IInv => ZonesAreEarned
  BY DEF IInv, Known, Earned, ZonesAreEarned
<1>2. QED
  BY <1>1, Invariance, PTL
=============================================================================
