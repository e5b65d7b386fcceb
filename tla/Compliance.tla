------------------------------ MODULE Compliance ----------------------------
(***************************************************************************)
(* The compliance rules of an asset (pallets/compliance-manager, with the    *)
(* conditions and propositions of primitives): requirements, of which a      *)
(* transfer must meet one; each asks for conditions on the claims of sender  *)
(* and receiver, made by issuers the condition or the asset trusts.          *)
(***************************************************************************)
EXTENDS Claims, Sequences
LOCAL INSTANCE FiniteSetsExt
LOCAL INSTANCE SequencesExt

CONSTANTS
    RuleForms,              \* requirements an agent may write, without an id
    TrustForms,             \* default trusted issuers
    RuleIds,                \* ids an agent may name
    MaxConditionComplexity,
    MaxRules                \* bound on the requirements
AnyKind == {"any"}          \* TrustedFor::Any

VARIABLES
    rules,                  \* AssetCompliances: requirements
    rulesPaused,            \* and paused
    trusted,                \* TrustedClaimIssuer
    agentDids               \* external agents of the asset

complianceVars == <<rules, rulesPaused, trusted, agentDids>>

ComplianceInit == rules = <<>> /\ rulesPaused = FALSE /\ trusted = {} /\ agentDids = {}

-----------------------------------------------------------------------------
(* Conditions: [form, claims, issuers, who]. *)

\* is_trusted_for
TrustedFor(t, kind) == t.for = AnyKind \/ kind \in t.for

\* issuers_for: of the condition, or of the asset where the condition names none.
IssuersFor(c) == IF c.issuers = {} THEN trusted ELSE c.issuers

\* Mutant: whom an issuer is trusted for is not looked at.
MutFetchedClaims(who, c) ==
    UNION {UNION {{[kind |-> f.kind, value |-> f.value] : f \in FetchClaim(who, k.kind, t.issuer)} :
                      t \in IssuersFor(c)} : k \in c.claims}

\* fetch_claims, fetch_context: what trusted issuers claim, of the kinds the condition names.
FetchedClaims(who, c) ==
    UNION {UNION {{[kind |-> f.kind, value |-> f.value] : f \in FetchClaim(who, k.kind, t.issuer)} :
                      t \in {u \in IssuersFor(c) : TrustedFor(u, k.kind)}} : k \in c.claims}

\* proposition::exists, any: any CDD claim matches the blank one.
Found(k, fetched) == IF k.kind = "cdd" /\ k.value = "blank" THEN \E f \in fetched : f.kind = "cdd" ELSE k \in fetched

\* proposition::run, is_condition_satisfied
ConditionHolds(who, c) ==
    LET found == \E k \in c.claims : Found(k, FetchedClaims(who, c))
    IN  CASE c.form \in {"present", "any of"} -> found
          [] c.form \in {"absent", "none of"} -> ~ found
          [] c.form = "identity" -> who = c.who
          [] c.form = "agent" -> who \in agentDids

\* are_all_conditions_satisfied
AllHold(who, cs) == \A c \in cs : ConditionHolds(who, c)

\* is_compliant, is_any_requirement_compliant
IsCompliant(from, to) ==
    \/ rulesPaused
    \/ \E i \in DOMAIN rules : AllHold(from, rules[i].sender) /\ AllHold(to, rules[i].receiver)

\* evaluate_conditions: every condition on its own, without the claims the others fetched.
Evaluated(who, conditions) == {c \in conditions : ~ ConditionHolds(who, c)} = {}

\* verify_restriction_granular
Granular(from, to) ==
    LET result(r) == Evaluated(from, r.sender) /\ Evaluated(to, r.receiver)
        results   == [i \in DOMAIN rules |-> result(rules[i])]
    IN  [results |-> results, result |-> rulesPaused \/ TRUE \in {results[i] : i \in DOMAIN rules}]

-----------------------------------------------------------------------------
(* Limits. *)

\* ConditionType::count
ClaimCount(c) == IF c.form \in {"any of", "none of"} THEN Cardinality(c.claims) ELSE 1

\* Condition::complexity, of the worst case.
Complexity(c, defaults) ==
    LET n == IF c.issuers = {} THEN defaults ELSE Cardinality(c.issuers)
    IN  ClaimCount(c) * (IF n = 0 THEN 1 ELSE n)

\* base_verify_compliance_complexity
RulesComplexity(rs, defaults) ==
    LET ofRule(r) == MapThenSumSet(LAMBDA c : Complexity(c, defaults), r.sender)
                     + MapThenSumSet(LAMBDA c : Complexity(c, defaults), r.receiver)
        total == FoldSeq(LAMBDA r, n : n + ofRule(r), 0, rs)
    IN  IF total < Len(rs) THEN Len(rs) ELSE total

ComplexityOk(rs, defaults) == RulesComplexity(rs, defaults) <= MaxConditionComplexity

-----------------------------------------------------------------------------
(* Calls of the agent. *)

Rule(id, form) == [id |-> id, sender |-> form.sender, receiver |-> form.receiver]

\* get_latest_requirement_id
LatestId == IF rules = <<>> THEN 0 ELSE rules[Len(rules)].id

\* add_compliance_requirement
AddRequirement(form) ==
    LET new == Append(rules, Rule(LatestId + 1, form))
    IN  /\ Len(rules) < MaxRules
        /\ ComplexityOk(new, Cardinality(trusted))
        /\ rules' = new
        /\ UNCHANGED <<rulesPaused, trusted, agentDids, claimsVars>>

\* remove_compliance_requirement
RemoveRequirement(id) ==
    /\ \E i \in DOMAIN rules : rules[i].id = id
    /\ rules' = SelectSeq(rules, LAMBDA r : r.id # id)
    /\ UNCHANGED <<rulesPaused, trusted, agentDids, claimsVars>>

\* replace_asset_compliance: sorted by id, refused if an id is there twice.
ReplaceCompliance(rs) ==
    /\ Cardinality({rs[i].id : i \in DOMAIN rs}) = Len(rs)
    /\ ComplexityOk(rs, Cardinality(trusted))
    /\ rules' = SortSeq(rs, LAMBDA a, b : a.id < b.id)
    /\ UNCHANGED <<rulesPaused, trusted, agentDids, claimsVars>>

\* reset_asset_compliance: the rules go, and the pause with them.
ResetCompliance ==
    /\ rules' = <<>> /\ rulesPaused' = FALSE
    /\ UNCHANGED <<trusted, agentDids, claimsVars>>

\* pause_asset_compliance, resume_asset_compliance
PauseCompliance(pause) ==
    /\ rulesPaused' = pause
    /\ UNCHANGED <<rules, trusted, agentDids, claimsVars>>

\* change_compliance_requirement; the position is found by binary search.
ChangeRequirement(id, form) ==
    \E pos \in DOMAIN rules :
        LET new == [rules EXCEPT ![pos] = Rule(id, form)]
        IN  /\ rules[pos].id = id
            /\ ComplexityOk(new, Cardinality(trusted))
            /\ rules' = new
            /\ UNCHANGED <<rulesPaused, trusted, agentDids, claimsVars>>

\* add_default_trusted_claim_issuer; an issuer may be there twice, trusted for different claims.
AddTrusted(t) ==
    /\ t.issuer \in known /\ t \notin trusted
    /\ ComplexityOk(rules, Cardinality(trusted) + 1)
    /\ trusted' = trusted \cup {t}
    /\ UNCHANGED <<rules, rulesPaused, agentDids, claimsVars>>

\* remove_default_trusted_claim_issuer
RemoveTrusted(issuer) ==
    /\ \E t \in trusted : t.issuer = issuer
    /\ trusted' = {t \in trusted : t.issuer # issuer}
    /\ UNCHANGED <<rules, rulesPaused, agentDids, claimsVars>>

\* An agent of the asset comes or goes (pallets/external-agents).
ChangeAgents(ds) ==
    /\ agentDids' = ds
    /\ UNCHANGED <<rules, rulesPaused, trusted, claimsVars>>

ComplianceStep(issuers) ==
    \/ ClaimStep(issuers) /\ UNCHANGED complianceVars
    \/ \E f \in RuleForms :
         \/ AddRequirement(f)
         \/ \E id \in RuleIds : ChangeRequirement(id, f)
         \/ \E id, id2 \in RuleIds, g \in RuleForms : ReplaceCompliance(<<Rule(id, f), Rule(id2, g)>>)
    \/ \E id \in RuleIds : RemoveRequirement(id)
    \/ ResetCompliance
    \/ \E b \in BOOLEAN : PauseCompliance(b)
    \/ \E t \in TrustForms : AddTrusted(t) \/ RemoveTrusted(t.issuer)
    \/ \E d \in Persons : ChangeAgents({d})

-----------------------------------------------------------------------------
(* Properties. *)

\* Ids ascend, so that the binary search of change_compliance_requirement finds what is
\* there and a new id is new; and the rules stay within the limit of complexity with the
\* default issuers of now, whichever of the two grew last (base_verify_compliance_complexity).
RulesInOrder ==
    /\ \A i, j \in DOMAIN rules : i < j => rules[i].id < rules[j].id
    /\ ComplexityOk(rules, Cardinality(trusted))

\* Whom a claim counts for: the issuers some rule would ask about claims of the kind.
AskedFor(issuer, kind) ==
    \E i \in DOMAIN rules : \E c \in rules[i].sender \cup rules[i].receiver :
        \E t \in IssuersFor(c) : t.issuer = issuer /\ TrustedFor(t, kind)

\* The verdict of the RPC is that of the transfer (verify_restriction_granular, is_compliant).
RpcSaysTheSame == \A a, b \in Persons : Granular(a, b).result = IsCompliant(a, b)

\* What issuers claim that no rule trusts for that kind of claim changes no verdict
\* (fetch_claims, is_compliant).
OnlyTrustedCount ==
    [][claims' # claims /\ UNCHANGED complianceVars /\ moment' = moment =>
          \/ \E c \in (claims \ claims') \cup (claims' \ claims) : AskedFor(c.issuer, c.kind)
          \/ \A a, b \in Persons : IsCompliant(a, b)' = IsCompliant(a, b)]_<<complianceVars, claimsVars>>

\* The rules are in order and within their limit, the RPC tells what they decide, and only
\* claims of trusted issuers count (compliance-manager).
ComplianceExact == [](RulesInOrder /\ RpcSaysTheSame) /\ OnlyTrustedCount
=============================================================================
