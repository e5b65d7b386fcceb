------------------------------ MODULE Statistics ----------------------------
(***************************************************************************)
(* Statistics of an asset's investors, and the transfer conditions that are  *)
(* checked against them (pallets/statistics).  Figures are kept by the       *)
(* claims that investors have when tokens move; claims come from Claims.     *)
(***************************************************************************)
EXTENDS Claims
LOCAL INSTANCE FiniteSetsExt

CONSTANTS
    StatTypes,              \* of figures: [op |-> "count" or "balance", kind, issuer]
    StatSets,               \* sets of types an agent may keep
    ConditionSets,          \* sets of conditions an agent may set
    Figures,                \* values an agent may write
    MaxStats,               \* MaxStatsPerAsset
    Whole,                  \* parts of a Percentage in the whole
    IssueLimit              \* bound on the supply

VARIABLES
    activeStats,            \* ActiveAssetStats
    stats,                  \* AssetStats
    conditions,             \* AssetTransferCompliances: requirements; paused is never set
    exempt,                 \* TransferConditionExemptEntities
    holding                 \* BalanceOf, in pallets/asset

statsVars == <<activeStats, stats, conditions, exempt, holding>>

\* A Stat2ndKey: of no claim, of a missing claim, or of what the claim says.
SecondKeys ==
    {"none", "absent"} \cup UNION {ClaimValues[k] : k \in DOMAIN ClaimValues \cap {s.kind : s \in StatTypes}}

StatsInit ==
    /\ activeStats = {} /\ conditions = {} /\ exempt = {}
    /\ stats = [s \in StatTypes |-> [k \in SecondKeys |-> 0]]
    /\ holding = [d \in Persons |-> 0]

TotalHeld == MapThenSumSet(LAMBDA d : holding[d], Persons)

-----------------------------------------------------------------------------
(* Figures. *)

\* fetch_claim_as_key, for an identity.
ClaimAsKey(who, s) ==
    IF s.kind = "none" THEN "none"
    ELSE LET c == FetchClaim(who, s.kind, s.issuer)
         IN  IF c = {} THEN "absent" ELSE (CHOOSE e \in c : TRUE).value

\* fetch_claim_as_key, for the missing party of an issuance or a redemption.
NobodyAsKey(s) == IF s.kind = "none" THEN "none" ELSE "absent"

SaturatingSub(n, v) == IF n < v THEN 0 ELSE n - v

\* investor_count_changes: who stops and who starts to be an investor; `from` and `to` are
\* new balances, or -1 where there is no such party.
CountChanges(from, to, v) == [leaves |-> from = 0, joins |-> to = v]

\* update_asset_count_stats
CountUpdated(f, fromKey, toKey, changes) ==
    IF changes.leaves /\ changes.joins /\ fromKey = toKey THEN f
    ELSE LET less == IF changes.leaves THEN [f EXCEPT ![fromKey] = SaturatingSub(@, 1)] ELSE f
         IN  IF changes.joins THEN [less EXCEPT ![toKey] = @ + 1] ELSE less

\* update_asset_balance_stats
BalanceUpdated(f, fromKey, toKey, from, to, v) ==
    IF fromKey = toKey /\ from >= 0 /\ to >= 0 THEN f
    ELSE LET less == IF from >= 0 THEN [f EXCEPT ![fromKey] = SaturatingSub(@, v)] ELSE f
         IN  IF to >= 0 THEN [less EXCEPT ![toKey] = @ + v] ELSE less

\* update_asset_stats, for an amount above 0.
UpdateAssetStats(fromKeys, toKeys, from, to, v) ==
    stats' = [s \in StatTypes |->
        IF s \notin activeStats THEN stats[s]
        ELSE IF s.op = "count"
             THEN CountUpdated(stats[s], fromKeys[s], toKeys[s], CountChanges(from, to, v))
             ELSE BalanceUpdated(stats[s], fromKeys[s], toKeys[s], from, to, v)]

KeysOf(who) == [s \in StatTypes |-> ClaimAsKey(who, s)]
NobodysKeys == [s \in StatTypes |-> NobodyAsKey(s)]

-----------------------------------------------------------------------------
(* Conditions. *)

\* TransferCondition::get_stat_type
StatTypeOf(c) == [op |-> c.op, kind |-> c.kind, issuer |-> c.issuer]

\* Permill::from_rational, which rounds down.
Share(part, whole) == IF part >= whole THEN Whole ELSE (part * Whole) \div whole

\* verify_asset_count_restriction
CountAllowed(c, changes) ==
    ~ changes.leaves /\ changes.joins => stats[StatTypeOf(c)]["none"] < c.max

Matches(who, c) == ClaimAsKey(who, StatTypeOf(c)) = c.key

\* Mutant: the last investor that a minimum needs may leave.
MutClaimCountAllowed(c, from, to, changes) ==
    LET n == stats[StatTypeOf(c)][c.key]
    IN  \/ ~ changes.leaves /\ ~ changes.joins
        \/ changes.leaves /\ changes.joins /\ Matches(from, c) = Matches(to, c)
        \/ /\ ~ (c.min > 0 /\ changes.leaves /\ Matches(from, c) /\ n < c.min)
           /\ ~ (c.max >= 0 /\ changes.joins /\ Matches(to, c) /\ n >= c.max)

\* verify_claim_count_restriction; a maximum of -1 is none.
ClaimCountAllowed(c, from, to, changes) ==
    LET n == stats[StatTypeOf(c)][c.key]
    IN  \/ ~ changes.leaves /\ ~ changes.joins
        \/ changes.leaves /\ changes.joins /\ Matches(from, c) = Matches(to, c)
        \/ /\ ~ (c.min > 0 /\ changes.leaves /\ Matches(from, c) /\ n <= c.min)
           /\ ~ (c.max >= 0 /\ changes.joins /\ Matches(to, c) /\ n >= c.max)

\* verify_ownership_restriction
OwnershipAllowed(c, to, v) == Share(holding[to] + v, TotalHeld) <= c.max

\* verify_claim_ownership_restriction
ClaimOwnershipAllowed(c, from, to, v) ==
    LET b == stats[StatTypeOf(c)][c.key]
    IN  IF Matches(from, c) = Matches(to, c) THEN TRUE
        ELSE IF Matches(to, c) THEN Share(b + v, TotalHeld) <= c.max
        ELSE Share(SaturatingSub(b, v), TotalHeld) >= c.min

\* is_exempt: of counts the sender, of ownership the receiver; exemptions name the kind of
\* claim and not its issuer.
IsExempt(c, from, to) ==
    [op |-> c.op, kind |-> c.kind, who |-> IF c.op = "count" THEN from ELSE to] \in exempt

\* check_transfer_condition
ConditionAllows(c, from, to, v) ==
    LET changes == CountChanges(SaturatingSub(holding[from], v), holding[to] + v, v)
        passed  == CASE c.op = "count" /\ c.kind = "none" -> CountAllowed(c, changes)
                     [] c.op = "count" /\ c.kind # "none" -> ClaimCountAllowed(c, from, to, changes)
                     [] c.op # "count" /\ c.kind = "none" -> OwnershipAllowed(c, to, v)
                     [] c.op # "count" /\ c.kind # "none" -> ClaimOwnershipAllowed(c, from, to, v)
    IN  passed \/ IsExempt(c, from, to)

\* verify_transfer_restrictions, verify_requirements
RestrictionsAllow(from, to, v) == \A c \in conditions : ConditionAllows(c, from, to, v)

\* get_transfer_restrictions_results, for the RPC.
RestrictionResults(from, to, v) == [c \in conditions |-> ConditionAllows(c, from, to, v)]

-----------------------------------------------------------------------------
(* Calls of the agent. *)

\* set_active_asset_stats: what a condition needs stays; figures of dropped types are cleared,
\* those of new types start at 0.
SetActiveAssetStats(types) ==
    /\ Cardinality(types) <= MaxStats
    /\ \A c \in conditions : StatTypeOf(c) \in activeStats => StatTypeOf(c) \in types
    /\ activeStats' = types
    /\ stats' = [s \in StatTypes |-> IF s \in activeStats \ types THEN [k \in SecondKeys |-> 0] ELSE stats[s]]
    /\ UNCHANGED <<conditions, exempt, holding, claimsVars>>

\* batch_update_asset_stats
BatchUpdateAssetStats(s, k, v) ==
    /\ s \in activeStats
    /\ stats' = [stats EXCEPT ![s][k] = v]
    /\ UNCHANGED <<activeStats, conditions, exempt, holding, claimsVars>>

\* set_asset_transfer_compliance
SetTransferCompliance(cs) ==
    /\ \A c \in cs : StatTypeOf(c) \in activeStats
    /\ conditions' = cs
    /\ UNCHANGED <<activeStats, stats, exempt, holding, claimsVars>>

\* set_entities_exempt
SetEntitiesExempt(e, isExempt) ==
    /\ exempt' = IF isExempt THEN exempt \cup {e} ELSE exempt \ {e}
    /\ UNCHANGED <<activeStats, stats, conditions, holding, claimsVars>>

-----------------------------------------------------------------------------
(* Tokens move (pallets/asset: _mint, base_redeem, unsafe_transfer). *)

IssueTo(d, v) ==
    /\ TotalHeld + v <= IssueLimit
    /\ holding' = [holding EXCEPT ![d] = @ + v]
    /\ UpdateAssetStats(NobodysKeys, KeysOf(d), -1, holding[d] + v, v)
    /\ UNCHANGED <<activeStats, conditions, exempt, claimsVars>>

RedeemFrom(d, v) ==
    /\ holding[d] >= v
    /\ holding' = [holding EXCEPT ![d] = @ - v]
    /\ UpdateAssetStats(KeysOf(d), NobodysKeys, holding[d] - v, -1, v)
    /\ UNCHANGED <<activeStats, conditions, exempt, claimsVars>>

\* unsafe_transfer, and controller_transfer, which checks no conditions.
MoveTokens(from, to, v) ==
    /\ from # to /\ holding[from] >= v
    /\ holding' = [holding EXCEPT ![from] = @ - v, ![to] = @ + v]
    /\ UpdateAssetStats(KeysOf(from), KeysOf(to), holding[from] - v, holding[to] + v, v)
    /\ UNCHANGED <<activeStats, conditions, exempt, claimsVars>>

CheckedMove(from, to, v) == RestrictionsAllow(from, to, v) /\ MoveTokens(from, to, v)

StatsStep(issuers) ==
    \/ ClaimStep(issuers) /\ UNCHANGED statsVars
    \/ \E d \in Persons, v \in {1, 2} :
         \/ IssueTo(d, v) \/ RedeemFrom(d, v)
         \/ \E e \in Persons : MoveTokens(d, e, v) \/ CheckedMove(d, e, v)
    \/ \E ts \in StatSets : SetActiveAssetStats(ts)
    \/ \E s \in activeStats, k \in SecondKeys, v \in Figures : BatchUpdateAssetStats(s, k, v)
    \/ \E cs \in ConditionSets : SetTransferCompliance(cs)
    \/ \E s \in activeStats, d \in Persons, b \in BOOLEAN :
         SetEntitiesExempt([op |-> s.op, kind |-> s.kind, who |-> d], b)

-----------------------------------------------------------------------------
(* Properties. *)

\* What a figure should say, by the claims of now.
TrueFigure(s, k) ==
    LET ds == {d \in Persons : holding[d] > 0 /\ ClaimAsKey(d, s) = k}
    IN  IF s.op = "count" THEN Cardinality(ds) ELSE MapThenSumSet(LAMBDA d : holding[d], ds)

Exact(s) == \A k \in SecondKeys : stats[s][k] = TrueFigure(s, k)

\* Figures that are right stay right when tokens are issued, redeemed or moved, with or
\* without checks; a type that is not kept has no figures left over; and a condition always
\* has the figures that it needs (update_asset_stats, base_set_active_asset_stats,
\* base_set_asset_transfer_compliance).
StatsStayExact ==
    [][/\ holding' # holding => \A s \in activeStats : Exact(s) => Exact(s)'
       /\ statsVars' # statsVars => \A s \in StatTypes \ activeStats' : \A k \in SecondKeys : stats'[s][k] = 0
       /\ \A c \in conditions' : StatTypeOf(c) \in activeStats']_<<statsVars, claimsVars>>

\* While the figures are right, a checked transfer that nobody is exempt from does not break
\* a condition or make a broken one worse, by what investors really hold (verify_*_restriction).
KeepsCondition(c, from, to) ==
    LET s == StatTypeOf(c) IN
    \/ ~ Exact(s) \/ IsExempt(c, from, to)
    \/ CASE c.op = "count" /\ c.kind = "none" ->
              TrueFigure(s, "none")' <= c.max \/ TrueFigure(s, "none")' <= TrueFigure(s, "none")
         [] c.op = "count" /\ c.kind # "none" ->
              /\ c.max >= 0 /\ TrueFigure(s, c.key)' > TrueFigure(s, c.key) => TrueFigure(s, c.key)' <= c.max
              /\ TrueFigure(s, c.key)' < TrueFigure(s, c.key) => TrueFigure(s, c.key)' >= c.min
         [] c.op # "count" /\ c.kind = "none" -> Share(holding'[to], TotalHeld) <= c.max
         [] OTHER ->
              /\ TrueFigure(s, c.key)' > TrueFigure(s, c.key) => Share(TrueFigure(s, c.key)', TotalHeld) <= c.max
              /\ TrueFigure(s, c.key)' < TrueFigure(s, c.key) => Share(TrueFigure(s, c.key)', TotalHeld) >= c.min

LimitsKept ==
    [][holding' # holding /\ conditions # {} =>
         \A from, to \in Persons :
            /\ holding'[from] < holding[from] /\ holding'[to] > holding[to]
            /\ RestrictionsAllow(from, to, holding[from] - holding'[from])
            => \A c \in conditions : KeepsCondition(c, from, to)]_<<statsVars, claimsVars>>

\* Figures stay right and checked transfers keep the limits (statistics).
InvestorLimitsHold == StatsStayExact /\ LimitsKept
=============================================================================
