----------------------------- MODULE AssetAdmin -----------------------------
(***************************************************************************)
(* Who a ticker and its asset belong to and who may act for the asset: the   *)
(* registration of tickers, their expiry and hand-over, the creation of      *)
(* assets and NFT collections (pallets/asset, pallets/nft), and the agents   *)
(* of an asset with their groups (pallets/external-agents).                  *)
(* Owners and agents change hands through authorizations, which are issued   *)
(* at one time and accepted at a later one (pallets/identity, auth.rs).      *)
(* A call is named by what the permissions tell apart: "agents" (the pallet  *)
(* ExternalAgents), "issue" (issue, redeem, controller_transfer), "asset"    *)
(* (the rest of Asset), "sto" and "ca".                                      *)
(***************************************************************************)
EXTENDS Integers, Sequences, FiniteSets

CONSTANTS
    Dids,               \* identities
    Reserve,            \* the identity that holds reserved tickers
    Tickers,            \* tickers, each a sequence of characters "ok", "nul", "bad"
    Reserved,           \* tickers of country currencies, reserved at genesis
    MaxTickerLength, RegistrationLength,    \* TickerRegistrationConfig
    CustomPerms,        \* what a custom group may be allowed: sets of calls
    MaxGroups,          \* bound on the custom groups of an asset
    MaxPending,         \* bound on the pending authorizations
    MaxAssetTime        \* bound on time

ASSUME AssetAdminAssumption ==
    /\ IsFiniteSet(Dids) /\ Reserve \notin Dids /\ "nobody" \notin Dids \cup {Reserve}
    /\ Reserved \subseteq Tickers
    /\ RegistrationLength \in Int /\ MaxGroups \in Nat

VARIABLES
    registered,         \* Tickers
    tokens,             \* Tokens: owner_did and whether it is an NFT
    collections,        \* CollectionTicker: the assets that have an NFT collection
    relation,           \* AssetOwnershipRelations
    groupOf,            \* GroupOfAgent
    agentOf,            \* AgentOf
    numFull,            \* NumFullAgents
    groups,             \* GroupPermissions, by AGId (AGIdSequence is their number)
    auths,              \* Authorizations
    assetTime

assetAdminVars == <<registered, tokens, collections, relation, groupOf, agentOf, numFull, groups,
                    auths, assetTime>>

Forever == -1
NoRegistration == [owner |-> "nobody", expiry |-> Forever]
NoToken == [owner |-> "nobody", nft |-> FALSE]
NotAnAgent == <<"none">>
Calls == {"agents", "issue", "asset", "sto", "ca"}
Groups(t) == {<<"Full">>, <<"ExceptMeta">>, <<"CAA">>, <<"PIA">>} \cup {<<"Custom", i>> : i \in DOMAIN groups[t]}

AssetAdminInit ==
    /\ registered = [t \in Tickers |-> IF t \in Reserved THEN [owner |-> Reserve, expiry |-> Forever]
                                       ELSE NoRegistration]
    /\ tokens = [t \in Tickers |-> NoToken]
    /\ collections = {}
    /\ relation = [d \in Dids \cup {Reserve} |-> [t \in Tickers |->
                      IF d = Reserve /\ t \in Reserved THEN "TickerOwned" ELSE "NotOwned"]]
    /\ groupOf = [t \in Tickers |-> [d \in Dids |-> NotAnAgent]]
    /\ agentOf = [d \in Dids |-> {}]
    /\ numFull = [t \in Tickers |-> 0]
    /\ groups = [t \in Tickers |-> <<>>]
    /\ auths = {}
    /\ assetTime = 0

-----------------------------------------------------------------------------
(* Tickers and assets. *)

\* verify_ticker_characters: not empty, and nothing but nulls from the first character on
\* that is not allowed.
VerifyTickerCharacters(t) ==
    /\ t # <<>> /\ t[1] # "nul"
    /\ \A i \in DOMAIN t : t[i] # "ok" => \A j \in i..Len(t) : t[j] = "nul"

EnsureTickerLength(t) == Cardinality({i \in DOMAIN t : t[i] # "nul"}) <= MaxTickerLength

\* is_ticker_available_or_registered_to
TickerStatus(t, d) ==
    LET r == registered[t]
    IN  IF r = NoRegistration \/ (r.expiry # Forever /\ assetTime > r.expiry) THEN "Available"
        ELSE IF r.owner = d THEN "RegisteredByDid"
        ELSE "RegisteredByOther"

EnsureAssetFresh(t) == tokens[t] = NoToken

\* ticker_registration_checks
RegistrationChecks(d, t) ==
    /\ VerifyTickerCharacters(t) /\ EnsureAssetFresh(t) /\ EnsureTickerLength(t)
    /\ TickerStatus(t, d) # "RegisteredByOther"

\* Mutant: the relation of the owner whose registration ran out stays.
MutRegisterRelation(t, d) == [relation EXCEPT ![d][t] = "TickerOwned"]

\* unverified_register_ticker, on AssetOwnershipRelations
RegisterRelation(t, d) ==
    LET old     == registered[t].owner
        cleared == IF registered[t] = NoRegistration THEN relation
                   ELSE [relation EXCEPT ![old][t] = "NotOwned"]
    IN  [cleared EXCEPT ![d][t] = "TickerOwned"]

\* register_ticker: again by the same identity too, which renews the registration.
RegisterTicker(d, t) ==
    /\ RegistrationChecks(d, t)
    /\ registered' = [registered EXCEPT ![t] = [owner |-> d, expiry |->
                          IF RegistrationLength = Forever THEN Forever
                          ELSE assetTime + RegistrationLength]]
    /\ relation' = RegisterRelation(t, d)
    /\ UNCHANGED <<tokens, collections, groupOf, agentOf, numFull, groups, auths, assetTime>>

-----------------------------------------------------------------------------
(* Agents. *)

\* inc_full_count, dec_full_count
FullAfter(t, old, new) ==
    CASE old = <<"Full">> /\ new # <<"Full">> -> numFull[t] - 1
      [] old # <<"Full">> /\ new = <<"Full">> -> numFull[t] + 1
      [] OTHER -> numFull[t]

\* agent_permissions, sufficient_for
AgentPermitted(t, d, call) ==
    LET g == groupOf[t][d]
    IN  CASE g = NotAnAgent -> FALSE
          [] g = <<"Full">> -> TRUE
          [] g = <<"ExceptMeta">> -> call # "agents"
          [] g = <<"CAA">> -> call = "ca"
          [] g = <<"PIA">> -> call \in {"issue", "sto"}
          [] g[1] = "Custom" -> call \in groups[t][g[2]]

\* unchecked_add_agent
AddAgent(t, d, g) ==
    /\ numFull' = [numFull EXCEPT ![t] = IF g = <<"Full">> THEN @ + 1 ELSE @]
    /\ groupOf' = [groupOf EXCEPT ![t][d] = g]
    /\ agentOf' = [agentOf EXCEPT ![d] = @ \cup {t}]

\* try_mutate_agents_group: `g` is NotAnAgent to remove the agent.  The last full agent stays.
TryMutateAgentsGroup(t, d, g) ==
    /\ groupOf[t][d] # NotAnAgent
    /\ groupOf[t][d] = <<"Full">> /\ g # <<"Full">> => numFull[t] > 1
    /\ numFull' = [numFull EXCEPT ![t] = FullAfter(t, groupOf[t][d], g)]
    /\ groupOf' = [groupOf EXCEPT ![t][d] = g]
    /\ agentOf' = [agentOf EXCEPT ![d] = IF g = NotAnAgent THEN @ \ {t} ELSE @]

NotOfAgents == <<registered, tokens, collections, relation, assetTime>>

\* create_asset, also inside create_nft_collection: the ticker is registered on the way, or
\* its registration no longer expires; the owner becomes a full agent.
CreateAsset(d, t, nft) ==
    /\ EnsureAssetFresh(t) /\ EnsureTickerLength(t)
    /\ TickerStatus(t, d) # "RegisteredByOther"
    /\ TickerStatus(t, d) = "Available" => VerifyTickerCharacters(t)
    /\ registered' = [registered EXCEPT ![t] = [owner |-> d, expiry |-> Forever]]
    /\ relation' = [RegisterRelation(t, d) EXCEPT ![d][t] = "AssetOwned"]
    /\ tokens' = [tokens EXCEPT ![t] = [owner |-> d, nft |-> nft]]
    /\ AddAgent(t, d, <<"Full">>)

NewAsset(d, t, nft) == CreateAsset(d, t, nft) /\ UNCHANGED <<collections, groups, auths, assetTime>>

\* create_nft_collection: of an NFT asset by its agent, or of a new asset.
CreateNftCollection(d, t) ==
    /\ t \notin collections
    /\ collections' = collections \cup {t}
    /\ IF tokens[t] = NoToken THEN CreateAsset(d, t, TRUE)
       ELSE /\ tokens[t].nft /\ AgentPermitted(t, d, "asset")
            /\ UNCHANGED <<registered, relation, tokens, groupOf, agentOf, numFull>>
    /\ UNCHANGED <<groups, auths, assetTime>>

\* create_group
CreateGroup(d, t, perms) ==
    /\ AgentPermitted(t, d, "agents")
    /\ Len(groups[t]) < MaxGroups
    /\ groups' = [groups EXCEPT ![t] = Append(@, perms)]
    /\ UNCHANGED <<groupOf, agentOf, numFull, auths, NotOfAgents>>

\* create_group_and_add_auth
CreateGroupAndAddAuth(d, t, perms, to) ==
    /\ AgentPermitted(t, d, "agents")
    /\ Len(groups[t]) < MaxGroups /\ Cardinality(auths) < MaxPending
    /\ groups' = [groups EXCEPT ![t] = Append(@, perms)]
    /\ auths' = auths \cup {[kind |-> "BecomeAgent", ticker |-> t, from |-> d, to |-> to,
                             group |-> <<"Custom", Len(groups[t]) + 1>>]}
    /\ UNCHANGED <<groupOf, agentOf, numFull, NotOfAgents>>

SetGroupPermissions(d, t, i, perms) ==
    /\ AgentPermitted(t, d, "agents")
    /\ i \in 1..Len(groups[t])
    /\ groups' = [groups EXCEPT ![t][i] = perms]
    /\ UNCHANGED <<groupOf, agentOf, numFull, auths, NotOfAgents>>

RemoveAgent(d, t, agent) ==
    /\ AgentPermitted(t, d, "agents")
    /\ TryMutateAgentsGroup(t, agent, NotAnAgent)
    /\ UNCHANGED <<groups, auths, NotOfAgents>>

\* abdicate: needs no permission as an agent.
Abdicate(d, t) ==
    /\ TryMutateAgentsGroup(t, d, NotAnAgent)
    /\ UNCHANGED <<groups, auths, NotOfAgents>>

ChangeGroup(d, t, agent, g) ==
    /\ AgentPermitted(t, d, "agents")
    /\ g \in Groups(t)
    /\ TryMutateAgentsGroup(t, agent, g)
    /\ UNCHANGED <<groups, auths, NotOfAgents>>

CreateAndChangeCustomGroup(d, t, perms, agent) ==
    /\ AgentPermitted(t, d, "agents")
    /\ Len(groups[t]) < MaxGroups
    /\ groups' = [groups EXCEPT ![t] = Append(@, perms)]
    /\ TryMutateAgentsGroup(t, agent, <<"Custom", Len(groups[t]) + 1>>)
    /\ UNCHANGED <<auths, NotOfAgents>>

-----------------------------------------------------------------------------
(* Authorizations. *)

\* add_authorization: anyone may issue any; what it is worth is decided on acceptance.
AddAuth(a) ==
    /\ Cardinality(auths) < MaxPending
    /\ a.kind = "BecomeAgent" => a.group \in Groups(a.ticker)
    /\ auths' = auths \cup {a}
    /\ UNCHANGED <<groups, groupOf, agentOf, numFull, NotOfAgents>>

\* remove_authorization, by the issuer or the target
RemoveAuth(a) ==
    /\ auths' = auths \ {a}
    /\ UNCHANGED <<groups, groupOf, agentOf, numFull, NotOfAgents>>

\* accept_ticker_transfer: from who owns the ticker at that time, expired or not.
AcceptTickerTransfer(a) ==
    /\ a.kind = "TransferTicker"
    /\ EnsureAssetFresh(a.ticker)
    /\ registered[a.ticker] # NoRegistration /\ registered[a.ticker].owner = a.from
    /\ relation' = [relation EXCEPT ![a.from][a.ticker] = "NotOwned", ![a.to][a.ticker] = "TickerOwned"]
    /\ registered' = [registered EXCEPT ![a.ticker] = [owner |-> a.to, expiry |-> registered[a.ticker].expiry]]
    /\ auths' = auths \ {a}
    /\ UNCHANGED <<tokens, collections, groups, groupOf, agentOf, numFull, assetTime>>

\* accept_asset_ownership_transfer: issued by anyone who now is an agent for it.
AcceptAssetOwnershipTransfer(a) ==
    /\ a.kind = "TransferAssetOwnership"
    /\ ~ EnsureAssetFresh(a.ticker)
    /\ AgentPermitted(a.ticker, a.from, "asset")
    /\ LET old == registered[a.ticker].owner
       IN  relation' = [[relation EXCEPT ![old][a.ticker] = "NotOwned"]
                            EXCEPT ![a.to][a.ticker] = "AssetOwned"]
    /\ registered' = [registered EXCEPT ![a.ticker] = [owner |-> a.to, expiry |-> registered[a.ticker].expiry]]
    /\ tokens' = [tokens EXCEPT ![a.ticker] = [owner |-> a.to, nft |-> tokens[a.ticker].nft]]
    /\ auths' = auths \ {a}
    /\ UNCHANGED <<collections, groups, groupOf, agentOf, numFull, assetTime>>

\* accept_become_agent
AcceptBecomeAgent(a) ==
    /\ a.kind = "BecomeAgent"
    /\ AgentPermitted(a.ticker, a.from, "agents")
    /\ a.group \in Groups(a.ticker)
    /\ groupOf[a.ticker][a.to] = NotAnAgent
    /\ AddAgent(a.ticker, a.to, a.group)
    /\ auths' = auths \ {a}
    /\ UNCHANGED <<groups, NotOfAgents>>

AssetTick ==
    /\ assetTime < MaxAssetTime
    /\ assetTime' = assetTime + 1
    /\ UNCHANGED <<registered, tokens, collections, relation, groupOf, agentOf, numFull, groups, auths>>

AuthKinds(t) ==
    {[kind |-> k, ticker |-> t, from |-> d, to |-> e, group |-> NotAnAgent] :
        k \in {"TransferTicker", "TransferAssetOwnership"}, d \in Dids, e \in Dids}
    \cup {[kind |-> "BecomeAgent", ticker |-> t, from |-> d, to |-> e, group |-> g] :
        d \in Dids, e \in Dids, g \in Groups(t)}

AssetAdminNext ==
    \/ \E t \in Tickers, d \in Dids :
         \/ RegisterTicker(d, t) \/ CreateNftCollection(d, t) \/ Abdicate(d, t)
         \/ \E nft \in BOOLEAN : NewAsset(d, t, nft)
         \/ \E p \in CustomPerms :
              \/ CreateGroup(d, t, p)
              \/ \E i \in 1..MaxGroups : SetGroupPermissions(d, t, i, p)
              \/ \E e \in Dids : CreateGroupAndAddAuth(d, t, p, e) \/ CreateAndChangeCustomGroup(d, t, p, e)
         \/ \E e \in Dids : RemoveAgent(d, t, e) \/ \E g \in Groups(t) : ChangeGroup(d, t, e, g)
    \/ \E t \in Tickers : \E a \in AuthKinds(t) : AddAuth(a)
    \/ \E a \in auths :
         \/ RemoveAuth(a) \/ AcceptTickerTransfer(a)
         \/ AcceptAssetOwnershipTransfer(a) \/ AcceptBecomeAgent(a)
    \/ AssetTick

AssetAdminSpec == AssetAdminInit /\ [][AssetAdminNext]_assetAdminVars

-----------------------------------------------------------------------------
(* Properties. *)

\* Whatever order registrations run out, are renewed, handed over and turned into assets in,
\* the three maps that say who owns a ticker agree: Tickers, Tokens and
\* AssetOwnershipRelations.  The registration behind an asset never runs out.
OwnershipAgrees ==
    \A t \in Tickers :
        /\ \A d \in Dids \cup {Reserve} : relation[d][t] =
              IF registered[t] = NoRegistration \/ registered[t].owner # d THEN "NotOwned"
              ELSE IF tokens[t] = NoToken THEN "TickerOwned" ELSE "AssetOwned"
        /\ tokens[t] # NoToken => /\ tokens[t].owner = registered[t].owner
                                  /\ registered[t].expiry = Forever
        /\ t \in collections => tokens[t].nft

\* However agents are added, moved between groups, removed and abdicate, NumFullAgents
\* counts the full ones, an asset always has one, AgentOf is the inverse of GroupOfAgent,
\* and every group in use exists (external-agents).
AgentsExact ==
    \A t \in Tickers :
        /\ numFull[t] = Cardinality({d \in Dids : groupOf[t][d] = <<"Full">>})
        /\ tokens[t] # NoToken => numFull[t] > 0
        /\ \A d \in Dids : /\ t \in agentOf[d] <=> groupOf[t][d] # NotAnAgent
                           /\ groupOf[t][d] \in Groups(t) \cup {NotAnAgent}

\* Who owns an asset and who may act for it is never in doubt: OwnershipAgrees and
\* AgentsExact, of the asset and external-agents pallets, in every reachable state.
AdminExact == OwnershipAgrees /\ AgentsExact
=============================================================================
