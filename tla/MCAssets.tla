------------------------------ MODULE MCAssets ------------------------------
(***************************************************************************)
(* An asset from its ticker to its rules: who owns it and acts for it, what *)
(* is recorded about it, its supply and fundraisers, its identifiers, and   *)
(* the claims, statistics and rules that transfers must meet.  `focus` says *)
(* which of these a behaviour exercises: the run has the sum of their       *)
(* states.  Statistics and rules are exercised together with claims.        *)
(***************************************************************************)
EXTENDS AssetAdmin, AssetRecords, AssetTerms, Identifiers, Statistics, Compliance, TLC

\* A ticker with its padding, and one that is reserved.
MCTickers == {<<"ok", "nul">>, <<"ok", "ok">>}
MCReserved == {<<"ok", "ok">>}
MCPerms == {{"agents"}, {"asset"}}

\* alice, the agent, has two wallets; bob has one.
MCWalletDid == [w \in Wallets |-> IF w \in {"a1", "a2"} THEN "alice" ELSE "bob"]
Tier(n, p) == [total |-> n, price |-> p]
Offer(off, tiers, start, end) ==
    [off |-> off, raise |-> "a2", offering |-> "acme", raising |-> "usd", tiers |-> tiers,
     start |-> start, end |-> end, min |-> 0]
MCOffers == {Offer("a1", <<Tier(1, 1), Tier(1, 3)>>, 0, 2), Offer("a1", <<Tier(2, 2)>>, 1, NoEnd)}

\* Valid identifiers, among them those of the tests.
MCSamples ==
    {[kind |-> "CUSIP", chars |-> <<1, 7, 2, 7, 5, 27, 1, 0, 2>>],
     [kind |-> "CINS", chars |-> <<28, 0, 8, 0, 0, 0, 10, 10, 9>>],
     [kind |-> "ISIN", chars |-> <<30, 28, 0, 3, 7, 8, 3, 3, 1, 0, 0, 5>>],
     [kind |-> "LEI", chars |-> <<8, 1, 5, 6, 0, 0, 3, 0, 6, 7, 0, 2, 1, 7, 1, 10, 6, 8, 4, 4>>],
     [kind |-> "FIGI", chars |-> <<11, 11, 16, 0, 0, 17, 9, 23, 27, 5, 7, 4>>]}

\* p and q may be providers; r exists from the start, or is registered, or is a child.
MCExpiries == {Never, 1}
MCValues == [accredited |-> {"yes"}, country |-> {"us", "fr"}, k |-> {"yes"}]

Fig(o, k) == [op |-> o, kind |-> k, issuer |-> "p"]
MCTypes == {Fig(o, k) : o \in {"count", "balance"}, k \in {"none", "accredited"}}
MCSets == {{Fig(o, k) : o \in {"count", "balance"}} : k \in {"none", "accredited"}} \cup {{}}
Cond(o, k, key, mn, mx) == [op |-> o, kind |-> k, issuer |-> "p", key |-> key, min |-> mn, max |-> mx]
MCConds ==
    {{}, {Cond("count", "none", "none", 0, 1), Cond("balance", "none", "none", 0, 5)},
     {Cond("count", "accredited", "yes", 1, -1)}, {Cond("count", "accredited", "absent", 0, 1)},
     {Cond("balance", "accredited", "yes", 4, 5)}}

Says(k, v) == [kind |-> k, value |-> v]
If(f, cs, is, who) == [form |-> f, claims |-> cs, issuers |-> is, who |-> who]
Trust(i, f) == [issuer |-> i, for |-> f]
MCRules ==
    {[sender |-> {}, receiver |-> {If("present", {Says("accredited", "yes")}, {}, "none")}],
     [sender |-> {If("identity", {}, {}, "p")},
      receiver |-> {If("none of", {Says("country", "us"), Says("country", "fr")}, {Trust("p", {"country"})}, "none")}],
     [sender |-> {If("agent", {}, {}, "none"),
                  If("present", {Says("cdd", "blank")}, {Trust("cdd provider", AnyKind)}, "none")},
      receiver |-> {If("absent", {Says("country", "us")}, {}, "none")}]}
MCTrust == {Trust("p", AnyKind), Trust("q", {"accredited"}), Trust("q", {"country"})}

VARIABLE focus
rulesVars == <<claimsVars, statsVars, complianceVars>>
allVars == <<focus, assetAdminVars, metadataVars, listVars, termsVars, stoVars, identVars, rulesVars>>

-----------------------------------------------------------------------------
(* The fundraisers' assets start issued, with what alice sells and bob pays. *)
Funded ==
    /\ token = [a \in Securities |-> [divisible |-> TRUE, nft |-> FALSE, supply |-> 3]]
    /\ hold = [w \in Wallets |-> [a \in Securities |->
                  CASE w = "a1" /\ a = "acme" -> 3 [] w = "b1" /\ a = "usd" -> 3 [] OTHER -> 0]]
    /\ lock = [w \in Wallets |-> [a \in Securities |-> 0]] /\ affirmed = lock
    /\ frozenAsset = {}
    /\ round = [a \in Securities |-> "r1"]
    /\ issuedIn = [a \in Securities |-> [r \in Rounds |-> IF r = "r1" THEN token[a].supply ELSE 0]]
    /\ redeemed = [a \in Securities |-> 0]
    /\ custody = WalletDid /\ cdd = DidsOfWallets /\ restricted = {}

MCInit ==
    /\ focus \in {"admin", "metadata", "lists", "sto", "rpc", "terms", "identifiers", "cdd", "stats", "rules"}
    /\ AssetAdminInit /\ MetadataInit /\ ListsInit /\ StoInit /\ InitIdentifiers
    /\ ClaimsInit /\ StatsInit /\ ComplianceInit
    /\ IF focus = "terms" THEN TermsInit /\ token["usd"].divisible ELSE Funded
    \* What is not exercised starts in one way only.
    /\ focus # "identifiers" => ident.kind = "CUSIP"
    /\ focus # "lists" => profile.type[1] = "Fungible"
    /\ IF focus = "cdd" THEN known = {"p", "q"} ELSE known = Persons /\ active = {"p"}

\* Other calls that move the tokens of a fundraiser.
FewTerms ==
    \/ \E w, u \in Wallets : BaseTransfer(w, u, "acme", 1) \/ ForcedTransfer(w, u, "acme", 1)
    \/ \E w \in Wallets : AffirmLock(w, "acme", 1) \/ AffirmUnlock(w, "acme", 1)
    \/ RedeemTokens("a1", "acme", 1)

TermsStep ==
    \/ focus = "sto" /\ (StoNext \/ (FewTerms /\ UNCHANGED stoVars))
    \/ focus = "terms" /\ TermsNext({"acme"}) /\ UNCHANGED stoVars
    \/ focus = "rpc" /\ (RulesNext \/ FewTerms \/ SetFrozen("acme", TRUE)) /\ UNCHANGED stoVars

-----------------------------------------------------------------------------
(* Bounds on claims, statistics and rules. *)
NewClaims == claims' \ claims

\* Two claims, of due diligence; or the systematic one and one of a custom type, from when
\* the type is registered.
FewCdd ==
    /\ \/ CddStep /\ customClaimTypes = {}
       \/ /\ ClaimStep({"p"})
          /\ customClaimTypes' # {} /\ (customClaimTypes = {} => claims = WithSystematic({}, {"p"}) /\ moment = 0)
          /\ \A c \in NewClaims : c.kind = "k"
    /\ Cardinality(claims') < 3 /\ Cardinality(inactive') < 2

\* One claim at a time, while somebody holds tokens; figures are only ever put right.
FewStats ==
    /\ moment' = 0 /\ customClaimTypes' = {}
    /\ NewClaims # {} => Cardinality(claims') < 3 /\ TotalHeld > 0
    /\ \A c \in NewClaims : c.target = "q" /\ c.kind = "accredited" /\ c.expiry = 1
    /\ exempt' # exempt => conditions # {} /\ Cardinality(exempt') < 2 /\ \A e \in exempt' : e.who = "q"
    /\ activeStats' # activeStats => activeStats = {} \/ activeStats' = {}
    /\ stats' # stats /\ holding' = holding /\ activeStats' = activeStats =>
          conditions = {} /\ \E s \in activeStats : ~ Exact(s) /\ Exact(s)'
    /\ \A s \in StatTypes, k \in SecondKeys : stats'[s][k] <= IssueLimit
    /\ conditions' # conditions => TotalHeld > 1 /\ (conditions = {} \/ conditions' = {})

\* One claim, about q, once there are rules.
FewRules ==
    /\ customClaimTypes' = {} /\ agentDids' \subseteq {"p", "q"}
    /\ claims' # claims \/ moment' # moment => rules # <<>> /\ Cardinality(claims') < 3
    /\ Cardinality(trusted') < 3
    /\ \A c \in NewClaims : c.target = "q" /\ c.expiry = 1

RulesStep ==
    \/ focus = "cdd" /\ FewCdd /\ UNCHANGED <<statsVars, complianceVars>>
    \/ focus = "stats" /\ StatsStep({"p"}) /\ FewStats /\ UNCHANGED complianceVars
    \/ focus = "rules" /\ ComplianceStep({"p", "q"}) /\ FewRules /\ UNCHANGED statsVars

MCNext ==
    /\ \/ /\ focus = "admin" /\ AssetAdminNext
          /\ UNCHANGED <<metadataVars, listVars, termsVars, stoVars, identVars, rulesVars>>
       \/ /\ focus = "metadata" /\ MetadataNext
          /\ UNCHANGED <<assetAdminVars, listVars, termsVars, stoVars, identVars, rulesVars>>
       \/ /\ focus = "lists" /\ ListsNext
          /\ UNCHANGED <<assetAdminVars, metadataVars, termsVars, stoVars, identVars, rulesVars>>
       \/ TermsStep /\ UNCHANGED <<assetAdminVars, metadataVars, listVars, identVars, rulesVars>>
       \/ /\ focus = "identifiers" /\ IdentifiersNext
          /\ UNCHANGED <<assetAdminVars, metadataVars, listVars, termsVars, stoVars, rulesVars>>
       \/ RulesStep /\ UNCHANGED <<assetAdminVars, metadataVars, listVars, termsVars, stoVars, identVars>>
    /\ UNCHANGED focus

MCSpec == MCInit /\ [][MCNext]_allVars

\* The supply and the locks of an asset are exact while it is issued, redeemed, moved and
\* offered, and what the RPC says of a transfer is what the transfer does (asset, sto):
\* SupplyExact, OfferedIsLocked and, while rules come and go, RpcTellsTheTruth.
OfferingsExact ==
    /\ focus \in {"sto", "rpc", "terms"} => SupplyExact /\ OfferedIsLocked
    /\ focus \in {"rpc", "terms"} => RpcTellsTheTruth
=============================================================================
