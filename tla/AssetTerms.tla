----------------------------- MODULE AssetTerms -----------------------------
(***************************************************************************)
(* The terms an asset is issued, moved and redeemed on: divisibility,      *)
(* kind, freezing, the supply limit and funding rounds, and the checks a   *)
(* transfer passes, both in the call and in the RPC that predicts it       *)
(* (pallets/asset).  A wallet is a portfolio; the balance of an identity   *)
(* is that of its wallets (Ledger shows that the maps agree).  Whether     *)
(* transfer rules and compliance rules allow a transfer at a time is the   *)
(* variable `restricted`.                                                  *)
(*                                                                         *)
(* On these terms assets are sold (pallets/sto): an agent offers tokens in *)
(* tiers, which are locked for the fundraiser; an investment unlocks what  *)
(* it buys, and in the same call settles both legs of an instruction       *)
(* between investor and creator, or fails as a whole.                      *)
(***************************************************************************)
EXTENDS Integers, Sequences, FiniteSets
LOCAL INSTANCE FiniteSetsExt
LOCAL INSTANCE SequencesExt

CONSTANTS
    Securities,             \* assets, all with the same agent
    Wallets, WalletDid,     \* portfolios and their identities
    AgentDid,               \* the agent of the assets
    Unit,                   \* ONE_UNIT
    SupplyCap,              \* MAX_SUPPLY
    MaxIssued,              \* bound on what is issued over all rounds
    Rounds,                 \* names of funding rounds, short enough
    Amounts                 \* amounts of a call, above 0

VARIABLES
    token,                  \* Tokens: divisible, nft, total_supply
    hold, lock,             \* balances of a wallet, and what of it is locked
    affirmed,               \* what of the lock is for the affirmations of settlements
    frozenAsset,            \* Frozen
    round, issuedIn,        \* FundingRound, IssuedInFundingRound
    redeemed,               \* history: what was redeemed
    custody,                \* PortfolioCustodian, or the owner
    cdd,                    \* identities with a valid CDD claim
    restricted              \* which rules forbid transfers now

termsVars == <<token, hold, lock, affirmed, frozenAsset, round, issuedIn, redeemed, custody, cdd, restricted>>

DidsOfWallets == {WalletDid[w] : w \in Wallets}

TermsInit ==
    /\ token \in [Securities -> [divisible : BOOLEAN, nft : {FALSE}, supply : {0}]]
    /\ hold = [w \in Wallets |-> [a \in Securities |-> 0]]
    /\ lock = hold /\ affirmed = hold
    /\ frozenAsset = {}
    /\ round = [a \in Securities |-> CHOOSE r \in Rounds : TRUE]
    /\ issuedIn = [a \in Securities |-> [r \in Rounds |-> 0]]
    /\ redeemed = [a \in Securities |-> 0]
    /\ custody = WalletDid
    /\ cdd = DidsOfWallets
    /\ restricted = {}

-----------------------------------------------------------------------------
(* Checks. *)

CheckGranularity(a, v) == token[a].divisible \/ v % Unit = 0

BalanceOf(d, a) == MapThenSumSet(LAMBDA w : hold[w][a], {w \in Wallets : WalletDid[w] = d})

\* ensure_sufficient_balance
SufficientBalance(h, k, w, a, v) == h[w][a] - k[w][a] >= v

\* Mutant: what is locked can be transferred.
MutPortfolioFailure(h, k, from, to, a, v) == from = to \/ h[from][a] < v

\* ensure_portfolio_transfer_validity
PortfolioFailure(h, k, from, to, a, v) == from = to \/ ~ SufficientBalance(h, k, from, a, v)

\* _is_valid_transfer
IsValidTransfer(h, k, from, to, a, v) ==
    IF a \in frozenAsset THEN "halted"
    ELSE IF PortfolioFailure(h, k, from, to, a, v) THEN "portfolio"
    ELSE IF "statistics" \in restricted THEN "transfer manager"
    ELSE IF "compliance" \in restricted THEN "compliance manager"
    ELSE "success"

\* unsafe_transfer: what it checks.
UnsafeTransferOk(h, k, from, to, a, v) ==
    /\ CheckGranularity(a, v) /\ ~ token[a].nft
    /\ WalletDid[from] # WalletDid[to]
    /\ SufficientBalance(h, k, from, a, v)

\* base_transfer: what the settlement of a leg needs, and what it does.
BaseTransferOk(h, k, from, to, a, v) ==
    IsValidTransfer(h, k, from, to, a, v) = "success" /\ UnsafeTransferOk(h, k, from, to, a, v)

Moved(h, from, to, a, v) == [h EXCEPT ![from][a] = @ - v, ![to][a] = @ + v]

\* unsafe_can_transfer, for the RPC; `fc` and `tc` are who is said to have custody.
UnsafeCanTransfer(fc, from, tc, to, a, v) ==
    IF ~ CheckGranularity(a, v) THEN "granularity"
    ELSE IF WalletDid[from] = WalletDid[to] THEN "receiver"
    ELSE IF WalletDid[from] \notin cdd THEN "sender"
    ELSE IF custody[from] # fc THEN "custodian"
    ELSE IF WalletDid[to] \notin cdd THEN "receiver"
    ELSE IF custody[to] # tc THEN "custodian"
    ELSE IF BalanceOf(WalletDid[from], a) < v THEN "balance"
    ELSE IF PortfolioFailure(hold, lock, from, to, a, v) THEN "portfolio"
    ELSE IsValidTransfer(hold, lock, from, to, a, v)

\* unsafe_can_transfer_granular: every check on its own, and the result of all.
CanTransferGranular(fc, from, tc, to, a, v) ==
    /\ CheckGranularity(a, v)
    /\ WalletDid[from] # WalletDid[to]
    /\ {WalletDid[from], WalletDid[to]} \subseteq cdd
    /\ custody[to] = tc /\ custody[from] = fc
    /\ BalanceOf(WalletDid[from], a) >= v
    /\ ~ PortfolioFailure(hold, lock, from, to, a, v)
    /\ a \notin frozenAsset
    /\ restricted = {}

-----------------------------------------------------------------------------
(* Calls. *)

\* issue, into a wallet of the agent.
IssueTokens(w, a, v) ==
    /\ WalletDid[w] = AgentDid
    /\ CheckGranularity(a, v) /\ ~ token[a].nft
    /\ token[a].supply + v <= SupplyCap /\ token[a].supply + redeemed[a] + v <= MaxIssued
    /\ token' = [token EXCEPT ![a].supply = @ + v]
    /\ hold' = [hold EXCEPT ![w][a] = @ + v]
    /\ issuedIn' = [issuedIn EXCEPT ![a][round[a]] = @ + v]
    /\ UNCHANGED <<lock, affirmed, frozenAsset, round, redeemed, custody, cdd, restricted>>

\* redeem, from a wallet in the agent's custody.
RedeemTokens(w, a, v) ==
    /\ WalletDid[w] = AgentDid /\ custody[w] = AgentDid
    /\ CheckGranularity(a, v) /\ ~ token[a].nft
    /\ SufficientBalance(hold, lock, w, a, v)
    /\ token' = [token EXCEPT ![a].supply = @ - v]
    /\ hold' = [hold EXCEPT ![w][a] = @ - v]
    /\ redeemed' = [redeemed EXCEPT ![a] = @ + v]
    /\ UNCHANGED <<lock, affirmed, frozenAsset, round, issuedIn, custody, cdd, restricted>>

\* base_transfer, by the settlement of an instruction.
BaseTransfer(from, to, a, v) ==
    /\ BaseTransferOk(hold, lock, from, to, a, v)
    /\ hold' = Moved(hold, from, to, a, v)
    /\ UNCHANGED <<token, lock, affirmed, frozenAsset, round, issuedIn, redeemed, custody, cdd, restricted>>

\* controller_transfer: neither frozen assets nor rules stop it.
ForcedTransfer(from, to, a, v) ==
    /\ WalletDid[to] = AgentDid
    /\ UnsafeTransferOk(hold, lock, from, to, a, v)
    /\ hold' = Moved(hold, from, to, a, v)
    /\ UNCHANGED <<token, lock, affirmed, frozenAsset, round, issuedIn, redeemed, custody, cdd, restricted>>

\* lock_tokens and unlock_tokens, by the affirmation of a settlement.
AffirmLock(w, a, v) ==
    /\ CheckGranularity(a, v) /\ SufficientBalance(hold, lock, w, a, v)
    /\ lock' = [lock EXCEPT ![w][a] = @ + v]
    /\ affirmed' = [affirmed EXCEPT ![w][a] = @ + v]
    /\ UNCHANGED <<token, hold, frozenAsset, round, issuedIn, redeemed, custody, cdd, restricted>>

AffirmUnlock(w, a, v) ==
    /\ affirmed[w][a] >= v
    /\ lock' = [lock EXCEPT ![w][a] = @ - v]
    /\ affirmed' = [affirmed EXCEPT ![w][a] = @ - v]
    /\ UNCHANGED <<token, hold, frozenAsset, round, issuedIn, redeemed, custody, cdd, restricted>>

\* freeze, unfreeze
SetFrozen(a, freeze) ==
    /\ (a \in frozenAsset) # freeze
    /\ frozenAsset' = IF freeze THEN frozenAsset \cup {a} ELSE frozenAsset \ {a}
    /\ UNCHANGED <<token, hold, lock, affirmed, round, issuedIn, redeemed, custody, cdd, restricted>>

MakeDivisible(a) ==
    /\ ~ token[a].nft /\ ~ token[a].divisible
    /\ token' = [token EXCEPT ![a].divisible = TRUE]
    /\ UNCHANGED <<hold, lock, affirmed, frozenAsset, round, issuedIn, redeemed, custody, cdd, restricted>>

\* set_funding_round, to a new name or back to an old one.
SetFundingRound(a, r) ==
    /\ round' = [round EXCEPT ![a] = r]
    /\ UNCHANGED <<token, hold, lock, affirmed, frozenAsset, issuedIn, redeemed, custody, cdd, restricted>>

\* accept_portfolio_custody, quit_portfolio_custody
ChangeCustody(w, d) ==
    /\ custody' = [custody EXCEPT ![w] = d]
    /\ UNCHANGED <<token, hold, lock, affirmed, frozenAsset, round, issuedIn, redeemed, cdd, restricted>>

\* Claims and rules change.
ChangeRules(c, r) ==
    /\ cdd' = c /\ restricted' = r
    /\ UNCHANGED <<token, hold, lock, affirmed, frozenAsset, round, issuedIn, redeemed, custody>>

FreezeStep(a) == \E f \in BOOLEAN : SetFrozen(a, f)

TermsNext(some) ==
    \/ \E a \in some :
         \/ \E v \in Amounts, w \in Wallets :
              \/ IssueTokens(w, a, v) \/ RedeemTokens(w, a, v)
              \/ AffirmLock(w, a, v) \/ AffirmUnlock(w, a, v)
              \/ \E u \in Wallets : BaseTransfer(w, u, a, v) \/ ForcedTransfer(w, u, a, v)
         \/ FreezeStep(a)
         \/ MakeDivisible(a)
         \/ \E r \in Rounds : SetFundingRound(a, r)

RulesNext ==
    \/ \E w \in Wallets, d \in DidsOfWallets : ChangeCustody(w, d)
    \/ \E d \in DidsOfWallets, r \in SUBSET {"statistics", "compliance"} : ChangeRules(DidsOfWallets \ {d}, r)
    \/ \E r \in SUBSET {"statistics", "compliance"} : ChangeRules(DidsOfWallets, r)

-----------------------------------------------------------------------------
(* Properties. *)

\* The supply is what the wallets hold, within the limit, in whole units while the asset is
\* indivisible, and it is what all funding rounds issued less what was redeemed, whatever
\* rounds were returned to (_mint, base_redeem, unsafe_transfer).
SupplyExact ==
    \A a \in Securities :
        /\ token[a].supply = MapThenSumSet(LAMBDA w : hold[w][a], Wallets)
        /\ token[a].supply + redeemed[a] = MapThenSumSet(LAMBDA r : issuedIn[a][r], Rounds)
        /\ token[a].supply <= SupplyCap
        /\ \A w \in Wallets : /\ ~ token[a].divisible => hold[w][a] % Unit = 0
                              /\ lock[w][a] \in 0..hold[w][a]

\* What the RPC answers is worth something: the two forms of can_transfer agree, and a
\* transfer that they approve would succeed now (unsafe_can_transfer,
\* unsafe_can_transfer_granular, base_transfer).
RpcTellsTheTruth ==
    \A a \in Securities, from, to \in Wallets, v \in Amounts, fc, tc \in DidsOfWallets :
        LET yes == UnsafeCanTransfer(fc, from, tc, to, a, v) = "success"
        IN  /\ yes <=> CanTransferGranular(fc, from, tc, to, a, v)
            /\ yes => BaseTransferOk(hold, lock, from, to, a, v)
-----------------------------------------------------------------------------
(* Fundraisers (pallets/sto). *)

CONSTANTS
    Offers,             \* [off, raise, offering, raising, tiers, start, end, min] to create
    PriceUnit,          \* prices are multiples of 1 / PriceUnit (1_000_000)
    MaxPrices,          \* prices an investor may limit itself to
    NoLimit,
    MAX_TIERS,
    MaxFundraisers,     \* bound on the fundraisers created
    MaxStoTime          \* bound on time

VARIABLES fundraisers,  \* Fundraisers, by id
          stoTime

stoVars == <<fundraisers, stoTime>>

NoEnd == 99

StoInit == fundraisers = <<>> /\ stoTime = 0

IsClosed(f) == f.status \in {"Closed", "ClosedEarly"}

RemainingOf(f) == FoldLeft(LAMBDA n, t : n + t.remaining, 0, f.tiers)

-----------------------------------------------------------------------------

\* create_fundraiser, by the agent, with custody of both wallets.  The offered amount is
\* locked; it need not be a whole number of units.
CreateFundraiser(o) ==
    LET f == [o EXCEPT !.tiers = [i \in DOMAIN o.tiers |->
                 [price |-> o.tiers[i].price, remaining |-> o.tiers[i].total]]]
    IN  /\ Len(fundraisers) < MaxFundraisers
        /\ custody[o.raise] = AgentDid /\ custody[o.off] = AgentDid
        /\ Len(o.tiers) \in 1..MAX_TIERS /\ \A i \in DOMAIN o.tiers : o.tiers[i].total > 0
        /\ o.end # NoEnd => o.start < o.end
        /\ SufficientBalance(hold, lock, o.off, o.offering, RemainingOf(f))
        /\ lock' = [lock EXCEPT ![o.off][o.offering] = @ + RemainingOf(f)]
        /\ fundraisers' = Append(fundraisers, [status |-> "Live"] @@ f)
        /\ UNCHANGED <<stoTime, token, hold, affirmed, frozenAsset, round, issuedIn, redeemed, custody,
                       cdd, restricted>>

\* The purchases of an investment, tier by tier, and what they cost.
Purchase(f, amount) ==
    LET Buy(acc, i) ==
            LET t == f.tiers[i]
                n == IF t.remaining >= acc.left THEN acc.left ELSE t.remaining
            IN  [left |-> acc.left - n, cost |-> acc.cost + (n * t.price) \div PriceUnit,
                 bought |-> [acc.bought EXCEPT ![i] = n]]
    IN  FoldLeft(Buy, [left |-> amount, cost |-> 0, bought |-> [i \in DOMAIN f.tiers |-> 0]],
                 [i \in DOMAIN f.tiers |-> i])

Sold(f, bought) == [f EXCEPT !.tiers = [i \in DOMAIN f.tiers |->
                        [f.tiers[i] EXCEPT !.remaining = @ - bought[i]]]]

\* The window and the state a fundraiser must be in.
Investable(f) ==
    f.status = "Live" /\ f.start <= stoTime /\ (f.end = NoEnd \/ stoTime < f.end)

\* invest: `into` receives the tokens, `from` pays.  A receipt is of no use here, since no leg
\* is off-chain.  The creator affirms in the same call, which needs its custody.
Invest(id, into, from, amount, max) ==
    LET f        == fundraisers[id]
        p        == Purchase(f, amount)
        unlocked == [lock EXCEPT ![f.off][f.offering] = @ - amount]
        moved    == Moved(hold, f.off, into, f.offering, amount)
    IN  /\ id \in DOMAIN fundraisers /\ Investable(f)
        /\ custody[into] = WalletDid[into] /\ custody[from] = WalletDid[into]
        /\ p.left = 0 /\ p.cost >= f.min /\ p.cost > 0
        /\ max # NoLimit => p.cost <= (max * amount) \div PriceUnit
        /\ custody[f.off] = AgentDid /\ custody[f.raise] = AgentDid
        /\ CheckGranularity(f.offering, amount) /\ CheckGranularity(f.raising, p.cost)
        /\ SufficientBalance(hold, unlocked, f.off, f.offering, amount)
        /\ SufficientBalance(hold, unlocked, from, f.raising, p.cost)
        /\ BaseTransferOk(hold, unlocked, f.off, into, f.offering, amount)
        /\ BaseTransferOk(moved, unlocked, from, f.raise, f.raising, p.cost)
        /\ lock' = unlocked
        /\ hold' = Moved(moved, from, f.raise, f.raising, p.cost)
        /\ fundraisers' = [fundraisers EXCEPT ![id] = Sold(f, p.bought)]
        /\ UNCHANGED <<stoTime, token, affirmed, frozenAsset, round, issuedIn, redeemed, custody, cdd, restricted>>

\* freeze_fundraiser, unfreeze_fundraiser
FreezeFundraiser(id, freeze) ==
    /\ ~ IsClosed(fundraisers[id])
    /\ fundraisers' = [fundraisers EXCEPT ![id].status = IF freeze THEN "Frozen" ELSE "Live"]
    /\ UNCHANGED <<stoTime, termsVars>>

\* modify_fundraiser_window: not once it has ended.
ModifyWindow(id, start, end) ==
    /\ ~ IsClosed(fundraisers[id])
    /\ fundraisers[id].end # NoEnd => stoTime < fundraisers[id].end
    /\ end # NoEnd => start < end
    /\ fundraisers' = [fundraisers EXCEPT ![id].start = start, ![id].end = end]
    /\ UNCHANGED <<stoTime, termsVars>>

\* stop: unlocks what was not sold, at any time, frozen or not.
Stop(id) ==
    LET f == fundraisers[id]
    IN  /\ ~ IsClosed(f)
        /\ lock' = [lock EXCEPT ![f.off][f.offering] = @ - RemainingOf(f)]
        /\ fundraisers' = [fundraisers EXCEPT ![id].status =
                              IF f.end # NoEnd /\ f.end > stoTime THEN "ClosedEarly" ELSE "Closed"]
        /\ UNCHANGED <<stoTime, token, hold, affirmed, frozenAsset, round, issuedIn, redeemed, custody,
                       cdd, restricted>>

StoTick ==
    /\ stoTime < MaxStoTime
    /\ stoTime' = stoTime + 1
    /\ UNCHANGED <<fundraisers, termsVars>>

StoNext ==
    \/ \E o \in Offers : CreateFundraiser(o)
    \/ \E id \in DOMAIN fundraisers :
         \/ Stop(id)
         \/ \E b \in BOOLEAN : FreezeFundraiser(id, b)
         \/ \E s \in 0..MaxStoTime, e \in (0..MaxStoTime) \cup {NoEnd} : ModifyWindow(id, s, e)
         \/ \E u, w \in Wallets, v \in Amounts, m \in MaxPrices : Invest(id, u, w, v, m)
    \/ StoTick

-----------------------------------------------------------------------------
(* Properties. *)

\* The locks are those of settlements and what the open fundraisers have left to sell, so
\* every fundraiser can always be sold out or stopped, whatever is invested, frozen, moved,
\* forced or redeemed in between (create_fundraiser, invest, stop).
OfferedIsLocked ==
    \A w \in Wallets, a \in Securities :
        lock[w][a] = affirmed[w][a]
            + MapThenSumSet(LAMBDA id : RemainingOf(fundraisers[id]),
                            {id \in DOMAIN fundraisers : /\ ~ IsClosed(fundraisers[id])
                                                         /\ fundraisers[id].off = w
                                                         /\ fundraisers[id].offering = a})
=============================================================================
