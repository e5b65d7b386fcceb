------------------------------- MODULE Ledger -------------------------------
(***************************************************************************)
(* What a portfolio holds and what of it is locked: the part of the        *)
(* portfolio, asset and nft pallets that every transfer goes through.      *)
(*                                                                         *)
(* `holdings` gathers the maps that record who owns what, several of them  *)
(* redundantly: the balance of a portfolio and of its identity, the set of *)
(* NFTs of a portfolio and the owner of an NFT.  The locks are separate    *)
(* maps, written only by the pallets that promise assets to a settlement.  *)
(*                                                                         *)
(* Amounts are whole units (ensure_granular).  The agent of a ticker is    *)
(* fixed (external agents), and so is the custodian of a portfolio.        *)
(***************************************************************************)
EXTENDS Integers, FiniteSets, FiniteSetsExt

CONSTANTS
    Identities,     \* identities that own portfolios
    Portfolios,     \* portfolio ids
    PortfolioDid,   \* the identity a portfolio belongs to
    DefaultOf,      \* the default portfolio of an identity, which always exists
    Fungible,       \* tickers of fungible assets
    Collections,    \* tickers of NFT collections
    NftIds,         \* NFT ids of a collection: 1..n
    Agent,          \* the agent of a ticker
    NoPortfolio,    \* the owner of an NFT that is not in circulation
    MaxSupply,      \* MAX_SUPPLY
    MaxAmount,      \* bound on the amount of one call
    Endowment,      \* balances at the start of a behaviour
    NftEndowment    \* NFTs at the start of a behaviour

NFTs == Collections \X NftIds

ASSUME LedgerAssumption ==
    /\ PortfolioDid \in [Portfolios -> Identities]
    /\ DefaultOf \in [Identities -> Portfolios]
    /\ \A d \in Identities : PortfolioDid[DefaultOf[d]] = d
    /\ Agent \in [Fungible \cup Collections -> Identities]
    /\ Fungible \cap Collections = {}
    /\ IsFiniteSet(Fungible) /\ IsFiniteSet(Collections) /\ IsFiniteSet(NftIds)
    /\ NftIds \subseteq Nat
    /\ NoPortfolio \notin Portfolios
    /\ MaxSupply \in Nat /\ MaxAmount \in Nat
    /\ Endowment \in [Portfolios -> [Fungible -> Nat]]
    /\ NftEndowment \in [Portfolios -> SUBSET NFTs]

\* The balances of the identities and the supplies that the endowment amounts to.
IdentityEndowment ==
    [d \in Identities |-> [t \in Fungible |->
        MapThenSumSet(LAMBDA p : Endowment[p][t], {p \in Portfolios : PortfolioDid[p] = d})]]
TotalEndowment == [t \in Fungible |-> MapThenSumSet(LAMBDA p : Endowment[p][t], Portfolios)]
NftsOf(d, c) ==
    {n \in NFTs : n[1] = c /\ \E p \in Portfolios : PortfolioDid[p] = d /\ n \in NftEndowment[p]}
NftsInCirculation(c) == {n \in NFTs : n[1] = c /\ \E p \in Portfolios : n \in NftEndowment[p]}

ASSUME EndowmentAssumption ==
    /\ IdentityEndowment \in [Identities -> [Fungible -> Nat]]
    /\ TotalEndowment \in [Fungible -> Nat]
    /\ \A p, q \in Portfolios : p # q => NftEndowment[p] \cap NftEndowment[q] = {}
    /\ \A p \in Portfolios : \A n \in NftEndowment[p] : n[2] <= Cardinality(NftsInCirculation(n[1]))

VARIABLES
    holdings,        \* record of the ownership maps, see HoldingsType
    supply,          \* SecurityToken::total_supply of each fungible ticker
    nextNft,         \* NextNFTId: the last NFT id given out in a collection
    locked,          \* PortfolioLockedAssets
    lockedNft,       \* PortfolioLockedNFT
    portfolioState   \* Portfolios: numbers not yet given out, in use, deleted

ledgerVars == <<holdings, supply, nextNft, locked, lockedNft, portfolioState>>

SaturatingSub(a, b) == IF a >= b THEN a - b ELSE 0

(***************************************************************************)
(* Reads.                                                                  *)
(***************************************************************************)
\* Default portfolios are always valid, numbered ones between creation and deletion.
PortfolioExists(p) == portfolioState[p] = "live"

\* Mutant: the locks are not subtracted.
MutFreeBalance(h, lk, p, t) == h.bal[p][t]

\* The balance of p that is not promised to a settlement.
FreeBalance(h, lk, p, t) == SaturatingSub(h.bal[p][t], lk[p][t])

(***************************************************************************)
(* Updates of the ownership maps.                                          *)
(***************************************************************************)
\* How many tickers a portfolio has a balance of: moves when one reaches or leaves 0.
TransitionAssetCount(c, old, new) ==
    IF old = 0 /\ new > 0 THEN c + 1
    ELSE IF old > 0 /\ new = 0 THEN SaturatingSub(c, 1)
    ELSE c

SetPortfolioBalance(h, p, t, new) ==
    [h EXCEPT !.bal[p][t] = new,
              !.count[p] = TransitionAssetCount(@, h.bal[p][t], new)]

MovePortfolioBalance(h, from, to, t, v) ==
    LET h1 == SetPortfolioBalance(h, from, t, SaturatingSub(h.bal[from][t], v))
    IN  SetPortfolioBalance(h1, to, t, h1.bal[to][t] + v)

\* Mutant: the balances of the identities are forgotten.
MutTransferTokens(h, from, to, t, v) == MovePortfolioBalance(h, from, to, t, v)

\* unsafe_transfer between two identities: identity balances, then portfolios.
TransferTokens(h, from, to, t, v) ==
    MovePortfolioBalance(
        [h EXCEPT !.did = [h.did EXCEPT ![PortfolioDid[from]][t] = @ - v,
                                        ![PortfolioDid[to]][t] = @ + v]],
        from, to, t, v)

\* What unsafe_transfer checks before it writes.
CanTransferTokens(h, lk, from, to, t, v) ==
    /\ PortfolioDid[from] # PortfolioDid[to]
    /\ h.did[PortfolioDid[from]][t] >= v
    /\ FreeBalance(h, lk, from, t) >= v

\* The set ns moves from one portfolio to the other; the NFTs are of one identity or of two.
MoveNfts(h, from, to, ns) ==
    [h EXCEPT !.nft = [h.nft EXCEPT ![from] = @ \ ns, ![to] = @ \cup ns],
              !.owner = [n \in NFTs |-> IF n \in ns THEN to ELSE h.owner[n]]]

\* NumberOfNFTs of the sender, then of the receiver, which may be the same identity.
MoveNftCount(m, from, to, c, k) ==
    LET less == [m EXCEPT ![from][c] = @ - k] IN [less EXCEPT ![to][c] = @ + k]

TransferNfts(h, from, to, c, ns) ==
    MoveNfts([h EXCEPT !.nftCount = MoveNftCount(h.nftCount, PortfolioDid[from], PortfolioDid[to],
                                                 c, Cardinality(ns))],
             from, to, ns)

\* validate_nft_ownership: nothing here asks whether the portfolios still exist.
CanTransferNfts(h, lkn, from, to, c, ns) ==
    /\ from # to
    /\ h.nftCount[PortfolioDid[from]][c] >= Cardinality(ns)
    /\ ns # {}
    /\ ns \subseteq h.nft[from]
    /\ ns \cap lkn[from] = {}

(***************************************************************************)
(* The calls.                                                              *)
(***************************************************************************)
LedgerInit ==
    /\ holdings =
        [bal   |-> Endowment,
         count |-> [p \in Portfolios |-> Cardinality({t \in Fungible : Endowment[p][t] > 0})],
         did   |-> IdentityEndowment,
         nft   |-> NftEndowment,
         owner |-> [n \in NFTs |-> IF \E p \in Portfolios : n \in NftEndowment[p]
                                   THEN CHOOSE p \in Portfolios : n \in NftEndowment[p]
                                   ELSE NoPortfolio],
         nftCount |-> [d \in Identities |-> [c \in Collections |-> Cardinality(NftsOf(d, c))]],
         minted |-> [c \in Collections |-> Cardinality(NftsInCirculation(c))]]
    /\ supply = TotalEndowment
    /\ nextNft = [c \in Collections |-> Cardinality(NftsInCirculation(c))]
    /\ locked = [p \in Portfolios |-> [t \in Fungible |-> 0]]
    /\ lockedNft = [p \in Portfolios |-> {}]
    /\ portfolioState \in [Portfolios -> {"future", "live"}]
    /\ \A d \in Identities : portfolioState[DefaultOf[d]] = "live"
    /\ \A p \in Portfolios : portfolioState[p] = "future" =>
           NftEndowment[p] = {} /\ \A t \in Fungible : Endowment[p][t] = 0

\* create_portfolio: numbers are never given out twice.
CreatePortfolio(p) ==
    /\ portfolioState[p] = "future"
    /\ portfolioState' = [portfolioState EXCEPT ![p] = "live"]
    /\ UNCHANGED <<holdings, supply, nextNft, locked, lockedNft>>

\* delete_portfolio: only an empty numbered portfolio.
DeletePortfolio(p) ==
    /\ p # DefaultOf[PortfolioDid[p]]
    /\ PortfolioExists(p)
    /\ holdings.count[p] = 0
    /\ holdings.nft[p] = {}
    /\ lockedNft[p] = {}
    /\ portfolioState' = [portfolioState EXCEPT ![p] = "deleted"]
    /\ holdings' = [holdings EXCEPT !.bal[p] = [t \in Fungible |-> 0], !.count[p] = 0]
    /\ locked' = [locked EXCEPT ![p] = [t \in Fungible |-> 0]]
    /\ UNCHANGED <<supply, nextNft, lockedNft>>

\* move_portfolio_funds: between two portfolios of one identity, out of what is free.
\* The source may be a deleted portfolio.
MovePortfolioFunds(from, to, t, v) ==
    /\ from # to /\ PortfolioDid[from] = PortfolioDid[to]
    /\ PortfolioExists(to)
    /\ FreeBalance(holdings, locked, from, t) >= v
    /\ holdings' = MovePortfolioBalance(holdings, from, to, t, v)
    /\ UNCHANGED <<supply, nextNft, locked, lockedNft, portfolioState>>

\* The same call for NFTs, which must not be locked.
MovePortfolioNfts(from, to, ns) ==
    /\ from # to /\ PortfolioDid[from] = PortfolioDid[to]
    /\ PortfolioExists(to)
    /\ ns # {} /\ ns \subseteq holdings.nft[from]
    /\ ns \cap lockedNft[from] = {}
    /\ holdings' = MoveNfts(holdings, from, to, ns)
    /\ UNCHANGED <<supply, nextNft, locked, lockedNft, portfolioState>>

\* issue: the agent mints into one of its own portfolios.
Issue(p, t, v) ==
    /\ PortfolioDid[p] = Agent[t] /\ PortfolioExists(p)
    /\ supply[t] + v <= MaxSupply
    /\ supply' = [supply EXCEPT ![t] = @ + v]
    /\ holdings' = SetPortfolioBalance([holdings EXCEPT !.did[Agent[t]][t] = @ + v],
                                       p, t, holdings.bal[p][t] + v)
    /\ UNCHANGED <<nextNft, locked, lockedNft, portfolioState>>

\* redeem, redeem_from_portfolio: what remains must cover the locks (reduce_portfolio_balance).
Redeem(p, t, v) ==
    /\ PortfolioDid[p] = Agent[t] /\ PortfolioExists(p)
    /\ holdings.bal[p][t] >= v /\ holdings.bal[p][t] - v >= locked[p][t]
    /\ supply[t] >= v
    /\ supply' = [supply EXCEPT ![t] = @ - v]
    /\ holdings' = SetPortfolioBalance([holdings EXCEPT !.did[Agent[t]][t] = @ - v],
                                       p, t, holdings.bal[p][t] - v)
    /\ UNCHANGED <<nextNft, locked, lockedNft, portfolioState>>

\* controller_transfer: the agent takes tokens into its default portfolio.
ControllerTransfer(from, t, v) ==
    /\ CanTransferTokens(holdings, locked, from, DefaultOf[Agent[t]], t, v)
    /\ holdings' = TransferTokens(holdings, from, DefaultOf[Agent[t]], t, v)
    /\ UNCHANGED <<supply, nextNft, locked, lockedNft, portfolioState>>

IssueNft(p, c) ==
    LET n == <<c, nextNft[c] + 1>>
    IN  /\ PortfolioDid[p] = Agent[c] /\ PortfolioExists(p)
        /\ n \in NFTs
        /\ nextNft' = [nextNft EXCEPT ![c] = @ + 1]
        /\ holdings' = [holdings EXCEPT !.nft[p] = @ \cup {n},
                                        !.owner[n] = p,
                                        !.nftCount[Agent[c]][c] = @ + 1,
                                        !.minted[c] = @ + 1]
        /\ UNCHANGED <<supply, locked, lockedNft, portfolioState>>

\* redeem_nft: burns an NFT of the agent; the lock on it is neither read nor written.
RedeemNft(p, n) ==
    /\ PortfolioDid[p] = Agent[n[1]] /\ PortfolioExists(p)
    /\ n \in holdings.nft[p]
    /\ holdings.minted[n[1]] > 0 /\ holdings.nftCount[Agent[n[1]]][n[1]] > 0
    /\ holdings' = [holdings EXCEPT !.nft[p] = @ \ {n},
                                    !.owner[n] = NoPortfolio,
                                    !.nftCount[Agent[n[1]]][n[1]] = @ - 1,
                                    !.minted[n[1]] = @ - 1]
    /\ UNCHANGED <<supply, nextNft, locked, lockedNft, portfolioState>>

\* controller_transfer of the nft pallet, into any portfolio of the agent of ticker t; c is the
\* collection that the list of NFTs names.
ControllerTransferNfts(from, to, t, c, ns) ==
    /\ PortfolioDid[to] = Agent[t] /\ PortfolioExists(to)
    /\ CanTransferNfts(holdings, lockedNft, from, to, c, ns)
    /\ holdings' = TransferNfts(holdings, from, to, c, ns)
    /\ UNCHANGED <<supply, nextNft, locked, lockedNft, portfolioState>>

NftNext ==
    \/ \E p \in Portfolios, c \in Collections : IssueNft(p, c)
    \/ \E p \in Portfolios, n \in NFTs : RedeemNft(p, n)
    \/ \E p, q \in Portfolios, t \in Fungible \cup Collections, c \in Collections :
           \E ns \in SUBSET ({c} \X NftIds) : ControllerTransferNfts(p, q, t, c, ns)

LedgerNext ==
    \/ \E p \in Portfolios : CreatePortfolio(p) \/ DeletePortfolio(p)
    \/ \E p, q \in Portfolios, t \in Fungible, v \in 1..MaxAmount : MovePortfolioFunds(p, q, t, v)
    \/ \E p, q \in Portfolios, ns \in SUBSET NFTs : MovePortfolioNfts(p, q, ns)
    \/ \E p \in Portfolios, t \in Fungible, v \in 1..MaxAmount :
           Issue(p, t, v) \/ Redeem(p, t, v) \/ ControllerTransfer(p, t, v)
    \/ NftNext

(***************************************************************************)
(* The locks, as the pallets that settle assets take and release them      *)
(* (settlement, sto, corporate actions): PortfolioSubTrait.                *)
(***************************************************************************)
LockTokens(p, t, v) ==
    /\ FreeBalance(holdings, locked, p, t) >= v
    /\ locked' = [locked EXCEPT ![p][t] = @ + v]
    /\ UNCHANGED <<holdings, supply, nextNft, lockedNft, portfolioState>>

UnlockTokens(p, t, v) ==
    /\ locked[p][t] >= v
    /\ locked' = [locked EXCEPT ![p][t] = @ - v]
    /\ UNCHANGED <<holdings, supply, nextNft, lockedNft, portfolioState>>

LockNft(p, n) ==
    /\ n \in holdings.nft[p] \ lockedNft[p]
    /\ lockedNft' = [lockedNft EXCEPT ![p] = @ \cup {n}]
    /\ UNCHANGED <<holdings, supply, nextNft, locked, portfolioState>>

UnlockNft(p, n) ==
    /\ n \in lockedNft[p]
    /\ lockedNft' = [lockedNft EXCEPT ![p] = @ \ {n}]
    /\ UNCHANGED <<holdings, supply, nextNft, locked, portfolioState>>

LockNext ==
    \/ \E p \in Portfolios, t \in Fungible, v \in 1..MaxAmount :
           LockTokens(p, t, v) \/ UnlockTokens(p, t, v)
    \/ \E p \in Portfolios, n \in NFTs : LockNft(p, n) \/ UnlockNft(p, n)

LedgerSpec == LedgerInit /\ [][LedgerNext \/ LockNext]_ledgerVars

(***************************************************************************)
(* Properties.                                                             *)
(***************************************************************************)
HoldingsType ==
    [bal : [Portfolios -> [Fungible -> Nat]],
     count : [Portfolios -> Nat],
     did : [Identities -> [Fungible -> Int]],
     nft : [Portfolios -> SUBSET NFTs],
     owner : [NFTs -> Portfolios \cup {NoPortfolio}],
     nftCount : [Identities -> [Collections -> Nat]],
     minted : [Collections -> Nat]]

\* Every map holds values of its storage type; portfolio balances and counts never go below
\* zero (that identity balances do not either follows from BalancesAgree).
LedgerTypeOK ==
    /\ holdings \in HoldingsType
    /\ supply \in [Fungible -> Nat]
    /\ nextNft \in [Collections -> Nat]
    /\ locked \in [Portfolios -> [Fungible -> Nat]]
    /\ lockedNft \in [Portfolios -> SUBSET NFTs]
    /\ portfolioState \in [Portfolios -> {"future", "live", "deleted"}]

\* "These assets show up in portfolio balance but can not be transferred away": whatever
\* the agent and the owner do, a portfolio keeps at least what is locked in it.
LocksCovered ==
    \A p \in Portfolios, t \in Fungible : locked[p][t] <= holdings.bal[p][t]

\* The three places that record fungible ownership agree: an identity's balance is the sum
\* over its portfolios, and the supply is the sum over the identities.
BalancesAgree ==
    \A t \in Fungible :
        /\ \A d \in Identities : holdings.did[d][t] =
               MapThenSumSet(LAMBDA p : holdings.bal[p][t], {p \in Portfolios : PortfolioDid[p] = d})
        /\ supply[t] = MapThenSumSet(LAMBDA d : holdings.did[d][t], Identities)
        /\ supply[t] <= MaxSupply

\* PortfolioAssetCount, which delete_portfolio relies on, counts exactly the tickers with a balance.
AssetCountExact ==
    \A p \in Portfolios : holdings.count[p] = Cardinality({t \in Fungible : holdings.bal[p][t] > 0})

\* An NFT is in the portfolio that NFTOwner names and in no other.
NftOwnersAgree ==
    \A n \in NFTs, p \in Portfolios : holdings.owner[n] = p <=> n \in holdings.nft[p]

\* Only ids that were given out have an owner, so that the next id is new.
NftIdsGivenOut ==
    \A n \in NFTs : holdings.owner[n] # NoPortfolio => n[2] <= nextNft[n[1]]

\* NFTOwner, PortfolioNFT, NumberOfNFTs and NFTsInCollection tell one story, and no NFT
\* is in two portfolios.
NftMapsAgree ==
    /\ NftOwnersAgree
    /\ NftIdsGivenOut
    /\ \A c \in Collections :
        /\ \A d \in Identities : holdings.nftCount[d][c] =
               Cardinality({n \in {c} \X NftIds :
                   \E p \in Portfolios : PortfolioDid[p] = d /\ n \in holdings.nft[p]})
        /\ holdings.minted[c] = Cardinality({n \in {c} \X NftIds : holdings.owner[n] # NoPortfolio})

\* No tokens are left behind in a portfolio that is not in use ("Otherwise we would end up
\* with unreachable assets").
NoTokensOutsideLivePortfolios ==
    \A p \in Portfolios, t \in Fungible : holdings.bal[p][t] > 0 => portfolioState[p] = "live"

\* What the ledger promises the pallets that settle: locked tokens stay, nothing is left in a
\* portfolio that is not in use, the count that guards a deletion is right, and an NFT has one
\* place (portfolio, asset and nft pallets).
LedgerSafe ==
    /\ LedgerTypeOK
    /\ LocksCovered
    /\ AssetCountExact
    /\ NoTokensOutsideLivePortfolios
    /\ NftOwnersAgree
    /\ NftIdsGivenOut

\* The totals: identity balances, supplies and numbers of NFTs are the sums over the portfolios.
TotalsAgree == BalancesAgree /\ NftMapsAgree

(***************************************************************************)
(* What the documentation says and the code does not do.                   *)
(***************************************************************************)
\* "`origin` - is a signer that has permissions to act as an agent of `ticker`", "`ticker` - the
\* Ticker of the NFT collection": an NFT passes to another identity by a forced transfer only
\* when that identity is the agent of the NFT's own collection.
NftForcedOnlyByItsAgent ==
    [][\A n \in NFTs : LET p == holdings.owner[n]
                           q == holdings'.owner[n]
                       IN  p # NoPortfolio /\ q # NoPortfolio /\ PortfolioDid[p] # PortfolioDid[q]
                           => PortfolioDid[q] = Agent[n[1]]]_ledgerVars
=============================================================================
