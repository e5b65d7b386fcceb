---------------------------- MODULE PolymeshInk ----------------------------
(***************************************************************************)
(* The wrapped runtime calls that the repository's ink! contracts are      *)
(* written with, over the part of the runtime they touch: portfolios and   *)
(* their custodians, asset balances, POLYX, venues and instructions.       *)
(*                                                                         *)
(* A message of a contract runs in one extrinsic and is rolled back as a   *)
(* whole when it returns an error, so a message is one action, its checks  *)
(* are guards, and the runtime calls it makes one after the other are      *)
(* composed into the next value of the runtime's state `rt`.               *)
(***************************************************************************)
EXTENDS Integers, Sequences, FiniteSets
LOCAL INSTANCE FiniteSetsExt

CONSTANTS
    Owners,               \* identities that call the contract, with a key each
    Contract,             \* the contract's identity
    Tickers, Amounts,
    Uploaded, NeverUploaded,  \* code hashes of the wrappers
    MaxPortfolio,         \* bounds the user portfolios of an identity
    MaxInstructions

VARIABLES rt, code

\* rt: custody (pf -> custodian, where it is not the owner), next portfolio
\* number per identity, custody authorizations for the contract, identities that
\* let the contract create portfolios for them, total supply (-1: no such asset),
\* holdings per asset and portfolio, POLYX, venues, pending instructions.
\* code: the hash the contract delegates its runtime calls to.
inkVars == <<rt, code>>

Dids == Owners \cup {Contract}
Portfolios == Dids \X (0..MaxPortfolio)      \* number 0 is the default portfolio
Default(did) == <<did, 0>>
Custodian(r, pf) == IF pf \in DOMAIN r.custody THEN r.custody[pf] ELSE pf[1]
Exists(r, pf) == pf[2] = 0 \/ pf[2] < r.next[pf[1]]

InitRuntime(polyx) ==
    [custody |-> <<>>, next |-> [d \in Dids |-> 1], auths |-> {}, allowed |-> {},
     supply |-> [t \in Tickers |-> -1], held |-> [t \in Tickers |-> [p \in Portfolios |-> 0]],
     polyx |-> polyx, venues |-> 0, instructions |-> <<>>]

\* The delegate call of a wrapper needs code at the hash.
Delegates(hash) == hash \in Uploaded

----------------------------------------------------------------------------
(* The wrappers: `Can...` is what must hold for the extrinsic to succeed,  *)
(* the other operator what it leaves.                                      *)

CanCreatePortfolio(r, did) == r.next[did] <= MaxPortfolio
CreatePortfolio(r, did) == [r EXCEPT !.next[did] = @ + 1]

\* accept_portfolio_custody: any authorization for the contract may be accepted,
\* but the caller's portfolio must be in custody afterwards.
Accepted(r, auth) ==
    [r EXCEPT !.auths = @ \ {auth},
              !.custody = [p \in DOMAIN @ \cup {auth} |-> IF p = auth THEN Contract ELSE @[p]]]
CanAcceptCustody(r, auth, portfolio) ==
    /\ auth \in r.auths
    /\ Custodian(r, auth) = auth[1]
    /\ Custodian(Accepted(r, auth), portfolio) = Contract

CanQuitCustody(r, pf) == Custodian(r, pf) = Contract /\ pf[1] # Contract
QuitCustody(r, pf) == [r EXCEPT !.custody = [p \in DOMAIN @ \ {pf} |-> @[p]]]

CanMoveFunds(r, src, dest, t, n) ==
    /\ Custodian(r, src) = Contract
    /\ src # dest /\ src[1] = dest[1] /\ Exists(r, dest)
    /\ 0 < n /\ n <= r.held[t][src]
MoveFunds(r, src, dest, t, n) == [r EXCEPT !.held[t][src] = @ - n, !.held[t][dest] = @ + n]

CreateVenue(r) == [r EXCEPT !.venues = @ + 1]

\* A leg is [from, to, ticker, amount].  An affirmation locks everything the
\* portfolio is to send.
Outgoing(legs, t, pf) ==
    MapThenSumSet(LAMBDA i : IF legs[i].from = pf /\ legs[i].ticker = t THEN legs[i].amount ELSE 0,
                  DOMAIN legs)
Incoming(legs, t, pf) ==
    MapThenSumSet(LAMBDA i : IF legs[i].to = pf /\ legs[i].ticker = t THEN legs[i].amount ELSE 0,
                  DOMAIN legs)
LegsValid(r, legs) ==
    \A i \in DOMAIN legs : /\ legs[i].amount > 0
                           /\ legs[i].from[1] # legs[i].to[1]
                           /\ r.supply[legs[i].ticker] >= 0
Funded(r, legs) ==
    \A t \in Tickers, pf \in Portfolios : Outgoing(legs, t, pf) <= r.held[t][pf]
Settle(r, legs) ==
    [r EXCEPT !.held = [t \in Tickers |-> [pf \in Portfolios |->
        @[t][pf] - Outgoing(legs, t, pf) + Incoming(legs, t, pf)]]]

\* settlement_execute: the contract affirms for all portfolios and executes.
CanSettlementExecute(r, legs) ==
    /\ LegsValid(r, legs) /\ Funded(r, legs)
    /\ \A i \in DOMAIN legs : /\ Custodian(r, legs[i].from) = Contract
                              /\ Custodian(r, legs[i].to) = Contract

\* add_and_affirm_instruction for one portfolio; the other parties affirm later.
CanAddAndAffirm(r, legs, pf) ==
    /\ LegsValid(r, legs) /\ Custodian(r, pf) = Contract
    /\ Len(r.instructions) < MaxInstructions
AddAndAffirm(r, legs, terms) ==
    [r EXCEPT !.instructions = Append(@, [legs |-> legs, terms |-> terms, done |-> FALSE])]

\* asset_issue and asset_redeem act on the contract's default portfolio.
AssetIssue(r, t, n) == [r EXCEPT !.supply[t] = @ + n, !.held[t][Default(Contract)] = @ + n]
CanAssetRedeem(r, t, n) == n <= r.held[t][Default(Contract)]
AssetRedeem(r, t, n) == [r EXCEPT !.supply[t] = @ - n, !.held[t][Default(Contract)] = @ - n]

CanAssetCreate(r, t) == r.supply[t] = -1
AssetCreateAndIssue(r, t, n) == AssetIssue([r EXCEPT !.supply[t] = 0], t, n)

CanCreateCustodyPortfolio(r, owner) == owner \in r.allowed /\ CanCreatePortfolio(r, owner)
CreateCustodyPortfolio(r, owner) ==
    [r EXCEPT !.next[owner] = @ + 1,
              !.custody = [p \in DOMAIN @ \cup {<<owner, r.next[owner]>>} |->
                              IF p = <<owner, r.next[owner]>> THEN Contract ELSE @[p]]]

CanPay(r, from, n) == n <= r.polyx[from]
Pay(r, from, to, n) == [r EXCEPT !.polyx = [d \in DOMAIN @ |->
    @[d] - (IF d = from THEN n ELSE 0) + (IF d = to THEN n ELSE 0)]]

----------------------------------------------------------------------------
(* What the owners do in between, without the contract.                    *)

AuthorizeContract(did) ==
    \E num \in 0..MaxPortfolio :
        /\ Exists(rt, <<did, num>>)
        /\ rt' = [rt EXCEPT !.auths = @ \cup {<<did, num>>}]

AllowContract(did) == did \notin rt.allowed /\ rt' = [rt EXCEPT !.allowed = @ \cup {did}]
DisallowContract(did) == did \in rt.allowed /\ rt' = [rt EXCEPT !.allowed = @ \ {did}]

OwnerCreates(did) == CanCreatePortfolio(rt, did) /\ rt' = CreatePortfolio(rt, did)

OwnerPays(did) ==
    \E t \in Tickers, n \in Amounts, src, dest \in Portfolios :
        /\ src[1] = did /\ Exists(rt, src) /\ Exists(rt, dest) /\ src # dest
        /\ Custodian(rt, src) = did
        /\ n <= rt.held[t][src]
        /\ rt' = MoveFunds(rt, src, dest, t, n)

\* The last party affirms an instruction, which executes it.
LastAffirmation ==
    \E i \in DOMAIN rt.instructions :
        /\ ~rt.instructions[i].done /\ Funded(rt, rt.instructions[i].legs)
        /\ rt' = [Settle(rt, rt.instructions[i].legs) EXCEPT !.instructions[i].done = TRUE]

OwnerStep(did) ==
    \/ AuthorizeContract(did)
    \/ AllowContract(did) \/ DisallowContract(did)
    \/ OwnerCreates(did)
    \/ OwnerPays(did)
    \/ LastAffirmation

----------------------------------------------------------------------------

\* The contract is the custodian of exactly the portfolios its map names:
\* nobody's portfolio is taken without an entry through which its owner gets it
\* back, and every entry can be used.  An authorization accepted for one portfolio
\* while the message names another must not break this.
MapsItsCustody(map) ==
    /\ \A did \in DOMAIN map : Custodian(rt, map[did]) = Contract /\ map[did][1] = did
    /\ \A pf \in DOMAIN rt.custody :
          rt.custody[pf] = Contract => pf[1] \in DOMAIN map /\ map[pf[1]] = pf

=============================================================================
