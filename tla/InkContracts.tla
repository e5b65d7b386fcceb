---------------------------- MODULE InkContracts ----------------------------
(***************************************************************************)
(* The contracts under contracts/.  Three are written with the wrapped     *)
(* runtime calls: `wrapped-polyx` (POLYX deposited for a token),           *)
(* `settlements` (a venue that trades two tokens with its users) and       *)
(* `nft_royalty` (adds a royalty to NFT sales).  Each of them keeps a map  *)
(* from identities to the portfolio it has custody of; at most one of the  *)
(* three is deployed in a behaviour.                                       *)
(* The others keep all their state themselves: an ERC-20 token, a vesting  *)
(* account, two proxies in front of an exchangeable flipper, and a         *)
(* delegator in front of an accumulator.                                   *)
(* A message that returns an error or panics leaves no trace.              *)
(***************************************************************************)
EXTENDS PolymeshInk, TLC
LOCAL INSTANCE FiniteSetsExt

CONSTANTS InitFee,        \* protocol fees of creating the wrapped asset
    Issue, Gift,          \* settlements: issued tokens, given per new portfolio
    Ticker1, Ticker2,
    RuleSet, Prices       \* nft_royalty: metadata values, prices

VARIABLES initialized, portfolios, metadataKeys, metadata

\* metadata: the runtime's [key, rules] of the collection's royalty metadata;
\* key counts registrations, rules is NoRules while the value is absent.
contractVars == <<initialized, portfolios, metadataKeys, metadata>>

NoRules == [allowed |-> {}, tenths |-> -1, artist |-> Contract]
leg(f, t, tk, n) == [from |-> f, to |-> t, ticker |-> tk, amount |-> n]
Without(map, did) == [d \in DOMAIN map \ {did} |-> map[d]]

----------------------------------------------------------------------------
(* wrapped-polyx.                                                          *)

WrappedInit(payer, value) ==
    /\ ~initialized
    /\ CanPay(rt, payer, value) /\ rt.polyx[Contract] + value >= InitFee
    /\ CanAssetCreate(rt, Ticker1)
    /\ rt' = CreateVenue(AssetCreateAndIssue(
                [Pay(rt, payer, Contract, value) EXCEPT !.polyx[Contract] = @ - InitFee], Ticker1, 0))
    /\ initialized' = TRUE
    /\ UNCHANGED <<code, portfolios, metadataKeys, metadata>>

\* The checks come after the custody was accepted.
WrappedAddPortfolio(caller, auth, num) ==
    /\ initialized
    /\ CanAcceptCustody(rt, auth, <<caller, num>>)
    /\ caller \notin DOMAIN portfolios
    /\ rt' = Accepted(rt, auth)
    /\ portfolios' = (caller :> <<caller, num>>) @@ portfolios
    /\ UNCHANGED <<code, initialized, metadataKeys, metadata>>

\* Issue to the contract's default portfolio, then settle to the caller's.
MintWrappedPolyx(caller, amount) ==
    /\ initialized /\ caller \in DOMAIN portfolios
    /\ CanPay(rt, caller, amount)
    /\ \E issued \in {AssetIssue(Pay(rt, caller, Contract, amount), Ticker1, amount)},
          legs \in {<<leg(Default(Contract), portfolios[caller], Ticker1, amount)>>} :
          /\ CanSettlementExecute(issued, legs)
          /\ rt' = Settle(issued, legs)
    /\ UNCHANGED <<code, contractVars>>

\* Mutant: what is given back is not redeemed.
MutBurnWrappedPolyx(caller, amount) ==
    /\ initialized /\ caller \in DOMAIN portfolios
    /\ \E legs \in {<<leg(portfolios[caller], Default(Contract), Ticker1, amount)>>} :
          /\ CanSettlementExecute(rt, legs) /\ CanPay(rt, Contract, amount)
          /\ rt' = Pay(Settle(rt, legs), Contract, caller, amount)
    /\ UNCHANGED <<code, contractVars>>

\* Settle to the contract's default portfolio, redeem, and pay out.
BurnWrappedPolyx(caller, amount) ==
    /\ initialized /\ caller \in DOMAIN portfolios
    /\ \E legs \in {<<leg(portfolios[caller], Default(Contract), Ticker1, amount)>>} :
          /\ CanSettlementExecute(rt, legs)
          /\ CanAssetRedeem(Settle(rt, legs), Ticker1, amount) /\ CanPay(rt, Contract, amount)
          /\ rt' = Pay(AssetRedeem(Settle(rt, legs), Ticker1, amount), Contract, caller, amount)
    /\ UNCHANGED <<code, contractVars>>

RemovePortfolio(caller) ==
    /\ initialized /\ caller \in DOMAIN portfolios
    /\ CanQuitCustody(rt, portfolios[caller])
    /\ rt' = QuitCustody(rt, portfolios[caller])
    /\ portfolios' = Without(portfolios, caller)
    /\ UNCHANGED <<code, initialized, metadataKeys, metadata>>

WithdrawPolyx(caller, amount, num) ==
    /\ initialized /\ caller \in DOMAIN portfolios
    /\ CanMoveFunds(rt, portfolios[caller], <<caller, num>>, Ticker1, amount)
    /\ rt' = MoveFunds(rt, portfolios[caller], <<caller, num>>, Ticker1, amount)
    /\ UNCHANGED <<code, contractVars>>

WrappedStep ==
    \/ \E p \in Owners, v \in {0, InitFee} : WrappedInit(p, v)
    \/ \E c \in Owners :
          \/ \E auth \in rt.auths, num \in 0..MaxPortfolio : WrappedAddPortfolio(c, auth, num)
          \/ \E n \in Amounts : MintWrappedPolyx(c, n) \/ BurnWrappedPolyx(c, n)
          \/ \E n \in Amounts, num \in 0..MaxPortfolio : WithdrawPolyx(c, n, num)
          \/ RemovePortfolio(c)

----------------------------------------------------------------------------
(* settlements.                                                            *)

\* update_code_hash by the admin, update_polymesh_ink by anyone.
UpdateCodeHash(hash) ==
    /\ code' = hash
    /\ UNCHANGED <<rt, contractVars>>

UpdatePolymeshInk ==
    /\ \E hash \in Uploaded : code' = hash
    /\ UNCHANGED <<rt, contractVars>>

InitVenue ==
    /\ ~initialized /\ Delegates(code)
    /\ CanCreatePortfolio(rt, Contract)
    /\ CanAssetCreate(rt, Ticker1) /\ CanAssetCreate(rt, Ticker2)
    /\ portfolios' = (Contract :> <<Contract, rt.next[Contract]>>) @@ portfolios
    /\ rt' = AssetCreateAndIssue(AssetCreateAndIssue(
                CreatePortfolio(CreateVenue(rt), Contract), Ticker1, Issue), Ticker2, Issue)
    /\ initialized' = TRUE
    /\ UNCHANGED <<code, metadataKeys, metadata>>

\* add_portfolio ends with fund_caller: without funds left it fails.
AddPortfolio(caller, auth, num) ==
    /\ initialized /\ Delegates(code)
    /\ CanAcceptCustody(rt, auth, <<caller, num>>)
    /\ caller \notin DOMAIN portfolios
    /\ \E accepted \in {Accepted(rt, auth)},
          legs \in {<<leg(Default(Contract), <<caller, num>>, Ticker1, Gift),
                      leg(Default(Contract), <<caller, num>>, Ticker2, 2 * Gift)>>} :
          /\ CanSettlementExecute(accepted, legs)
          /\ rt' = Settle(accepted, legs)
    /\ portfolios' = (caller :> <<caller, num>>) @@ portfolios
    /\ UNCHANGED <<code, initialized, metadataKeys, metadata>>

Withdrawal(caller, t, amount, num) ==
    /\ initialized /\ Delegates(code) /\ t \in {Ticker1, Ticker2}
    /\ caller \in DOMAIN portfolios
    /\ CanMoveFunds(rt, portfolios[caller], <<caller, num>>, t, amount)
    /\ rt' = MoveFunds(rt, portfolios[caller], <<caller, num>>, t, amount)
    /\ UNCHANGED <<code, contractVars>>

WithdrawalAll(caller) == Delegates(code) /\ RemovePortfolio(caller)

Trade(caller, sell, sellAmount, buy, buyAmount) ==
    /\ initialized /\ Delegates(code)
    /\ {sell, buy} \subseteq {Ticker1, Ticker2}
    /\ caller \in DOMAIN portfolios
    /\ \E legs \in {<<leg(portfolios[caller], Default(Contract), sell, sellAmount),
                      leg(Default(Contract), portfolios[caller], buy, buyAmount)>>} :
          /\ CanSettlementExecute(rt, legs)
          /\ rt' = Settle(rt, legs)
    /\ UNCHANGED <<code, contractVars>>

SettlementsStep ==
    \/ \E h \in Uploaded \cup NeverUploaded : UpdateCodeHash(h)
    \/ UpdatePolymeshInk
    \/ InitVenue
    \/ \E c \in Owners :
          \/ \E auth \in rt.auths, num \in 0..MaxPortfolio : AddPortfolio(c, auth, num)
          \/ \E t \in Tickers, n \in Amounts, num \in 0..MaxPortfolio : Withdrawal(c, t, n, num)
          \/ WithdrawalAll(c)
          \/ \E s, b \in Tickers, n, m \in Amounts : Trade(c, s, n, b, m)

----------------------------------------------------------------------------
(* nft_royalty.                                                            *)

InitializeContract ==
    /\ ~initialized
    /\ rt' = CreateVenue(rt)
    /\ initialized' = TRUE
    /\ UNCHANGED <<code, portfolios, metadataKeys, metadata>>

RoyaltyCreateCustodyPortfolio(caller) ==
    /\ initialized /\ caller \notin DOMAIN portfolios
    /\ CanCreateCustodyPortfolio(rt, caller)
    /\ portfolios' = (caller :> <<caller, rt.next[caller]>>) @@ portfolios
    /\ rt' = CreateCustodyPortfolio(rt, caller)
    /\ UNCHANGED <<code, initialized, metadataKeys, metadata>>

\* asset_metadata_key: the key is looked up once and then kept; 0 is no key.
AssetMetadataKey == IF metadataKeys # 0 THEN metadataKeys ELSE metadata.key

\* decoded_asset_metadata_value: the value stored under that key.
DecodedMetadata(key) == IF key = metadata.key THEN metadata.rules ELSE NoRules

\* setup_legs without the NFT's own leg: the price is split.

SetupLegs(payer, receiver, royaltyPortfolio, t, price, rules) ==
    LET royalty == (rules.tenths * price) \div 10
    IN  <<leg(payer, receiver, t, price - royalty), leg(payer, royaltyPortfolio, t, royalty)>>

EnsureValidTransferValues(rules, t) == t \in rules.allowed

CreateTransfer(payer, receiver, t, price) ==
    /\ initialized
    /\ \E rules \in {DecodedMetadata(AssetMetadataKey)} :
          /\ rules # NoRules
          /\ rules.artist \in DOMAIN portfolios
          /\ EnsureValidTransferValues(rules, t)
          /\ \E legs \in {SetupLegs(payer, receiver, portfolios[rules.artist], t, price, rules)} :
                /\ CanAddAndAffirm(rt, legs, portfolios[rules.artist])
                /\ rt' = AddAndAffirm(rt, legs, [price |-> price, rules |-> metadata.rules])
    /\ metadataKeys' = AssetMetadataKey
    /\ UNCHANGED <<code, initialized, portfolios, metadata>>

\* decoded_asset_metadata_value and royalty_percentage are messages of their own.
ReadRules ==
    /\ DecodedMetadata(AssetMetadataKey) # NoRules
    /\ metadataKeys' = AssetMetadataKey
    /\ UNCHANGED <<inkVars, initialized, portfolios, metadata>>

\* The issuer of the collection registers, sets and removes the metadata.
IssuerStep ==
    /\ \/ /\ metadata.rules = NoRules
          /\ metadata.key < 2
          /\ \E rules \in RuleSet : metadata' = [key |-> metadata.key + 1, rules |-> rules]
       \/ /\ metadata.rules # NoRules
          /\ \E rules \in RuleSet \cup {NoRules} : metadata' = [metadata EXCEPT !.rules = rules]
    /\ UNCHANGED <<inkVars, initialized, portfolios, metadataKeys>>

RoyaltyStep ==
    \/ InitializeContract
    \/ \E c \in Owners : RoyaltyCreateCustodyPortfolio(c)
    \/ \E p, r \in Owners, t \in Tickers, price \in Prices :
          CreateTransfer(Default(p), Default(r), t, price)
    \/ ReadRules
    \/ IssuerStep

----------------------------------------------------------------------------

InitContracts(polyx, held) ==
    /\ rt = IF held = <<>> THEN InitRuntime(polyx)
            ELSE [InitRuntime(polyx) EXCEPT !.supply = [t \in Tickers |-> 10], !.held = held]
    /\ code \in Uploaded
    /\ initialized = FALSE /\ portfolios = <<>>
    /\ metadataKeys = 0 /\ metadata = [key |-> 0, rules |-> NoRules]

\* The contract has custody of exactly the portfolios in its map (`portfolios` and
\* `royalty_portfolios`); its own portfolio in the settlements contract is no
\* custody of somebody else's.
CustodyExact == MapsItsCustody(portfolios)

\* Every wrapped token is backed by POLYX of the contract, whatever the order of
\* deposits, withdrawals, transfers and returned portfolios.
WrappedBacked == rt.supply[Ticker1] <= rt.polyx[Contract]

\* Every sale the contract sets up costs the buyer the price and not more, of
\* which the artist's portfolio, in the contract's custody, gets the share the
\* collection's metadata named at that moment (setup_legs; the cached key never
\* leads to outdated rules).
RoyaltyExact ==
    \A i \in DOMAIN rt.instructions :
        LET legs == rt.instructions[i].legs
            terms == rt.instructions[i].terms
        IN  /\ legs[1].amount + legs[2].amount = terms.price
            /\ legs[2].amount = (terms.rules.tenths * terms.price) \div 10
            /\ legs[2].to[1] = terms.rules.artist
            /\ Custodian(rt, legs[2].to) = Contract
-----------------------------------------------------------------------------
(* The contracts that keep all their state themselves. *)

CONSTANTS
    Holders, Values,            \* ERC-20: accounts, transferred values
    Supply,
    Starts, Durations, MaxTime, \* vesting
    Codes,                      \* proxies: code hashes / contract addresses
    Admin,
    Steps, Limit                \* delegator: amounts, the largest i32 in this instance

VARIABLES
    balances, allowances,       \* erc20: partial functions, as the Mappings are
    time, vesting,              \* vesting: [released, start, duration, balance, paid]
    proxy, flips,               \* [store: key -> value, targets: address -> value, target]; history
    delegator, sum              \* [which, value]; history

ercVars == <<balances, allowances>>
vestVars == <<time, vesting>>
proxyVars == <<proxy, flips>>
delegatorVars == <<delegator, sum>>
exampleVars == <<ercVars, vestVars, proxyVars, delegatorVars>>

----------------------------------------------------------------------------
(* erc20.                                                                  *)

BalanceOf(b, a) == IF a \in DOMAIN b THEN b[a] ELSE 0
AllowanceOf(owner, spender) ==
    IF <<owner, spender>> \in DOMAIN allowances THEN allowances[<<owner, spender>>] ELSE 0

\* A zero balance is removed; the receiver's balance is read afterwards.
TakeFrom(b, from, value) ==
    IF b[from] = value THEN [a \in DOMAIN b \ {from} |-> b[a]] ELSE [b EXCEPT ![from] = @ - value]

TransferFromTo(b, from, to, value) ==
    LET taken == TakeFrom((from :> BalanceOf(b, from)) @@ b, from, value)
    IN  (to :> BalanceOf(taken, to) + value) @@ taken

Erc20Transfer(caller, to, value) ==
    /\ BalanceOf(balances, caller) >= value
    /\ balances' = TransferFromTo(balances, caller, to, value)
    /\ UNCHANGED allowances

Approve(caller, spender, value) ==
    /\ allowances' = (<<caller, spender>> :> value) @@ allowances
    /\ UNCHANGED balances

TransferFrom(caller, from, to, value) ==
    /\ AllowanceOf(from, caller) >= value
    /\ BalanceOf(balances, from) >= value
    /\ balances' = TransferFromTo(balances, from, to, value)
    /\ allowances' = (<<from, caller>> :> AllowanceOf(from, caller) - value) @@ allowances

Erc20Step ==
    /\ \/ \E c, t \in Holders, v \in Values : Erc20Transfer(c, t, v) \/ Approve(c, t, v)
       \/ \E c, f, t \in Holders, v \in Values : TransferFrom(c, f, t, v)
    /\ UNCHANGED <<vestVars, proxyVars, delegatorVars>>

----------------------------------------------------------------------------
(* polyx-vesting.                                                          *)

NewVesting(start, duration, endowment) ==
    /\ vesting = <<>>
    /\ start >= time
    /\ vesting' = [released |-> 0, start |-> start, duration |-> duration, balance |-> endowment,
                   paid |-> 0]
    /\ UNCHANGED time

\* At the end of the schedule the quotient is the whole allocation; with duration
\* 0 the division at `start` panics, -1 here.
VestingSchedule(allocation, at) ==
    CASE at < vesting.start -> 0
      [] at > vesting.start + vesting.duration -> allocation
      [] OTHER -> IF vesting.duration = 0 THEN -1
                  ELSE (allocation * (at - vesting.start)) \div vesting.duration

Releasable ==
    LET vested == VestingSchedule(vesting.balance + vesting.released, time)
    IN  IF vested = -1 THEN -1 ELSE IF vested > vesting.released THEN vested - vesting.released ELSE 0

Release ==
    /\ vesting # <<>>
    /\ Releasable > 0 /\ Releasable <= vesting.balance
    /\ vesting' = [vesting EXCEPT !.released = @ + Releasable, !.balance = @ - Releasable,
                                  !.paid = @ + Releasable]
    /\ UNCHANGED time

\* Anyone may pay POLYX to the contract's account.
Deposit ==
    /\ vesting # <<>> /\ vesting.balance + vesting.paid < 2 * Supply
    /\ vesting' = [vesting EXCEPT !.balance = @ + 1]
    /\ UNCHANGED time

VestingStep ==
    /\ \/ \E s \in Starts, d \in Durations : NewVesting(s, d, Supply)
       \/ Release \/ Deposit
       \/ time < MaxTime /\ time' = time + 1 /\ UNCHANGED vesting
    /\ UNCHANGED <<ercVars, proxyVars, delegatorVars>>

----------------------------------------------------------------------------
(* The proxies.  delegate-calls runs code on its own storage, where its    *)
(* fields have a key of their own; forward-calls runs another contract.    *)

ProxyKey == "ProxyFields"

\* Upgradeable<bool, NotInitialized>: an absent value is initialized to false.
Pulled(store, key) == IF key \in DOMAIN store /\ store[key] \in BOOLEAN THEN store[key] ELSE FALSE

ChangeDelegateCode(caller, hash) ==
    /\ caller = Admin
    /\ proxy' = [proxy EXCEPT !.store[ProxyKey] = hash]
    /\ UNCHANGED flips

\* The fallback message of delegate-calls, with the flipper's `flip` as input.
DelegateForward ==
    /\ ProxyKey \in DOMAIN proxy.store /\ proxy.store[ProxyKey] \in Codes
    /\ proxy' = [proxy EXCEPT !.store = ("root" :> ~Pulled(@, "root")) @@ @]
    /\ flips' = [flips EXCEPT !.own = ~@]

ChangeForwardAddress(caller, address) ==
    /\ caller = Admin
    /\ proxy' = [proxy EXCEPT !.target = address]
    /\ UNCHANGED flips

CallForward ==
    /\ proxy' = [proxy EXCEPT !.targets[proxy.target] = ~@]
    /\ flips' = [flips EXCEPT !.at[proxy.target] = ~@]

ProxyStep ==
    /\ \/ \E c \in Holders \cup {Admin}, h \in Codes :
             ChangeDelegateCode(c, h) \/ ChangeForwardAddress(c, h)
       \/ DelegateForward \/ CallForward
    /\ UNCHANGED <<ercVars, vestVars, delegatorVars>>

----------------------------------------------------------------------------
(* delegator: adder and subber change the same accumulator.                *)

\* Arithmetic that overflows an i32 panics.
Change(by) ==
    /\ \E to \in {IF delegator.which = "Adder" THEN delegator.value + by ELSE delegator.value - by} :
          /\ -Limit <= to /\ to <= Limit
          /\ delegator' = [delegator EXCEPT !.value = to]
    /\ sum' = IF delegator.which = "Adder" THEN sum + by ELSE sum - by

Switch ==
    /\ delegator' = [delegator EXCEPT !.which = IF @ = "Adder" THEN "Subber" ELSE "Adder"]
    /\ UNCHANGED sum

DelegatorStep ==
    /\ (\E by \in Steps : Change(by)) \/ Switch
    /\ UNCHANGED <<ercVars, vestVars, proxyVars>>

----------------------------------------------------------------------------

InitExamples ==
    /\ balances = [a \in {CHOOSE h \in Holders : TRUE} |-> Supply]
    /\ allowances = <<>>
    /\ time = 0 /\ vesting = <<>>
    /\ \E c \in Codes : proxy = [store |-> (ProxyKey :> c), targets |-> [d \in Codes |-> FALSE],
                                 target |-> c]
    /\ flips = [own |-> FALSE, at |-> [d \in Codes |-> FALSE]]
    /\ delegator = [which |-> "Adder", value |-> 0] /\ sum = 0

\* The token's supply is conserved, also when an account pays itself.
Erc20Conserved == MapThenSumSet(LAMBDA a : balances[a], DOMAIN balances) = Supply

\* The beneficiary never has more than the share of everything paid in so far
\* that has vested by now, however often and early `release` is called and
\* whenever deposits arrive.
ReleasedOnSchedule ==
    vesting # <<>> =>
        /\ vesting.paid = vesting.released
        /\ vesting.paid > 0 => time >= vesting.start
        /\ vesting.paid * vesting.duration
             <= (vesting.paid + vesting.balance) * (time - vesting.start)
           \/ time > vesting.start + vesting.duration \/ vesting.paid = 0

\* A proxy's own fields and the state of the code behind it do not disturb each
\* other, and the state outlives a change of the code.
ProxyKeepsState ==
    /\ ProxyKey \in DOMAIN proxy.store /\ proxy.store[ProxyKey] \in Codes
    /\ Pulled(proxy.store, "root") = flips.own
    /\ proxy.targets = flips.at
    /\ delegator.value = sum
=============================================================================
