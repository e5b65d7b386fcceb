---------------------------- MODULE Transactions ----------------------------
(***************************************************************************)
(* Extrinsics and what they cost: the signed extension that charges the      *)
(* transaction fee (transaction-payment), who pays it (CddHandler and the    *)
(* relayer's subsidies), protocol fees (protocol-fee), and the calls that    *)
(* dispatch other calls (utility), over the ledger of Polyx.  An extrinsic   *)
(* runs to its end before the next one: pre_dispatch, the call, and          *)
(* post_dispatch are one step.  A call that fails has no effect but its fee; *)
(* an extrinsic that fails in pre_ or post_dispatch is not in the block.     *)
(***************************************************************************)
EXTENDS Polyx
LOCAL INSTANCE SequencesExt
LOCAL INSTANCE FiniteSetsExt

CONSTANTS
    Extrinsics,     \* [who, len, weight, tip, call, post]: what users send, and what the
                    \* call weighs in the end
    BaseFee, MaxWeight,  \* the fee of an empty extrinsic, the weight of a block
    RootCalls,      \* calls that governance makes
    PalletOps,      \* what other pallets do to balances
    Ledgers,        \* ledgers to start from
    Grant,          \* what a subsidy is granted
    Derivative,     \* as_derivative: the account of an account
    MaxSteps        \* bound on the steps of a behaviour

ASSUME TransactionsAssumption == {BRR, Treasury, "author"} \subseteq Accounts

VARIABLES
    money,          \* the ledger, with Subsidies, Nonces, CurrentPayer and histories
    txSteps         \* how many steps were taken

txVars == <<money, txSteps>>

NoPayer == "nobody"
NotSubsidised == [by |-> NoPayer, left |-> 0]

-----------------------------------------------------------------------------
(* Subsidies and protocol fees. *)

\* debit_subsidy: `charged` remembers what the subsidiser paid under this subsidy.
DebitSubsidy(m, user, fee) ==
    IF m.subsidy[user] = NotSubsidised THEN Done(m)
    ELSE IF m.subsidy[user].left < fee THEN Failed(m)
    ELSE Done([m EXCEPT !.subsidy[user].left = @ - fee])

Charged(m, user, fee) ==
    IF m.subsidy[user] = NotSubsidised THEN m
    ELSE [m EXCEPT !.charged[user] = @ + fee]

\* charge_fees: from the payer in the context or its subsidiser, to the author.  Without a
\* payer (a scheduled call) nothing is charged.
ChargeProtocolFee(m, fee) ==
    LET payer   == m.payer
        debited == DebitSubsidy(m, payer, fee)
        key     == IF m.subsidy[payer] = NotSubsidised THEN payer ELSE m.subsidy[payer].by
        paid    == WithdrawInto(debited.m, key, fee, "Misc", "author")
    IN  IF payer = NoPayer \/ fee = 0 THEN Done(m)
        ELSE IF debited.ok /\ paid.ok THEN Done(Charged(paid.m, payer, fee)) ELSE Failed(m)

-----------------------------------------------------------------------------
(* Dispatch.  An origin is [who, noAll]: the account, "root" for root, and whether the
   filter of a batch_all around the call refuses another one. *)

Leaf(m, who, c) ==
    CASE c.op = "transfer" -> Transfer(m, who, c.to, c.v)
      [] c.op = "deposit_brr" -> TransferCore(m, who, BRR, c.v)
      [] c.op = "burn" -> BurnAccountBalance(m, who, c.v)
      [] c.op = "reimburse" -> Reimbursement(m, who, c.v)
      [] c.op = "protocol" -> ChargeProtocolFee(m, c.v)
      [] c.op = "bond" ->
           Done(SetLock(m, who, "staking", IF c.v > m.acct[who].free THEN m.acct[who].free
                                           ELSE c.v, "All"))
      [] c.op = "deposit" -> IncreaseLock(m, who, "pips", c.v, "All", m.acct[who].free)
      [] c.op = "refund" -> ReduceLock(m, who, "pips", c.v)
      [] c.op = "unsubsidise" ->
           IF m.subsidy[who] = NotSubsidised THEN Failed(m)
           ELSE Done([m EXCEPT !.subsidy[who] = NotSubsidised, !.charged[who] = 0])
      [] c.op \in {"accept", "operational"} -> Done(m)
      [] OTHER -> Failed(m)

RootLeaf(m, c) ==
    CASE c.op = "set_balance" -> Done(SetBalance(m, c.who, c.free, c.reserved))
      [] c.op = "force_transfer" -> TransferCore(m, c.from, c.to, c.v)
      [] c.op = "disburse" -> Disbursement(m, c.payments)
      [] OTHER -> Failed(m)

RECURSIVE DispatchCall(_, _, _)

\* The calls of a list in turn: up to the first failure, or past it.
RunBatch(m, o, calls, stop) ==
    LET Step(acc, c) ==
            LET r == DispatchCall(acc.m, o, c)
            IN  IF stop /\ ~ acc.ok THEN acc ELSE [m |-> r.m, ok |-> acc.ok /\ r.ok]
    IN  FoldLeft(Step, [m |-> m, ok |-> TRUE], calls)

\* batch stops at the first failure and keeps what was done before it.
BatchUntilError(m, o, calls) == Done(RunBatch(m, o, calls, TRUE).m)

\* batch_old: the same, under its old event.
BatchOld(m, o, calls) == Done(RunBatch(m, o, calls, TRUE).m)

\* batch_all fails as a whole; a user cannot nest it.
BatchAll(m, o, calls) ==
    LET r == RunBatch(m, [o EXCEPT !.noAll = o.who # "root"], calls, TRUE)
    IN  IF r.ok /\ ~ o.noAll THEN r ELSE Failed(m)

\* batch_atomic undoes the calls, but does not fail.
BatchAtomic(m, o, calls) ==
    LET r == RunBatch(m, o, calls, TRUE) IN IF r.ok THEN r ELSE Done(m)

\* force_batch and batch_optimistic go on after a failure.
ForceBatch(m, o, calls) == Done(RunBatch(m, o, calls, FALSE).m)

Batch(m, o, c) ==
    CASE c.mode = "batch" -> BatchUntilError(m, o, c.calls)
      [] c.mode = "old" -> BatchOld(m, o, c.calls)
      [] c.mode = "all" -> BatchAll(m, o, c.calls)
      [] c.mode = "atomic" -> BatchAtomic(m, o, c.calls)
      [] c.mode \in {"force", "optimistic"} -> ForceBatch(m, o, c.calls)

\* relay_tx: a call that `target` signed, with its next nonce.  The nonce is used up
\* whatever becomes of the call.  `relayed` remembers the calls that were relayed.
RelayTx(m, o, c) ==
    IF m.nonce[c.target] # c.nonce \/ c.target \notin CddAccounts THEN Failed(m)
    ELSE Done(DispatchCall([m EXCEPT !.nonce[c.target] = @ + 1,
                                     !.relayed = Append(@, <<c.target, c.nonce>>)],
                           [who |-> c.target, noAll |-> FALSE], c.call).m)

\* run_with_temporary_did_and_payer: `account` pays while the call runs.
WithPayer(m, account, o, call) ==
    LET r == DispatchCall([m EXCEPT !.payer = account], o, call)
    IN  [r EXCEPT !.m.payer = m.payer]

\* as_derivative: as the derived account of the caller, which also pays.
AsDerivative(m, o, call) ==
    WithPayer(m, Derivative[o.who], [o EXCEPT !.who = Derivative[o.who]], call)

\* dispatch_as, by root: the outcome of the call is only reported.
DispatchAs(m, as, call) == Done(WithPayer(m, as, [who |-> as, noAll |-> FALSE], call).m)

\* with_weight, by root: the call with another weight.
WithWeight(m, o, call) == DispatchCall(m, o, call)

DispatchCall(m, o, c) ==
    LET root == o.who = "root"
        r    == CASE c.op = "batch" -> Batch(m, o, c)
                  [] c.op = "relay" /\ ~ root -> RelayTx(m, o, c)
                  [] c.op = "derivative" /\ ~ root -> AsDerivative(m, o, c.call)
                  [] c.op = "dispatch_as" /\ root -> DispatchAs(m, c.as, c.call)
                  [] c.op = "with_weight" /\ root -> WithWeight(m, o, c.call)
                  [] OTHER -> IF root THEN RootLeaf(m, c) ELSE Leaf(m, o.who, c)
    IN  IF r.ok THEN r ELSE Failed(m)

-----------------------------------------------------------------------------
(* Extrinsics. *)

\* compute_fee_raw: a base fee, a fee by length and a fee by weight (capped at a block), if
\* the call pays, and the tip.
ComputeFeeRaw(len, weight, tip, pays) ==
    (IF pays THEN BaseFee + len + (IF weight > MaxWeight THEN MaxWeight ELSE weight) ELSE 0) + tip

Fee(x) == ComputeFeeRaw(x.len, x.weight, x.tip, TRUE)

\* compute_actual_fee: what the call really weighed, at most what was announced, and
\* whether it pays at all.
ActualFee(x) ==
    ComputeFeeRaw(x.len, IF x.post.weight < x.weight THEN x.post.weight ELSE x.weight,
                  x.tip, x.post.pays)

\* get_valid_payer: the issuer of an authorization pays for accepting it; anyone else pays
\* for itself; either needs a CDD claim.
GetValidPayer(who, c) ==
    LET payer == IF c.op = "accept" THEN c.by ELSE who
    IN  IF payer \in CddAccounts THEN payer ELSE NoPayer

\* ensure_pallet_is_subsidised, by the pallet of the call.
PalletIsSubsidised(c) ==
    CASE c.op \in {"transfer", "deposit_brr", "burn", "protocol"} -> "yes"
      [] c.op = "unsubsidise" -> "own cost"
      [] OTHER -> "refused"

\* ensure_valid_tip: only operational calls of committee members and CDD providers.
ValidTip(x) == x.tip = 0 \/ x.call.op = "operational"

\* pre_dispatch: the fee is withdrawn from the payer or its subsidiser.
\* The result has the subsidiser, or nobody.
PreDispatch(m, x) ==
    LET payer == GetValidPayer(x.who, x.call)
        sub   == m.subsidy[payer]
        none  == sub = NotSubsidised \/ PalletIsSubsidised(x.call) = "own cost"
        key   == IF none THEN payer ELSE sub.by
        why   == IF x.tip = 0 THEN "Fee" ELSE "All"
    IN  IF Fee(x) = 0 THEN [ok |-> ValidTip(x), m |-> m, by |-> NoPayer]
        ELSE IF \/ ~ ValidTip(x) \/ payer = NoPayer
                \/ sub # NotSubsidised /\ (sub.left < Fee(x) \/ PalletIsSubsidised(x.call) = "refused")
                \/ ~ CanWithdraw(m, key, Fee(x), why)
        THEN [ok |-> FALSE, m |-> m, by |-> NoPayer]
        ELSE [ok |-> TRUE, m |-> [Take(m, key, Fee(x)) EXCEPT !.payer = payer],
              by |-> IF none THEN NoPayer ELSE sub.by]

\* post_dispatch: the subsidy is debited, what was withdrawn too much goes back, the rest
\* goes to the author of the block, and the context is cleared.
PostDispatch(m, x, by) ==
    LET payer   == IF m.payer = NoPayer THEN x.who ELSE m.payer
        debited == IF by = NoPayer THEN Done(m) ELSE DebitSubsidy(m, payer, ActualFee(x))
        counted == IF by = NoPayer THEN m ELSE Charged(debited.m, payer, ActualFee(x))
        key     == IF by = NoPayer THEN payer ELSE by
        paid    == IF Fee(x) = 0 THEN m
                   ELSE Give(Give(counted, key, Fee(x) - ActualFee(x)), "author", ActualFee(x))
    IN  IF debited.ok THEN Done([paid EXCEPT !.payer = NoPayer]) ELSE Failed(m)

\* An extrinsic that cannot be in a block leaves everything as it was.
Apply(m, x) ==
    LET pre  == PreDispatch(m, x)
        call == DispatchCall(pre.m, [who |-> x.who, noAll |-> FALSE], x.call)
        post == PostDispatch(call.m, x, pre.by)
    IN  IF pre.ok /\ post.ok THEN post.m ELSE m

Step(m) ==
    /\ txSteps < MaxSteps
    /\ money' = m
    /\ m # money
    /\ txSteps' = txSteps + 1

ApplyExtrinsic(x) == Step(Apply(money, x))

\* A call by root, scheduled or by governance: there is no payer in the context.
RootCall(c) == Step(DispatchCall(money, [who |-> "root", noAll |-> FALSE], c).m)

\* Other pallets: staking slashes into the treasury and locks, contracts reserve, the bridge
\* and the CDD providers mint.
PalletOp(p) ==
    Step(CASE p.op = "slash" -> SlashInto(money, p.who, p.v, Treasury)
           [] p.op = "mint" -> DepositCreating(money, p.who, p.v)
           [] p.op = "issue" -> IssueUsingReserve(money, p.who, p.v)
           [] p.op = "reserve" -> Reserve(money, p.who, p.v).m
           [] p.op = "unreserve" -> Unreserve(money, p.who, p.v)
           [] p.op = "slash_reserved" -> SlashReservedInto(money, p.who, p.v, Treasury)
           [] p.op = "repatriate" -> RepatriateReserved(money, p.who, p.to, p.v, p.status)
           [] p.op = "extend" -> ExtendLock(money, p.who, "staking", p.v, "All")
           [] p.op = "unlock" -> RemoveLock(money, p.who, "staking"))

TxInit == money \in Ledgers /\ txSteps = 0

TxNext ==
    \/ \E x \in Extrinsics : ApplyExtrinsic(x)
    \/ \E c \in RootCalls : RootCall(c)
    \/ \E p \in PalletOps : PalletOp(p)

TxSpec == TxInit /\ [][TxNext]_txVars

-----------------------------------------------------------------------------
(* Properties. *)

\* The total issuance is what the accounts hold: no fee, refund, slash, batch that fails
\* half way or deposit paid from the block-rewards reserve loses or creates POLYX (balances;
\* set_balance of the reserve itself is the exception, see the README).
IssuanceExact ==
    money.issued = MapThenSumSet(LAMBDA a : money.acct[a].free + money.acct[a].reserved, Accounts)

\* What a subsidy has paid, in transaction fees and in protocol fees of the same and of
\* other extrinsics, and what it has left make up what was granted: a check before the
\* call and a debit after it neither forget nor repeat a fee (relayer, transaction-payment).
SubsidyExact ==
    \A a \in Accounts : money.subsidy[a] # NotSubsidised
        => money.charged[a] + money.subsidy[a].left = Grant

\* No extrinsic takes the free balance of an account below its locks: not its fee, the
\* calls in a batch or what other accounts relay in its name (ensure_can_withdraw).
LocksHold ==
    [][\A a \in Accounts :
         (/\ money'.acct[a].free < money.acct[a].free
          /\ \E i \in DOMAIN money'.locks[a] : money'.locks[a][i].amount > money'.acct[a].free)
         => ~ \E x \in Extrinsics : ApplyExtrinsic(x)]_txVars

\* A call that an account signed for relaying is relayed at most once, also when it failed
\* or was a part of a batch (relay_tx).
RelayedOnce ==
    \A i, j \in DOMAIN money.relayed : money.relayed[i] = money.relayed[j] => i = j

\* POLYX is neither lost nor created, subsidies are charged what they pay, what is signed
\* once is relayed once, and no extrinsic spends what is locked.
PolyxExact == [](IssuanceExact /\ SubsidyExact /\ RelayedOnce) /\ LocksHold
=============================================================================
