------------------------------- MODULE Polyx --------------------------------
(***************************************************************************)
(* The native currency (pallets/balances): accounts with a free and a        *)
(* reserved balance, locks on the free balance, the total issuance, and the  *)
(* block-rewards reserve that pays for what is deposited before anything is  *)
(* minted.  Every operation is a function from a ledger `m` to the outcome   *)
(* [ok, m]; a failed one leaves the ledger as it was.  An imbalance (POLYX   *)
(* taken or given without its counterpart) never outlives the operation that *)
(* opens it, so closing it is a part of each operation.                      *)
(* Balances are far below their width: total issuance fits it by assumption  *)
(* of the pallet.                                                            *)
(***************************************************************************)
EXTENDS Integers, Sequences, FiniteSets, Slices
LOCAL INSTANCE SequencesExt
LOCAL INSTANCE FiniteSetsExt

CONSTANTS Accounts, CddAccounts   \* accounts, and those whose identity has a CDD claim

BRR == "brr"                      \* block_rewards_reserve()
Treasury == "treasury"            \* Treasury::account_id()

Done(m) == [ok |-> TRUE, m |-> m]
Failed(m) == [ok |-> FALSE, m |-> m]

\* AccountData::default()
NoBalance == [free |-> 0, reserved |-> 0, misc |-> 0, fee |-> 0]

-----------------------------------------------------------------------------
(* Locks. *)

\* AccountData::frozen
Frozen(a, why) ==
    CASE why = "All" -> Max({a.misc, a.fee})
      [] why = "Misc" -> a.misc
      [] why = "Fee" -> a.fee

LockMax(locks, whys) ==
    Max({0} \cup {locks[i].amount : i \in {j \in DOMAIN locks : locks[j].why \in whys}})

\* Mutant: the locks are only ever raised.
MutUpdateLocks(m, a, locks) ==
    [m EXCEPT !.locks[a] = locks,
              !.acct[a].misc = Max({@, LockMax(locks, {"All", "Misc"})}),
              !.acct[a].fee = LockMax(locks, {"Fee"})]

\* update_locks: the locks overlap, so the largest one counts.
UpdateLocks(m, a, locks) ==
    [m EXCEPT !.locks[a] = locks,
              !.acct[a].misc = LockMax(locks, {"All", "Misc"}),
              !.acct[a].fee = LockMax(locks, {"All", "Fee"})]

LockIndex(locks, id) == {i \in DOMAIN locks : locks[i].id = id}

OrReasons(a, b) == IF a = b THEN a ELSE "All"

SetLock(m, a, id, amount, why) ==
    LET at  == LockIndex(m.locks[a], id)
        new == [id |-> id, amount |-> amount, why |-> why]
    IN  IF amount = 0 THEN m
        ELSE UpdateLocks(m, a, IF at = {} THEN Append(m.locks[a], new)
                               ELSE [m.locks[a] EXCEPT ![Min(at)] = new])

ExtendLock(m, a, id, amount, why) ==
    LET at == LockIndex(m.locks[a], id)
        l  == m.locks[a][Min(at)]
    IN  IF at = {} \/ amount = 0 THEN SetLock(m, a, id, amount, why)
        ELSE SetLock(m, a, id, Max({l.amount, amount}), OrReasons(l.why, why))

RemoveLock(m, a, id) ==
    UpdateLocks(m, a, SelectSeq(m.locks[a], LAMBDA l : l.id # id))

\* reduce_lock: a lock that falls to nothing is removed (with a swap_remove).
ReduceLock(m, a, id, amount) ==
    LET at == LockIndex(m.locks[a], id)
        i  == Min(at)
        l  == m.locks[a][i]
    IN  IF amount = 0 THEN Done(m)
        ELSE IF at = {} \/ l.amount < amount THEN Failed(m)
        ELSE Done(UpdateLocks(m, a, IF l.amount = amount THEN SwapRemove(m.locks[a], i)
                                    ELSE [m.locks[a] EXCEPT ![i].amount = @ - amount]))

\* increase_lock, whose caller accepts the new total up to `limit`.
IncreaseLock(m, a, id, amount, why, limit) ==
    LET at    == LockIndex(m.locks[a], id)
        l     == m.locks[a][Min(at)]
        total == IF at = {} THEN amount ELSE l.amount + amount
    IN  IF amount = 0 THEN Done(m)
        ELSE IF total > limit THEN Failed(m)
        ELSE Done(SetLock(m, a, id, total, IF at = {} THEN why ELSE OrReasons(l.why, why)))

-----------------------------------------------------------------------------
(* Transfers and imbalances. *)

\* ensure_can_withdraw, of an amount that the free balance covers.
CanWithdraw(m, a, v, why) ==
    /\ m.acct[a].free >= v
    /\ v = 0 \/ m.acct[a].free - v >= Frozen(m.acct[a], why)

Give(m, a, v) == [m EXCEPT !.acct[a].free = @ + v]
Take(m, a, v) == [m EXCEPT !.acct[a].free = @ - v]

\* transfer_core
TransferCore(m, from, to, v) ==
    IF v = 0 \/ from = to THEN Done(m)
    ELSE IF ~ CanWithdraw(m, from, v, "Misc") THEN Failed(m)
    ELSE Done(Give(Take(m, from, v), to, v))

\* safe_transfer_core
Transfer(m, from, to, v) ==
    IF to \in CddAccounts THEN TransferCore(m, from, to, v) ELSE Failed(m)

\* drop_positive_imbalance: the reserve pays what it can, the rest is minted.
DropPositive(m, v) ==
    LET paid == Min({v, m.acct[BRR].free})
    IN  [Take(m, BRR, paid) EXCEPT !.issued = @ + (v - paid)]

\* drop_negative_imbalance: what was taken is burned.
DropNegative(m, v) == [m EXCEPT !.issued = IF v > @ THEN 0 ELSE @ - v]

\* deposit_creating, its imbalance dropped (bridge, CDD, staking rewards).
DepositCreating(m, a, v) == IF v = 0 THEN m ELSE DropPositive(Give(m, a, v), v)

\* Withdrawn and resolved into another account (fees, treasury).
WithdrawInto(m, a, v, why, into) ==
    IF ~ CanWithdraw(m, a, v, why) THEN Failed(m) ELSE Done(Give(Take(m, a, v), into, v))

\* burn_account_balance: withdrawn as for a transfer, and dropped.
BurnAccountBalance(m, a, v) ==
    IF ~ CanWithdraw(m, a, v, "Misc") THEN Failed(m) ELSE Done(DropNegative(Take(m, a, v), v))

\* issue_using_block_rewards_reserve, resolved into `a`.
IssueUsingReserve(m, a, v) ==
    LET paid == Min({v, m.acct[BRR].free})
    IN  Give([Take(m, BRR, paid) EXCEPT !.issued = @ + (v - paid)], a, v)

\* set_balance, by root: the differences are minted, by way of the reserve, or burned.
SetBalance(m, a, free, reserved) ==
    LET old       == m.acct[a]
        Settle(n, before, after) ==
            IF after >= before THEN DropPositive(n, after - before)
            ELSE DropNegative(n, before - after)
        settled == Settle(Settle(m, old.free, free), old.reserved, reserved)
    IN  [settled EXCEPT !.acct[a].free = free, !.acct[a].reserved = reserved]

\* slash: free balance first, then reserved; what was slashed goes to `into`.
SlashInto(m, a, v, into) ==
    LET free == Min({v, m.acct[a].free})
        rest == Min({v - free, m.acct[a].reserved})
    IN  Give([Take(m, a, free) EXCEPT !.acct[a].reserved = @ - rest], into, free + rest)

-----------------------------------------------------------------------------
(* Reserves. *)

Reserve(m, a, v) ==
    IF ~ CanWithdraw(m, a, v, "Misc") THEN Failed(m)
    ELSE Done([Take(m, a, v) EXCEPT !.acct[a].reserved = @ + v])

Unreserve(m, a, v) ==
    LET actual == Min({v, m.acct[a].reserved})
    IN  [Give(m, a, actual) EXCEPT !.acct[a].reserved = @ - actual]

SlashReservedInto(m, a, v, into) ==
    LET actual == Min({v, m.acct[a].reserved})
    IN  Give([m EXCEPT !.acct[a].reserved = @ - actual], into, actual)

\* repatriate_reserved, to another account or (status Free) to the same one.
RepatriateReserved(m, a, to, v, status) ==
    LET actual == Min({v, m.acct[a].reserved})
        taken  == [m EXCEPT !.acct[a].reserved = @ - actual]
    IN  IF a = to THEN IF status = "Free" THEN Unreserve(m, a, v) ELSE m
        ELSE IF status = "Free" THEN Give(taken, to, actual)
        ELSE [taken EXCEPT !.acct[to].reserved = @ + actual]

-----------------------------------------------------------------------------
(* Treasury. *)

\* disbursement: the sum is checked first; then each beneficiary is paid, and one that
\* cannot be paid is skipped.
Disbursement(m, payments) ==
    LET total == FoldLeft(LAMBDA s, p : s + p.amount, 0, payments)
        Pay(n, p) == Transfer(n, Treasury, p.to, p.amount).m
    IN  IF m.acct[Treasury].free < total THEN Failed(m) ELSE Done(FoldLeft(Pay, m, payments))

Reimbursement(m, a, v) == Transfer(m, a, Treasury, v)
=============================================================================
