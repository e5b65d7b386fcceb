------------------------------- MODULE Bridge -------------------------------
(***************************************************************************)
(* The lock-and-mint bridge (pallets/bridge): transactions are time-locked,  *)
(* retried with a back-off while their recipient has no CDD claim, the limit *)
(* is reached or the bridge is frozen, frozen and removed by the admin, and  *)
(* minted in the end.  Scheduler tasks are anonymous: nothing cancels them.  *)
(*                                                                          *)
(* A transaction is a pair of recipient and nonce; the recipients of `Txs`   *)
(* are keys of one identity, so they share its limit.  A trusted      *)
(* caller is the controller (the multisig, once its signers approved) or the *)
(* admin.  The calls on lists of transactions take them one by one; only     *)
(* remove_txs looks at them all first.                                       *)
(***************************************************************************)
EXTENDS Integers, Sequences, FiniteSets

CONSTANTS
    Txs, MintAmounts, \* transactions, and the amounts that calls name
    BridgeConfs,      \* settings [timelock, limit, exempt] the admin may choose
    Workloads,        \* which amounts calls name for which transactions
    Interval,         \* the interval of the limit, in blocks
    MaxBridgeBlock,   \* bound: the last block explored
    MaxBridgeTasks    \* bound: tasks in the scheduler at once

ASSUME BridgeAssumption ==
    /\ Interval \in Nat \ {0}
    /\ Workloads \subseteq [Txs -> SUBSET MintAmounts] /\ MintAmounts \subseteq Nat
    /\ BridgeConfs \subseteq [timelock : Nat, limit : Nat, exempt : BOOLEAN]

VARIABLES
    workload,         \* the workload of this behaviour: never changes
    bridgeTx,         \* BridgeTxDetails: status, tries (of Pending) and amount
    bridgeTasks,      \* the scheduled calls, with their block and index in its agenda
    bridgeConf,       \* Frozen, Timelock, BridgeLimit, BridgeLimitExempted
    bridged,          \* PolyxBridged of the identity: amount and interval
    deposits,         \* the deposits made for a transaction, in order
    hasCdd,           \* external: does the recipients' identity have a CDD claim
    named,            \* history: the amounts trusted callers named for a transaction
    window,           \* history: minted under the limit in this interval
    bridgeBlock

bridgeVars == <<workload, bridgeTx, bridgeTasks, bridgeConf, bridged, hasCdd, window, bridgeBlock,
                named, deposits>>

\* BridgeTxDetail::default()
AbsentTx == [status |-> "Absent", tries |-> 0, amount |-> 0]

\* Only Pending carries a number of tries.
WithStatus(d, status) == [status |-> status, tries |-> 0, amount |-> d.amount]

\* Timelock, BridgeLimit's amount, BridgeLimitExempted of the identity, and Frozen.
WithFreeze(c, frozen) ==
    [timelock |-> c.timelock, limit |-> c.limit, exempt |-> c.exempt, frozen |-> frozen]

BridgeInit ==
    /\ workload \in Workloads
    /\ bridgeTx = [t \in Txs |-> AbsentTx]
    /\ bridgeTasks = {}
    /\ \E c \in BridgeConfs : bridgeConf = WithFreeze(c, FALSE)
    /\ bridged = [amount |-> 0, interval |-> 0]
    /\ deposits = [t \in Txs |-> <<>>]
    /\ named = [t \in Txs |-> {}]
    /\ hasCdd = TRUE
    /\ window = 0
    /\ bridgeBlock = 1

-----------------------------------------------------------------------------
(* Minting. *)

CurrentInterval == bridgeBlock \div Interval

\* Mutant: what the interval has seen already is forgotten.
MutTotalMint(amount) == amount

\* What the identity would have been minted in this interval, with `amount`.
TotalMint(amount) ==
    IF bridged.interval = CurrentInterval THEN bridged.amount + amount ELSE amount

\* issue: may `amount` be minted now?  An admin's force exempts from the limit.
CanIssue(amount, exempt) ==
    /\ hasCdd
    /\ exempt \/ bridgeConf.exempt \/ TotalMint(amount) <= bridgeConf.limit

\* The deposit, and the transaction becomes handled; `rest` are the tasks that remain.
Issue(t, amount, exempt, rest) ==
    /\ CanIssue(amount, exempt)
    /\ bridged' = IF exempt \/ bridgeConf.exempt THEN bridged
                  ELSE [amount |-> TotalMint(amount), interval |-> CurrentInterval]
    /\ window' = IF exempt \/ bridgeConf.exempt THEN window ELSE window + amount
    /\ deposits' = [deposits EXCEPT ![t] = Append(@, amount)]
    /\ bridgeTx' = [bridgeTx EXCEPT ![t] = WithStatus(bridgeTx[t], "Handled")]
    /\ bridgeTasks' = rest

\* The back-off: 2^tries blocks, capped.
BackOff(tries) == 2 ^ (IF tries > 24 THEN 24 ELSE tries)

\* handle_bridge_tx_later: a new transaction is time-locked, a tried one is pending.
NextTry(d, amount) ==
    IF d.status = "Absent" THEN [status |-> "Timelocked", tries |-> 0, amount |-> amount]
    ELSE [status |-> "Pending", tries |-> d.tries + 1, amount |-> d.amount]

HandleLater(t, amount, d, rest) ==
    LET next == NextTry(d, amount)
        at   == bridgeBlock + bridgeConf.timelock + BackOff(next.tries)
        task == [tx |-> t, amount |-> amount, at |-> at, index |-> Cardinality({k \in rest : k.at = at})]
    IN  /\ Cardinality(rest) < MaxBridgeTasks
        /\ bridgeTx' = [bridgeTx EXCEPT ![t] = next]
        /\ bridgeTasks' = rest \cup {task}
        /\ UNCHANGED <<bridged, deposits, window>>

\* Mutant: a transaction that was handled already is not refused.
MutHandleNowTwice(t, amount, d, manual, exempt, rest) ==
    LET due == IF manual THEN d.amount ELSE amount
    IN  /\ d.status # "Frozen"
        /\ IF bridgeConf.frozen THEN ~ manual /\ HandleLater(t, amount, d, rest)
           ELSE \/ Issue(t, due, exempt, rest)
                \/ ~ CanIssue(due, exempt) /\ ~ manual /\ HandleLater(t, amount, d, rest)

\* handle_bridge_tx_now.  A manual retry is paid from storage and is not rescheduled;
\* anything else is paid what the call says, and tried again later if it cannot be.
HandleNow(t, amount, d, manual, exempt, rest) ==
    LET due == IF manual THEN d.amount ELSE amount
    IN  /\ d.status \notin {"Handled", "Frozen"}
        /\ IF bridgeConf.frozen THEN ~ manual /\ HandleLater(t, amount, d, rest)
           ELSE \/ Issue(t, due, exempt, rest)
                \/ ~ CanIssue(due, exempt) /\ ~ manual /\ HandleLater(t, amount, d, rest)

-----------------------------------------------------------------------------
(* Calls. *)

\* History: a trusted party names an amount for the transaction.
Name(t, amount) == named' = [named EXCEPT ![t] = @ \cup {amount}]

\* handle_bridge_tx: the controller or the admin introduces a transaction or corrects the
\* amount of a frozen one; anyone retries a pending one.
HandleBridgeTx(trusted, t, amount) ==
    LET d == bridgeTx[t]
    IN  /\ \/ /\ d.status = "Absent" /\ trusted
              /\ IF bridgeConf.timelock = 0
                 THEN HandleNow(t, amount, d, FALSE, FALSE, bridgeTasks)
                 ELSE HandleLater(t, amount, d, bridgeTasks)
              /\ Name(t, amount)
           \/ /\ d.status = "Pending"
              /\ HandleNow(t, amount, d, TRUE, FALSE, bridgeTasks)
              /\ UNCHANGED named
           \/ /\ d.status = "Frozen" /\ trusted
              /\ bridgeTx' = [bridgeTx EXCEPT ![t] = [status |-> "Frozen", tries |-> 0, amount |-> amount]]
              /\ Name(t, amount)
              /\ UNCHANGED <<bridged, deposits, window, bridgeTasks>>
        /\ UNCHANGED <<bridgeConf, hasCdd, bridgeBlock>>

\* force_handle_bridge_tx, by the admin: no time lock and no limit.
ForceHandleBridgeTx(t, amount) ==
    /\ hasCdd
    /\ HandleNow(t, amount, bridgeTx[t], FALSE, TRUE, bridgeTasks)
    /\ Name(t, amount)
    /\ UNCHANGED <<bridgeConf, hasCdd, bridgeBlock>>

\* handle_scheduled_bridge_tx, at the task's block or later; a call that fails is spent.
HandleScheduledBridgeTx(k) ==
    LET d    == bridgeTx[k.tx]
        rest == bridgeTasks \ {k}
    IN  /\ k.at <= bridgeBlock
        /\ \/ HandleNow(k.tx, k.amount, d, FALSE, FALSE, rest)
           \/ /\ d.status \in {"Handled", "Frozen"}
              /\ bridgeTasks' = rest
              /\ UNCHANGED <<bridgeTx, bridged, deposits, window>>
        /\ UNCHANGED <<bridgeConf, hasCdd, named, bridgeBlock>>

\* freeze_txs, by the admin: anything that is not handled, unknown ones included.
FreezeTx(t) ==
    /\ bridgeTx[t].status \notin {"Handled", "Frozen"}
    /\ bridgeTx' = [bridgeTx EXCEPT ![t] = WithStatus(bridgeTx[t], "Frozen")]
    /\ UNCHANGED <<bridgeTasks, bridged, deposits, window, named, bridgeConf, hasCdd, bridgeBlock>>

\* unfreeze_txs, by the admin: the transaction is tried at once, as a manual retry; when
\* that fails it stays behind as an absent one.
UnfreezeTx(t) ==
    LET d == WithStatus(bridgeTx[t], "Absent")
    IN  /\ bridgeTx[t].status = "Frozen"
        /\ \/ HandleNow(t, d.amount, d, TRUE, FALSE, bridgeTasks)
           \/ /\ bridgeConf.frozen \/ ~ CanIssue(d.amount, FALSE)
              /\ bridgeTx' = [bridgeTx EXCEPT ![t] = d]
              /\ UNCHANGED <<bridgeTasks, bridged, deposits, window>>
        /\ UNCHANGED <<named, bridgeConf, hasCdd, bridgeBlock>>

\* remove_txs, by the admin: frozen ones only.  Their tasks stay in the scheduler.
RemoveTxs(ts) ==
    /\ \A t \in ts : bridgeTx[t].status = "Frozen"
    /\ bridgeTx' = [t \in Txs |-> IF t \in ts THEN AbsentTx ELSE bridgeTx[t]]
    /\ UNCHANGED <<bridgeTasks, bridged, deposits, window, named, bridgeConf, hasCdd, bridgeBlock>>

\* freeze, by a freeze admin or the admin, and unfreeze, by the admin.
SetFreeze(freeze) ==
    /\ bridgeConf.frozen # freeze
    /\ bridgeConf' = WithFreeze(bridgeConf, freeze)
    /\ UNCHANGED <<bridgeTx, bridgeTasks, bridged, deposits, window, named, hasCdd, bridgeBlock>>

\* change_timelock, change_bridge_limit and change_bridge_exempted, by the admin.
ChangeBridgeConf(c) ==
    /\ bridgeConf' = WithFreeze(c, bridgeConf.frozen)
    /\ bridgeConf' # bridgeConf
    /\ UNCHANGED <<bridgeTx, bridgeTasks, bridged, deposits, window, named, hasCdd, bridgeBlock>>

\* External: the recipients' CDD claim is added, expires or is revoked.
ChangeRecipientCdd ==
    /\ hasCdd' = ~ hasCdd
    /\ UNCHANGED <<bridgeTx, bridgeTasks, bridged, deposits, window, named, bridgeConf, bridgeBlock>>

BridgeBlock ==
    /\ bridgeBlock < MaxBridgeBlock
    /\ bridgeBlock' = bridgeBlock + 1
    /\ window' = IF bridgeBlock' \div Interval = CurrentInterval THEN window ELSE 0
    /\ UNCHANGED <<bridgeTx, bridgeTasks, bridged, deposits, named, bridgeConf, hasCdd>>

\* The transactions of this behaviour.
Used == {t \in Txs : workload[t] # {}}

BridgeNext ==
  /\ UNCHANGED workload
  /\ \/ \E t \in Used : \E a \in workload[t], trusted \in BOOLEAN : HandleBridgeTx(trusted, t, a)
     \/ \E t \in Used : \E a \in workload[t] : ForceHandleBridgeTx(t, a)
     \/ \E k \in bridgeTasks : HandleScheduledBridgeTx(k)
     \/ \E t \in Used : FreezeTx(t) \/ UnfreezeTx(t)
     \/ \E ts \in SUBSET Used : RemoveTxs(ts)
     \/ \E f \in BOOLEAN : SetFreeze(f)
     \/ \E c \in BridgeConfs : ChangeBridgeConf(c)
     \/ ChangeRecipientCdd
     \/ BridgeBlock

BridgeSpec == BridgeInit /\ [][BridgeNext]_bridgeVars

-----------------------------------------------------------------------------
(* Properties. *)

BridgeTypeOK ==
    /\ bridgeTx \in [Txs -> [status : {"Absent", "Timelocked", "Pending", "Frozen", "Handled"},
                             tries : Nat, amount : MintAmounts \cup {0}]]
    /\ \A k \in bridgeTasks : k.tx \in Txs
    /\ bridged \in [amount : Nat, interval : Nat]

\* The bridge implements LockAndMint: whatever retries, freezes and surviving tasks do,
\* (recipient, nonce) is minted at most once, and what is minted is what the controller or
\* the admin named for it, or nothing (handle_bridge_tx_now and its callers).
Promise == INSTANCE LockAndMint WITH
              minted <- [t \in Txs |-> [times |-> Len(deposits[t]),
                                        amount |-> IF deposits[t] = <<>> THEN 0
                                                   ELSE deposits[t][1]]]
MintsOnce == Promise!LMSpec

\* A transaction that waits, time-locked or pending, always has a call in the scheduler
\* that will try it again (handle_bridge_tx_later stores and schedules together).
WaitingIsScheduled ==
    \A t \in Txs : bridgeTx[t].status \in {"Timelocked", "Pending"}
                      => \E k \in bridgeTasks : k.tx = t

\* Within an interval, an identity that is not exempt is minted at most the limit in force
\* when it is minted, over all its keys (issue).
LimitRespected == [][window' > window => window' <= bridgeConf.limit]_bridgeVars

\* Minting is bounded and nothing that waits is forgotten.
BridgeKeepsLimits == [](BridgeTypeOK /\ WaitingIsScheduled) /\ LimitRespected
=============================================================================
