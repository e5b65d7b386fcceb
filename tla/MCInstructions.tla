--------------------------- MODULE MCInstructions ---------------------------
(***************************************************************************)
(* The ledger under free calls of its users, and instructions of every     *)
(* kind.  A and b0, b1 of B are as in MCSettlement; CASH is a second       *)
(* ticker, and A holds the first NFT.  `focus` says what a behaviour       *)
(* exercises: the ledger with any locks, one instruction of any kind       *)
(* with mediators and venue filtering, or two instructions that compete    *)
(* for the receipts of payments off chain.                                 *)
(***************************************************************************)
EXTENDS MCSettlement

CONSTANT CASH

Two(acme, cash) == (ACME :> acme) @@ (CASH :> cash)
LedgerEndowment == (a0 :> Two(1, 0)) @@ (b0 :> Two(1, 1)) @@ (b1 :> Two(0, 0))
LedgerNfts == (a0 :> {<<ART, 1>>}) @@ (b0 :> {}) @@ (b1 :> {})
LedgerAgent == (ACME :> A) @@ (CASH :> B) @@ (ART :> B)
PaidLegs == CashLegs \cup TwoPaymentsLegs

VARIABLE focus
allVars == <<focus, vars>>

MCInit == focus \in {"ledger", "kinds", "receipts"} /\ Init

\* One instruction of any kind, with mediators and venue filtering.
OneOfAnyKind ==
    \/ counter = 1 /\ AddNext(Kinds, CashLegs, {}, MediatorSets)
    \/ AffirmNext(1, {r1}) \/ MediatorNext(1) \/ RejectInstruction(1) \/ ExecuteManual(1)
    \/ ExecuteScheduled(1) \/ FailScheduled(1)
    \/ VenueNext
    \/ OpenBlock \/ NextBlock

\* Two instructions that want the same receipts; one party may have approved in advance.
TwoWithReceipts ==
    \/ AddNext({"SettleOnAffirmation"}, TwoPaymentsLegs, PreApprovals, {{}})
    \/ \E i \in Ids : AffirmNext(i, Receipts) \/ RejectInstruction(i) \/ ExecuteManual(i)
    \/ \E i \in Ids : ExecuteScheduled(i) \/ FailScheduled(i)
    \/ \E v \in Venues, add \in BOOLEAN : UpdateVenueSigners(v, A, add)
    \/ OpenBlock \/ (now < 3 /\ NextBlock)

MCNext ==
    /\ \/ focus = "ledger" /\ (LedgerNext \/ LockNext) /\ UNCHANGED settlementVars
       \/ focus = "kinds" /\ OneOfAnyKind
       \/ focus = "receipts" /\ TwoWithReceipts
    /\ UNCHANGED focus

\* The fairness of Settlement, for the one instruction of a behaviour.
MCFairness ==
    /\ WF_allVars(focus = "kinds" /\ OpenBlock /\ UNCHANGED focus)
    /\ WF_allVars(focus = "kinds" /\ NextBlock /\ UNCHANGED focus)
    /\ WF_allVars(focus = "kinds" /\ (ExecuteScheduled(1) \/ FailScheduled(1)) /\ UNCHANGED focus)

MCSpec == MCInit /\ [][MCNext]_allVars /\ MCFairness

\* An instruction that settles on a block is executed or fails: it does not stay pending
\* (schedule_instruction, execute_scheduled_instruction).
OnBlockInstructionEnds ==
    (focus = "kinds" /\ instr[1].kind = "SettleOnBlock" /\ instr[1].status = "Pending")
    ~> (instr[1].status # "Pending")
=============================================================================
