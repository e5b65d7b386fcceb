----------------------------- MODULE Settlement -----------------------------
(***************************************************************************)
(* The settlement pallet: instructions that exchange assets between        *)
(* portfolios.  A venue creator adds an instruction, its parties affirm    *)
(* it (the senders' assets are locked), and it is executed, all legs or    *)
(* none, by the scheduler or by a manual call.                             *)
(*                                                                         *)
(* A failing call leaves the state as it was (calls are transactional), so *)
(* only the calls that succeed are actions.  The exception is the call the *)
(* scheduler makes: it returns Ok even when the execution failed, and the  *)
(* instruction becomes Failed.  Signatures, fees and permissions of keys   *)
(* are left out; compliance rules, statistics, frozen assets and the       *)
(* weight limit are one verdict, chosen freely at each execution.          *)
(*                                                                         *)
(* A block has two phases.  In "init" the scheduler runs due tasks, before *)
(* the timestamp of the block is set; in "open" the extrinsics run.        *)
(***************************************************************************)
EXTENDS Ledger, Sequences

CONSTANTS
    Venues, NoVenue,   \* venue ids; the id of no venue (VenueId 0)
    VenueCreator,      \* the identity that manages a venue
    Receipts,          \* pairs of a signer and a receipt uid
    SignerOf,          \* the signer of a receipt
    MaxInstructions,   \* bound on the number of instructions
    MaxLegs,           \* at least the length of every list of legs
    LegLists,          \* lists of legs that a venue creator may ask for
    Kinds,             \* settlement types in use
    PreApprovals,      \* <<portfolio, ticker>> that may be affirmed in advance
    MediatorSets,      \* sets of mediators an instruction may have
    FilteredTickers,   \* tickers whose agent uses venue filtering
    MaxBlock           \* the last block of a behaviour

Ids == 1..MaxInstructions
LegIds == 1..MaxLegs
SettlementKinds == {"SettleOnAffirmation", "SettleOnBlock", "SettleManual"}
LegTypes == {"Fungible", "NonFungible", "OffChain"}

\* The sender and receiver of an off-chain leg are identities.
Leg == [type : LegTypes, sender : Portfolios \cup Identities,
        receiver : Portfolios \cup Identities, ticker : Fungible \cup Collections,
        amount : Nat, nfts : SUBSET NFTs]

ASSUME SettlementAssumption ==
    /\ NoVenue \notin Venues
    /\ VenueCreator \in [Venues -> Identities]
    /\ MaxInstructions \in Nat /\ MaxLegs \in Nat /\ MaxBlock \in Nat
    /\ LegLists \subseteq Seq(Leg)
    /\ \A ls \in LegLists : Len(ls) <= MaxLegs
    /\ Kinds \subseteq SettlementKinds
    /\ MediatorSets \subseteq SUBSET Identities
    /\ Portfolios \cap Identities = {}
    /\ Receipts \cap {"PendingTokenLock", "ExecutionPending"} = {}
    /\ IsFiniteSet(Portfolios) /\ IsFiniteSet(Identities)

VARIABLES
    instr,              \* all that is stored under an instruction id
    counter,            \* InstructionCounter: the next id
    venueInstructions,  \* VenueInstructions
    receiptsUsed,       \* ReceiptsUsed
    venueSigners,       \* VenueSigners: who may sign receipts for a venue
    filtering,          \* VenueFiltering
    allowList,          \* VenueAllowList
    agenda,             \* scheduler: the block a named task is due, 0 if none
    now,                \* the block number
    phase               \* "init" or "open"

venueVars == <<venueSigners, filtering, allowList>>
settlementVars == <<instr, counter, venueInstructions, receiptsUsed, venueVars, agenda, now, phase>>
vars == <<ledgerVars, settlementVars>>

(***************************************************************************)
(* Legs.                                                                   *)
(***************************************************************************)
OnChain(leg) == leg.type # "OffChain"

SenderPortfolios(ls) == {ls[k].sender : k \in {j \in DOMAIN ls : OnChain(ls[j])}}
ReceiverPortfolios(ls) == {ls[k].receiver : k \in {j \in DOMAIN ls : OnChain(ls[j])}}
Parties(ls) == SenderPortfolios(ls) \cup ReceiverPortfolios(ls)
OffChainLegs(ls) == {k \in DOMAIN ls : ~OnChain(ls[k])}

\* filter_sender: the legs that one of the portfolios ps pays for.
SenderLegs(ls, ps) == {k \in DOMAIN ls : OnChain(ls[k]) /\ ls[k].sender \in ps}

\* What the legs K promise out of portfolio p.
PromisedTokens(ls, K, p, t) ==
    MapThenSumSet(LAMBDA k : ls[k].amount,
                  {k \in K : ls[k].type = "Fungible" /\ ls[k].sender = p /\ ls[k].ticker = t})
PromisedNfts(ls, K, p) ==
    UNION {ls[k].nfts : k \in {j \in K : ls[j].type = "NonFungible" /\ ls[j].sender = p}}

VenueAllows(v, t) == t \in filtering => <<t, v>> \in allowList

\* ensure_valid_legs; the ticker of an off-chain leg is not looked at.
ValidLegs(ls, v) ==
    \A k \in DOMAIN ls :
        /\ ls[k].type = "Fungible" => ls[k].ticker \in Fungible
        /\ ls[k].type = "NonFungible" => ls[k].nfts # {} /\ ls[k].nfts \subseteq {ls[k].ticker} \X NftIds
        /\ OnChain(ls[k]) => /\ {ls[k].sender, ls[k].receiver} \subseteq Portfolios
                             /\ PortfolioDid[ls[k].sender] # PortfolioDid[ls[k].receiver]
                             /\ VenueAllows(v, ls[k].ticker)
        /\ ~OnChain(ls[k]) => ls[k].sender # ls[k].receiver
        /\ ls[k].type # "NonFungible" => ls[k].amount > 0

(***************************************************************************)
(* The record of an instruction.                                           *)
(***************************************************************************)
\* What is read for an id that has no data: never added, or pruned.
NoInstruction ==
    [status |-> "Unknown", venue |-> NoVenue, kind |-> "SettleOnAffirmation", block |-> 0,
     legs |-> <<>>, legStatus |-> [k \in LegIds |-> "PendingTokenLock"],
     aff |-> [p \in Portfolios |-> "Unknown"], received |-> {},
     offchain |-> [k \in LegIds |-> "Unknown"],
     med |-> [d \in Identities |-> "Unknown"], expiry |-> [d \in Identities |-> 0],
     pending |-> 0]

\* The instruction has data: it is waiting for affirmations or for execution.
Stored(I) == I.venue # NoVenue

\* base_add_instruction.  A receiver that pre-approved the ticker of one leg, and has no
\* other part in the instruction that needs its affirmation, is affirmed from the start.
NewInstruction(v, kind, b, ls, pre, meds) ==
    LET asked == SenderPortfolios(ls) \cup
                 {ls[k].receiver : k \in {j \in DOMAIN ls :
                     OnChain(ls[j]) /\ <<ls[j].receiver, ls[j].ticker>> \notin pre}}
        affirmed == ReceiverPortfolios(ls) \ asked
    IN  [NoInstruction EXCEPT
            !.status = "Pending", !.venue = v, !.kind = kind, !.block = b, !.legs = ls,
            !.aff = [p \in Portfolios |-> IF p \in asked THEN "Pending"
                                          ELSE IF p \in affirmed THEN "Affirmed" ELSE "Unknown"],
            !.received = affirmed,
            !.offchain = [k \in LegIds |-> IF k \in OffChainLegs(ls) THEN "Pending" ELSE "Unknown"],
            !.med = [d \in Identities |-> IF d \in meds THEN "Pending" ELSE "Unknown"],
            !.pending = Cardinality(asked) + Cardinality(OffChainLegs(ls)) + Cardinality(meds)]

\* unsafe_affirm_instruction, without the locks.
Affirmed(I, ps) ==
    [I EXCEPT
        !.aff = [p \in Portfolios |-> IF p \in ps THEN "Affirmed" ELSE I.aff[p]],
        !.received = @ \cup ps,
        !.legStatus = [k \in LegIds |-> IF k \in SenderLegs(I.legs, ps) THEN "ExecutionPending"
                                        ELSE I.legStatus[k]],
        !.pending = SaturatingSub(@, Cardinality(ps))]

\* base_affirm_with_receipts: claims maps off-chain legs to the receipts shown for them.
Claimed(I, claims) ==
    [I EXCEPT
        !.legStatus = [k \in LegIds |-> IF k \in DOMAIN claims THEN claims[k] ELSE I.legStatus[k]],
        !.offchain = [k \in LegIds |-> IF k \in DOMAIN claims THEN "Affirmed" ELSE I.offchain[k]],
        !.pending = SaturatingSub(@, Cardinality(DOMAIN claims))]

\* unsafe_withdraw_instruction_affirmation, without the locks.
Withdrawn(I, ps) ==
    [I EXCEPT
        !.aff = [p \in Portfolios |-> IF p \in ps THEN "Pending" ELSE I.aff[p]],
        !.received = @ \ ps,
        !.legStatus = [k \in LegIds |-> IF k \in SenderLegs(I.legs, ps) THEN "PendingTokenLock"
                                        ELSE I.legStatus[k]],
        !.pending = @ + Cardinality(ps)]

MediatorAffirmed(I, d, e) ==
    [I EXCEPT !.med[d] = "Affirmed", !.expiry[d] = e,
              !.pending = IF I.med[d] = "Pending" THEN SaturatingSub(@, 1) ELSE @]

MediatorWithdrawn(I, d) ==
    [I EXCEPT !.med[d] = "Pending", !.expiry[d] = 0, !.pending = @ + 1]

\* prune_instruction: the user affirmations of the parties of the legs are removed one by one.
Pruned(I, status) ==
    [NoInstruction EXCEPT
        !.status = status,
        !.aff = [p \in Portfolios |-> IF p \in Parties(I.legs) THEN "Unknown" ELSE I.aff[p]]]

LockedLegs(I) == {k \in DOMAIN I.legs : I.legStatus[k] = "ExecutionPending"}

(***************************************************************************)
(* Locks.                                                                  *)
(***************************************************************************)
\* lock_via_leg for the legs K one after the other: each takes what is free and unlocked.
CanLockLegs(ls, K) ==
    /\ \A k \in K : ls[k].type = "Fungible" =>
           locked[ls[k].sender][ls[k].ticker] + PromisedTokens(ls, K, ls[k].sender, ls[k].ticker)
               <= holdings.bal[ls[k].sender][ls[k].ticker]
    /\ \A k \in K : ls[k].type = "NonFungible" =>
           /\ ls[k].nfts \subseteq holdings.nft[ls[k].sender] \ lockedNft[ls[k].sender]
           /\ \A j \in K \ {k} : ls[j].type = "NonFungible" /\ ls[j].sender = ls[k].sender =>
                  ls[j].nfts \cap ls[k].nfts = {}

LockLegs(ls, K) ==
    /\ CanLockLegs(ls, K)
    /\ locked' = [p \in Portfolios |-> [t \in Fungible |-> locked[p][t] + PromisedTokens(ls, K, p, t)]]
    /\ lockedNft' = [p \in Portfolios |-> lockedNft[p] \cup PromisedNfts(ls, K, p)]

\* unlock_via_leg for the legs K, as withdraw_affirmation calls it: an error stops the call.
UnlockLegs(ls, K) ==
    /\ \A p \in Portfolios : /\ PromisedNfts(ls, K, p) \subseteq lockedNft[p]
                             /\ \A t \in Fungible : locked[p][t] >= PromisedTokens(ls, K, p, t)
    /\ locked' = [p \in Portfolios |-> [t \in Fungible |-> locked[p][t] - PromisedTokens(ls, K, p, t)]]
    /\ lockedNft' = [p \in Portfolios |-> lockedNft[p] \ PromisedNfts(ls, K, p)]

\* Mutant: the locks stay.
MutReleasedTokens(I) == locked

\* unchecked_release_locks: a leg whose assets are not locked is passed over.
ReleasedTokens(I) ==
    MapThenFoldSet(LAMBDA k, lk :
                      LET leg == I.legs[k]
                      IN  IF /\ leg.type = "Fungible" /\ lk[leg.sender][leg.ticker] >= leg.amount
                          THEN [lk EXCEPT ![leg.sender][leg.ticker] = @ - leg.amount] ELSE lk,
                   locked, LAMBDA k : k, LAMBDA K : Max(K), LockedLegs(I))

ReleasedNfts(I) ==
    [p \in Portfolios |->
        lockedNft[p] \ PromisedNfts(I.legs, {k \in LockedLegs(I) : I.legs[k].nfts \subseteq lockedNft[p]}, p)]

(***************************************************************************)
(* Execution.                                                              *)
(***************************************************************************)
\* The time of the chain: a block's timestamp is set after the scheduler has run.
Moment == IF phase = "init" THEN now - 1 ELSE now

\* ensure_non_expired_affirmations, comparing as the code compares.
NonExpiredAffirmations(I) ==
    \A d \in Identities : I.med[d] # "Unknown" =>
        I.med[d] = "Affirmed" /\ (I.expiry[d] # 0 => I.expiry[d] < Moment)

\* One leg, on the ownership maps that the legs before it left.
TransferLeg(acc, leg, lk, lkn) ==
    IF ~acc.ok \/ leg.type = "OffChain" THEN acc
    ELSE IF leg.type = "Fungible"
    THEN IF /\ PortfolioExists(leg.sender) /\ PortfolioExists(leg.receiver)
            /\ CanTransferTokens(acc.h, lk, leg.sender, leg.receiver, leg.ticker, leg.amount)
         THEN [acc EXCEPT !.h = TransferTokens(@, leg.sender, leg.receiver, leg.ticker, leg.amount)]
         ELSE [acc EXCEPT !.ok = FALSE]
    ELSE IF CanTransferNfts(acc.h, lkn, leg.sender, leg.receiver, leg.ticker, leg.nfts)
         THEN [acc EXCEPT !.h = TransferNfts(@, leg.sender, leg.receiver, leg.ticker, leg.nfts)]
         ELSE [acc EXCEPT !.ok = FALSE]

\* release_asset_locks_and_transfer_pending_legs: the legs in the order of their ids.
TransferredLegs(I) ==
    MapThenFoldSet(LAMBDA k, acc : TransferLeg(acc, I.legs[k], ReleasedTokens(I), ReleasedNfts(I)),
                   [ok |-> TRUE, h |-> holdings], LAMBDA k : k, LAMBDA K : Max(K), LockedLegs(I))

\* Mutant: does not wait for the affirmations.
MutReadyToExecute(I) ==
    /\ NonExpiredAffirmations(I)
    /\ I.status \in {"Pending", "Failed"}
    /\ \A k \in DOMAIN I.legs : VenueAllows(I.venue, I.legs[k].ticker)

\* What execute_instruction checks before it touches the assets.
ReadyToExecute(I) ==
    /\ I.pending = 0
    /\ NonExpiredAffirmations(I)
    /\ I.status \in {"Pending", "Failed"}
    /\ \A k \in DOMAIN I.legs : VenueAllows(I.venue, I.legs[k].ticker)

\* The execution goes through: all legs move and the instruction is pruned.
Execute(i) ==
    /\ ReadyToExecute(instr[i])
    /\ TransferredLegs(instr[i]).ok
    /\ holdings' = TransferredLegs(instr[i]).h
    /\ locked' = ReleasedTokens(instr[i])
    /\ lockedNft' = ReleasedNfts(instr[i])
    /\ instr' = [instr EXCEPT ![i] = Pruned(@, "Success")]
    /\ venueInstructions' = venueInstructions \ {<<instr[i].venue, i>>}
    /\ UNCHANGED <<supply, nextNft, portfolioState, counter, receiptsUsed, venueVars, now, phase>>

\* The scheduler calls execute_scheduled_instruction and the execution succeeds.
ExecuteScheduled(i) ==
    /\ phase = "init" /\ agenda[i] # 0 /\ agenda[i] <= now
    /\ Execute(i)
    /\ agenda' = [agenda EXCEPT ![i] = 0]

\* Mutant: a task that cannot be executed ends without a word.
MutFailScheduled(i) ==
    /\ phase = "init" /\ agenda[i] # 0 /\ agenda[i] <= now
    /\ ~ReadyToExecute(instr[i])
    /\ agenda' = [agenda EXCEPT ![i] = 0]
    /\ UNCHANGED <<ledgerVars, instr, counter, venueInstructions, receiptsUsed, venueVars, now, phase>>

\* The same call, but a check, the verdict on a transfer or a leg stops the execution.
FailScheduled(i) ==
    /\ phase = "init" /\ agenda[i] # 0 /\ agenda[i] <= now
    /\ \/ ~ReadyToExecute(instr[i])
       \/ ~TransferredLegs(instr[i]).ok
       \/ LockedLegs(instr[i]) # {}
    /\ instr' = [instr EXCEPT ![i].status = "Failed"]
    /\ agenda' = [agenda EXCEPT ![i] = 0]
    /\ UNCHANGED <<ledgerVars, counter, venueInstructions, receiptsUsed, venueVars, now, phase>>

(***************************************************************************)
(* The calls of users.                                                     *)
(***************************************************************************)
Open == phase = "open" /\ now < MaxBlock

\* ensure_instruction_validity, for a call that does not execute the instruction.
Affirmable(I) ==
    /\ I.status # "Unknown"
    /\ I.kind = "SettleOnBlock" => I.block > now

\* maybe_schedule_instruction; schedule_named fails when the name is taken.
MaybeScheduled(i, I) ==
    IF I.pending = 0 /\ I.kind = "SettleOnAffirmation" /\ agenda[i] = 0
    THEN [agenda EXCEPT ![i] = now + 1] ELSE agenda

\* What base_add_instruction checks, and the block a settlement type comes with.
CanAdd(v, kind, b, ls) ==
    /\ Open /\ counter \in Ids
    /\ CASE kind = "SettleOnBlock" -> b > now
         [] kind = "SettleManual" -> TRUE
         [] kind = "SettleOnAffirmation" -> b = 0
    /\ ValidLegs(ls, v)

\* add_instruction, add_instruction_with_mediators.
AddInstruction(v, kind, b, ls, pre, meds) ==
    /\ CanAdd(v, kind, b, ls)
    /\ instr' = [instr EXCEPT ![counter] = NewInstruction(v, kind, b, ls, pre, meds)]
    /\ counter' = counter + 1
    /\ venueInstructions' = venueInstructions \cup {<<v, counter>>}
    /\ agenda' = [agenda EXCEPT ![counter] = IF kind = "SettleOnBlock" THEN b ELSE 0]
    /\ UNCHANGED <<ledgerVars, receiptsUsed, venueVars, now, phase>>

\* add_and_affirm_instruction(_with_mediators): the creator affirms for portfolios of its own.
AddAndAffirmInstruction(v, kind, b, ls, pre, meds, ps) ==
    LET I == NewInstruction(v, kind, b, ls, pre, meds)
    IN  /\ CanAdd(v, kind, b, ls)
        /\ \A p \in ps : PortfolioDid[p] = VenueCreator[v] /\ I.aff[p] = "Pending"
        /\ LockLegs(ls, SenderLegs(ls, ps))
        /\ instr' = [instr EXCEPT ![counter] = Affirmed(I, ps)]
        /\ counter' = counter + 1
        /\ venueInstructions' = venueInstructions \cup {<<v, counter>>}
        /\ agenda' = IF kind = "SettleOnBlock" THEN [agenda EXCEPT ![counter] = b]
                     ELSE MaybeScheduled(counter, Affirmed(I, ps))
        /\ UNCHANGED <<holdings, supply, nextNft, portfolioState, receiptsUsed, venueVars, now, phase>>

\* affirm_instruction(_with_count), by the custodian d of the portfolios ps.
AffirmInstruction(i, d, ps) ==
    /\ Open /\ Affirmable(instr[i])
    /\ \A p \in ps : PortfolioDid[p] = d /\ instr[i].aff[p] = "Pending"
    /\ LockLegs(instr[i].legs, SenderLegs(instr[i].legs, ps))
    /\ instr' = [instr EXCEPT ![i] = Affirmed(@, ps)]
    /\ agenda' = MaybeScheduled(i, Affirmed(instr[i], ps))
    /\ UNCHANGED <<holdings, supply, nextNft, portfolioState, counter, venueInstructions,
                   receiptsUsed, venueVars, now, phase>>

\* Mutant: two legs may show the same receipt in one call.
MutValidReceipts(I, claims) ==
    \A k \in DOMAIN claims :
        /\ k \in OffChainLegs(I.legs) /\ I.offchain[k] = "Pending"
        /\ SignerOf[claims[k]] \in venueSigners[I.venue]
        /\ claims[k] \notin receiptsUsed

\* ensure_valid_receipts_details; a receipt is signed for the leg it is shown for.
ValidReceipts(I, claims) ==
    /\ \A k \in DOMAIN claims :
        /\ k \in OffChainLegs(I.legs) /\ I.offchain[k] = "Pending"
        /\ SignerOf[claims[k]] \in venueSigners[I.venue]
        /\ claims[k] \notin receiptsUsed
    /\ IsInjective(claims)

\* affirm_with_receipts(_with_count): also shows receipts for off-chain legs.
AffirmWithReceipts(i, d, ps, claims) ==
    LET I == Claimed(Affirmed(instr[i], ps), claims)
    IN  /\ Open /\ Affirmable(instr[i])
        /\ \A p \in ps : PortfolioDid[p] = d /\ instr[i].aff[p] = "Pending"
        /\ ValidReceipts(instr[i], claims)
        /\ LockLegs(instr[i].legs, SenderLegs(instr[i].legs, ps))
        /\ instr' = [instr EXCEPT ![i] = I]
        /\ receiptsUsed' = receiptsUsed \cup {claims[k] : k \in DOMAIN claims}
        /\ agenda' = MaybeScheduled(i, I)
        /\ UNCHANGED <<holdings, supply, nextNft, portfolioState, counter, venueInstructions,
                       venueVars, now, phase>>

\* withdraw_affirmation(_with_count): the task is cancelled whether or not ps is empty.
WithdrawAffirmation(i, d, ps) ==
    LET K == SenderLegs(instr[i].legs, ps)
    IN  /\ Open /\ Affirmable(instr[i])
        /\ \A p \in ps : PortfolioDid[p] = d /\ instr[i].aff[p] = "Affirmed"
        /\ \A k \in K : instr[i].legStatus[k] = "ExecutionPending"
        /\ UnlockLegs(instr[i].legs, K)
        /\ instr' = [instr EXCEPT ![i] = Withdrawn(@, ps)]
        /\ agenda' = IF instr[i].kind = "SettleOnAffirmation" THEN [agenda EXCEPT ![i] = 0] ELSE agenda
        /\ UNCHANGED <<holdings, supply, nextNft, portfolioState, counter, venueInstructions,
                       receiptsUsed, venueVars, now, phase>>

\* affirm_instruction_as_mediator, also to change the expiry of an affirmation.
AffirmAsMediator(i, d, e) ==
    /\ Open /\ Affirmable(instr[i])
    /\ instr[i].med[d] # "Unknown"
    /\ e # 0 => e > Moment
    /\ instr' = [instr EXCEPT ![i] = MediatorAffirmed(@, d, e)]
    /\ agenda' = MaybeScheduled(i, MediatorAffirmed(instr[i], d, e))
    /\ UNCHANGED <<ledgerVars, counter, venueInstructions, receiptsUsed, venueVars, now, phase>>

WithdrawAsMediator(i, d) ==
    /\ Open /\ Affirmable(instr[i])
    /\ instr[i].med[d] = "Affirmed"
    /\ instr' = [instr EXCEPT ![i] = MediatorWithdrawn(@, d)]
    /\ agenda' = IF instr[i].pending = 0 /\ instr[i].kind = "SettleOnAffirmation"
                 THEN [agenda EXCEPT ![i] = 0] ELSE agenda
    /\ UNCHANGED <<ledgerVars, counter, venueInstructions, receiptsUsed, venueVars, now, phase>>

\* reject_instruction(_with_count) by a party, reject_instruction_as_mediator.
RejectInstruction(i) ==
    /\ Open
    /\ instr[i].status # "Unknown"
    /\ Parties(instr[i].legs) # {} \/ \E d \in Identities : instr[i].med[d] # "Unknown"
    /\ locked' = ReleasedTokens(instr[i])
    /\ lockedNft' = ReleasedNfts(instr[i])
    /\ agenda' = [agenda EXCEPT ![i] = 0]
    /\ instr' = [instr EXCEPT ![i] = Pruned(@, "Rejected")]
    /\ venueInstructions' = venueInstructions \ {<<instr[i].venue, i>>}
    /\ UNCHANGED <<holdings, supply, nextNft, portfolioState, counter, receiptsUsed, venueVars, now, phase>>

\* execute_manual_instruction, by a party or the venue creator.  The task of the scheduler stays.
ExecuteManual(i) ==
    /\ Open /\ Stored(instr[i])
    /\ instr[i].kind # "SettleOnAffirmation" => instr[i].block <= now
    /\ Execute(i)
    /\ UNCHANGED agenda

\* set_venue_filtering, allow_venues, disallow_venues, by the agent of the ticker.
SetVenueFiltering(t, enabled) ==
    /\ Open
    /\ filtering' = IF enabled THEN filtering \cup {t} ELSE filtering \ {t}
    /\ UNCHANGED <<ledgerVars, instr, counter, venueInstructions, receiptsUsed, venueSigners,
                   allowList, agenda, now, phase>>

AllowVenues(t, vs) ==
    /\ Open
    /\ allowList' = allowList \cup ({t} \X vs)
    /\ UNCHANGED <<ledgerVars, instr, counter, venueInstructions, receiptsUsed, venueSigners,
                   filtering, agenda, now, phase>>

DisallowVenues(t, vs) ==
    /\ Open
    /\ allowList' = allowList \ ({t} \X vs)
    /\ UNCHANGED <<ledgerVars, instr, counter, venueInstructions, receiptsUsed, venueSigners,
                   filtering, agenda, now, phase>>

\* update_venue_signers, one signer at a time.
UpdateVenueSigners(v, s, add) ==
    /\ Open
    /\ add <=> s \notin venueSigners[v]
    /\ venueSigners' = [venueSigners EXCEPT ![v] = IF add THEN @ \cup {s} ELSE @ \ {s}]
    /\ UNCHANGED <<ledgerVars, instr, counter, venueInstructions, receiptsUsed, filtering,
                   allowList, agenda, now, phase>>

\* The other pallets move assets while instructions are waiting.
LedgerCall ==
    /\ Open /\ LedgerNext
    /\ UNCHANGED settlementVars

(***************************************************************************)
(* Blocks.                                                                 *)
(***************************************************************************)
\* The extrinsics of the block begin; tasks the scheduler had no room for wait.
OpenBlock ==
    /\ phase = "init" /\ now < MaxBlock
    /\ phase' = "open"
    /\ UNCHANGED <<ledgerVars, instr, counter, venueInstructions, receiptsUsed, venueVars, agenda, now>>

NextBlock ==
    /\ phase = "open" /\ now < MaxBlock
    /\ phase' = "init" /\ now' = now + 1
    /\ UNCHANGED <<ledgerVars, instr, counter, venueInstructions, receiptsUsed, venueVars, agenda>>

Init ==
    /\ LedgerInit
    /\ instr = [i \in Ids |-> NoInstruction]
    /\ counter = 1
    /\ venueInstructions = {} /\ receiptsUsed = {}
    /\ venueSigners = [v \in Venues |-> {SignerOf[r] : r \in Receipts}]
    /\ filtering = {} /\ allowList = {}
    /\ agenda = [i \in Ids |-> 0]
    /\ now = 1 /\ phase = "open"

\* The settlement types, lists of legs, approvals and mediators are those a creator picks from.
AddNext(kinds, lists, approvals, mediators) ==
    \E v \in Venues, kind \in kinds, b \in 0..MaxBlock, ls \in lists,
       pre \in SUBSET approvals, meds \in mediators :
        \/ AddInstruction(v, kind, b, ls, pre, meds)
        \/ \E ps \in SUBSET Portfolios : AddAndAffirmInstruction(v, kind, b, ls, pre, meds, ps)

AffirmNext(i, receipts) ==
    \/ \E d \in Identities, ps \in SUBSET Portfolios :
        \/ AffirmInstruction(i, d, ps)
        \/ WithdrawAffirmation(i, d, ps)
        \/ \E K \in SUBSET OffChainLegs(instr[i].legs) : \E claims \in [K -> receipts] :
               AffirmWithReceipts(i, d, ps, claims)

MediatorNext(i) ==
    \/ \E d \in UNION MediatorSets : WithdrawAsMediator(i, d)
    \/ \E d \in UNION MediatorSets, e \in 0..MaxBlock : AffirmAsMediator(i, d, e)

VenueNext ==
    \/ \E t \in FilteredTickers :
        \/ \E enabled \in BOOLEAN : SetVenueFiltering(t, enabled)
        \/ \E v \in Venues : AllowVenues(t, {v}) \/ DisallowVenues(t, {v})
    \/ \E v \in Venues, r \in Receipts, add \in BOOLEAN : UpdateVenueSigners(v, SignerOf[r], add)

Next ==
    \/ AddNext(Kinds, LegLists, PreApprovals, MediatorSets)
    \/ \E i \in Ids : AffirmNext(i, Receipts) \/ MediatorNext(i) \/ RejectInstruction(i) \/ ExecuteManual(i)
    \/ \E i \in Ids : ExecuteScheduled(i) \/ FailScheduled(i)
    \/ VenueNext
    \/ LedgerCall
    \/ OpenBlock \/ NextBlock

Spec == Init /\ [][Next]_vars

\* Blocks keep coming, and a task that is due is not postponed for ever.
Fairness ==
    /\ WF_vars(OpenBlock) /\ WF_vars(NextBlock)
    /\ \A i \in Ids : WF_vars(ExecuteScheduled(i) \/ FailScheduled(i))

FairSpec == Spec /\ Fairness

(***************************************************************************)
(* Properties.                                                             *)
(***************************************************************************)
AffirmationStatuses == {"Unknown", "Pending", "Affirmed"}

IsInstruction(I) ==
    /\ I.status \in {"Unknown", "Pending", "Failed", "Success", "Rejected"}
    /\ I.venue \in Venues \cup {NoVenue} /\ I.kind \in SettlementKinds /\ I.block \in Nat
    /\ I.legs \in Seq(Leg)
    /\ I.legStatus \in [LegIds -> {"PendingTokenLock", "ExecutionPending"} \cup Receipts]
    /\ I.aff \in [Portfolios -> AffirmationStatuses] /\ I.received \in SUBSET Portfolios
    /\ I.offchain \in [LegIds -> AffirmationStatuses]
    /\ I.med \in [Identities -> AffirmationStatuses] /\ I.expiry \in [Identities -> Nat]
    /\ I.pending \in Nat

\* Everything stored under an instruction has the type of its storage map.
SettlementTypeOK ==
    /\ DOMAIN instr = Ids /\ \A i \in Ids : IsInstruction(instr[i])
    /\ counter \in 1..(MaxInstructions + 1)
    /\ venueInstructions \subseteq Venues \X Ids
    /\ receiptsUsed \subseteq Receipts
    /\ agenda \in [Ids -> Nat]
    /\ now \in Nat /\ phase \in {"init", "open"}

\* InstructionAffirmsPending is the number of portfolios, off-chain legs and mediators whose
\* affirmation is missing: saturating subtractions, re-affirmations and withdrawals never make
\* the count and the maps differ, so a count of 0 means that everybody agreed.
AffirmsPendingExact ==
    \A i \in Ids : instr[i].pending =
        Cardinality({p \in Portfolios : instr[i].aff[p] = "Pending"})
        + Cardinality({k \in LegIds : instr[i].offchain[k] = "Pending"})
        + Cardinality({d \in Identities : instr[i].med[d] = "Pending"})

\* A leg is marked for execution exactly when its sender has affirmed, an off-chain leg is to
\* be skipped exactly when its receipt was accepted, and both records of who affirmed agree.
LegStatusMatchesAffirmation ==
    \A i \in Ids : LET I == instr[i] IN
        /\ \A k \in DOMAIN I.legs :
            IF OnChain(I.legs[k])
            THEN I.legStatus[k] = IF I.aff[I.legs[k].sender] = "Affirmed"
                                  THEN "ExecutionPending" ELSE "PendingTokenLock"
            ELSE I.offchain[k] = "Affirmed" <=> I.legStatus[k] \in receiptsUsed
        /\ I.received = {p \in Portfolios : I.aff[p] = "Affirmed"}
        /\ \A p \in Portfolios : I.aff[p] # "Unknown" <=> p \in Parties(I.legs)

\* PortfolioLockedAssets is the sum of what the affirmed legs of the stored instructions
\* promise: no lock is taken twice, forgotten or released twice, so "this can never return an
\* error" in unchecked_release_locks is right.
TokenLocksExact ==
    \A p \in Portfolios, t \in Fungible : locked[p][t] =
        MapThenSumSet(LAMBDA i : PromisedTokens(instr[i].legs, LockedLegs(instr[i]), p, t), Ids)

\* The same for NFTs, and no NFT is promised by two affirmed legs.
NftLocksExact ==
    /\ \A p \in Portfolios : lockedNft[p] =
           UNION {PromisedNfts(instr[i].legs, LockedLegs(instr[i]), p) : i \in Ids}
    /\ \A i, j \in Ids : \A k \in LockedLegs(instr[i]), m \in LockedLegs(instr[j]) :
           /\ instr[i].legs[k].type = "NonFungible" /\ instr[j].legs[m].type = "NonFungible"
           /\ instr[i].legs[k].sender = instr[j].legs[m].sender
           /\ instr[i].legs[k].nfts \cap instr[j].legs[m].nfts # {}
           => i = j /\ k = m

\* A task in the agenda belongs to an instruction that may run: all affirmations are in, or its
\* block was fixed when it was added; and a pending on-block instruction always has its task.
AgendaSound ==
    \A i \in Ids :
        /\ agenda[i] # 0 /\ instr[i].kind = "SettleOnAffirmation" => instr[i].pending = 0
        /\ instr[i].kind = "SettleOnBlock" /\ instr[i].status = "Pending" => agenda[i] = instr[i].block
        /\ instr[i].kind = "SettleManual" => agenda[i] = 0

\* Once all have affirmed, neither the order of the legs nor anything the parties or other
\* instructions do with their assets can make the transfers fail.  What still can is a portfolio
\* that is not in use any more, an NFT that its agent burnt, and the verdict.
FullyAffirmedCanTransfer ==
    \A i \in Ids : LET ls == instr[i].legs IN
        (/\ instr[i].pending = 0
         /\ \A p \in Parties(ls) : PortfolioExists(p)
         /\ \A k \in DOMAIN ls : ls[k].type = "NonFungible" =>
                \A n \in ls[k].nfts : holdings.owner[n] # NoPortfolio)
        => TransferredLegs(instr[i]).ok

\* A receipt stands for one off-chain payment: it never backs two legs, of one or two instructions.
ReceiptBacksOneLeg ==
    \A i, j \in Ids : \A k, m \in LegIds :
        instr[i].legStatus[k] \in Receipts /\ instr[i].legStatus[k] = instr[j].legStatus[m]
        => i = j /\ k = m /\ instr[i].legStatus[k] \in receiptsUsed

Incoming(ls, p, t) ==
    MapThenSumSet(LAMBDA k : ls[k].amount,
                  {k \in DOMAIN ls : ls[k].type = "Fungible" /\ ls[k].receiver = p /\ ls[k].ticker = t})

IncomingNfts(ls, p) ==
    UNION {ls[k].nfts : k \in {j \in DOMAIN ls : ls[j].type = "NonFungible" /\ ls[j].receiver = p}}

\* An instruction succeeds with the consent of every party and mediator and a receipt for every
\* off-chain leg.
SettledWithConsent ==
    [][\A i \in Ids : Stored(instr[i]) /\ instr'[i].status = "Success" =>
        LET I == instr[i] IN
        /\ \A p \in Parties(I.legs) : I.aff[p] = "Affirmed"
        /\ \A k \in OffChainLegs(I.legs) : I.legStatus[k] \in receiptsUsed
        /\ \A d \in Identities : I.med[d] # "Pending"]_vars

\* An instruction that succeeds leaves every portfolio with what all the legs together give and
\* take.
SettlesAllLegs ==
    [][\A i \in Ids : Stored(instr[i]) /\ instr'[i].status = "Success" =>
        LET ls == instr[i].legs IN
        /\ \A p \in Portfolios, t \in Fungible : holdings'.bal[p][t] =
               holdings.bal[p][t] - PromisedTokens(ls, DOMAIN ls, p, t) + Incoming(ls, p, t)
        /\ \A p \in Portfolios : holdings'.nft[p] =
               (holdings.nft[p] \ PromisedNfts(ls, DOMAIN ls, p)) \cup IncomingNfts(ls, p)]_vars

\* Settlement is atomic and by consent: nothing moves before all have agreed, and then all legs
\* move (execute_instruction, release_asset_locks_and_transfer_pending_legs).
SettlesAllLegsWithConsent == SettledWithConsent /\ SettlesAllLegs

\* VenueInstructions lists exactly the instructions that are stored.
VenueInstructionsExact ==
    venueInstructions = {<<instr[i].venue, i>> : i \in {j \in Ids : Stored(instr[j])}}

\* What is stored about an instruction in seven maps, the scheduler's agenda and the receipts
\* that are used up agree after any order of calls, mediators, expiries and executions.
InstructionBooksExact ==
    /\ SettlementTypeOK
    /\ AffirmsPendingExact
    /\ LegStatusMatchesAffirmation
    /\ ReceiptBacksOneLeg
    /\ VenueInstructionsExact
    /\ AgendaSound

\* The assets behind affirmations are there: the locks are exactly what affirmed legs promise,
\* and the promise of an instruction that all have affirmed can be kept.
InstructionsBacked == TokenLocksExact /\ NftLocksExact /\ FullyAffirmedCanTransfer

(***************************************************************************)
(* What the repository's comments say and the code does not do.            *)
(***************************************************************************)
\* "Verifies that all mediator's affirmations are still valid": no instruction is executed on
\* an affirmation whose expiry has passed.
NoExecutionAfterExpiry ==
    [][\A i \in Ids : Stored(instr[i]) /\ instr'[i].status = "Success" =>
        \A d \in Identities : instr[i].expiry[d] # 0 => Moment <= instr[i].expiry[d]]_vars
=============================================================================
