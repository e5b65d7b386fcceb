-------------------------- MODULE SettlementProofs --------------------------
(***************************************************************************)
(* Spec => []InstructionBooksExact, for any instructions, legs, receipts,  *)
(* mediators and blocks: the seven maps about instructions, the agenda of  *)
(* the scheduler and the receipts agree after any calls.                   *)
(*                                                                         *)
(* Most of it is about one instruction at a time (InstructionSound), and   *)
(* is shown for the records that the operators of Settlement return, with  *)
(* no state.  What relates instructions is that numbers are given out once *)
(* and that a receipt is used up by the leg it backs.                      *)
(*                                                                         *)
(* The lemmas take how finite sets are counted as a hypothesis             *)
(* (SetsCounted).  It is proved at the end, from the theorems on finite    *)
(* sets, which only that proof needs.                                      *)
(***************************************************************************)
EXTENDS Settlement, TLAPS

\* Steps are Zenon's unless they cite the SMT solver.
USE ZenonT(60)

WaitingPortfolios(I) == {p \in Portfolios : I.aff[p] = "Pending"}
WaitingLegs(I) == {k \in LegIds : I.offchain[k] = "Pending"}
WaitingMediators(I) == {d \in Identities : I.med[d] = "Pending"}

CountExact(I) ==
    I.pending = Cardinality(WaitingPortfolios(I)) + Cardinality(WaitingLegs(I))
                + Cardinality(WaitingMediators(I))

LegsSound(ls) ==
    /\ DOMAIN ls \subseteq LegIds
    /\ \A k \in DOMAIN ls : OnChain(ls[k]) => ls[k].sender \in Portfolios /\ ls[k].receiver \in Portfolios

LegsFollow(I) ==
    \A k \in DOMAIN I.legs :
      IF OnChain(I.legs[k])
      THEN I.legStatus[k] = IF I.aff[I.legs[k].sender] = "Affirmed" THEN "ExecutionPending" ELSE "PendingTokenLock"
      ELSE /\ I.offchain[k] = "Affirmed" <=> I.legStatus[k] \in Receipts
           /\ I.offchain[k] # "Unknown"

PartiesAffirm(I) ==
    /\ I.received = {p \in Portfolios : I.aff[p] = "Affirmed"}
    /\ \A p \in Portfolios : I.aff[p] # "Unknown" <=> p \in Parties(I.legs)

InstructionSound(I) ==
    /\ IsInstruction(I) /\ LegsSound(I.legs)
    /\ CountExact(I) /\ LegsFollow(I) /\ PartiesAffirm(I)
    /\ Stored(I) => I.status \in {"Pending", "Failed"}

\* The parties of the legs are portfolios.
LEMMA PartiesArePortfolios ==
    ASSUME NEW ls, LegsSound(ls)
    PROVE  Parties(ls) \subseteq Portfolios
BY DEF LegsSound, Parties, SenderPortfolios, ReceiverPortfolios

-----------------------------------------------------------------------------
(* Counting. *)

Counted(S) ==
    /\ Cardinality(S) \in Nat /\ (Cardinality(S) = 0 => S = {})
    /\ \A T \in SUBSET S : /\ Cardinality(T) \in Nat /\ Cardinality(T) <= Cardinality(S)
                           /\ Cardinality(S \ T) = Cardinality(S) - Cardinality(T)

SetsCounted ==
    /\ Cardinality({}) = 0 /\ \A d \in Identities : Cardinality({d}) = 1
    /\ \A S \in SUBSET Portfolios : Counted(S)
    /\ \A S \in SUBSET LegIds : Counted(S)
    /\ \A S \in SUBSET Identities : Counted(S)

LEMMA FewerWaiting ==
    ASSUME NEW S, Counted(S), NEW T \in SUBSET S
    PROVE  /\ Cardinality(T) \in Nat /\ Cardinality(T) <= Cardinality(S) /\ Cardinality(S) \in Nat
           /\ Cardinality(S \ T) = Cardinality(S) - Cardinality(T)
BY DEF Counted

LEMMA MoreWaiting ==
    ASSUME NEW S, NEW T, Counted(S \cup T), S \cap T = {}
    PROVE  /\ Cardinality(T) \in Nat /\ Cardinality(S) \in Nat
           /\ Cardinality(S \cup T) = Cardinality(S) + Cardinality(T)
<1>1. (S \cup T) \ T = S /\ S \in SUBSET (S \cup T) /\ T \in SUBSET (S \cup T)
  OBVIOUS
<1>2. Cardinality(S) = Cardinality(S \cup T) - Cardinality(T)
  <2>1. Cardinality((S \cup T) \ T) = Cardinality(S \cup T) - Cardinality(T)
    BY <1>1 DEF Counted
  <2> QED BY <1>1, <2>1
<1>3. Cardinality(S) \in Nat /\ Cardinality(T) \in Nat /\ Cardinality(S \cup T) \in Nat
  BY <1>1 DEF Counted
<1> QED BY <1>2, <1>3, SMTT(60)

LEMMA WaitingCounted ==
    ASSUME SetsCounted, NEW I
    PROVE  /\ Counted(WaitingPortfolios(I)) /\ Counted(WaitingLegs(I)) /\ Counted(WaitingMediators(I))
           /\ Cardinality(WaitingPortfolios(I)) \in Nat
           /\ Cardinality(WaitingLegs(I)) \in Nat
           /\ Cardinality(WaitingMediators(I)) \in Nat
<1>1. /\ WaitingPortfolios(I) \in SUBSET Portfolios /\ WaitingLegs(I) \in SUBSET LegIds
      /\ WaitingMediators(I) \in SUBSET Identities
  BY DEF WaitingPortfolios, WaitingLegs, WaitingMediators
<1>2. Counted(WaitingPortfolios(I)) /\ Counted(WaitingLegs(I)) /\ Counted(WaitingMediators(I))
  BY <1>1 DEF SetsCounted
<1> QED BY <1>2 DEF Counted

-----------------------------------------------------------------------------
(* The records. *)

LEMMA NewInstructionSound ==
    ASSUME SetsCounted, NEW v \in Venues, NEW kind \in Kinds, NEW b \in Nat, NEW ls \in LegLists, NEW pre,
           NEW meds \in SUBSET Identities, ValidLegs(ls, v)
    PROVE  LET I == NewInstruction(v, kind, b, ls, pre, meds)
           IN  /\ InstructionSound(I)
               /\ I.status = "Pending" /\ I.venue = v /\ I.kind = kind /\ I.block = b /\ I.legs = ls
               /\ \A k \in LegIds : I.legStatus[k] \notin Receipts
<1>1. PICK asked : asked = SenderPortfolios(ls) \cup
                 {ls[k].receiver : k \in {j \in DOMAIN ls :
                     OnChain(ls[j]) /\ <<ls[j].receiver, ls[j].ticker>> \notin pre}}
  OBVIOUS
<1>2. PICK J : J = NewInstruction(v, kind, b, ls, pre, meds)
  OBVIOUS
<1>3. /\ J.status = "Pending" /\ J.venue = v /\ J.kind = kind /\ J.block = b /\ J.legs = ls
      /\ J.legStatus = [k \in LegIds |-> "PendingTokenLock"]
      /\ J.expiry = [d \in Identities |-> 0]
  BY <1>2 DEF NewInstruction, NoInstruction
<1>4. /\ J.aff = [p \in Portfolios |-> IF p \in asked THEN "Pending"
                                       ELSE IF p \in ReceiverPortfolios(ls) \ asked THEN "Affirmed" ELSE "Unknown"]
      /\ J.received = ReceiverPortfolios(ls) \ asked
      /\ J.pending = Cardinality(asked) + Cardinality(OffChainLegs(ls)) + Cardinality(meds)
  BY <1>1, <1>2 DEF NewInstruction, NoInstruction
<1>5. /\ J.offchain = [k \in LegIds |-> IF k \in OffChainLegs(ls) THEN "Pending" ELSE "Unknown"]
      /\ J.med = [d \in Identities |-> IF d \in meds THEN "Pending" ELSE "Unknown"]
  BY <1>2 DEF NewInstruction, NoInstruction
<1>6. ls \in Seq(Leg) /\ DOMAIN ls \subseteq LegIds
  BY SettlementAssumption, SMTT(60) DEF LegIds
<1>7. LegsSound(ls)
  BY <1>6 DEF LegsSound, ValidLegs
<1>8. /\ asked \subseteq Portfolios /\ ReceiverPortfolios(ls) \subseteq Portfolios
      /\ SenderPortfolios(ls) \subseteq asked /\ asked \cup ReceiverPortfolios(ls) = Parties(ls)
  BY <1>1, <1>7 DEF SenderPortfolios, ReceiverPortfolios, Parties, LegsSound
<1>9. OffChainLegs(ls) \subseteq LegIds
  BY <1>6 DEF OffChainLegs
<1> HIDE <1>1, <1>2
<1>10. WaitingPortfolios(J) = asked /\ WaitingLegs(J) = OffChainLegs(ls) /\ WaitingMediators(J) = meds
  BY <1>4, <1>5, <1>8, <1>9 DEF WaitingPortfolios, WaitingLegs, WaitingMediators
<1>11. CountExact(J) /\ J.pending \in Nat
  BY <1>4, <1>10, WaitingCounted, SMTT(60) DEF CountExact
<1>12. IsInstruction(J)
  <2>1. kind \in SettlementKinds
    BY SettlementAssumption
  <2> QED BY <1>3, <1>4, <1>5, <1>6, <1>8, <1>11, <2>1, SMTT(60) DEF IsInstruction, AffirmationStatuses
<1>13. "PendingTokenLock" \notin Receipts
  BY SettlementAssumption
<1>14. LegsFollow(J)
  <2>1. ASSUME NEW k \in DOMAIN ls, OnChain(ls[k]) PROVE ls[k].sender \in asked
    BY <1>8, <2>1 DEF SenderPortfolios
  <2>2. ASSUME NEW k \in DOMAIN ls, ~OnChain(ls[k]) PROVE k \in OffChainLegs(ls)
    BY <2>2 DEF OffChainLegs
  <2> QED BY <1>3, <1>4, <1>5, <1>6, <1>7, <1>13, <2>1, <2>2, SMTT(60) DEF LegsFollow, LegsSound
<1>15. PartiesAffirm(J)
  BY <1>3, <1>4, <1>8 DEF PartiesAffirm
<1>16. InstructionSound(J) /\ \A k \in LegIds : J.legStatus[k] \notin Receipts
  BY <1>3, <1>7, <1>11, <1>12, <1>13, <1>14, <1>15 DEF InstructionSound
<1> QED BY <1>2, <1>3, <1>16

\* What an update keeps of an instruction.
SameTerms(J, I) ==
    J.status = I.status /\ J.venue = I.venue /\ J.kind = I.kind /\ J.block = I.block /\ J.legs = I.legs

\* The legs backed by receipts are the same, with the same receipts.
SameReceipts(J, I) ==
    \A k \in LegIds : J.legStatus[k] \in Receipts \/ I.legStatus[k] \in Receipts => J.legStatus[k] = I.legStatus[k]

LEMMA SenderLegsOnChain ==
    ASSUME NEW I, InstructionSound(I), NEW ps, NEW k \in SenderLegs(I.legs, ps)
    PROVE  /\ k \in DOMAIN I.legs /\ k \in LegIds /\ OnChain(I.legs[k]) /\ I.legs[k].sender \in ps
           /\ I.legStatus[k] \in {"PendingTokenLock", "ExecutionPending"}
BY DEF SenderLegs, InstructionSound, LegsSound, LegsFollow

LEMMA StatusesAreNoReceipts == "PendingTokenLock" \notin Receipts /\ "ExecutionPending" \notin Receipts
BY SettlementAssumption

LEMMA AffirmedSound ==
    ASSUME SetsCounted, NEW I, InstructionSound(I), NEW ps \in SUBSET Portfolios, \A p \in ps : I.aff[p] = "Pending"
    PROVE  LET J == Affirmed(I, ps)
           IN  InstructionSound(J) /\ SameTerms(J, I) /\ SameReceipts(J, I) /\ J.pending <= I.pending
               /\ J.offchain = I.offchain
<1>1. PICK J : J = Affirmed(I, ps)
  OBVIOUS
<1>2. SameTerms(J, I) /\ J.offchain = I.offchain /\ J.med = I.med /\ J.expiry = I.expiry
  BY <1>1, SMTT(60) DEF Affirmed, SameTerms
<1>3. /\ J.aff = [p \in Portfolios |-> IF p \in ps THEN "Affirmed" ELSE I.aff[p]]
      /\ J.received = I.received \cup ps
      /\ J.legStatus = [k \in LegIds |-> IF k \in SenderLegs(I.legs, ps) THEN "ExecutionPending"
                                         ELSE I.legStatus[k]]
      /\ J.pending = SaturatingSub(I.pending, Cardinality(ps))
  BY <1>1, SMTT(60) DEF Affirmed
<1> HIDE <1>1
<1>4. /\ WaitingPortfolios(J) = WaitingPortfolios(I) \ ps /\ ps \in SUBSET WaitingPortfolios(I)
      /\ WaitingLegs(J) = WaitingLegs(I) /\ WaitingMediators(J) = WaitingMediators(I)
  BY <1>2, <1>3 DEF WaitingPortfolios, WaitingLegs, WaitingMediators
<1>5. CountExact(J) /\ J.pending \in Nat /\ J.pending <= I.pending
  <2>1. Cardinality(ps) \in Nat /\ Cardinality(ps) <= Cardinality(WaitingPortfolios(I))
        /\ Cardinality(WaitingPortfolios(J)) = Cardinality(WaitingPortfolios(I)) - Cardinality(ps)
    BY <1>4, WaitingCounted, FewerWaiting
  <2>2. I.pending = Cardinality(WaitingPortfolios(I)) + Cardinality(WaitingLegs(I))
                    + Cardinality(WaitingMediators(I))
    BY DEF InstructionSound, CountExact
  <2> QED BY <1>3, <1>4, <2>1, <2>2, WaitingCounted, SMTT(60) DEF CountExact, SaturatingSub
<1>6. IsInstruction(J)
  BY <1>2, <1>3, <1>5, SMTT(60) DEF InstructionSound, IsInstruction, SameTerms, AffirmationStatuses
<1>7. LegsFollow(J)
  <2>1. ASSUME NEW k \in DOMAIN I.legs, OnChain(I.legs[k])
        PROVE  /\ k \in LegIds /\ I.legs[k].sender \in Portfolios
               /\ k \in SenderLegs(I.legs, ps) <=> I.legs[k].sender \in ps
    BY <2>1 DEF InstructionSound, LegsSound, SenderLegs
  <2>2. ASSUME NEW k \in DOMAIN I.legs, ~OnChain(I.legs[k])
        PROVE  k \in LegIds /\ k \notin SenderLegs(I.legs, ps)
    BY <2>2 DEF InstructionSound, LegsSound, SenderLegs
  <2>3. ASSUME NEW k \in DOMAIN I.legs, OnChain(I.legs[k])
        PROVE  J.legStatus[k] = IF J.aff[I.legs[k].sender] = "Affirmed" THEN "ExecutionPending" ELSE "PendingTokenLock"
    BY <1>3, <2>1, <2>3, SMTT(60) DEF InstructionSound, LegsFollow
  <2>4. ASSUME NEW k \in DOMAIN I.legs, ~OnChain(I.legs[k])
        PROVE  (J.offchain[k] = "Affirmed" <=> J.legStatus[k] \in Receipts) /\ J.offchain[k] # "Unknown"
    BY <1>2, <1>3, <2>2, <2>4, SMTT(60) DEF InstructionSound, LegsFollow
  <2> QED BY <1>2, <2>3, <2>4, SMTT(60) DEF LegsFollow, SameTerms
<1>8. PartiesAffirm(J)
  <2>1. J.received = {p \in Portfolios : J.aff[p] = "Affirmed"}
    BY <1>3 DEF InstructionSound, PartiesAffirm
  <2>2. ASSUME NEW p \in Portfolios PROVE J.aff[p] # "Unknown" <=> p \in Parties(I.legs)
    BY <1>3 DEF InstructionSound, PartiesAffirm
  <2> QED BY <1>2, <2>1, <2>2 DEF PartiesAffirm, SameTerms
<1>9. SameReceipts(J, I)
  <2>1. ASSUME NEW k \in SenderLegs(I.legs, ps) PROVE I.legStatus[k] \notin Receipts
    BY SenderLegsOnChain, StatusesAreNoReceipts
  <2>2. ASSUME NEW k \in LegIds
        PROVE  J.legStatus[k] \in Receipts \/ I.legStatus[k] \in Receipts => J.legStatus[k] = I.legStatus[k]
    BY <1>3, <2>1, StatusesAreNoReceipts
  <2> QED BY <2>2 DEF SameReceipts
<1>10. InstructionSound(J)
  BY <1>2, <1>5, <1>6, <1>7, <1>8 DEF InstructionSound, SameTerms, Stored
<1> QED BY <1>1, <1>2, <1>5, <1>9, <1>10

LEMMA WithdrawnSound ==
    ASSUME SetsCounted, NEW I, InstructionSound(I), NEW ps \in SUBSET Portfolios, \A p \in ps : I.aff[p] = "Affirmed"
    PROVE  LET J == Withdrawn(I, ps)
           IN  InstructionSound(J) /\ SameTerms(J, I) /\ SameReceipts(J, I)
<1>1. PICK J : J = Withdrawn(I, ps)
  OBVIOUS
<1>2. SameTerms(J, I) /\ J.offchain = I.offchain /\ J.med = I.med /\ J.expiry = I.expiry
  BY <1>1, SMTT(60) DEF Withdrawn, SameTerms
<1>3. /\ J.aff = [p \in Portfolios |-> IF p \in ps THEN "Pending" ELSE I.aff[p]]
      /\ J.received = I.received \ ps
      /\ J.legStatus = [k \in LegIds |-> IF k \in SenderLegs(I.legs, ps) THEN "PendingTokenLock"
                                         ELSE I.legStatus[k]]
      /\ J.pending = I.pending + Cardinality(ps)
  BY <1>1, SMTT(60) DEF Withdrawn
<1> HIDE <1>1
<1>4. /\ WaitingPortfolios(J) = WaitingPortfolios(I) \cup ps /\ WaitingPortfolios(I) \cap ps = {}
      /\ WaitingLegs(J) = WaitingLegs(I) /\ WaitingMediators(J) = WaitingMediators(I)
  BY <1>2, <1>3 DEF WaitingPortfolios, WaitingLegs, WaitingMediators
<1>5. CountExact(J) /\ J.pending \in Nat
  <2>1. Counted(WaitingPortfolios(I) \cup ps)
    BY <1>4, WaitingCounted
  <2>2. Cardinality(ps) \in Nat
        /\ Cardinality(WaitingPortfolios(J)) = Cardinality(WaitingPortfolios(I)) + Cardinality(ps)
    BY <1>4, <2>1, MoreWaiting
  <2>3. I.pending = Cardinality(WaitingPortfolios(I)) + Cardinality(WaitingLegs(I))
                    + Cardinality(WaitingMediators(I))
    BY DEF InstructionSound, CountExact
  <2> QED BY <1>3, <1>4, <2>2, <2>3, WaitingCounted, SMTT(60) DEF CountExact
<1>6. IsInstruction(J)
  BY <1>2, <1>3, <1>5, SMTT(60) DEF InstructionSound, IsInstruction, SameTerms, AffirmationStatuses
<1>7. LegsFollow(J)
  <2>1. ASSUME NEW k \in DOMAIN I.legs, OnChain(I.legs[k])
        PROVE  /\ k \in LegIds /\ I.legs[k].sender \in Portfolios
               /\ k \in SenderLegs(I.legs, ps) <=> I.legs[k].sender \in ps
    BY <2>1 DEF InstructionSound, LegsSound, SenderLegs
  <2>2. ASSUME NEW k \in DOMAIN I.legs, ~OnChain(I.legs[k])
        PROVE  k \in LegIds /\ k \notin SenderLegs(I.legs, ps)
    BY <2>2 DEF InstructionSound, LegsSound, SenderLegs
  <2>3. ASSUME NEW k \in DOMAIN I.legs, OnChain(I.legs[k])
        PROVE  J.legStatus[k] = IF J.aff[I.legs[k].sender] = "Affirmed" THEN "ExecutionPending" ELSE "PendingTokenLock"
    BY <1>3, <2>1, <2>3, SMTT(60) DEF InstructionSound, LegsFollow
  <2>4. ASSUME NEW k \in DOMAIN I.legs, ~OnChain(I.legs[k])
        PROVE  (J.offchain[k] = "Affirmed" <=> J.legStatus[k] \in Receipts) /\ J.offchain[k] # "Unknown"
    BY <1>2, <1>3, <2>2, <2>4 DEF InstructionSound, LegsFollow
  <2> QED BY <1>2, <2>3, <2>4, SMTT(60) DEF LegsFollow, SameTerms
<1>8. PartiesAffirm(J)
  <2>1. J.received = {p \in Portfolios : J.aff[p] = "Affirmed"}
    BY <1>3 DEF InstructionSound, PartiesAffirm
  <2>2. ASSUME NEW p \in Portfolios PROVE J.aff[p] # "Unknown" <=> p \in Parties(I.legs)
    BY <1>3 DEF InstructionSound, PartiesAffirm
  <2> QED BY <1>2, <2>1, <2>2 DEF PartiesAffirm, SameTerms
<1>9. SameReceipts(J, I)
  <2>1. ASSUME NEW k \in SenderLegs(I.legs, ps) PROVE I.legStatus[k] \notin Receipts
    BY SenderLegsOnChain, StatusesAreNoReceipts
  <2>2. ASSUME NEW k \in LegIds
        PROVE  J.legStatus[k] \in Receipts \/ I.legStatus[k] \in Receipts => J.legStatus[k] = I.legStatus[k]
    BY <1>3, <2>1, StatusesAreNoReceipts
  <2> QED BY <2>2 DEF SameReceipts
<1>10. InstructionSound(J)
  BY <1>2, <1>5, <1>6, <1>7, <1>8 DEF InstructionSound, SameTerms, Stored
<1> QED BY <1>1, <1>2, <1>9, <1>10

LEMMA ClaimedSound ==
    ASSUME SetsCounted, NEW I, InstructionSound(I), NEW K \in SUBSET OffChainLegs(I.legs), NEW claims \in [K -> Receipts],
           \A k \in K : I.offchain[k] = "Pending"
    PROVE  LET J == Claimed(I, claims)
           IN  /\ InstructionSound(J) /\ SameTerms(J, I) /\ J.pending <= I.pending
               /\ \A k \in LegIds : J.legStatus[k] = IF k \in K THEN claims[k] ELSE I.legStatus[k]
<1>1. PICK J : J = Claimed(I, claims)
  OBVIOUS
<1>2. /\ SameTerms(J, I) /\ J.aff = I.aff /\ J.received = I.received /\ J.med = I.med /\ J.expiry = I.expiry
      /\ J.legStatus = [k \in LegIds |-> IF k \in K THEN claims[k] ELSE I.legStatus[k]]
      /\ J.offchain = [k \in LegIds |-> IF k \in K THEN "Affirmed" ELSE I.offchain[k]]
      /\ J.pending = SaturatingSub(I.pending, Cardinality(K))
  BY <1>1, SMTT(60) DEF Claimed, SameTerms
<1> HIDE <1>1
<1>3. K \subseteq LegIds /\ \A k \in K : k \in DOMAIN I.legs /\ ~OnChain(I.legs[k])
  BY DEF OffChainLegs, InstructionSound, LegsSound
<1>4. /\ WaitingLegs(J) = WaitingLegs(I) \ K /\ K \in SUBSET WaitingLegs(I)
      /\ WaitingPortfolios(J) = WaitingPortfolios(I) /\ WaitingMediators(J) = WaitingMediators(I)
  BY <1>2, <1>3 DEF WaitingPortfolios, WaitingLegs, WaitingMediators
<1>5. CountExact(J) /\ J.pending \in Nat /\ J.pending <= I.pending
  <2>1. Cardinality(K) \in Nat /\ Cardinality(K) <= Cardinality(WaitingLegs(I))
        /\ Cardinality(WaitingLegs(J)) = Cardinality(WaitingLegs(I)) - Cardinality(K)
    BY <1>4, WaitingCounted, FewerWaiting
  <2>2. I.pending = Cardinality(WaitingPortfolios(I)) + Cardinality(WaitingLegs(I))
                    + Cardinality(WaitingMediators(I))
    BY DEF InstructionSound, CountExact
  <2> QED BY <1>2, <1>4, <2>1, <2>2, WaitingCounted, SMTT(60) DEF CountExact, SaturatingSub
<1>6. IsInstruction(J)
  BY <1>2, <1>5, SMTT(60) DEF InstructionSound, IsInstruction, SameTerms, AffirmationStatuses
<1>7. LegsFollow(J)
  <2>1. ASSUME NEW k \in DOMAIN I.legs PROVE k \in LegIds
    BY DEF InstructionSound, LegsSound
  <2>2. ASSUME NEW k \in DOMAIN I.legs, OnChain(I.legs[k])
        PROVE  J.legStatus[k] = IF J.aff[I.legs[k].sender] = "Affirmed" THEN "ExecutionPending" ELSE "PendingTokenLock"
    BY <1>2, <1>3, <2>1, <2>2, SMTT(60) DEF InstructionSound, LegsFollow
  <2>3. ASSUME NEW k \in DOMAIN I.legs, ~OnChain(I.legs[k])
        PROVE  (J.offchain[k] = "Affirmed" <=> J.legStatus[k] \in Receipts) /\ J.offchain[k] # "Unknown"
    BY <1>2, <2>1, <2>3, SMTT(60) DEF InstructionSound, LegsFollow
  <2> QED BY <1>2, <2>2, <2>3, SMTT(60) DEF LegsFollow, SameTerms
<1>8. InstructionSound(J)
  BY <1>2, <1>5, <1>6, <1>7, SMTT(60) DEF InstructionSound, PartiesAffirm, SameTerms, Stored
<1> QED BY <1>1, <1>2, <1>5, <1>8

\* Mediators change nothing but the count.
LEMMA MediatorSound ==
    ASSUME SetsCounted, NEW I, InstructionSound(I), NEW J, SameTerms(J, I), J.aff = I.aff, J.received = I.received,
           J.legStatus = I.legStatus, J.offchain = I.offchain, J.med \in [Identities -> AffirmationStatuses],
           J.expiry \in [Identities -> Nat], J.pending \in Nat,
           J.pending - I.pending = Cardinality(WaitingMediators(J)) - Cardinality(WaitingMediators(I))
    PROVE  InstructionSound(J) /\ SameReceipts(J, I)
<1>1. WaitingPortfolios(J) = WaitingPortfolios(I) /\ WaitingLegs(J) = WaitingLegs(I)
  BY DEF WaitingPortfolios, WaitingLegs
<1>2. I.pending \in Nat /\ CountExact(I)
  BY DEF InstructionSound, IsInstruction
<1>3. CountExact(J)
  BY <1>1, <1>2, WaitingCounted, SMTT(60) DEF CountExact
<1>4. IsInstruction(J)
  BY DEF InstructionSound, IsInstruction, SameTerms
<1> QED BY <1>3, <1>4, SMTT(60) DEF InstructionSound, LegsFollow, PartiesAffirm, SameTerms, Stored, SameReceipts

LEMMA MediatorAffirmedSound ==
    ASSUME SetsCounted, NEW I, InstructionSound(I), NEW d \in Identities, I.med[d] # "Unknown", NEW e \in Nat
    PROVE  LET J == MediatorAffirmed(I, d, e)
           IN  InstructionSound(J) /\ SameTerms(J, I) /\ SameReceipts(J, I) /\ J.pending <= I.pending
<1>1. PICK J : J = MediatorAffirmed(I, d, e)
  OBVIOUS
<1>2. /\ SameTerms(J, I) /\ J.aff = I.aff /\ J.received = I.received
      /\ J.legStatus = I.legStatus /\ J.offchain = I.offchain
      /\ J.med = [I.med EXCEPT ![d] = "Affirmed"] /\ J.expiry = [I.expiry EXCEPT ![d] = e]
      /\ J.pending = IF I.med[d] = "Pending" THEN SaturatingSub(I.pending, 1) ELSE I.pending
  BY <1>1, SMTT(60) DEF MediatorAffirmed, SameTerms
<1> HIDE <1>1
<1>3. I.med \in [Identities -> AffirmationStatuses] /\ I.expiry \in [Identities -> Nat] /\ I.pending \in Nat
  BY DEF InstructionSound, IsInstruction
<1>4. WaitingMediators(J) = WaitingMediators(I) \ {d} /\ (d \in WaitingMediators(I) <=> I.med[d] = "Pending")
  BY <1>2, <1>3 DEF WaitingMediators
<1>5. Cardinality(WaitingMediators(J)) = IF I.med[d] = "Pending" THEN Cardinality(WaitingMediators(I)) - 1
                                         ELSE Cardinality(WaitingMediators(I))
  <2>1. CASE I.med[d] = "Pending"
    <3>1. {d} \in SUBSET WaitingMediators(I) /\ Cardinality({d}) = 1
      BY <1>4, <2>1 DEF SetsCounted
    <3> QED BY <1>4, <2>1, <3>1, WaitingCounted, FewerWaiting
  <2>2. CASE I.med[d] # "Pending"
    <3>1. WaitingMediators(J) = WaitingMediators(I)
      BY <1>4, <2>2
    <3> QED BY <2>2, <3>1
  <2> QED BY <2>1, <2>2
<1>6. I.med[d] = "Pending" => I.pending >= 1
  <2>1. I.pending >= Cardinality(WaitingMediators(I))
    BY WaitingCounted, SMTT(60) DEF InstructionSound, CountExact
  <2> QED BY <1>3, <1>5, <2>1, WaitingCounted, SMTT(60)
<1>7. J.pending \in Nat /\ J.pending <= I.pending
      /\ J.pending - I.pending = Cardinality(WaitingMediators(J)) - Cardinality(WaitingMediators(I))
  BY <1>2, <1>3, <1>5, <1>6, WaitingCounted, SMTT(60) DEF SaturatingSub
<1>8. J.med \in [Identities -> AffirmationStatuses] /\ J.expiry \in [Identities -> Nat]
  BY <1>2, <1>3 DEF AffirmationStatuses
<1> QED BY <1>1, <1>2, <1>7, <1>8, MediatorSound

LEMMA MediatorWithdrawnSound ==
    ASSUME SetsCounted, NEW I, InstructionSound(I), NEW d \in Identities, I.med[d] = "Affirmed"
    PROVE  LET J == MediatorWithdrawn(I, d)
           IN  InstructionSound(J) /\ SameTerms(J, I) /\ SameReceipts(J, I)
<1>1. PICK J : J = MediatorWithdrawn(I, d)
  OBVIOUS
<1>2. /\ SameTerms(J, I) /\ J.aff = I.aff /\ J.received = I.received
      /\ J.legStatus = I.legStatus /\ J.offchain = I.offchain
      /\ J.med = [I.med EXCEPT ![d] = "Pending"] /\ J.expiry = [I.expiry EXCEPT ![d] = 0]
      /\ J.pending = I.pending + 1
  BY <1>1, SMTT(60) DEF MediatorWithdrawn, SameTerms
<1> HIDE <1>1
<1>3. I.med \in [Identities -> AffirmationStatuses] /\ I.expiry \in [Identities -> Nat] /\ I.pending \in Nat
  BY DEF InstructionSound, IsInstruction
<1>4. WaitingMediators(J) = WaitingMediators(I) \cup {d} /\ d \notin WaitingMediators(I)
  BY <1>2, <1>3 DEF WaitingMediators
<1>5. Cardinality(WaitingMediators(J)) = Cardinality(WaitingMediators(I)) + 1
  <2>1. Counted(WaitingMediators(I) \cup {d}) /\ WaitingMediators(I) \cap {d} = {}
    BY <1>4, WaitingCounted
  <2>2. Cardinality({d}) = 1
    BY DEF SetsCounted
  <2> QED BY <1>4, <2>1, <2>2, MoreWaiting
<1>6. J.pending \in Nat
      /\ J.pending - I.pending = Cardinality(WaitingMediators(J)) - Cardinality(WaitingMediators(I))
  BY <1>2, <1>3, <1>5, WaitingCounted, SMTT(60)
<1>7. J.med \in [Identities -> AffirmationStatuses] /\ J.expiry \in [Identities -> Nat]
  BY <1>2, <1>3, SMTT(60) DEF AffirmationStatuses
<1> QED BY <1>1, <1>2, <1>6, <1>7, MediatorSound

\* Nothing is left of an instruction but its status.
LEMMA PrunedSound ==
    ASSUME SetsCounted, NEW I, InstructionSound(I), NEW status \in {"Success", "Rejected", "Unknown"}
    PROVE  LET J == Pruned(I, status)
           IN  /\ InstructionSound(J) /\ J.status = status /\ ~Stored(J)
               /\ J.kind = "SettleOnAffirmation" /\ J.pending = 0
               /\ \A k \in LegIds : J.legStatus[k] \notin Receipts
<1>1. PICK J : J = Pruned(I, status)
  OBVIOUS
<1>2. /\ J.status = status /\ J.venue = NoVenue /\ J.kind = "SettleOnAffirmation" /\ J.block = 0
      /\ J.legs = <<>> /\ J.legStatus = [k \in LegIds |-> "PendingTokenLock"] /\ J.received = {}
      /\ J.offchain = [k \in LegIds |-> "Unknown"] /\ J.med = [d \in Identities |-> "Unknown"]
      /\ J.expiry = [d \in Identities |-> 0] /\ J.pending = 0
      /\ J.aff = [p \in Portfolios |-> IF p \in Parties(I.legs) THEN "Unknown" ELSE I.aff[p]]
  BY <1>1 DEF Pruned, NoInstruction
<1> HIDE <1>1
<1>3. J.aff = [p \in Portfolios |-> "Unknown"]
  BY <1>2, SMTT(60) DEF InstructionSound, PartiesAffirm
<1>4. WaitingPortfolios(J) = {} /\ WaitingLegs(J) = {} /\ WaitingMediators(J) = {}
  BY <1>2, <1>3 DEF WaitingPortfolios, WaitingLegs, WaitingMediators
<1>5. CountExact(J)
  BY <1>2, <1>4, SMTT(60) DEF CountExact, SetsCounted
<1>6. IsInstruction(J)
  BY <1>2, <1>3, SMTT(60) DEF IsInstruction, SettlementKinds, AffirmationStatuses
<1>7. LegsSound(J.legs) /\ LegsFollow(J) /\ Parties(J.legs) = {}
  BY <1>2, SMTT(60) DEF LegsSound, LegsFollow, Parties, SenderPortfolios, ReceiverPortfolios
<1>8. PartiesAffirm(J)
  BY <1>2, <1>3, <1>7 DEF PartiesAffirm
<1>9. InstructionSound(J)
  BY <1>2, <1>5, <1>6, <1>7, <1>8 DEF InstructionSound, Stored
<1> QED BY <1>1, <1>2, <1>9, StatusesAreNoReceipts, SMTT(60) DEF Stored

-----------------------------------------------------------------------------
(* All instructions together. *)

AgendaFits(I, due) ==
    /\ due # 0 /\ I.kind = "SettleOnAffirmation" => I.pending = 0
    /\ I.kind = "SettleOnBlock" /\ I.status = "Pending" => due = I.block
    /\ I.kind = "SettleManual" => due = 0

BooksInv ==
    /\ DOMAIN instr = Ids /\ \A i \in Ids : InstructionSound(instr[i]) /\ AgendaFits(instr[i], agenda[i])
    /\ counter \in 1..(MaxInstructions + 1)
    /\ \A i \in Ids : i >= counter => instr[i].status = "Unknown" /\ ~Stored(instr[i]) /\ agenda[i] = 0
    /\ receiptsUsed \subseteq Receipts /\ ReceiptBacksOneLeg
    /\ VenueInstructionsExact
    /\ agenda \in [Ids -> Nat] /\ now \in Nat /\ phase \in {"init", "open"}

Consented(I) ==
    /\ \A p \in Parties(I.legs) : I.aff[p] = "Affirmed"
    /\ \A k \in OffChainLegs(I.legs) : I.legStatus[k] \in receiptsUsed
    /\ \A d \in Identities : I.med[d] # "Pending"

\* The body of SettledWithConsent.
ConsentStep ==
    \A i \in Ids : Stored(instr[i]) /\ instr'[i].status = "Success" => Consented(instr[i])

LEMMA IdsAreNumbers == MaxInstructions \in Nat /\ \A i \in Ids : i \in Nat /\ i <= MaxInstructions
BY SettlementAssumption, SMTT(60) DEF Ids

\* The list of a venue names an instruction exactly while it is stored.
LEMMA ListedIffStored ==
    ASSUME BooksInv, NEW i \in Ids
    PROVE  <<instr[i].venue, i>> \in venueInstructions <=> Stored(instr[i])
<1>1. venueInstructions = {<<instr[j].venue, j>> : j \in {l \in Ids : Stored(instr[l])}}
  BY DEF BooksInv, VenueInstructionsExact
<1> QED BY <1>1

\* An instruction and its task change, and no other does.
LEMMA OneChanges ==
    ASSUME BooksInv, NEW i \in Ids, NEW J, instr' = [instr EXCEPT ![i] = J], InstructionSound(J),
           Stored(instr[i]) /\ J.status = "Success" => Consented(instr[i]),
           counter' \in 1..(MaxInstructions + 1), counter <= counter', i < counter',
           receiptsUsed \subseteq receiptsUsed', receiptsUsed' \subseteq Receipts,
           \A k \in LegIds : J.legStatus[k] \in Receipts =>
             /\ J.legStatus[k] \in receiptsUsed'
             /\ J.legStatus[k] = instr[i].legStatus[k] \/ J.legStatus[k] \notin receiptsUsed
             /\ \A m \in LegIds : J.legStatus[m] = J.legStatus[k] => m = k,
           venueInstructions' = (venueInstructions \ {<<instr[i].venue, i>>})
                                  \cup (IF Stored(J) THEN {<<J.venue, i>>} ELSE {}),
           agenda' \in [Ids -> Nat], \A j \in Ids \ {i} : agenda'[j] = agenda[j],
           AgendaFits(J, agenda'[i]), UNCHANGED <<now, phase>>
    PROVE  BooksInv' /\ ConsentStep
<1>1. DOMAIN instr' = Ids /\ instr'[i] = J /\ \A j \in Ids : j # i => instr'[j] = instr[j]
  BY DEF BooksInv
<1>2. ASSUME NEW j \in Ids PROVE InstructionSound(instr'[j]) /\ AgendaFits(instr'[j], agenda'[j])
  BY <1>1 DEF BooksInv
<1>3. ASSUME NEW j \in Ids, j >= counter'
      PROVE  instr'[j].status = "Unknown" /\ ~Stored(instr'[j]) /\ agenda'[j] = 0
  <2>1. j # i /\ j >= counter
    BY <1>3, SMTT(60) DEF BooksInv, Ids
  <2> QED BY <1>1, <2>1 DEF BooksInv
<1>4. ReceiptBacksOneLeg'
  <2>1. ASSUME NEW j \in Ids, NEW l \in Ids, NEW k \in LegIds, NEW m \in LegIds,
               instr'[j].legStatus[k] \in Receipts, instr'[j].legStatus[k] = instr'[l].legStatus[m]
        PROVE  j = l /\ k = m /\ instr'[j].legStatus[k] \in receiptsUsed'
    <3>1. \A a \in Ids, c \in LegIds : instr[a].legStatus[c] \in Receipts => instr[a].legStatus[c] \in receiptsUsed
      BY DEF BooksInv, ReceiptBacksOneLeg
    <3>2. CASE j = i /\ l = i
      BY <1>1, <2>1, <3>2
    <3>3. CASE j # i /\ l # i
      BY <1>1, <2>1, <3>3, SMTT(60) DEF BooksInv, ReceiptBacksOneLeg
    <3>4. CASE j = i /\ l # i
      BY <1>1, <2>1, <3>1, <3>4, SMTT(60) DEF BooksInv, ReceiptBacksOneLeg
    <3>5. CASE j # i /\ l = i
      BY <1>1, <2>1, <3>1, <3>5, SMTT(60) DEF BooksInv, ReceiptBacksOneLeg
    <3> QED BY <3>2, <3>3, <3>4, <3>5
  <2> QED BY <2>1, SMTT(60) DEF ReceiptBacksOneLeg
<1>5. VenueInstructionsExact'
  <2>1. venueInstructions = {<<instr[j].venue, j>> : j \in {l \in Ids : Stored(instr[l])}}
    BY DEF BooksInv, VenueInstructionsExact
  <2> DEFINE Listed == {<<instr'[j].venue, j>> : j \in {l \in Ids : Stored(instr'[l])}}
  <2>2. ASSUME NEW x \in venueInstructions' PROVE x \in Listed
    <3>1. CASE Stored(J) /\ x = <<J.venue, i>>
      BY <1>1, <3>1
    <3>2. CASE x \in venueInstructions \ {<<instr[i].venue, i>>}
      <4>1. PICK j \in Ids : Stored(instr[j]) /\ x = <<instr[j].venue, j>>
        BY <2>1, <3>2
      <4>2. j # i
        BY <3>2, <4>1
      <4> QED BY <1>1, <4>1, <4>2
    <3> QED BY <2>2, <3>1, <3>2
  <2>3. ASSUME NEW x \in Listed PROVE x \in venueInstructions'
    <3>1. PICK j \in Ids : Stored(instr'[j]) /\ x = <<instr'[j].venue, j>>
      BY <2>3
    <3>2. CASE j = i
      BY <1>1, <3>1, <3>2
    <3>3. CASE j # i
      BY <1>1, <2>1, <3>1, <3>3
    <3> QED BY <3>2, <3>3
  <2>4. venueInstructions' = Listed
    BY <2>2, <2>3
  <2> QED BY <2>4 DEF VenueInstructionsExact, Stored
<1>6. ConsentStep
  <2>1. ASSUME NEW j \in Ids, j # i, Stored(instr[j]), instr'[j].status = "Success" PROVE FALSE
    BY <1>1, <2>1 DEF BooksInv, InstructionSound
  <2> QED BY <1>1, <2>1 DEF ConsentStep
<1>7. BooksInv'
  BY <1>1, <1>2, <1>3, <1>4, <1>5 DEF BooksInv
<1> QED BY <1>6, <1>7

\* No instruction changes.
LEMMA NoneChanges ==
    ASSUME BooksInv, UNCHANGED <<instr, counter, venueInstructions, receiptsUsed, agenda>>,
           now' \in Nat, phase' \in {"init", "open"}
    PROVE  BooksInv' /\ ConsentStep
<1>1. ConsentStep
  BY DEF BooksInv, InstructionSound, ConsentStep
<1>2. ReceiptBacksOneLeg'
  BY SMTT(60) DEF BooksInv, ReceiptBacksOneLeg
<1>3. VenueInstructionsExact'
  BY DEF BooksInv, VenueInstructionsExact, Stored
<1>4. BooksInv'
  BY <1>2, <1>3 DEF BooksInv, Stored
<1> QED BY <1>1, <1>4

LEMMA KnownInstruction ==
    ASSUME BooksInv, NEW i \in Ids, instr[i].status # "Unknown" \/ Stored(instr[i]) \/ agenda[i] # 0
    PROVE  i < counter /\ InstructionSound(instr[i]) /\ AgendaFits(instr[i], agenda[i])
BY SMTT(60) DEF BooksInv, Ids

\* An affirmation is given or taken back: the terms stay, and so do the receipts that back legs.
LEMMA TermsStay ==
    ASSUME BooksInv, NEW i \in Ids, instr[i].status # "Unknown", NEW J,
           instr' = [instr EXCEPT ![i] = J], InstructionSound(J), SameTerms(J, instr[i]),
           receiptsUsed \subseteq receiptsUsed', receiptsUsed' \subseteq Receipts,
           \A k \in LegIds : J.legStatus[k] \in Receipts =>
             \/ J.legStatus[k] = instr[i].legStatus[k]
             \/ /\ J.legStatus[k] \in receiptsUsed' \ receiptsUsed
                /\ \A m \in LegIds : J.legStatus[m] = J.legStatus[k] => m = k,
           agenda' \in [Ids -> Nat], \A j \in Ids \ {i} : agenda'[j] = agenda[j],
           AgendaFits(J, agenda'[i]), UNCHANGED <<counter, venueInstructions, now, phase>>
    PROVE  BooksInv' /\ ConsentStep
<1>1. i < counter /\ InstructionSound(instr[i])
  BY KnownInstruction
<1>2. Stored(J) <=> Stored(instr[i])
  BY DEF SameTerms, Stored
<1>3. ~(Stored(instr[i]) /\ J.status = "Success")
  BY <1>1 DEF SameTerms, InstructionSound
<1>4. venueInstructions' = (venueInstructions \ {<<instr[i].venue, i>>})
                             \cup (IF Stored(J) THEN {<<J.venue, i>>} ELSE {})
  <2>1. J.venue = instr[i].venue /\ venueInstructions' = venueInstructions
    BY DEF SameTerms
  <2>2. <<instr[i].venue, i>> \in venueInstructions <=> Stored(instr[i])
    BY ListedIffStored
  <2> QED BY <1>2, <2>1, <2>2
<1>5. ASSUME NEW k \in LegIds, J.legStatus[k] \in Receipts
      PROVE  /\ J.legStatus[k] \in receiptsUsed'
             /\ J.legStatus[k] = instr[i].legStatus[k] \/ J.legStatus[k] \notin receiptsUsed
             /\ \A m \in LegIds : J.legStatus[m] = J.legStatus[k] => m = k
  <2>1. \A c, m \in LegIds : instr[i].legStatus[c] \in Receipts /\ instr[i].legStatus[c] = instr[i].legStatus[m]
                               => c = m /\ instr[i].legStatus[c] \in receiptsUsed
    BY SMTT(60) DEF BooksInv, ReceiptBacksOneLeg
  <2>2. CASE J.legStatus[k] = instr[i].legStatus[k]
    <3>1. J.legStatus[k] \in receiptsUsed
      BY <1>5, <2>1, <2>2
    <3>2. ASSUME NEW m \in LegIds, J.legStatus[m] = J.legStatus[k] PROVE m = k
      <4>1. J.legStatus[m] \in Receipts /\ J.legStatus[m] \notin receiptsUsed' \ receiptsUsed
        BY <1>5, <3>1, <3>2
      <4>2. J.legStatus[m] = instr[i].legStatus[m]
        BY <4>1
      <4>3. instr[i].legStatus[k] \in Receipts /\ instr[i].legStatus[k] = instr[i].legStatus[m]
        BY <1>5, <2>2, <3>2, <4>2
      <4> QED BY <2>1, <4>3
    <3> QED BY <2>2, <3>1, <3>2
  <2>3. CASE J.legStatus[k] # instr[i].legStatus[k]
    BY <1>5, <2>3
  <2> QED BY <2>2, <2>3
<1>6. counter' \in 1..(MaxInstructions + 1) /\ counter <= counter' /\ i < counter'
  BY <1>1, SMTT(60) DEF BooksInv
<1> QED BY <1>3, <1>4, <1>5, <1>6, OneChanges

LEMMA MaybeScheduledFits ==
    ASSUME BooksInv, NEW i \in Ids, NEW J, J.pending \in Nat, SameTerms(J, instr[i]),
           instr[i].pending \in Nat, J.pending <= instr[i].pending, AgendaFits(instr[i], agenda[i])
    PROVE  LET a == MaybeScheduled(i, J)
           IN  a \in [Ids -> Nat] /\ (\A j \in Ids \ {i} : a[j] = agenda[j]) /\ AgendaFits(J, a[i])
<1>1. agenda \in [Ids -> Nat] /\ now + 1 \in Nat
  BY SMTT(60) DEF BooksInv
<1> QED BY <1>1, SMTT(60) DEF MaybeScheduled, AgendaFits, SameTerms

LEMMA AffirmNextSafe ==
    ASSUME SetsCounted, BooksInv, NEW i \in Ids, AffirmNext(i, Receipts)
    PROVE  BooksInv' /\ ConsentStep
<1>1. PICK I : I = instr[i]
  OBVIOUS
<1>2. ASSUME Affirmable(I) PROVE I.status # "Unknown" /\ InstructionSound(I) /\ I.pending \in Nat
                                 /\ AgendaFits(I, agenda[i]) /\ i < counter
  BY <1>1, <1>2, KnownInstruction DEF Affirmable, InstructionSound, IsInstruction
<1>3. ASSUME NEW d \in Identities, NEW ps \in SUBSET Portfolios, AffirmInstruction(i, d, ps)
      PROVE  BooksInv' /\ ConsentStep
  <2>1. PICK J : J = Affirmed(I, ps)
    OBVIOUS
  <2>2. /\ Affirmable(I) /\ \A p \in ps : I.aff[p] = "Pending"
        /\ instr' = [instr EXCEPT ![i] = J] /\ agenda' = MaybeScheduled(i, J)
        /\ UNCHANGED <<counter, venueInstructions, receiptsUsed, now, phase>>
    BY <1>1, <1>3, <2>1 DEF AffirmInstruction
  <2>3. InstructionSound(J) /\ SameTerms(J, I) /\ SameReceipts(J, I) /\ J.pending <= I.pending
    BY <1>2, <2>1, <2>2, AffirmedSound
  <2>4. J.pending \in Nat
    BY <2>3 DEF InstructionSound, IsInstruction
  <2> HIDE <2>1
  <2>5. agenda' \in [Ids -> Nat] /\ (\A j \in Ids \ {i} : agenda'[j] = agenda[j]) /\ AgendaFits(J, agenda'[i])
    BY <1>1, <1>2, <2>2, <2>3, <2>4, MaybeScheduledFits
  <2>6. receiptsUsed \subseteq receiptsUsed' /\ receiptsUsed' \subseteq Receipts
    BY <2>2 DEF BooksInv
  <2> QED BY <1>1, <1>2, <2>2, <2>3, <2>5, <2>6, TermsStay DEF SameReceipts
<1>4. ASSUME NEW d \in Identities, NEW ps \in SUBSET Portfolios, WithdrawAffirmation(i, d, ps)
      PROVE  BooksInv' /\ ConsentStep
  <2>1. PICK J : J = Withdrawn(I, ps)
    OBVIOUS
  <2>2. /\ Affirmable(I) /\ \A p \in ps : I.aff[p] = "Affirmed"
        /\ instr' = [instr EXCEPT ![i] = J]
        /\ agenda' = IF I.kind = "SettleOnAffirmation" THEN [agenda EXCEPT ![i] = 0] ELSE agenda
        /\ UNCHANGED <<counter, venueInstructions, receiptsUsed, now, phase>>
    BY <1>1, <1>4, <2>1 DEF WithdrawAffirmation
  <2>3. InstructionSound(J) /\ SameTerms(J, I) /\ SameReceipts(J, I)
    BY <1>2, <2>1, <2>2, WithdrawnSound
  <2> HIDE <2>1
  <2>4. agenda' \in [Ids -> Nat] /\ (\A j \in Ids \ {i} : agenda'[j] = agenda[j]) /\ AgendaFits(J, agenda'[i])
    BY <1>2, <2>2, <2>3 DEF BooksInv, AgendaFits, SameTerms
  <2>5. receiptsUsed \subseteq receiptsUsed' /\ receiptsUsed' \subseteq Receipts
    BY <2>2 DEF BooksInv
  <2> QED BY <1>1, <1>2, <2>2, <2>3, <2>4, <2>5, TermsStay DEF SameReceipts
<1>5. ASSUME NEW d \in Identities, NEW ps \in SUBSET Portfolios, NEW K \in SUBSET OffChainLegs(I.legs),
             NEW claims \in [K -> Receipts], AffirmWithReceipts(i, d, ps, claims)
      PROVE  BooksInv' /\ ConsentStep
  <2>1. PICK A, J : A = Affirmed(I, ps) /\ J = Claimed(A, claims)
    OBVIOUS
  <2>2. /\ Affirmable(I) /\ \A p \in ps : I.aff[p] = "Pending"
        /\ ValidReceipts(I, claims)
        /\ instr' = [instr EXCEPT ![i] = J] /\ agenda' = MaybeScheduled(i, J)
        /\ receiptsUsed' = receiptsUsed \cup {claims[k] : k \in DOMAIN claims}
        /\ UNCHANGED <<counter, venueInstructions, now, phase>>
    BY <1>1, <1>5, <2>1 DEF AffirmWithReceipts
  <2>3. InstructionSound(A) /\ SameTerms(A, I) /\ SameReceipts(A, I) /\ A.pending <= I.pending
        /\ A.offchain = I.offchain
    BY <1>2, <2>1, <2>2, AffirmedSound
  <2>4. \A k \in K : I.offchain[k] = "Pending" /\ claims[k] \notin receiptsUsed
    BY <2>2 DEF ValidReceipts
  <2>5. K \in SUBSET OffChainLegs(A.legs) /\ \A k \in K : A.offchain[k] = "Pending"
    BY <2>3, <2>4 DEF SameTerms
  <2>6. /\ InstructionSound(J) /\ SameTerms(J, A) /\ J.pending <= A.pending
        /\ \A k \in LegIds : J.legStatus[k] = IF k \in K THEN claims[k] ELSE A.legStatus[k]
    BY <2>1, <2>3, <2>5, ClaimedSound, SMTT(60)
  <2> HIDE <2>1
  <2>7. SameTerms(J, I) /\ J.pending \in Nat /\ J.pending <= I.pending
    <3>1. I.pending \in Nat /\ A.pending \in Nat /\ J.pending \in Nat
      BY <1>2, <2>2, <2>3, <2>6 DEF InstructionSound, IsInstruction
    <3>2. J.pending <= I.pending
      BY <2>3, <2>6, <3>1, SMTT(60)
    <3>3. SameTerms(J, I)
      BY <2>3, <2>6 DEF SameTerms
    <3> QED BY <3>1, <3>2, <3>3
  <2>8. agenda' \in [Ids -> Nat] /\ (\A j \in Ids \ {i} : agenda'[j] = agenda[j]) /\ AgendaFits(J, agenda'[i])
    BY <1>1, <1>2, <2>2, <2>7, MaybeScheduledFits
  <2>9. receiptsUsed \subseteq receiptsUsed' /\ receiptsUsed' \subseteq Receipts
    BY <2>2 DEF BooksInv
  <2>10. ASSUME NEW k \in LegIds, J.legStatus[k] \in Receipts
         PROVE  \/ J.legStatus[k] = I.legStatus[k]
                \/ /\ J.legStatus[k] \in receiptsUsed' \ receiptsUsed
                   /\ \A m \in LegIds : J.legStatus[m] = J.legStatus[k] => m = k
    <3>1. CASE k \notin K
      BY <2>3, <2>6, <2>10, <3>1 DEF SameReceipts
    <3>2. CASE k \in K
      <4>1. J.legStatus[k] = claims[k] /\ claims[k] \in receiptsUsed' \ receiptsUsed
        BY <2>2, <2>4, <2>6, <3>2
      <4>2. ASSUME NEW m \in LegIds, J.legStatus[m] = J.legStatus[k] PROVE m = k
        <5>1. CASE m \in K
          BY <2>2, <2>6, <3>2, <4>1, <4>2, <5>1 DEF ValidReceipts, IsInjective
        <5>2. CASE m \notin K
          <6>1. I.legStatus[m] = claims[k]
            BY <2>3, <2>6, <2>10, <4>1, <4>2, <5>2 DEF SameReceipts
          <6>2. I.legStatus[m] \in receiptsUsed
            BY <1>1, <2>10, <4>1, <6>1 DEF BooksInv, ReceiptBacksOneLeg
          <6> QED BY <4>1, <6>1, <6>2
        <5> QED BY <5>1, <5>2
      <4> QED BY <4>1, <4>2
    <3> QED BY <3>1, <3>2
  <2>11. \A k \in LegIds : J.legStatus[k] \in Receipts =>
           \/ J.legStatus[k] = instr[i].legStatus[k]
           \/ /\ J.legStatus[k] \in receiptsUsed' \ receiptsUsed
              /\ \A m \in LegIds : J.legStatus[m] = J.legStatus[k] => m = k
    BY <1>1, <2>10
  <2>12. SameTerms(J, instr[i]) /\ instr[i].status # "Unknown"
    BY <1>1, <1>2, <2>2, <2>7
  <2> QED BY <2>2, <2>6, <2>8, <2>9, <2>11, <2>12, TermsStay
<1> QED BY <1>1, <1>3, <1>4, <1>5 DEF AffirmNext

LEMMA MediatorNextSafe ==
    ASSUME SetsCounted, BooksInv, NEW i \in Ids, MediatorNext(i)
    PROVE  BooksInv' /\ ConsentStep
<1>1. PICK I : I = instr[i]
  OBVIOUS
<1>2. ASSUME Affirmable(I) PROVE I.status # "Unknown" /\ InstructionSound(I) /\ I.pending \in Nat
                                 /\ AgendaFits(I, agenda[i])
  BY <1>1, <1>2, KnownInstruction DEF Affirmable, InstructionSound, IsInstruction
<1>3. ASSUME NEW d \in UNION MediatorSets PROVE d \in Identities
  BY SettlementAssumption
<1>4. ASSUME NEW d \in UNION MediatorSets, NEW e \in 0..MaxBlock, AffirmAsMediator(i, d, e)
      PROVE  BooksInv' /\ ConsentStep
  <2>1. PICK J : J = MediatorAffirmed(I, d, e)
    OBVIOUS
  <2>2. /\ Affirmable(I) /\ I.med[d] # "Unknown"
        /\ instr' = [instr EXCEPT ![i] = J] /\ agenda' = MaybeScheduled(i, J)
        /\ UNCHANGED <<counter, venueInstructions, receiptsUsed, now, phase>>
    BY <1>1, <1>4, <2>1 DEF AffirmAsMediator
  <2>3. InstructionSound(J) /\ SameTerms(J, I) /\ SameReceipts(J, I) /\ J.pending <= I.pending
    <3>1. d \in Identities /\ e \in Nat
      BY <1>3, SMTT(60)
    <3> QED BY <1>2, <2>1, <2>2, <3>1, MediatorAffirmedSound
  <2>4. J.pending \in Nat
    BY <2>3 DEF InstructionSound, IsInstruction
  <2> HIDE <2>1
  <2>5. agenda' \in [Ids -> Nat] /\ (\A j \in Ids \ {i} : agenda'[j] = agenda[j]) /\ AgendaFits(J, agenda'[i])
    BY <1>1, <1>2, <2>2, <2>3, <2>4, MaybeScheduledFits
  <2>6. receiptsUsed \subseteq receiptsUsed' /\ receiptsUsed' \subseteq Receipts
    BY <2>2 DEF BooksInv
  <2> QED BY <1>1, <1>2, <2>2, <2>3, <2>5, <2>6, TermsStay DEF SameReceipts
<1>5. ASSUME NEW d \in UNION MediatorSets, WithdrawAsMediator(i, d)
      PROVE  BooksInv' /\ ConsentStep
  <2>1. PICK J : J = MediatorWithdrawn(I, d)
    OBVIOUS
  <2>2. /\ Affirmable(I) /\ I.med[d] = "Affirmed"
        /\ instr' = [instr EXCEPT ![i] = J]
        /\ agenda' = IF I.pending = 0 /\ I.kind = "SettleOnAffirmation" THEN [agenda EXCEPT ![i] = 0] ELSE agenda
        /\ UNCHANGED <<counter, venueInstructions, receiptsUsed, now, phase>>
    BY <1>1, <1>5, <2>1 DEF WithdrawAsMediator
  <2>3. InstructionSound(J) /\ SameTerms(J, I) /\ SameReceipts(J, I)
    BY <1>2, <1>3, <2>1, <2>2, MediatorWithdrawnSound
  <2> HIDE <2>1
  <2>4. agenda' \in [Ids -> Nat] /\ (\A j \in Ids \ {i} : agenda'[j] = agenda[j]) /\ AgendaFits(J, agenda'[i])
    BY <1>2, <2>2, <2>3 DEF BooksInv, AgendaFits, SameTerms
  <2>5. receiptsUsed \subseteq receiptsUsed' /\ receiptsUsed' \subseteq Receipts
    BY <2>2 DEF BooksInv
  <2> QED BY <1>1, <1>2, <2>2, <2>3, <2>4, <2>5, TermsStay DEF SameReceipts
<1> QED BY <1>4, <1>5 DEF MediatorNext

\* An instruction is executed or rejected, and its data are removed.
LEMMA PruneSafe ==
    ASSUME SetsCounted, BooksInv, NEW i \in Ids, NEW status \in {"Success", "Rejected"},
           instr[i].status # "Unknown" \/ Stored(instr[i]) \/ agenda[i] # 0,
           status = "Success" => instr[i].pending = 0,
           instr' = [instr EXCEPT ![i] = Pruned(instr[i], status)],
           venueInstructions' = venueInstructions \ {<<instr[i].venue, i>>},
           agenda' = agenda \/ agenda' = [agenda EXCEPT ![i] = 0],
           UNCHANGED <<counter, receiptsUsed, now, phase>>
    PROVE  BooksInv' /\ ConsentStep
<1>1. i < counter /\ InstructionSound(instr[i])
  BY KnownInstruction
<1>2. PICK J : J = Pruned(instr[i], status)
  OBVIOUS
<1>3. /\ InstructionSound(J) /\ J.status = status /\ ~Stored(J) /\ J.kind = "SettleOnAffirmation" /\ J.pending = 0
      /\ \A k \in LegIds : J.legStatus[k] \notin Receipts
  BY <1>1, <1>2, PrunedSound, SMTT(60)
<1>4. instr' = [instr EXCEPT ![i] = J]
  BY <1>2
<1> HIDE <1>2
<1>5. agenda' \in [Ids -> Nat] /\ (\A j \in Ids \ {i} : agenda'[j] = agenda[j]) /\ AgendaFits(J, agenda'[i])
  BY <1>3, SMTT(60) DEF BooksInv, AgendaFits
<1>6. status = "Success" => Consented(instr[i])
  <2> SUFFICES ASSUME instr[i].pending = 0 PROVE Consented(instr[i])
    OBVIOUS
  <2>1. PICK I : I = instr[i]
    OBVIOUS
  <2>2. WaitingPortfolios(I) = {} /\ WaitingLegs(I) = {} /\ WaitingMediators(I) = {}
    <3>1. /\ Cardinality(WaitingPortfolios(I)) = 0 /\ Cardinality(WaitingLegs(I)) = 0
          /\ Cardinality(WaitingMediators(I)) = 0
      BY <1>1, <2>1, WaitingCounted, SMTT(60) DEF InstructionSound, CountExact
    <3> QED BY <3>1, WaitingCounted DEF Counted
  <2>3. \A d \in Identities : I.med[d] # "Pending"
    BY <2>2 DEF WaitingMediators
  <2>4. ASSUME NEW p \in Parties(I.legs) PROVE I.aff[p] = "Affirmed"
    <3>1. p \in Portfolios
      <4>1. LegsSound(I.legs)
        BY <1>1, <2>1 DEF InstructionSound
      <4> QED BY <4>1, PartiesArePortfolios
    <3>2. I.aff[p] # "Unknown" /\ I.aff[p] # "Pending" /\ I.aff[p] \in AffirmationStatuses
      BY <1>1, <2>1, <2>2, <3>1 DEF InstructionSound, PartiesAffirm, IsInstruction, WaitingPortfolios
    <3> QED BY <3>2 DEF AffirmationStatuses
  <2>5. ASSUME NEW k \in OffChainLegs(I.legs) PROVE I.legStatus[k] \in receiptsUsed
    <3>1. k \in LegIds /\ k \in DOMAIN I.legs /\ ~OnChain(I.legs[k])
      BY <1>1, <2>1 DEF OffChainLegs, InstructionSound, LegsSound
    <3>2. I.offchain[k] # "Unknown" /\ I.offchain[k] # "Pending" /\ I.offchain[k] \in AffirmationStatuses
      BY <1>1, <2>1, <2>2, <3>1 DEF InstructionSound, LegsFollow, IsInstruction, WaitingLegs
    <3>3. I.legStatus[k] \in Receipts
      BY <1>1, <2>1, <3>1, <3>2 DEF InstructionSound, LegsFollow, AffirmationStatuses
    <3> QED BY <2>1, <3>1, <3>3 DEF BooksInv, ReceiptBacksOneLeg
  <2> QED BY <2>1, <2>3, <2>4, <2>5 DEF Consented
<1>7. /\ counter' \in 1..(MaxInstructions + 1) /\ counter <= counter' /\ i < counter'
      /\ receiptsUsed \subseteq receiptsUsed' /\ receiptsUsed' \subseteq Receipts
  BY <1>1, SMTT(60) DEF BooksInv
<1>8. venueInstructions' = (venueInstructions \ {<<instr[i].venue, i>>})
                             \cup (IF Stored(J) THEN {<<J.venue, i>>} ELSE {})
  BY <1>3
<1> QED BY <1>3, <1>4, <1>5, <1>6, <1>7, <1>8, OneChanges

LEMMA FailScheduledSafe ==
    ASSUME BooksInv, NEW i \in Ids, FailScheduled(i)
    PROVE  BooksInv' /\ ConsentStep
<1>1. i < counter /\ InstructionSound(instr[i])
  BY KnownInstruction DEF FailScheduled
<1>2. PICK J : J = [instr[i] EXCEPT !.status = "Failed"]
  OBVIOUS
<1>3. /\ J.status = "Failed" /\ J.venue = instr[i].venue /\ J.kind = instr[i].kind /\ J.block = instr[i].block
      /\ J.legs = instr[i].legs /\ J.legStatus = instr[i].legStatus /\ J.aff = instr[i].aff
      /\ J.received = instr[i].received /\ J.offchain = instr[i].offchain /\ J.med = instr[i].med
      /\ J.expiry = instr[i].expiry /\ J.pending = instr[i].pending
  BY <1>2, SMTT(60)
<1>4. instr' = [instr EXCEPT ![i] = J] /\ agenda' = [agenda EXCEPT ![i] = 0]
      /\ UNCHANGED <<counter, venueInstructions, receiptsUsed, now, phase>>
  BY <1>2 DEF FailScheduled
<1> HIDE <1>2
<1>5. InstructionSound(J)
  <2>1. IsInstruction(J)
    BY <1>1, <1>3 DEF InstructionSound, IsInstruction
  <2>2. CountExact(J)
    BY <1>1, <1>3 DEF InstructionSound, CountExact, WaitingPortfolios, WaitingLegs, WaitingMediators
  <2>3. LegsSound(J.legs) /\ LegsFollow(J)
    BY <1>1, <1>3 DEF InstructionSound, LegsFollow
  <2>4. PartiesAffirm(J)
    BY <1>1, <1>3 DEF InstructionSound, PartiesAffirm
  <2> QED BY <1>3, <2>1, <2>2, <2>3, <2>4 DEF InstructionSound
<1>6. agenda' \in [Ids -> Nat] /\ (\A j \in Ids \ {i} : agenda'[j] = agenda[j]) /\ AgendaFits(J, agenda'[i])
  BY <1>3, <1>4 DEF BooksInv, AgendaFits
<1>7. /\ counter' \in 1..(MaxInstructions + 1) /\ counter <= counter' /\ i < counter'
      /\ receiptsUsed \subseteq receiptsUsed' /\ receiptsUsed' \subseteq Receipts
  BY <1>1, <1>4, SMTT(60) DEF BooksInv
<1>8. venueInstructions' = (venueInstructions \ {<<instr[i].venue, i>>})
                             \cup (IF Stored(J) THEN {<<J.venue, i>>} ELSE {})
  <2>1. <<instr[i].venue, i>> \in venueInstructions <=> Stored(instr[i])
    BY ListedIffStored
  <2>2. Stored(J) <=> Stored(instr[i])
    BY <1>3 DEF Stored
  <2> QED BY <1>3, <1>4, <2>1, <2>2
<1>9. \A k \in LegIds : J.legStatus[k] \in Receipts =>
        /\ J.legStatus[k] \in receiptsUsed'
        /\ J.legStatus[k] = instr[i].legStatus[k] \/ J.legStatus[k] \notin receiptsUsed
        /\ \A m \in LegIds : J.legStatus[m] = J.legStatus[k] => m = k
  BY <1>3, <1>4, SMTT(60) DEF BooksInv, ReceiptBacksOneLeg
<1> QED BY <1>3, <1>4, <1>5, <1>6, <1>7, <1>8, <1>9, OneChanges

\* A number that was not given out yet gets an instruction.
LEMMA AddedSafe ==
    ASSUME BooksInv, NEW v \in Venues, NEW b \in Nat, counter \in Ids, NEW J, InstructionSound(J),
           J.status = "Pending", J.venue = v, J.block = b,
           \A k \in LegIds : J.legStatus[k] \notin Receipts,
           instr' = [instr EXCEPT ![counter] = J], counter' = counter + 1,
           venueInstructions' = venueInstructions \cup {<<v, counter>>},
           \/ J.kind = "SettleOnBlock" /\ agenda' = [agenda EXCEPT ![counter] = b]
           \/ J.kind # "SettleOnBlock" /\ agenda' = [agenda EXCEPT ![counter] = 0]
           \/ J.kind # "SettleOnBlock" /\ agenda' = MaybeScheduled(counter, J),
           UNCHANGED <<receiptsUsed, now, phase>>
    PROVE  BooksInv' /\ ConsentStep
<1>1. counter \in Nat /\ counter <= MaxInstructions /\ MaxInstructions \in Nat
  BY IdsAreNumbers
<1>2. ~Stored(instr[counter]) /\ agenda[counter] = 0 /\ instr[counter].venue = NoVenue
  <2>1. \A j \in Ids : j >= counter => ~Stored(instr[j]) /\ agenda[j] = 0
    BY DEF BooksInv
  <2>2. counter >= counter
    BY <1>1, SMTT(60)
  <2>3. ~Stored(instr[counter]) /\ agenda[counter] = 0
    BY <2>1, <2>2
  <2> QED BY <2>3 DEF Stored
<1>3. Stored(J)
  <2>1. v # NoVenue
    BY SettlementAssumption
  <2> QED BY <2>1 DEF Stored
<1>4. agenda' \in [Ids -> Nat] /\ (\A j \in Ids \ {counter} : agenda'[j] = agenda[j])
      /\ AgendaFits(J, agenda'[counter])
  <2>1. agenda \in [Ids -> Nat] /\ now + 1 \in Nat
    BY SMTT(60) DEF BooksInv
  <2> QED BY <1>2, <2>1 DEF MaybeScheduled, AgendaFits
<1>5. /\ counter' \in 1..(MaxInstructions + 1) /\ counter <= counter' /\ counter < counter'
      /\ receiptsUsed \subseteq receiptsUsed' /\ receiptsUsed' \subseteq Receipts
  BY <1>1, SMTT(60) DEF BooksInv, Ids
<1>6. venueInstructions' = (venueInstructions \ {<<instr[counter].venue, counter>>})
                             \cup (IF Stored(J) THEN {<<J.venue, counter>>} ELSE {})
  <2>1. <<instr[counter].venue, counter>> \notin venueInstructions
    BY <1>2, ListedIffStored
  <2> QED BY <1>3, <2>1
<1>7. PICK i \in Ids : i = counter
  OBVIOUS
<1> QED BY <1>4, <1>5, <1>6, <1>7, OneChanges

LEMMA AddNextSafe ==
    ASSUME SetsCounted, BooksInv, AddNext(Kinds, LegLists, PreApprovals, MediatorSets)
    PROVE  BooksInv' /\ ConsentStep
<1>1. PICK v \in Venues, kind \in Kinds, b \in 0..MaxBlock, ls \in LegLists, pre \in SUBSET PreApprovals,
           meds \in MediatorSets :
        \/ AddInstruction(v, kind, b, ls, pre, meds)
        \/ \E ps \in SUBSET Portfolios : AddAndAffirmInstruction(v, kind, b, ls, pre, meds, ps)
  BY DEF AddNext
<1>2. b \in Nat /\ meds \in SUBSET Identities
  BY SettlementAssumption, SMTT(60)
<1>3. PICK I : I = NewInstruction(v, kind, b, ls, pre, meds)
  OBVIOUS
<1>4. ASSUME CanAdd(v, kind, b, ls)
      PROVE  /\ counter \in Ids /\ InstructionSound(I)
             /\ I.status = "Pending" /\ I.venue = v /\ I.kind = kind /\ I.block = b /\ I.legs = ls
             /\ \A k \in LegIds : I.legStatus[k] \notin Receipts
  BY <1>2, <1>3, <1>4, NewInstructionSound, SMTT(60) DEF CanAdd
<1>5. CASE AddInstruction(v, kind, b, ls, pre, meds)
  <2>1. /\ CanAdd(v, kind, b, ls) /\ instr' = [instr EXCEPT ![counter] = I] /\ counter' = counter + 1
        /\ venueInstructions' = venueInstructions \cup {<<v, counter>>}
        /\ agenda' = [agenda EXCEPT ![counter] = IF kind = "SettleOnBlock" THEN b ELSE 0]
        /\ UNCHANGED <<receiptsUsed, now, phase>>
    BY <1>3, <1>5 DEF AddInstruction
  <2> HIDE <1>3
  <2> QED BY <1>2, <1>4, <2>1, AddedSafe
<1>6. ASSUME NEW ps \in SUBSET Portfolios, AddAndAffirmInstruction(v, kind, b, ls, pre, meds, ps)
      PROVE  BooksInv' /\ ConsentStep
  <2>1. PICK J : J = Affirmed(I, ps)
    OBVIOUS
  <2>2. /\ CanAdd(v, kind, b, ls) /\ \A p \in ps : I.aff[p] = "Pending"
        /\ instr' = [instr EXCEPT ![counter] = J] /\ counter' = counter + 1
        /\ venueInstructions' = venueInstructions \cup {<<v, counter>>}
        /\ agenda' = IF kind = "SettleOnBlock" THEN [agenda EXCEPT ![counter] = b] ELSE MaybeScheduled(counter, J)
        /\ UNCHANGED <<receiptsUsed, now, phase>>
    BY <1>3, <1>6, <2>1 DEF AddAndAffirmInstruction
  <2> HIDE <1>3
  <2>3. InstructionSound(J) /\ SameTerms(J, I) /\ SameReceipts(J, I)
    BY <1>4, <2>1, <2>2, AffirmedSound
  <2> HIDE <2>1
  <2>4. J.status = "Pending" /\ J.venue = v /\ J.kind = kind /\ J.block = b
    BY <1>4, <2>2, <2>3 DEF SameTerms
  <2>5. \A k \in LegIds : J.legStatus[k] \notin Receipts
    BY <1>4, <2>2, <2>3 DEF SameReceipts
  <2> QED BY <1>2, <1>4, <2>2, <2>3, <2>4, <2>5, AddedSafe
<1> QED BY <1>1, <1>5, <1>6

LEMMA BooksStep ==
    ASSUME SetsCounted
    PROVE  BooksInv /\ [Next]_vars => BooksInv' /\ [ConsentStep]_vars
<1> SUFFICES ASSUME BooksInv, [Next]_vars PROVE BooksInv' /\ ConsentStep
  OBVIOUS
<1>1. now \in Nat /\ phase \in {"init", "open"}
  BY DEF BooksInv
<1>2. ASSUME UNCHANGED <<instr, counter, venueInstructions, receiptsUsed, agenda, now, phase>>
      PROVE  BooksInv' /\ ConsentStep
  BY <1>1, <1>2, NoneChanges
<1>3. ASSUME NEW i \in Ids, RejectInstruction(i) PROVE BooksInv' /\ ConsentStep
  BY <1>3, PruneSafe DEF RejectInstruction
<1>4. ASSUME NEW i \in Ids, ExecuteManual(i) \/ ExecuteScheduled(i) PROVE BooksInv' /\ ConsentStep
  BY <1>4, PruneSafe DEF ExecuteManual, ExecuteScheduled, Execute, ReadyToExecute
<1>5. ASSUME VenueNext PROVE BooksInv' /\ ConsentStep
  BY <1>2, <1>5 DEF VenueNext, SetVenueFiltering, AllowVenues, DisallowVenues, UpdateVenueSigners
<1>6. ASSUME LedgerCall \/ UNCHANGED vars PROVE BooksInv' /\ ConsentStep
  BY <1>2, <1>6 DEF LedgerCall, vars, settlementVars
<1>7. ASSUME OpenBlock \/ NextBlock PROVE BooksInv' /\ ConsentStep
  BY <1>1, <1>7, NoneChanges, SMTT(60) DEF OpenBlock, NextBlock
<1> QED BY <1>3, <1>4, <1>5, <1>6, <1>7, AddNextSafe, AffirmNextSafe, MediatorNextSafe, FailScheduledSafe DEF Next

LEMMA BooksStart ==
    ASSUME SetsCounted, Init
    PROVE  BooksInv
<1>1. PICK N : N = NoInstruction
  OBVIOUS
<1>2. /\ N.status = "Unknown" /\ N.venue = NoVenue /\ N.kind = "SettleOnAffirmation" /\ N.block = 0
      /\ N.legs = <<>> /\ N.legStatus = [k \in LegIds |-> "PendingTokenLock"]
      /\ N.aff = [p \in Portfolios |-> "Unknown"] /\ N.received = {}
      /\ N.offchain = [k \in LegIds |-> "Unknown"] /\ N.med = [d \in Identities |-> "Unknown"]
      /\ N.expiry = [d \in Identities |-> 0] /\ N.pending = 0
  BY <1>1 DEF NoInstruction
<1>3. instr = [i \in Ids |-> N] /\ counter = 1 /\ venueInstructions = {} /\ receiptsUsed = {}
      /\ agenda = [i \in Ids |-> 0] /\ now = 1 /\ phase = "open"
  BY <1>1 DEF Init
<1> HIDE <1>1
<1>4. InstructionSound(N)
  <2>1. WaitingPortfolios(N) = {} /\ WaitingLegs(N) = {} /\ WaitingMediators(N) = {}
    BY <1>2 DEF WaitingPortfolios, WaitingLegs, WaitingMediators
  <2>2. CountExact(N)
    BY <1>2, <2>1, SMTT(60) DEF CountExact, SetsCounted
  <2>3. IsInstruction(N)
    BY <1>2, SMTT(60) DEF IsInstruction, SettlementKinds, AffirmationStatuses
  <2>4. LegsSound(N.legs) /\ LegsFollow(N) /\ Parties(N.legs) = {}
    BY <1>2, SMTT(60) DEF LegsSound, LegsFollow, Parties, SenderPortfolios, ReceiverPortfolios
  <2>5. PartiesAffirm(N)
    BY <1>2, <2>4 DEF PartiesAffirm
  <2> QED BY <1>2, <2>2, <2>3, <2>4, <2>5 DEF InstructionSound, Stored
<1>5. \A i \in Ids : /\ InstructionSound(instr[i]) /\ AgendaFits(instr[i], agenda[i])
                     /\ instr[i].status = "Unknown" /\ ~Stored(instr[i]) /\ agenda[i] = 0
  BY <1>2, <1>3, <1>4 DEF AgendaFits, Stored
<1>6. ReceiptBacksOneLeg
  <2>1. \A i \in Ids : \A k \in LegIds : instr[i].legStatus[k] = "PendingTokenLock"
    BY <1>2, <1>3, SMTT(60)
  <2> QED BY <2>1, StatusesAreNoReceipts DEF ReceiptBacksOneLeg
<1>7. VenueInstructionsExact
  <2>1. {j \in Ids : Stored(instr[j])} = {}
    BY <1>5
  <2> QED BY <1>3, <2>1 DEF VenueInstructionsExact
<1>8. counter \in 1..(MaxInstructions + 1) /\ agenda \in [Ids -> Nat] /\ DOMAIN instr = Ids
  BY <1>3, SettlementAssumption, SMTT(60)
<1> QED BY <1>3, <1>5, <1>6, <1>7, <1>8 DEF BooksInv

LEMMA BooksInvExact == BooksInv => InstructionBooksExact
<1> SUFFICES ASSUME BooksInv PROVE InstructionBooksExact
  OBVIOUS
<1>1. \A i \in Ids : InstructionSound(instr[i]) /\ AgendaFits(instr[i], agenda[i])
  BY DEF BooksInv
<1>2. SettlementTypeOK
  <2>1. \A i \in Ids : IsInstruction(instr[i])
    BY <1>1 DEF InstructionSound
  <2>2. venueInstructions \subseteq Venues \X Ids
    <3>1. \A i \in Ids : Stored(instr[i]) => instr[i].venue \in Venues
      BY <2>1 DEF IsInstruction, Stored
    <3> QED BY <3>1, SMTT(60) DEF BooksInv, VenueInstructionsExact
  <2> QED BY <2>1, <2>2 DEF SettlementTypeOK, BooksInv
<1>3. AffirmsPendingExact
  BY <1>1 DEF AffirmsPendingExact, InstructionSound, CountExact,
              WaitingPortfolios, WaitingLegs, WaitingMediators
<1>4. LegStatusMatchesAffirmation
  <2>1. ASSUME NEW i \in Ids, NEW k \in LegIds
        PROVE  instr[i].legStatus[k] \in Receipts <=> instr[i].legStatus[k] \in receiptsUsed
    BY DEF BooksInv, ReceiptBacksOneLeg
  <2>2. ASSUME NEW i \in Ids, NEW k \in DOMAIN instr[i].legs
        PROVE  IF OnChain(instr[i].legs[k])
               THEN instr[i].legStatus[k] = IF instr[i].aff[instr[i].legs[k].sender] = "Affirmed"
                                            THEN "ExecutionPending" ELSE "PendingTokenLock"
               ELSE instr[i].offchain[k] = "Affirmed" <=> instr[i].legStatus[k] \in receiptsUsed
    <3>1. k \in LegIds /\ LegsFollow(instr[i])
      BY <1>1 DEF InstructionSound, LegsSound
    <3> QED BY <2>1, <3>1 DEF LegsFollow
  <2>3. \A i \in Ids : PartiesAffirm(instr[i])
    BY <1>1 DEF InstructionSound
  <2> QED BY <2>2, <2>3 DEF LegStatusMatchesAffirmation, PartiesAffirm
<1>5. AgendaSound
  BY <1>1 DEF AgendaSound, AgendaFits
<1> QED BY <1>2, <1>3, <1>4, <1>5 DEF InstructionBooksExact, BooksInv

-----------------------------------------------------------------------------
(* Counting finite sets, and the theorems. *)

INSTANCE FiniteSetTheorems

LEMMA FiniteCounted ==
    ASSUME NEW S, IsFiniteSet(S)
    PROVE  Counted(S)
<1>1. Cardinality(S) \in Nat /\ (Cardinality(S) = 0 => S = {})
  BY FS_CardinalityType, FS_EmptySet
<1>2. ASSUME NEW T \in SUBSET S
      PROVE  /\ Cardinality(T) \in Nat /\ Cardinality(T) <= Cardinality(S)
             /\ Cardinality(S \ T) = Cardinality(S) - Cardinality(T)
  <2>1. S \cap T = T
    OBVIOUS
  <2>2. IsFiniteSet(T) /\ Cardinality(T) <= Cardinality(S)
    BY FS_Subset
  <2>3. Cardinality(S \ T) = Cardinality(S) - Cardinality(S \cap T)
    BY FS_Difference
  <2> QED BY <2>1, <2>2, <2>3, FS_CardinalityType
<1> QED BY <1>1, <1>2 DEF Counted

LEMMA SetsAreCounted == SetsCounted
<1>1. IsFiniteSet(Portfolios) /\ IsFiniteSet(Identities) /\ IsFiniteSet(LegIds)
  BY SettlementAssumption, FS_Interval, SMTT(60) DEF LegIds
<1>2. \A S : S \in SUBSET Portfolios \/ S \in SUBSET LegIds \/ S \in SUBSET Identities => IsFiniteSet(S)
  BY <1>1, FS_Subset
<1>3. Cardinality({}) = 0 /\ \A d \in Identities : Cardinality({d}) = 1
  BY FS_EmptySet, FS_Singleton
<1> QED BY <1>2, <1>3, FiniteCounted DEF SetsCounted

LEMMA BooksAlways == Spec => []BooksInv
<1>1. Init => BooksInv
  BY SetsAreCounted, BooksStart
<1>2. BooksInv /\ [Next]_vars => BooksInv'
  BY SetsAreCounted, BooksStep
<1> QED BY <1>1, <1>2, PTL DEF Spec

\* The count of missing affirmations, the marks on the legs, the records of who affirmed, the
\* receipts that are used up, the list of a venue's instructions and the scheduler's agenda
\* agree, whatever calls add, affirm, withdraw, reject, execute and fail instructions.
THEOREM InstructionBooksAlwaysExact == Spec => []InstructionBooksExact
<1>1. BooksInv => InstructionBooksExact
  BY BooksInvExact
<1> QED BY <1>1, BooksAlways, PTL

\* execute_instruction looks only at the count of missing affirmations, and that is enough: an
\* instruction succeeds only when every party and mediator has affirmed and every off-chain leg
\* has its receipt.
THEOREM SettledAlwaysWithConsent == Spec => SettledWithConsent
<1>1. BooksInv /\ [Next]_vars => [ConsentStep]_vars
  BY SetsAreCounted, BooksStep
<1>2. [ConsentStep]_vars =>
        [\A i \in Ids : Stored(instr[i]) /\ instr'[i].status = "Success" =>
          LET I == instr[i] IN
          /\ \A p \in Parties(I.legs) : I.aff[p] = "Affirmed"
          /\ \A k \in OffChainLegs(I.legs) : I.legStatus[k] \in receiptsUsed
          /\ \A d \in Identities : I.med[d] # "Pending"]_vars
  BY DEF ConsentStep, Consented
<1> QED BY <1>1, <1>2, BooksAlways, PTL DEF Spec, SettledWithConsent
=============================================================================
