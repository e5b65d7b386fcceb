--------------------------- MODULE MultiSigProofs ---------------------------
(***************************************************************************)
(* MSSpec => []SignersExact and MSSpec => MultisigChangesSafely, for any   *)
(* keys, identities, multisigs, proposals and lists of signers.            *)
(*                                                                         *)
(* The invariant has two halves, which only the execution of a proposal    *)
(* writes together: AccountInv about the signers (SignerProofs) and        *)
(* BallotInv about the votes: a proposal is counted from nothing because   *)
(* nobody voted on its number before.                                      *)
(***************************************************************************)
EXTENDS SignerProofs

\* Steps are Zenon's unless they cite the SMT solver.
USE ZenonT(60)

\* VotesCounted, of any ballots, and that only numbers given out are proposals.
BallotsSound(B) ==
    /\ B \in Ballots
    /\ \A m \in MultiSigs, p \in ProposalNumbers :
         B.details[m][p].approvals + B.details[m][p].rejections
           = Cardinality({k \in KeySet : <<m, p, k>> \in B.votes})
    /\ \A m \in MultiSigs, p \in ProposalNumbers :
         B.details[m][p].status # "Invalid" => p < B.txDone[m]
    /\ \A m \in MultiSigs, p \in ProposalNumbers, k \in KeySet :
         <<m, p, k>> \in B.votes => p < B.txDone[m]

BallotInv == BallotsSound(ballots) /\ agenda \subseteq MultiSigs \X ProposalNumbers /\ RunsOnce

\* Only a multisig that was created has proposals.
ProposalsHaveCreators ==
    \A m \in MultiSigs, p \in ProposalNumbers : Status(m, p) # "Invalid" => Creator(m) # NoDid

MSInv ==
    /\ AccountInv /\ BallotInv /\ ProposalsHaveCreators
    /\ lostCreatorPrivileges \subseteq Dids /\ late \in BOOLEAN

-----------------------------------------------------------------------------
(* Proposals and votes. *)

LEMMA BallotFields ==
    ASSUME NEW B \in Ballots
    PROVE  /\ B.details \in [MultiSigs -> [ProposalNumbers -> Details]]
           /\ B.votes \in SUBSET (MultiSigs \X ProposalNumbers \X KeySet)
           /\ B.ids \in [MultiSigs -> [Calls -> 0..MaxProposals]]
           /\ B.txDone \in [MultiSigs -> 0..MaxProposals]
BY DEF Ballots

\* A vote of a key that did not vote on a proposal is counted once.
LEMMA VoteCounted ==
    ASSUME KeysCounted, NEW B, BallotsSound(B), NEW k \in KeySet, NEW m \in MultiSigs, NEW p \in ProposalNumbers,
           <<m, p, k>> \notin B.votes, B.details[m][p].status # "Invalid", NEW detail \in Details,
           detail.approvals + detail.rejections = B.details[m][p].approvals + B.details[m][p].rejections + 1
    PROVE  BallotsSound(Voted(B, k, m, p, detail))
<1>1. PICK V : V = Voted(B, k, m, p, detail)
  OBVIOUS
<1>2. /\ V.details = [B.details EXCEPT ![m][p] = detail] /\ V.votes = B.votes \cup {<<m, p, k>>}
      /\ V.ids = B.ids /\ V.txDone = B.txDone
      /\ V = [details |-> V.details, votes |-> V.votes, ids |-> V.ids, txDone |-> V.txDone]
  BY <1>1 DEF Voted
<1>3. B \in Ballots
  BY DEF BallotsSound
<1>4. V.details \in [MultiSigs -> [ProposalNumbers -> Details]]
  BY <1>2, <1>3, BallotFields, SMTT(60)
<1>5. V \in Ballots
  <2>1. V.votes \in SUBSET (MultiSigs \X ProposalNumbers \X KeySet)
    BY <1>2, <1>3, BallotFields, SMTT(60)
  <2>2. V.ids \in [MultiSigs -> [Calls -> 0..MaxProposals]] /\ V.txDone \in [MultiSigs -> 0..MaxProposals]
    BY <1>2, <1>3, BallotFields
  <2> QED BY <1>2, <1>4, <2>1, <2>2 DEF Ballots
<1>6. \A n \in MultiSigs, q \in ProposalNumbers :
         V.details[n][q] = IF n = m /\ q = p THEN detail ELSE B.details[n][q]
  BY <1>2, <1>3, BallotFields, SMTT(60)
<1>7. p < B.txDone[m]
  BY DEF BallotsSound
<1>8. ASSUME NEW n \in MultiSigs, NEW q \in ProposalNumbers
      PROVE  V.details[n][q].approvals + V.details[n][q].rejections
               = Cardinality({j \in KeySet : <<n, q, j>> \in V.votes})
  <2>1. PICK voters : voters = {j \in KeySet : <<n, q, j>> \in B.votes}
    OBVIOUS
  <2>2. B.details[n][q].approvals + B.details[n][q].rejections = Cardinality(voters)
    BY <2>1 DEF BallotsSound
  <2>3. CASE n = m /\ q = p
    <3>1. {j \in KeySet : <<n, q, j>> \in V.votes} = voters \cup {k} /\ k \notin voters
      BY <1>2, <2>1, <2>3
    <3>2. voters \in SUBSET KeySet
      BY <2>1
    <3>3. Cardinality(voters \cup {k}) = Cardinality(voters) + 1
      BY <3>1, <3>2 DEF KeysCounted
    <3> QED BY <1>6, <2>2, <2>3, <3>1, <3>3
  <2>4. CASE ~(n = m /\ q = p)
    <3>1. {j \in KeySet : <<n, q, j>> \in V.votes} = voters
      BY <1>2, <2>1, <2>4
    <3> QED BY <1>6, <2>2, <2>4, <3>1
  <2> QED BY <2>3, <2>4
<1>9. \A n \in MultiSigs, q \in ProposalNumbers : V.details[n][q].status # "Invalid" => q < V.txDone[n]
  BY <1>2, <1>6, <1>7 DEF BallotsSound
<1>10. ASSUME NEW n \in MultiSigs, NEW q \in ProposalNumbers, NEW j \in KeySet, <<n, q, j>> \in V.votes
       PROVE  q < V.txDone[n]
  <2>1. CASE <<n, q, j>> \in B.votes
    BY <1>2, <2>1 DEF BallotsSound
  <2>2. CASE <<n, q, j>> = <<m, p, k>>
    BY <1>2, <1>7, <2>2
  <2> QED BY <1>2, <1>10, <2>1, <2>2
<1>11. BallotsSound(V)
  BY <1>5, <1>8, <1>9, <1>10 DEF BallotsSound
<1> QED BY <1>1, <1>11

\* A vote for a proposal of ballots B, which are the ballots there are but for this proposal.
LEMMA UnsafeApproveSafe ==
    ASSUME KeysCounted, BallotInv, NEW B, BallotsSound(B), NEW k \in KeySet, NEW m \in MultiSigs, NEW p \in ProposalNumbers,
           \A n \in MultiSigs, q \in ProposalNumbers :
             ~(n = m /\ q = p) => B.details[n][q] = ballots.details[n][q],
           UnsafeApprove(B, k, m, p)
    PROVE  BallotInv' /\ \A n \in MultiSigs, q \in ProposalNumbers :
                           ballots'.details[n][q].status = B.details[n][q].status
<1>1. PICK d : d = B.details[m][p]
  OBVIOUS
<1>2. PICK detail : detail = [d EXCEPT !.approvals = d.approvals + 1]
  OBVIOUS
<1>3. B \in Ballots /\ d \in Details
  BY <1>1, BallotFields DEF BallotsSound
<1>4. /\ <<m, p, k>> \notin B.votes /\ d.status = "ActiveOrExpired"
      /\ ballots' = Voted(B, k, m, p, detail)
      /\ agenda' \in {agenda, agenda \cup {<<m, p>>}}
  BY <1>1, <1>2 DEF UnsafeApprove, CanVote
<1>5. /\ detail \in Details /\ detail.status = d.status
      /\ detail.approvals + detail.rejections = d.approvals + d.rejections + 1
  BY <1>2, <1>3, SMTT(60) DEF Details
<1>6. BallotsSound(ballots')
  BY <1>1, <1>4, <1>5, VoteCounted
<1>7. ballots'.details = [B.details EXCEPT ![m][p] = detail]
  BY <1>4 DEF Voted
<1>8. \A n \in MultiSigs, q \in ProposalNumbers :
        /\ ballots'.details[n][q] = IF n = m /\ q = p THEN detail ELSE B.details[n][q]
        /\ ballots'.details[n][q].status = B.details[n][q].status
  BY <1>1, <1>3, <1>5, <1>7, BallotFields, SMTT(60)
<1>9. agenda' \subseteq MultiSigs \X ProposalNumbers
  BY <1>4, SMTT(60) DEF BallotInv
<1>10. RunsOnce'
  <2>1. SUFFICES ASSUME NEW n \in MultiSigs, NEW q \in ProposalNumbers, <<n, q>> \in agenda'
                 PROVE  ballots'.details[n][q].status \notin Executed
    BY DEF RunsOnce, Status
  <2>2. CASE n = m /\ q = p
    BY <1>1, <1>4, <1>8, <2>2 DEF Executed
  <2>3. CASE ~(n = m /\ q = p)
    <3>1. <<n, q>> \in agenda /\ ballots'.details[n][q] = ballots.details[n][q]
      BY <1>4, <1>8, <2>1, <2>3, SMTT(60)
    <3> QED BY <3>1 DEF BallotInv, RunsOnce, Status
  <2> QED BY <2>2, <2>3
<1> QED BY <1>6, <1>8, <1>9, <1>10 DEF BallotInv

LEMMA ApproveSafe ==
    ASSUME KeysCounted, BallotInv, NEW k \in KeySet, NEW m \in MultiSigs, NEW p \in ProposalNumbers, Approve(k, m, p)
    PROVE  BallotInv' /\ \A n \in MultiSigs, q \in ProposalNumbers : Status(n, q)' = Status(n, q)
<1>1. UnsafeApprove(ballots, k, m, p) /\ BallotsSound(ballots)
  BY DEF Approve, BallotInv
<1>2. PICK B : B = ballots
  OBVIOUS
<1>3. /\ UnsafeApprove(B, k, m, p) /\ BallotsSound(B)
      /\ \A n \in MultiSigs, q \in ProposalNumbers :
           ~(n = m /\ q = p) => B.details[n][q] = ballots.details[n][q]
  BY <1>1, <1>2
<1>4. BallotInv' /\ \A n \in MultiSigs, q \in ProposalNumbers :
                      ballots'.details[n][q].status = B.details[n][q].status
  <2> HIDE <1>2
  <2> QED BY <1>3, UnsafeApproveSafe, SMTT(60)
<1> QED BY <1>2, <1>4 DEF Status

LEMMA CreateProposalSafe ==
    ASSUME KeysCounted, BallotInv, NEW k \in KeySet, NEW m \in MultiSigs, NEW c \in Calls, NEW e \in BOOLEAN,
           NEW z \in BOOLEAN, NEW byCall \in BOOLEAN, CreateProposal(k, m, c, e, z, byCall)
    PROVE  /\ BallotInv' /\ k \in Signers(m)
           /\ \A n \in MultiSigs, q \in ProposalNumbers : Status(n, q)' # Status(n, q) => n = m
<1>1. PICK p \in ProposalNumbers : p = ballots.txDone[m]
  BY DEF CreateProposal
<1>2. PICK detail : detail = [call |-> c, status |-> "ActiveOrExpired", approvals |-> 0, rejections |-> 0,
                              expires |-> e, autoClose |-> z]
  OBVIOUS
<1>3. PICK B : B = [details |-> [ballots.details EXCEPT ![m][p] = detail], votes |-> ballots.votes,
                    ids |-> IF byCall THEN [ballots.ids EXCEPT ![m][c] = p] ELSE ballots.ids,
                    txDone |-> [ballots.txDone EXCEPT ![m] = p + 1]]
  OBVIOUS
<1>4. UnsafeApprove(B, k, m, p)
  BY <1>1, <1>2, <1>3 DEF CreateProposal
<1>5. /\ B.details = [ballots.details EXCEPT ![m][p] = detail] /\ B.votes = ballots.votes
      /\ B.ids = IF byCall THEN [ballots.ids EXCEPT ![m][c] = p] ELSE ballots.ids
      /\ B.txDone = [ballots.txDone EXCEPT ![m] = p + 1]
      /\ B = [details |-> B.details, votes |-> B.votes, ids |-> B.ids, txDone |-> B.txDone]
  BY <1>3
<1>6. ballots \in Ballots /\ BallotsSound(ballots)
  BY DEF BallotInv, BallotsSound
<1>7. detail \in Details /\ detail.approvals = 0 /\ detail.rejections = 0
  BY <1>2 DEF Details, Statuses
<1>8. p \in 0..MaxProposals /\ p + 1 \in 0..MaxProposals /\ p < p + 1
  BY <1>1, ConstantSorts, SMTT(60) DEF ProposalNumbers
<1>9. \A n \in MultiSigs, q \in ProposalNumbers :
        B.details[n][q] = IF n = m /\ q = p THEN detail ELSE ballots.details[n][q]
  BY <1>5, <1>6, BallotFields, SMTT(60)
<1>10. \A n \in MultiSigs : B.txDone[n] = IF n = m THEN p + 1 ELSE ballots.txDone[n]
  BY <1>5, <1>6, BallotFields
<1>11. BallotsSound(B)
  <2>1. B.details \in [MultiSigs -> [ProposalNumbers -> Details]]
    BY <1>5, <1>6, <1>7, BallotFields, SMTT(60)
  <2>2. B.ids \in [MultiSigs -> [Calls -> 0..MaxProposals]]
    BY <1>5, <1>6, <1>8, BallotFields, SMTT(60)
  <2>3. B.txDone \in [MultiSigs -> 0..MaxProposals] /\ B.votes \in SUBSET (MultiSigs \X ProposalNumbers \X KeySet)
    BY <1>5, <1>6, <1>8, BallotFields, SMTT(60)
  <2>4. B \in Ballots
    BY <1>5, <2>1, <2>2, <2>3 DEF Ballots
  <2>5. \A n \in MultiSigs, q \in ProposalNumbers : q \in Int /\ (q < ballots.txDone[n] => q < B.txDone[n])
    BY <1>1, <1>8, <1>10, ConstantSorts, SMTT(60) DEF ProposalNumbers
  <2>6. ASSUME NEW n \in MultiSigs, NEW q \in ProposalNumbers
        PROVE  B.details[n][q].approvals + B.details[n][q].rejections
                 = Cardinality({j \in KeySet : <<n, q, j>> \in B.votes})
    <3>1. CASE n = m /\ q = p
      <4>1. ~(p < p)
        BY <1>8, SMTT(60)
      <4>2. {j \in KeySet : <<n, q, j>> \in B.votes} = {}
        BY <1>1, <1>5, <1>6, <3>1, <4>1 DEF BallotsSound
      <4>3. Cardinality({j \in KeySet : <<n, q, j>> \in B.votes}) = 0
        BY <4>2 DEF KeysCounted
      <4>4. B.details[n][q] = detail
        BY <1>9, <3>1
      <4> QED BY <1>7, <4>3, <4>4, SMTT(60)
    <3>2. CASE ~(n = m /\ q = p)
      BY <1>5, <1>6, <1>9, <3>2, SMTT(60) DEF BallotsSound
    <3> QED BY <3>1, <3>2
  <2>7. \A n \in MultiSigs, q \in ProposalNumbers : B.details[n][q].status # "Invalid" => q < B.txDone[n]
    BY <1>6, <1>8, <1>9, <1>10, <2>5 DEF BallotsSound
  <2>8. \A n \in MultiSigs, q \in ProposalNumbers, j \in KeySet : <<n, q, j>> \in B.votes => q < B.txDone[n]
    BY <1>5, <1>6, <2>5 DEF BallotsSound
  <2> QED BY <2>4, <2>6, <2>7, <2>8 DEF BallotsSound
<1>12. \A n \in MultiSigs, q \in ProposalNumbers :
         ~(n = m /\ q = p) => B.details[n][q] = ballots.details[n][q]
  BY <1>9
<1>13. BallotInv' /\ \A n \in MultiSigs, q \in ProposalNumbers :
                       ballots'.details[n][q].status = B.details[n][q].status
  <2> HIDE <1>3
  <2> QED BY <1>4, <1>11, <1>12, UnsafeApproveSafe, SMTT(60)
<1>14. \A n \in MultiSigs, q \in ProposalNumbers : Status(n, q)' # Status(n, q) => n = m
  BY <1>12, <1>13, SMTT(60) DEF Status
<1>15. k \in Signers(m)
  BY <1>4 DEF UnsafeApprove, CanVote, SignedBySigner
<1> QED BY <1>13, <1>14, <1>15

LEMMA RejectSafe ==
    ASSUME KeysCounted, BallotInv, NEW k \in KeySet, NEW m \in MultiSigs, NEW p \in ProposalNumbers, Reject(k, m, p)
    PROVE  BallotInv' /\ \A n \in MultiSigs, q \in ProposalNumbers :
                           Status(n, q)' # Status(n, q) => Status(n, q) # "Invalid"
<1>1. PICK d : d = ballots.details[m][p]
  OBVIOUS
<1>2. PICK status \in {d.status, "Rejected"} :
         ballots' = Voted(ballots, k, m, p,
                          [call |-> d.call, status |-> status, approvals |-> d.approvals,
                           rejections |-> d.rejections + 1, expires |-> d.expires, autoClose |-> d.autoClose])
  BY <1>1 DEF Reject
<1>3. PICK detail : detail = [call |-> d.call, status |-> status, approvals |-> d.approvals,
                              rejections |-> d.rejections + 1, expires |-> d.expires, autoClose |-> d.autoClose]
  OBVIOUS
<1>4. <<m, p, k>> \notin ballots.votes /\ d.status = "ActiveOrExpired" /\ UNCHANGED agenda
  BY <1>1 DEF Reject, CanVote
<1>5. BallotsSound(ballots) /\ ballots \in Ballots /\ d \in Details
  BY <1>1, BallotFields, SMTT(60) DEF BallotInv, BallotsSound
<1>6. /\ detail \in Details /\ detail.status \in {"ActiveOrExpired", "Rejected"}
      /\ detail.approvals + detail.rejections = d.approvals + d.rejections + 1
  BY <1>2, <1>3, <1>4, <1>5, SMTT(60) DEF Details, Statuses
<1>7. ballots' = Voted(ballots, k, m, p, detail)
  BY <1>2, <1>3
<1>8. BallotsSound(ballots')
  <2> HIDE <1>3
  <2> QED BY <1>1, <1>4, <1>5, <1>6, <1>7, VoteCounted
<1>9. ballots'.details = [ballots.details EXCEPT ![m][p] = detail]
  BY <1>7 DEF Voted
<1>10. \A n \in MultiSigs, q \in ProposalNumbers :
         ballots'.details[n][q] = IF n = m /\ q = p THEN detail ELSE ballots.details[n][q]
  BY <1>5, <1>9, BallotFields, SMTT(60)
<1>11. RunsOnce'
  BY <1>4, <1>6, <1>10, SMTT(60) DEF BallotInv, RunsOnce, Status, Executed
<1>12. \A n \in MultiSigs, q \in ProposalNumbers : Status(n, q)' # Status(n, q) => Status(n, q) # "Invalid"
  BY <1>1, <1>4, <1>10 DEF Status
<1> QED BY <1>4, <1>8, <1>11, <1>12 DEF BallotInv

\* The task of a proposal is done with it when the proposal is executed.
LEMMA SetStatusSafe ==
    ASSUME BallotInv, NEW m \in MultiSigs, NEW p \in ProposalNumbers, NEW s \in Executed,
           Status(m, p) # "Invalid", SetStatus(m, p, s), agenda' = agenda \ {<<m, p>>}
    PROVE  BallotInv' /\ \A n \in MultiSigs, q \in ProposalNumbers :
                           Status(n, q)' # Status(n, q) => Status(n, q) # "Invalid"
<1>1. BallotsSound(ballots) /\ ballots \in Ballots
  BY DEF BallotInv, BallotsSound
<1>2. PICK d \in Details : d = ballots.details[m][p]
  BY <1>1, BallotFields, SMTT(60)
<1>3. PICK detail : detail = [d EXCEPT !.status = s]
  OBVIOUS
<1>4. /\ detail \in Details /\ detail.status = s
      /\ detail.approvals = d.approvals /\ detail.rejections = d.rejections
  BY <1>2, <1>3 DEF Details, Executed, Statuses
<1>5. /\ ballots'.details = [ballots.details EXCEPT ![m][p] = detail]
      /\ ballots'.votes = ballots.votes /\ ballots'.ids = ballots.ids /\ ballots'.txDone = ballots.txDone
      /\ ballots' = [details |-> ballots'.details, votes |-> ballots'.votes, ids |-> ballots'.ids,
                     txDone |-> ballots'.txDone]
  BY <1>1, <1>2, <1>3 DEF SetStatus, Ballots
<1>6. ballots'.details \in [MultiSigs -> [ProposalNumbers -> Details]]
  BY <1>1, <1>4, <1>5, BallotFields, SMTT(60)
<1>7. ballots' \in Ballots
  BY <1>1, <1>5, <1>6, BallotFields DEF Ballots
<1>8. \A n \in MultiSigs, q \in ProposalNumbers :
        ballots'.details[n][q] = IF n = m /\ q = p THEN detail ELSE ballots.details[n][q]
  BY <1>1, <1>5, BallotFields, SMTT(60)
<1>9. \A n \in MultiSigs, q \in ProposalNumbers :
        ballots'.details[n][q].approvals + ballots'.details[n][q].rejections
          = Cardinality({k \in KeySet : <<n, q, k>> \in ballots'.votes})
  BY <1>1, <1>2, <1>4, <1>5, <1>8, SMTT(60) DEF BallotsSound
<1>10. \A n \in MultiSigs, q \in ProposalNumbers :
         ballots'.details[n][q].status # "Invalid" => q < ballots'.txDone[n]
  BY <1>1, <1>5, <1>8 DEF BallotsSound, Status
<1>11. BallotsSound(ballots')
  BY <1>1, <1>5, <1>7, <1>9, <1>10 DEF BallotsSound
<1>12. RunsOnce' /\ agenda' \subseteq MultiSigs \X ProposalNumbers
  BY <1>8, SMTT(60) DEF BallotInv, RunsOnce, Status
<1>13. \A n \in MultiSigs, q \in ProposalNumbers : Status(n, q)' # Status(n, q) => Status(n, q) # "Invalid"
  BY <1>8 DEF Status
<1> QED BY <1>11, <1>12, <1>13 DEF BallotInv

\* No proposals and no votes.
LEMMA NoBallots ==
    ASSUME KeysCounted, NEW B, NEW t \in [MultiSigs -> 0..MaxProposals],
           B = [details |-> [m \in MultiSigs |-> [p \in ProposalNumbers |-> Invalid]], votes |-> {},
                ids |-> [m \in MultiSigs |-> [c \in Calls |-> NoProposal]], txDone |-> t]
    PROVE  BallotsSound(B) /\ \A m \in MultiSigs, p \in ProposalNumbers : B.details[m][p].status = "Invalid"
<1>1. Invalid \in Details /\ Invalid.approvals = 0 /\ Invalid.rejections = 0 /\ Invalid.status = "Invalid"
  BY DEF Invalid, Details, Statuses
<1>2. NoProposal \in 0..MaxProposals
  BY ConstantSorts, SMTT(60) DEF NoProposal
<1> HIDE DEF Invalid, NoProposal
<1>3. B \in Ballots
  BY <1>1, <1>2 DEF Ballots
<1>4. \A m \in MultiSigs, p \in ProposalNumbers : B.details[m][p] = Invalid
  OBVIOUS
<1>5. \A m \in MultiSigs, p \in ProposalNumbers : {k \in KeySet : <<m, p, k>> \in B.votes} = {}
  OBVIOUS
<1>6. \A m \in MultiSigs, p \in ProposalNumbers : Cardinality({k \in KeySet : <<m, p, k>> \in B.votes}) = 0
  BY <1>5 DEF KeysCounted
<1>7. \A m, p, k : <<m, p, k>> \notin B.votes
  OBVIOUS
<1>8. \A m \in MultiSigs, p \in ProposalNumbers :
        /\ B.details[m][p].approvals + B.details[m][p].rejections
             = Cardinality({k \in KeySet : <<m, p, k>> \in B.votes})
        /\ B.details[m][p].status = "Invalid"
  <2>1. 0 + 0 = 0
    BY SMTT(60)
  <2> QED BY <1>1, <1>4, <1>6, <2>1
<1> QED BY <1>3, <1>7, <1>8 DEF BallotsSound

-----------------------------------------------------------------------------
(* The steps of the whole. *)

LEMMA BothHalves ==
    ASSUME MSInv, SafeStep, BallotInv', lostCreatorPrivileges' \subseteq Dids, late' \in BOOLEAN,
           \A m \in MultiSigs, p \in ProposalNumbers :
             ballots'.details[m][p].status # ballots.details[m][p].status =>
               ballots.details[m][p].status # "Invalid" \/ Creator(m) # NoDid
    PROVE  MSInv'
<1>1. ASSUME NEW m \in MultiSigs, NEW p \in ProposalNumbers, ballots'.details[m][p].status # "Invalid"
      PROVE  Creator(m)' # NoDid
  <2>1. Creator(m) # NoDid
    BY <1>1 DEF MSInv, ProposalsHaveCreators, Status
  <2> QED BY <2>1 DEF SafeStep, CreatorStep
<1>2. ProposalsHaveCreators'
  BY <1>1 DEF ProposalsHaveCreators, Status
<1> QED BY <1>2 DEF MSInv, SafeStep

LEMMA KeepBallots ==
    ASSUME MSInv, SafeStep, UNCHANGED <<ballots, agenda>>, lostCreatorPrivileges' \subseteq Dids, late' \in BOOLEAN
    PROVE  MSInv'
<1>1. BallotInv'
  BY DEF MSInv, BallotInv, RunsOnce, Status
<1> QED BY <1>1, BothHalves

LEMMA SignerCallSafe ==
    ASSUME KeysCounted, MSInv, NEW k \in KeySet, NEW m \in MultiSigs, SignerCall(k, m)
    PROVE  MSInv' /\ SafeStep
<1>1. BallotInv /\ AccountInv
  BY DEF MSInv
<1>2. ASSUME UNCHANGED <<keyVars, accounts, lostCreatorPrivileges, late>>, BallotInv',
             \A n \in MultiSigs, p \in ProposalNumbers :
               ballots'.details[n][p].status # ballots.details[n][p].status =>
                 ballots.details[n][p].status # "Invalid" \/ Creator(n) # NoDid
      PROVE  MSInv' /\ SafeStep
  <2>1. SafeStep
    BY <1>1, <1>2, KeysNextSafe
  <2> QED BY <1>2, <2>1, BothHalves DEF MSInv
<1>3. ASSUME NEW p \in ProposalNumbers, Approve(k, m, p) PROVE MSInv' /\ SafeStep
  <2>1. BallotInv' /\ \A n \in MultiSigs, q \in ProposalNumbers :
                        ballots'.details[n][q].status = ballots.details[n][q].status
    BY <1>1, <1>3, ApproveSafe DEF Status
  <2>2. UNCHANGED <<keyVars, accounts, lostCreatorPrivileges, late>>
    BY <1>3 DEF Approve, UnsafeApprove
  <2> QED BY <1>2, <2>1, <2>2
<1>4. ASSUME NEW p \in ProposalNumbers, Reject(k, m, p) PROVE MSInv' /\ SafeStep
  <2>1. BallotInv' /\ \A n \in MultiSigs, q \in ProposalNumbers :
                        ballots'.details[n][q].status # ballots.details[n][q].status =>
                          ballots.details[n][q].status # "Invalid"
    BY <1>1, <1>4, RejectSafe DEF Status
  <2>2. UNCHANGED <<keyVars, accounts, lostCreatorPrivileges, late>>
    BY <1>4 DEF Reject
  <2> QED BY <1>2, <2>1, <2>2
<1>5. ASSUME NEW c \in Calls, NEW e \in Expiries, NEW z \in BOOLEAN, NEW byCall \in BOOLEAN,
             CreateProposal(k, m, c, e, z, byCall)
      PROVE  MSInv' /\ SafeStep
  <2>1. /\ BallotInv' /\ k \in Signers(m)
        /\ \A n \in MultiSigs, q \in ProposalNumbers :
             ballots'.details[n][q].status # ballots.details[n][q].status => n = m
    <3>1. e \in BOOLEAN
      BY MultiSigAssumption
    <3> QED BY <1>1, <1>5, <3>1, CreateProposalSafe, SMTT(60) DEF Status
  <2>2. Creator(m) # NoDid
    BY <1>1, <2>1 DEF AccountInv, CreatorsExist
  <2>3. UNCHANGED <<keyVars, accounts, lostCreatorPrivileges, late>>
    BY <1>5 DEF CreateProposal, UnsafeApprove
  <2> QED BY <1>2, <2>1, <2>2, <2>3
<1>6. ASSUME NEW c \in Calls, NEW e \in Expiries, NEW z \in BOOLEAN, CreateOrApproveProposal(k, m, c, e, z)
      PROVE  MSInv' /\ SafeStep
  <2>1. ballots.ids[m][c] \in 0..MaxProposals
    BY <1>1, BallotFields, SMTT(60) DEF BallotInv, BallotsSound
  <2>2. CASE ballots.ids[m][c] # NoProposal
    <3>1. ballots.ids[m][c] \in ProposalNumbers
      BY <2>1, <2>2, ConstantSorts, SMTT(60) DEF NoProposal, ProposalNumbers
    <3> QED BY <1>3, <1>6, <2>2, <3>1 DEF CreateOrApproveProposal
  <2>3. CASE ballots.ids[m][c] = NoProposal
    BY <1>5, <1>6, <2>3 DEF CreateOrApproveProposal
  <2> QED BY <2>2, <2>3
<1> QED BY <1>3, <1>4, <1>5, <1>6 DEF SignerCall

LEMMA CreatorCallSafe ==
    ASSUME KeysCounted, MSInv, NEW k \in KeySet, NEW m \in MultiSigs, CreatorCall(k, m)
    PROVE  MSInv' /\ SafeStep
<1>1. AccountInv /\ lostCreatorPrivileges \subseteq Dids /\ late \in BOOLEAN
  BY DEF MSInv
<1>2. ASSUME SafeStep, UNCHANGED <<ballots, agenda, lostCreatorPrivileges, late>> PROVE MSInv' /\ SafeStep
  BY <1>1, <1>2, KeepBallots
<1>3. ASSUME NEW s \in Invitees, CreateMultisig(k, m, s) PROVE MSInv' /\ SafeStep
  BY <1>1, <1>2, <1>3, CreateMultisigSafe DEF CreateMultisig
<1>4. ASSUME NEW s \in Invitees, AddMultisigSignersViaCreator(k, m, s) PROVE MSInv' /\ SafeStep
  <2>1. PICK d : d = Creator(m)
    OBVIOUS
  <2>2. d # NoDid /\ AddAuth(d, s, <<"AddMultiSigSigner", m>>)
    BY <1>4, <2>1 DEF AddMultisigSignersViaCreator, HasCreatorControls, EnsureMsCreator, InviteSigner
  <2>3. UNCHANGED <<links, parentDid, childDid, frozenDids, refCount, consents, cdd, cddRotation>>
    BY <1>4 DEF AddMultisigSignersViaCreator
  <2>4. d \in Dids /\ Exists(d) /\ s \in KeySet
    BY <1>1, <2>1, <2>2, AccountFields, ConstantSorts DEF AccountInv, CreatorsExist, Creator
  <2>5. KeysInv' /\ Grows /\ SignersStay /\ InvitesSound'
    BY <1>1, <2>2, <2>3, <2>4, InviteSafe
  <2>6. UNCHANGED accounts /\ UNCHANGED <<ballots, agenda, lostCreatorPrivileges, late>>
    BY <1>4 DEF AddMultisigSignersViaCreator, msVars
  <2>7. SafeStep
    BY <1>1, <2>5, <2>6, KeepAccounts
  <2> QED BY <1>2, <2>6, <2>7
<1>5. ASSUME NEW l \in RemovalLists, RemoveMultisigSignersViaCreator(k, m, l) PROVE MSInv' /\ SafeStep
  <2>1. PICK ks : ks = {l[i] : i \in DOMAIN l}
    OBVIOUS
  <2>2. Cardinality(ks) = Len(l)
    BY <2>1 DEF KeysCounted
  <2>3. /\ IsChangingSignersAllowed(m) /\ ks \in SUBSET Signers(m)
        /\ accounts.number[m] >= Len(l) + accounts.required[m]
        /\ RemoveSigners(m, ks, accounts.number[m] - Len(l))
        /\ UNCHANGED <<ballots, agenda, lostCreatorPrivileges, late>>
    BY <1>5, <2>1 DEF RemoveMultisigSignersViaCreator
  <2>4. SafeStep
    BY <1>1, <2>2, <2>3, RemoveSignersSafe
  <2> QED BY <1>2, <2>3, <2>4
<1>6. ASSUME NEW n \in SigsRequired, ChangeSigsRequiredViaCreator(k, m, n) PROVE MSInv' /\ SafeStep
  BY <1>1, <1>2, <1>6, ChangedSigsSafe, ConstantSorts DEF ChangeSigsRequiredViaCreator
<1>7. ASSUME RemoveCreatorControls(k, m) PROVE MSInv' /\ SafeStep
  <2>1. lostCreatorPrivileges' = lostCreatorPrivileges \cup {Creator(m)} /\ Creator(m) \in Dids
    BY <1>1, <1>7, AccountFields DEF RemoveCreatorControls, EnsureMsCreator, AccountInv, Creator
  <2>2. lostCreatorPrivileges' \subseteq Dids /\ late' \in BOOLEAN
    BY <1>1, <1>7, <2>1 DEF RemoveCreatorControls
  <2>3. SafeStep
    BY <1>1, <1>7, KeysNextSafe DEF RemoveCreatorControls
  <2> QED BY <1>7, <2>2, <2>3, KeepBallots DEF RemoveCreatorControls
<1>8. ASSUME MakeMultisigSecondary(k, m) PROVE MSInv' /\ SafeStep
  BY <1>1, <1>2, <1>8, MakeMultisigSecondarySafe DEF MakeMultisigSecondary, msVars
<1>9. ASSUME NEW a \in AuthIds \cup {0}, MakeMultisigPrimary(k, m, a) PROVE MSInv' /\ SafeStep
  BY <1>1, <1>2, <1>9, MakeMultisigPrimarySafe DEF MakeMultisigPrimary, msVars
<1> QED BY <1>3, <1>4, <1>5, <1>6, <1>7, <1>8, <1>9 DEF CreatorCall

\* What a proposed call does to the signers, whether it succeeds or fails.
LEMMA DispatchSafe ==
    ASSUME KeysCounted, AccountInv, NEW m \in MultiSigs, Creator(m) # NoDid, NEW call \in Calls \cup {<<"None">>},
           Succeeds(m, call) \/ Fails(m, call)
    PROVE  SafeStep
<1>1. m \in KeySet
  BY ConstantSorts
<1>2. /\ call[1] \in {"AddSigner", "RemoveSigner"} => call[2] \in KeySet
      /\ call[1] = "ChangeSigs" => call[2] \in Nat
  BY CallShapes
<1>3. CASE Fails(m, call)
  BY <1>3, KeysNextSafe DEF Fails
<1>4. CASE call[1] = "Act" /\ KeyCall(m) /\ UNCHANGED accounts
  BY <1>1, <1>4, KeysNextSafe DEF KeysNext
<1>5. CASE /\ call[1] = "AddSigner" /\ InviteSigner(m, call[2])
           /\ UNCHANGED <<links, parentDid, childDid, frozenDids, refCount, consents, cdd, cddRotation, accounts>>
  <2>1. PICK d, s : d = Creator(m) /\ s = call[2]
    OBVIOUS
  <2>2. s \in KeySet
    BY <1>2, <1>5, <2>1
  <2>3. d \in Dids /\ Exists(d)
    BY <2>1, AccountFields DEF AccountInv, CreatorsExist, Creator
  <2>4. AddAuth(d, s, <<"AddMultiSigSigner", m>>)
    BY <1>5, <2>1 DEF InviteSigner
  <2>5. KeysInv' /\ Grows /\ SignersStay /\ InvitesSound'
    BY <1>5, <2>2, <2>3, <2>4, InviteSafe
  <2> QED BY <1>5, <2>5, KeepAccounts
<1>6. CASE call[1] = "RemoveSigner" /\ CanRemoveSigner(m, call[2])
           /\ RemoveSigners(m, {call[2]}, accounts.number[m] - 1)
  <2>1. PICK ks : ks = {call[2]}
    OBVIOUS
  <2>2. Cardinality(ks) = 1
    <3>1. call[2] \in KeySet
      BY <1>2, <1>6
    <3>2. {} \cup ks = ks
      OBVIOUS
    <3>3. Cardinality({} \cup ks) = Cardinality({}) + 1
      BY <2>1, <3>1 DEF KeysCounted
    <3> QED BY <3>2, <3>3, SMTT(60) DEF KeysCounted
  <2>3. accounts.number[m] \in Nat /\ accounts.required[m] \in Nat
    BY AccountFields DEF AccountInv
  <2>4. /\ ks \in SUBSET Signers(m) /\ IsChangingSignersAllowed(m)
        /\ accounts.number[m] >= 1 + accounts.required[m]
    <3>1. CanRemoveSigner(m, call[2])
      BY <1>6
    <3> QED BY <2>1, <2>3, <3>1, SMTT(60) DEF CanRemoveSigner
  <2>5. RemoveSigners(m, ks, accounts.number[m] - 1)
    BY <1>6, <2>1
  <2> QED BY <2>2, <2>4, <2>5, RemoveSignersSafe
<1>7. CASE call[1] = "ChangeSigs" /\ CanChangeSigs(m, call[2])
           /\ accounts' = ChangedSigs(m, call[2]) /\ UNCHANGED keyVars
  <2>1. PICK n : n = call[2]
    OBVIOUS
  <2>2. n \in Nat
    BY <1>2, <1>7, <2>1
  <2> QED BY <1>7, <2>1, <2>2, ChangedSigsSafe
<1> QED BY <1>3, <1>4, <1>5, <1>6, <1>7 DEF Succeeds

LEMMA ExecuteProposalSafe ==
    ASSUME KeysCounted, MSInv, NEW m \in MultiSigs, NEW p \in ProposalNumbers, ExecuteProposal(m, p)
    PROVE  MSInv' /\ SafeStep
<1>1. AccountInv /\ BallotInv /\ lostCreatorPrivileges' \subseteq Dids /\ late' \in BOOLEAN
  BY DEF MSInv, ExecuteProposal
<1>2. PICK call : call = ballots.details[m][p].call
  OBVIOUS
<1>3. call \in Calls \cup {<<"None">>}
  <2>1. ballots \in Ballots
    BY <1>1 DEF BallotInv, BallotsSound
  <2>2. ballots.details[m][p] \in Details
    BY <2>1, BallotFields
  <2> QED BY <1>2, <2>2 DEF Details
<1>4. agenda' = agenda \ {<<m, p>>}
  BY DEF ExecuteProposal
<1>5. ASSUME Status(m, p) # "Invalid", Succeeds(m, call) \/ Fails(m, call),
             NEW s \in Executed, SetStatus(m, p, s)
      PROVE  MSInv' /\ SafeStep
  <2>1. Creator(m) # NoDid
    BY <1>5 DEF MSInv, ProposalsHaveCreators
  <2>2. SafeStep
    BY <1>1, <1>3, <1>5, <2>1, DispatchSafe
  <2>3. BallotInv' /\ \A n \in MultiSigs, q \in ProposalNumbers :
                        ballots'.details[n][q].status # ballots.details[n][q].status =>
                          ballots.details[n][q].status # "Invalid"
    BY <1>1, <1>4, <1>5, SetStatusSafe DEF Status
  <2> QED BY <1>1, <2>2, <2>3, BothHalves
<1>6. CASE UNCHANGED <<keyVars, accounts, ballots>>
  <2>1. SafeStep
    BY <1>1, <1>6, KeysNextSafe
  <2>2. BallotInv'
    BY <1>1, <1>4, <1>6 DEF BallotInv, RunsOnce, Status
  <2> QED BY <1>1, <1>6, <2>1, <2>2, BothHalves
<1> QED BY <1>2, <1>5, <1>6 DEF ExecuteProposal, Executed

LEMMA OnRuntimeUpgradeSafe ==
    ASSUME KeysCounted, MSInv, OnRuntimeUpgrade
    PROVE  MSInv' /\ SafeStep
<1>1. AccountInv /\ BallotInv /\ lostCreatorPrivileges' \subseteq Dids /\ late' \in BOOLEAN
  BY DEF MSInv, OnRuntimeUpgrade
<1>2. PICK t : t = ballots.txDone
  OBVIOUS
<1>3. t \in [MultiSigs -> 0..MaxProposals]
  BY <1>1, <1>2, BallotFields DEF BallotInv, BallotsSound
<1>4. PICK B : B = ballots'
  OBVIOUS
<1>5. BallotsSound(B) /\ \A m \in MultiSigs, p \in ProposalNumbers : B.details[m][p].status = "Invalid"
  <2>1. B = [details |-> [m \in MultiSigs |-> [p \in ProposalNumbers |-> Invalid]], votes |-> {},
             ids |-> [m \in MultiSigs |-> [c \in Calls |-> NoProposal]], txDone |-> t]
    BY <1>2, <1>4 DEF OnRuntimeUpgrade
  <2> HIDE <1>2, <1>4
  <2> QED BY <1>3, <2>1, NoBallots
<1>6. BallotsSound(ballots)'
  BY <1>4, <1>5 DEF BallotsSound
<1>7. agenda' = agenda /\ BallotInv'
  BY <1>1, <1>4, <1>5, <1>6 DEF OnRuntimeUpgrade, BallotInv, RunsOnce, Status, Executed
<1>8. SafeStep
  BY <1>1, KeysNextSafe DEF OnRuntimeUpgrade
<1> QED BY <1>1, <1>4, <1>5, <1>7, <1>8, BothHalves

LEMMA MSStepSafe ==
    ASSUME KeysCounted
    PROVE  MSInv /\ [MSNext]_allVars => MSInv' /\ [SafeStep]_allVars
<1> SUFFICES ASSUME MSInv, [MSNext]_allVars PROVE MSInv' /\ SafeStep
  OBVIOUS
<1>1. AccountInv /\ lostCreatorPrivileges \subseteq Dids /\ late \in BOOLEAN
  BY DEF MSInv
<1>2. ASSUME NEW k \in People PROVE k \in KeySet
  BY DEF People
<1>3. ASSUME NEW k \in People, NEW m \in MultiSigs, SignerCall(k, m) \/ CreatorCall(k, m)
      PROVE  MSInv' /\ SafeStep
  BY <1>2, <1>3, SignerCallSafe, CreatorCallSafe
<1>4. ASSUME NEW k \in People, NEW a \in AuthIds, AcceptMultisigSigner(k, a)
      PROVE  MSInv' /\ SafeStep
  <2>1. SafeStep
    BY <1>1, <1>2, <1>4, AcceptMultisigSignerSafe
  <2>2. UNCHANGED <<ballots, agenda, lostCreatorPrivileges, late>>
    BY <1>4 DEF AcceptMultisigSigner
  <2> QED BY <1>1, <2>1, <2>2, KeepBallots
<1>5. ASSUME NEW m \in MultiSigs, NEW p \in ProposalNumbers, ExecuteProposal(m, p)
      PROVE  MSInv' /\ SafeStep
  BY <1>5, ExecuteProposalSafe
<1>6. ASSUME KeysNext \/ UNCHANGED keyVars, UNCHANGED msVars PROVE MSInv' /\ SafeStep
  <2>1. UNCHANGED <<ballots, agenda, lostCreatorPrivileges, late>> /\ UNCHANGED accounts
    BY <1>6 DEF msVars
  <2>2. SafeStep
    BY <1>1, <1>6, <2>1, KeysNextSafe
  <2> QED BY <1>1, <2>1, <2>2, KeepBallots
<1>7. ASSUME TimePasses PROVE MSInv' /\ SafeStep
  <2>1. UNCHANGED <<keyVars, accounts, ballots, agenda, lostCreatorPrivileges>> /\ late' = TRUE
    BY <1>7 DEF TimePasses
  <2>2. SafeStep
    BY <1>1, <2>1, KeysNextSafe
  <2> QED BY <1>1, <2>1, <2>2, KeepBallots
<1>8. CASE MSNext
  BY <1>2, <1>3, <1>4, <1>5, <1>6, <1>7, <1>8, OnRuntimeUpgradeSafe DEF MSNext, KeysNext
<1>9. CASE UNCHANGED allVars
  BY <1>6, <1>9 DEF allVars
<1> QED BY <1>8, <1>9

LEMMA MSInitially ==
    ASSUME KeysCounted, MSInit
    PROVE  MSInv
<1>1. KeysInv /\ links = GenesisLinks /\ auths = [a \in AuthIds |-> NoAuth]
  BY KeysInvHoldsInitially DEF MSInit, KeysInit
<1>2. accounts \in Accounts
      /\ \A m \in MultiSigs : Creator(m) = NoDid /\ Signers(m) = {} /\ accounts.number[m] = 0
  BY DEF MSInit, Accounts, Creator, Signers
<1>3. \A k \in KeySet, m \in MultiSigs : links.key[k] # MultiSigSignerKey(m)
  <2>1. \A k \in KeySet : (\E d : links.key[k] = PrimaryKey(d)) \/ links.key[k] = Unlinked
    BY <1>1 DEF GenesisLinks
  <2> QED BY <2>1, SignerRecords, ConstantSorts
<1>4. SignersHaveRecords
  BY <1>2, <1>3 DEF SignersHaveRecords
<1>5. SignerCountExact
  BY <1>2 DEF SignerCountExact, KeysCounted
<1>6. InvitesSound /\ CreatorsExist
  BY <1>1, <1>2 DEF InvitesSound, CreatorsExist
<1>7. PICK B, t : B = ballots /\ t = [m \in MultiSigs |-> 0]
  OBVIOUS
<1>8. BallotsSound(B) /\ \A m \in MultiSigs, p \in ProposalNumbers : B.details[m][p].status = "Invalid"
  <2>1. t \in [MultiSigs -> 0..MaxProposals]
    BY <1>7, ConstantSorts, SMTT(60)
  <2>2. B = [details |-> [m \in MultiSigs |-> [p \in ProposalNumbers |-> Invalid]], votes |-> {},
             ids |-> [m \in MultiSigs |-> [c \in Calls |-> NoProposal]], txDone |-> t]
    BY <1>7 DEF MSInit
  <2> HIDE <1>7
  <2> QED BY <2>1, <2>2, NoBallots
<1>9. BallotInv /\ ProposalsHaveCreators /\ lostCreatorPrivileges \subseteq Dids /\ late \in BOOLEAN
  BY <1>7, <1>8 DEF MSInit, BallotInv, RunsOnce, ProposalsHaveCreators, Status
<1> QED BY <1>1, <1>2, <1>4, <1>5, <1>6, <1>9 DEF MSInv, AccountInv

LEMMA MSInvExact == MSInv => SignersExact
BY DEF MSInv, AccountInv, BallotInv, BallotsSound, SignersExact, MSTypeOK, VotesCounted

-----------------------------------------------------------------------------
(* Counting keys, and the theorems. *)

INSTANCE FiniteSetTheorems

\* A list that names each signer once has as many entries as signers.
LEMMA ListCardinality ==
    ASSUME NEW list \in RemovalLists
    PROVE  Cardinality({list[i] : i \in DOMAIN list}) = Len(list) /\ Len(list) \in Nat
<1>1. list \in Seq(KeySet) /\ \A i, j \in DOMAIN list : list[i] = list[j] => i = j
  BY MultiSigAssumption
<1>2. PICK ks : ks = {list[i] : i \in DOMAIN list}
  OBVIOUS
<1>3. DOMAIN list = 1..Len(list) /\ Len(list) \in Nat /\ list \in [1..Len(list) -> ks]
  BY <1>1, <1>2, SMTT(60)
<1>4. list \in Bijection(1..Len(list), ks)
  BY <1>1, <1>2, <1>3 DEF Bijection, Injection, Surjection, IsInjective
<1>5. ExistsBijection(1..Len(list), ks)
  BY <1>4 DEF ExistsBijection
<1>6. IsFiniteSet(1..Len(list)) /\ Cardinality(1..Len(list)) = Len(list)
  BY <1>3, FS_Interval, SMTT(60)
<1> QED BY <1>2, <1>3, <1>5, <1>6, FS_Bijection

LEMMA KeysAreCounted == KeysCounted
<1>1. \A ks \in SUBSET KeySet : IsFiniteSet(ks) /\ Cardinality(ks) \in Nat
  BY ConstantSorts, FS_Subset, FS_CardinalityType
<1>2. \A ks \in SUBSET KeySet, k \in KeySet :
        k \notin ks => Cardinality(ks \cup {k}) = Cardinality(ks) + 1
  BY <1>1, FS_AddElement
<1>3. ASSUME NEW ks \in SUBSET KeySet, NEW js \in SUBSET ks
      PROVE  /\ Cardinality(js) <= Cardinality(ks)
             /\ Cardinality(ks \ js) = Cardinality(ks) - Cardinality(js)
  <2>1. ks \cap js = js /\ IsFiniteSet(ks)
    BY <1>1
  <2>2. Cardinality(js) <= Cardinality(ks)
    BY <2>1, FS_Subset
  <2>3. Cardinality(ks \ js) = Cardinality(ks) - Cardinality(ks \cap js)
    BY <2>1, FS_Difference
  <2> QED BY <2>1, <2>2, <2>3
<1> QED BY <1>1, <1>2, <1>3, FS_EmptySet, ListCardinality DEF KeysCounted

LEMMA MSInvHolds == MSSpec => []MSInv
<1>1. MSInit => MSInv
  BY KeysAreCounted, MSInitially
<1>2. MSInv /\ [MSNext]_allVars => MSInv'
  BY KeysAreCounted, MSStepSafe
<1> QED BY <1>1, <1>2, PTL DEF MSSpec

(***************************************************************************)
(* However signers are invited, accept, are removed and come back, vote    *)
(* and have their proposals run, retried and killed, MultiSigSigners, its  *)
(* count and the key records agree, each vote is counted once and no       *)
(* executed proposal is scheduled (multisig).                              *)
(***************************************************************************)
THEOREM SignersAlwaysExact == MSSpec => []SignersExact
BY MSInvHolds, MSInvExact, PTL

(***************************************************************************)
(* No change of signers or of the signatures required puts a quorum out of *)
(* reach, a key only becomes a signer with an authorization it uses up,    *)
(* and a multisig that is a primary key stays as it is while rotations     *)
(* need an attestation (multisig).                                         *)
(***************************************************************************)
THEOREM MultisigsAlwaysChangeSafely == MSSpec => MultisigChangesSafely
<1>1. QuorumStaysReachable <=> [][QuorumStep]_allVars
  BY PTL DEF QuorumStaysReachable, QuorumStep
<1>2. SignerAuthorized <=> [][SignerStep]_allVars
  BY PTL DEF SignerAuthorized, SignerStep
<1>3. PrimaryMultisigFixed <=> [][FixedStep]_allVars
  BY PTL DEF PrimaryMultisigFixed, FixedStep
<1>4. MSInv /\ [MSNext]_allVars => [QuorumStep]_allVars /\ [SignerStep]_allVars /\ [FixedStep]_allVars
  BY KeysAreCounted, MSStepSafe DEF SafeStep
<1> QED BY <1>1, <1>2, <1>3, <1>4, MSInvHolds, PTL DEF MSSpec, MultisigChangesSafely
=============================================================================
