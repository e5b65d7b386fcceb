------------------------------ MODULE MultiSig ------------------------------
(***************************************************************************)
(* The multisig pallet on top of the keys of the identity pallet: signers, *)
(* proposals, votes, and the execution of an approved proposal by the      *)
(* scheduler in the next block.                                            *)
(*                                                                         *)
(* A multisig is a key without anybody to sign for it: it acts when a      *)
(* proposal is executed.  The scheduler may put a task off when a block is *)
(* full, so any calls may come between scheduling and execution.  Only     *)
(* keys are signers: the calls for identities as signers always fail.      *)
(* Bounds: calls that invite signers invite one; a multisig is not itself  *)
(* a signer of another; it acts (call "Act") on the identity pallet, with  *)
(* the payer checks of calls that are sent directly.                       *)
(***************************************************************************)
EXTENDS Keys, Sequences

CONSTANTS
    MultiSigs,       \* addresses of multisigs, keys themselves
    Invitees,        \* keys that calls of the creator may invite
    MaxProposals,    \* bound on the proposals of a multisig
    Calls,           \* what may be proposed: <<"Act">>, <<"AddSigner", key>>,
                     \* <<"RemoveSigner", key>>, <<"ChangeSigs", number>>
    SigsRequired,    \* numbers change_sigs_required_via_creator may be given
    RemovalLists,    \* lists remove_multisig_signers_via_creator may be given
    Expiries         \* whether proposals may have an expiry, a subset of BOOLEAN

ProposalNumbers == 0..(MaxProposals - 1)
NoProposal == MaxProposals
Statuses == {"Invalid", "ActiveOrExpired", "ExecutionSuccessful", "ExecutionFailed", "Rejected"}
Executed == {"ExecutionSuccessful", "ExecutionFailed"}
Invalid == [call |-> <<"None">>, status |-> "Invalid", approvals |-> 0, rejections |-> 0,
            expires |-> FALSE, autoClose |-> FALSE]

ASSUME MultiSigAssumption ==
    /\ IsFiniteSet(KeySet) /\ MultiSigs \subseteq KeySet /\ Invitees \subseteq KeySet
    /\ MaxProposals \in Nat /\ SigsRequired \subseteq Nat /\ Expiries \subseteq BOOLEAN
    /\ Calls \subseteq {<<"Act">>} \cup ({"AddSigner", "RemoveSigner"} \X KeySet) \cup ({"ChangeSigs"} \X Nat)
    /\ \A l \in RemovalLists : /\ l \in Seq(KeySet)
                               /\ \A i, j \in DOMAIN l : l[i] = l[j] => i = j
    /\ \A o \in Offers : o[2][1] = "AddMultiSigSigner" =>
                           \E m \in MultiSigs : o[2] = <<"AddMultiSigSigner", m>>

VARIABLES
    accounts,   \* MultiSigToIdentity, MultiSigSigners, NumberOfSigners, MultiSigSignsRequired
    ballots,    \* Proposals, ProposalDetail, Votes, ProposalIds and MultiSigTxDone
    agenda,     \* scheduled executions <<multisig, proposal>>
    lostCreatorPrivileges,
    late        \* the expiry of the proposals that have one is over

msVars == <<accounts, ballots, agenda, lostCreatorPrivileges, late>>
allVars == <<keyVars, msVars>>

MSInit ==
    /\ KeysInit
    /\ accounts = [creator |-> [m \in MultiSigs |-> NoDid], signers |-> [m \in MultiSigs |-> {}],
                   number |-> [m \in MultiSigs |-> 0], required |-> [m \in MultiSigs |-> 0]]
    /\ ballots = [details |-> [m \in MultiSigs |-> [p \in ProposalNumbers |-> Invalid]],
                  votes |-> {},
                  ids |-> [m \in MultiSigs |-> [c \in Calls |-> NoProposal]],
                  txDone |-> [m \in MultiSigs |-> 0]]
    /\ agenda = {}
    /\ lostCreatorPrivileges = {}
    /\ late = FALSE
-----------------------------------------------------------------------------
(* Reads. *)

Creator(m) == accounts.creator[m]
Signers(m) == accounts.signers[m]

\* A multisig that is a primary key is fixed while rotations need an attestation.
IsChangingSignersAllowed(m) ==
    ~(cddRotation /\ \E d \in Dids : GetIdentity(m) = d /\ links.primary[d] = m)

\* The signer's call is paid for by the multisig's identity.
SignedBySigner(k, m) == k \in Signers(m) /\ HasValidCdd(Creator(m))
EnsureMsCreator(k, m) == Creator(m) # NoDid /\ EnsurePrimaryKey(k, Creator(m))
HasCreatorControls(k, m) == EnsureMsCreator(k, m) /\ Creator(m) \notin lostCreatorPrivileges
-----------------------------------------------------------------------------
(* Multisigs and their signers. *)

InviteSigner(m, k) == AddAuth(Creator(m), k, <<"AddMultiSigSigner", m>>)

\* The number is set apart from the set.
WithSigners(m, ks, n) ==
    [creator |-> accounts.creator, signers |-> [accounts.signers EXCEPT ![m] = ks],
     number |-> [accounts.number EXCEPT ![m] = n], required |-> accounts.required]

CreateMultisig(k, m, signer) ==
    \E d \in Dids :
      /\ EnsurePerms(k, d)
      /\ Creator(m) = NoDid
      /\ AddAuth(d, signer, <<"AddMultiSigSigner", m>>)
      /\ accounts' = [creator |-> [accounts.creator EXCEPT ![m] = d], signers |-> accounts.signers,
                      number |-> accounts.number, required |-> [accounts.required EXCEPT ![m] = 1]]
      /\ UNCHANGED <<links, parentDid, childDid, frozenDids, refCount, consents, cdd, cddRotation,
                     ballots, agenda, lostCreatorPrivileges, late>>

AcceptMultisigSigner(k, a) ==
    LET m == auths[a].data[2] IN
    /\ CanAccept(k, a, "AddMultiSigSigner")
    /\ Creator(m) # NoDid
    /\ IsChangingSignersAllowed(m)
    /\ k \notin Signers(m) /\ links.key[k] = Unlinked /\ k # m
    /\ auths[a].by = Creator(m)
    /\ accounts' = WithSigners(m, Signers(m) \cup {k}, accounts.number[m] + 1)
    /\ links' = AddKeyRecord(links, k, MultiSigSignerKey(m))
    /\ RemoveAuths({a})
    /\ UNCHANGED <<parentDid, childDid, frozenDids, refCount, consents, cdd, cddRotation,
                   ballots, agenda, lostCreatorPrivileges, late>>

\* What is left is what the caller computed.
RemoveSigners(m, ks, left) ==
    /\ accounts' = WithSigners(m, Signers(m) \ ks, left)
    /\ links' = [links EXCEPT !.key = [k \in KeySet |->
                   IF k \in ks THEN RemoveKeyRecord(links, k, NoDid).key[k] ELSE @[k]]]
    /\ UNCHANGED <<parentDid, childDid, frozenDids, auths, given, nextAuth, refCount, consents,
                   cdd, cddRotation>>

AddMultisigSignersViaCreator(k, m, signer) ==
    /\ HasCreatorControls(k, m)
    /\ InviteSigner(m, signer)
    /\ UNCHANGED <<links, parentDid, childDid, frozenDids, refCount, consents, cdd, cddRotation, msVars>>

RemoveMultisigSignersViaCreator(k, m, list) ==
    /\ HasCreatorControls(k, m)
    /\ IsChangingSignersAllowed(m)
    /\ accounts.number[m] >= Len(list) + accounts.required[m]
    /\ \A i \in DOMAIN list : list[i] \in Signers(m)
    /\ RemoveSigners(m, {list[i] : i \in DOMAIN list}, accounts.number[m] - Len(list))
    /\ UNCHANGED <<ballots, agenda, lostCreatorPrivileges, late>>

\* Mutant: more signatures than signers.
MutCanChangeSigs(m, n) == IsChangingSignersAllowed(m)

CanChangeSigs(m, n) == accounts.number[m] >= n /\ IsChangingSignersAllowed(m)
ChangedSigs(m, n) == [accounts EXCEPT !.required = [@ EXCEPT ![m] = n]]

ChangeSigsRequiredViaCreator(k, m, n) ==
    /\ HasCreatorControls(k, m)
    /\ CanChangeSigs(m, n)
    /\ accounts' = ChangedSigs(m, n)
    /\ UNCHANGED <<keyVars, ballots, agenda, lostCreatorPrivileges, late>>

\* For all the multisigs of this creator.
RemoveCreatorControls(k, m) ==
    /\ EnsureMsCreator(k, m)
    /\ lostCreatorPrivileges' = lostCreatorPrivileges \cup {Creator(m)}
    /\ UNCHANGED <<keyVars, accounts, ballots, agenda, late>>

MakeMultisigSecondary(k, m) ==
    /\ Creator(m) # NoDid
    /\ EnsurePerms(k, Creator(m))
    /\ links.key[m] = Unlinked
    /\ links' = AddKeyRecord(links, m, SecondaryKey(Creator(m), "empty"))
    /\ UNCHANGED <<parentDid, childDid, frozenDids, auths, given, nextAuth, refCount, consents,
                   cdd, cddRotation, msVars>>

MakeMultisigPrimary(k, m, attest) ==
    /\ EnsureMsCreator(k, m)
    /\ CanRotate(Creator(m), m, "none", attest)
    /\ links' = RotatedLinks(Creator(m), m, "none")
    /\ RemoveAuths(IF cddRotation THEN {attest} ELSE {})
    /\ UNCHANGED <<parentDid, childDid, frozenDids, refCount, consents, cdd, cddRotation, msVars>>
-----------------------------------------------------------------------------
(* Proposals and votes. *)

\* Mutant: a signer votes as often as it likes.
MutCanVote(B, k, m, p) ==
    /\ SignedBySigner(k, m)
    /\ B.details[m][p].status = "ActiveOrExpired"
    /\ ~(B.details[m][p].expires /\ late)

CanVote(B, k, m, p) ==
    /\ SignedBySigner(k, m)
    /\ <<m, p, k>> \notin B.votes
    /\ B.details[m][p].status = "ActiveOrExpired"
    /\ ~(B.details[m][p].expires /\ late)

Voted(B, k, m, p, detail) ==
    [details |-> [B.details EXCEPT ![m][p] = detail], votes |-> B.votes \cup {<<m, p, k>>},
     ids |-> B.ids, txDone |-> B.txDone]

\* A proposal that has enough approvals is scheduled, unless it is already.
UnsafeApprove(B, k, m, p) ==
    LET n == B.details[m][p].approvals + 1 IN
    /\ CanVote(B, k, m, p)
    /\ ballots' = Voted(B, k, m, p, [B.details[m][p] EXCEPT !.approvals = n])
    /\ agenda' = IF n >= accounts.required[m] THEN agenda \cup {<<m, p>>} ELSE agenda
    /\ UNCHANGED <<keyVars, accounts, lostCreatorPrivileges, late>>

Approve(k, m, p) == UnsafeApprove(ballots, k, m, p)

\* create_proposal approves for the caller; byCall also records the id of the call.
CreateProposal(k, m, call, expires, autoClose, byCall) ==
    LET p == ballots.txDone[m]
        detail == [call |-> call, status |-> "ActiveOrExpired", approvals |-> 0, rejections |-> 0,
                   expires |-> expires, autoClose |-> autoClose]
    IN  /\ p \in ProposalNumbers
        /\ UnsafeApprove([details |-> [ballots.details EXCEPT ![m][p] = detail], votes |-> ballots.votes,
                          ids |-> IF byCall THEN [ballots.ids EXCEPT ![m][call] = p] ELSE ballots.ids,
                          txDone |-> [ballots.txDone EXCEPT ![m] = p + 1]], k, m, p)

CreateOrApproveProposal(k, m, call, expires, autoClose) ==
    IF ballots.ids[m][call] # NoProposal THEN Approve(k, m, ballots.ids[m][call])
    ELSE CreateProposal(k, m, call, expires, autoClose, TRUE)

\* Closed as soon as the signers that did not reject are too few.
Reject(k, m, p) ==
    LET d == ballots.details[m][p]
        closed == d.autoClose /\ d.rejections + 1 + accounts.required[m] > accounts.number[m]
    IN  /\ CanVote(ballots, k, m, p)
        /\ ballots' = Voted(ballots, k, m, p,
                            [call |-> d.call, status |-> IF closed THEN "Rejected" ELSE d.status,
                             approvals |-> d.approvals, rejections |-> d.rejections + 1,
                             expires |-> d.expires, autoClose |-> d.autoClose])
        /\ UNCHANGED <<keyVars, accounts, agenda, lostCreatorPrivileges, late>>
-----------------------------------------------------------------------------
(* Execution. *)

CanRemoveSigner(m, k) ==
    /\ k \in Signers(m)
    /\ accounts.number[m] > accounts.required[m]
    /\ IsChangingSignersAllowed(m)

\* The proposed call, dispatched with the multisig as its origin, succeeds ...
Succeeds(m, call) ==
    \/ call[1] = "Act" /\ KeyCall(m) /\ UNCHANGED accounts
    \/ /\ call[1] = "AddSigner" /\ InviteSigner(m, call[2])
       /\ UNCHANGED <<links, parentDid, childDid, frozenDids, refCount, consents, cdd, cddRotation, accounts>>
    \/ /\ call[1] = "RemoveSigner" /\ CanRemoveSigner(m, call[2])
       /\ RemoveSigners(m, {call[2]}, accounts.number[m] - 1)
    \/ /\ call[1] = "ChangeSigs" /\ CanChangeSigs(m, call[2])
       /\ accounts' = ChangedSigs(m, call[2]) /\ UNCHANGED keyVars

\* ... or fails and leaves nothing behind.
Fails(m, call) ==
    /\ \/ call[1] = "Act"
       \/ call[1] = "RemoveSigner" /\ ~CanRemoveSigner(m, call[2])
       \/ call[1] = "ChangeSigs" /\ ~CanChangeSigs(m, call[2])
    /\ UNCHANGED <<keyVars, accounts>>

Status(m, p) == ballots.details[m][p].status

\* Mutant: only a success is recorded.
MutSetStatus(m, p, s) ==
    ballots' = IF s = "ExecutionFailed" THEN ballots
               ELSE [ballots EXCEPT !.details = [@ EXCEPT ![m][p].status = s]]

SetStatus(m, p, s) ==
    ballots' = [ballots EXCEPT !.details = [@ EXCEPT ![m][p].status = s]]

\* The status is not looked at: only a proposal that was killed is skipped.  Without
\* a valid CDD claim the task is spent and the proposal stays as it is.
ExecuteProposal(m, p) ==
    LET call == ballots.details[m][p].call IN
    /\ <<m, p>> \in agenda
    /\ agenda' = agenda \ {<<m, p>>}
    /\ IF HasValidCdd(Creator(m)) /\ Status(m, p) # "Invalid"
       THEN \/ Succeeds(m, call) /\ SetStatus(m, p, "ExecutionSuccessful")
            \/ Fails(m, call) /\ SetStatus(m, p, "ExecutionFailed")
       ELSE UNCHANGED <<keyVars, accounts, ballots>>
    /\ UNCHANGED <<lostCreatorPrivileges, late>>

TimePasses ==
    /\ ~late
    /\ late' = TRUE
    /\ UNCHANGED <<keyVars, accounts, ballots, agenda, lostCreatorPrivileges>>

\* on_runtime_upgrade with a new transaction version kills the proposals, and not their tasks.
OnRuntimeUpgrade ==
    /\ ballots' = [details |-> [m \in MultiSigs |-> [p \in ProposalNumbers |-> Invalid]],
                   votes |-> {},
                   ids |-> [m \in MultiSigs |-> [c \in Calls |-> NoProposal]],
                   txDone |-> ballots.txDone]
    /\ UNCHANGED <<keyVars, accounts, agenda, lostCreatorPrivileges, late>>
-----------------------------------------------------------------------------
SignerCall(k, m) ==
    \/ \E c \in Calls, e \in Expiries, z \in BOOLEAN :
         CreateProposal(k, m, c, e, z, FALSE) \/ CreateOrApproveProposal(k, m, c, e, z)
    \/ \E p \in ProposalNumbers : Approve(k, m, p) \/ Reject(k, m, p)

CreatorCall(k, m) ==
    \/ \E s \in Invitees : CreateMultisig(k, m, s) \/ AddMultisigSignersViaCreator(k, m, s)
    \/ \E l \in RemovalLists : RemoveMultisigSignersViaCreator(k, m, l)
    \/ \E n \in SigsRequired : ChangeSigsRequiredViaCreator(k, m, n)
    \/ RemoveCreatorControls(k, m)
    \/ MakeMultisigSecondary(k, m)
    \/ \E a \in AuthIds \cup {0} : MakeMultisigPrimary(k, m, a)

People == KeySet \ MultiSigs

MSNext ==
    \/ \E k \in People, m \in MultiSigs : SignerCall(k, m) \/ CreatorCall(k, m)
    \/ \E k \in People, a \in AuthIds : AcceptMultisigSigner(k, a)
    \/ \E m \in MultiSigs, p \in ProposalNumbers : ExecuteProposal(m, p)
    \/ \E k \in People : KeyCall(k) /\ UNCHANGED msVars
    \/ KeysEnvironment /\ UNCHANGED msVars
    \/ TimePasses
    \/ OnRuntimeUpgrade

MSSpec == MSInit /\ [][MSNext]_allVars
MSFairness == \A m \in MultiSigs, p \in ProposalNumbers : WF_allVars(ExecuteProposal(m, p))
MSFairSpec == MSSpec /\ MSFairness
-----------------------------------------------------------------------------
Accounts ==
    [creator : [MultiSigs -> Dids \cup {NoDid}], signers : [MultiSigs -> SUBSET KeySet],
     number : [MultiSigs -> Nat], required : [MultiSigs -> Nat]]
Details ==
    [call : Calls \cup {<<"None">>}, status : Statuses, approvals : Nat, rejections : Nat,
     expires : BOOLEAN, autoClose : BOOLEAN]
Ballots ==
    [details : [MultiSigs -> [ProposalNumbers -> Details]],
     votes : SUBSET (MultiSigs \X ProposalNumbers \X KeySet),
     ids : [MultiSigs -> [Calls -> 0..MaxProposals]],
     txDone : [MultiSigs -> 0..MaxProposals]]

(* Every variable has its type. *)
MSTypeOK ==
    /\ accounts \in Accounts /\ ballots \in Ballots
    /\ agenda \subseteq MultiSigs \X ProposalNumbers
    /\ lostCreatorPrivileges \subseteq Dids /\ late \in BOOLEAN

(* MultiSigSigners and the key records of the identity pallet, which are      *)
(* changed in different places, say the same: a signer has the record of its  *)
(* multisig and of no other, and no signer is a key of an identity.           *)
SignersHaveRecords ==
    \A k \in KeySet, m \in MultiSigs : k \in Signers(m) <=> links.key[k] = MultiSigSignerKey(m)

(* NumberOfSigners, which decides on quorums, is the number of signers (lists *)
(* of signers to remove name each signer once).                               *)
SignerCountExact == \A m \in MultiSigs : accounts.number[m] = Cardinality(Signers(m))

(* Once a multisig has enough signers for a quorum it keeps enough, whatever  *)
(* its creator and its own proposals remove and change.                       *)
QuorumStaysReachable ==
    [][\A m \in MultiSigs :
         Cardinality(Signers(m)) >= accounts.required[m] =>
           Cardinality(Signers(m))' >= accounts'.required[m] \/ Creator(m) = NoDid]_allVars

(* Every vote is counted once, also of signers that were removed and came     *)
(* back.                                                                      *)
VotesCounted ==
    \A m \in MultiSigs, p \in ProposalNumbers :
      ballots.details[m][p].approvals + ballots.details[m][p].rejections
        = Cardinality({k \in KeySet : <<m, p, k>> \in ballots.votes})

(* A proposal that was executed is never scheduled again: it runs once, also  *)
(* when it had to be scheduled again for want of a CDD claim.                 *)
RunsOnce ==
    \A m \in MultiSigs, p \in ProposalNumbers : <<m, p>> \in agenda => Status(m, p) \notin Executed

(* A key becomes a signer only by using up an authorization that the identity *)
(* of the multisig gave it for this multisig.                                 *)
SignerAuthorized ==
    [][\A m \in MultiSigs, k \in KeySet :
         (k \notin Signers(m) /\ k \in Signers(m)') =>
           \E a \in AuthIds :
             /\ auths[a] # NoAuth /\ auths'[a] = NoAuth
             /\ auths[a].target = k /\ auths[a].by = Creator(m)
             /\ auths[a].data = <<"AddMultiSigSigner", m>>]_allVars

(* "Changing multisig parameters not allowed since multisig is a primary key" *)
(* (Error::ChangeNotAllowed): while rotations need an attestation, a multisig *)
(* that is a primary key keeps its signers and its quorum, since changing     *)
(* them would be a rotation without one.                                      *)
PrimaryMultisigFixed ==
    [][\A m \in MultiSigs, d \in Dids :
         (cddRotation /\ Creator(m) # NoDid /\ links.primary[d] = m) =>
           Signers(m)' = Signers(m) /\ accounts'.required[m] = accounts.required[m]]_allVars

(* The signers, their number and the votes that decide are counted exactly, through *)
(* removals, re-invitations, retries and runtime upgrades.                          *)
SignersExact ==
    MSTypeOK /\ SignersHaveRecords /\ SignerCountExact /\ VotesCounted /\ RunsOnce

(* A multisig changes only as its creator, its signers and the rules on primary     *)
(* keys allow, and never so that no quorum can be reached.                          *)
MultisigChangesSafely == QuorumStaysReachable /\ SignerAuthorized /\ PrimaryMultisigFixed

(* "If quorum is reached, the proposal will be immediately executed": once    *)
(* scheduled, a proposal is executed if its identity keeps its CDD claim and  *)
(* no runtime upgrade kills it (or the bound on authorizations is met).       *)
ApprovedRuns ==
    \A m \in MultiSigs, p \in ProposalNumbers :
      (<<m, p>> \in agenda) ~>
        \/ Status(m, p) \in Executed \cup {"Invalid"}
        \/ ~HasValidCdd(Creator(m))
        \/ (ballots.details[m][p].call[1] = "AddSigner" /\ nextAuth > MaxAuths)
=============================================================================
