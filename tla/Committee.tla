------------------------------ MODULE Committee ------------------------------
(***************************************************************************)
(* A Polymesh committee and its membership group: pallets/committee and     *)
(* pallets/group, composed as the runtime composes them (the group is the    *)
(* only caller of the committee's change_members_sorted, and a motion the    *)
(* committee approves may itself be a call of the group).  The instance is   *)
(* the technical committee's: its members add, remove, swap and disable      *)
(* members by motion, the governance committee resets them, root sets the    *)
(* limit.                                                                    *)
(*                                                                          *)
(* The state is one record, because a dispatch is re-entrant: executing a    *)
(* motion may change the membership, which may retract votes, which may pass *)
(* other motions, all inside one extrinsic.                                  *)
(***************************************************************************)
EXTENDS Integers, FiniteSets, Sequences, SequencesExt, TLC, Slices

CONSTANTS
    Dids,             \* identities, as numbers: the pallets sort them
    Genesis,          \* the members at genesis
    Motions,          \* calls that may be proposed; the hash of a call is the call
    ResetLists,       \* member lists the governance committee may reset to
    Limits,           \* values of ActiveMembersLimit
    PROPOSALS_MAX,    \* 500 in the code
    COMMITTEE_MEMBERS_MAX,
    MaxBlock          \* bound: the last block explored

ASSUME CommitteeAssumption ==
    /\ Dids \subseteq Nat /\ Genesis \subseteq Dids
    /\ \A l \in ResetLists : l \subseteq Dids

Never == -1           \* MaybeBlock::None
NoDid == 0            \* no release coordinator

VARIABLES gc,         \* the storage of the committee and of its group
          block       \* frame_system's block number, and the clock of the group

committeeVars == <<gc, block>>

\* PolymeshVotes; `log` is a history of the motions dispatched, by index.
NoVoting == [index |-> -1, ayes |-> {}, nays |-> {}, expiry |-> Never]

\* The group's storage: active members, inactive ones, ActiveMembersLimit.
NewGroup == [active |-> Genesis, inactive |-> <<>>, limit |-> COMMITTEE_MEMBERS_MAX]

CommitteeInit ==
    /\ block = 1
    /\ gc = NewGroup @@
            [members |-> Genesis, threshold |-> <<1, 2>>, coordinator |-> NoDid,
             expiresAfter |-> Never, proposals |-> <<>>, proposalOf |-> {},
             voting |-> [m \in Motions |-> NoVoting], count |-> 0,
             cdd |-> Genesis, log |-> <<>>]

-----------------------------------------------------------------------------
(* Reading the committee's storage. *)

\* ensure_is_member
IsMember(d) == d \in gc.members

Seats(S) == Cardinality(S.members)

IsThresholdSatisfied(votes, total, t) == votes * t[2] >= t[1] * total

Satisfied(S, main, other) ==
    /\ Cardinality(main) >= Cardinality(other)
    /\ IsThresholdSatisfied(Cardinality(main), Seats(S), S.threshold)

IsExpired(S, m) == S.voting[m].expiry # Never /\ S.voting[m].expiry <= block

HasVoting(S, m) == S.voting[m] # NoVoting

ClearProposal(S, m) ==
    [S EXCEPT !.voting[m] = NoVoting,
              !.proposals = SelectSeq(@, LAMBDA p : p # m)]

\* One outgoing member's vote, from the ayes or else from the nays.
HasVote(S, d, m) == d \in S.voting[m].ayes \cup S.voting[m].nays

RemoveVoteFrom(S, d, m) ==
    [S EXCEPT !.voting[m].ayes = @ \ {d},
              !.voting[m].nays = IF d \in S.voting[m].ayes THEN @ ELSE @ \ {d}]

\* `outgoing.iter().any(remove_vote_from)` stops at the first member that had a vote.
RemoveOutgoing(S, outgoing, m) ==
    LET voters == {d \in outgoing : HasVote(S, d, m)}
    IN  IF voters = {} THEN S
        ELSE RemoveVoteFrom(S, CHOOSE d \in voters : \A e \in voters : d <= e, m)

-----------------------------------------------------------------------------
(* The group's inactive members, kept as the Vec the code keeps. *)

\* The position of `d`, or 0.  The vector is searched as if it were sorted.
Position(s, d) ==
    LET cmp(id) == IF id = d THEN "Equal" ELSE IF id < d THEN "Less" ELSE "Greater"
        r == BinarySearchBy([i \in 1..Len(s) |-> cmp(s[i].id)])
    IN  IF r.found THEN r.pos ELSE 0

MemberExpired(im) == im.expiry # Never /\ im.expiry <= block

\* disable_member's bookkeeping: drop the expired, then update in place or insert and sort.
WithInactive(s, im) ==
    LET kept == SelectSeq(s, LAMBDA x : ~ MemberExpired(x))
        pos  == Position(kept, im.id)
    IN  IF pos # 0 THEN [kept EXCEPT ![pos] = im]
        ELSE SortSeq(Append(kept, im), LAMBDA x, y : x.id < y.id)

GetValidMembers(S) ==
    S.active \cup {S.inactive[i].id : i \in {j \in DOMAIN S.inactive : ~ MemberExpired(S.inactive[j])}}

-----------------------------------------------------------------------------
(* The re-entrant part: a motion that passes is dispatched, a dispatched    *)
(* membership change retracts votes and may pass other motions.             *)

RECURSIVE ExecuteIfPassed(_, _)
RECURSIVE ChangeEach(_, _, _)
RECURSIVE Dispatch(_, _)

\* change_members_sorted: the proposals of the moment, one after the other.
ChangeEach(S, ps, outgoing) ==
    IF ps = <<>> THEN S
    ELSE LET m == Head(ps)
             R == RemoveOutgoing(S, outgoing, m)
         IN  ChangeEach(IF R = S THEN S ELSE ExecuteIfPassed(R, m), Tail(ps), outgoing)

ChangeMembersSorted(S, incoming, outgoing, new) ==
    LET V == ChangeEach([S EXCEPT !.members = new], S.proposals, outgoing)
    IN  [V EXCEPT !.coordinator = IF @ \in outgoing THEN NoDid ELSE @,
                  !.cdd = (@ \cup incoming) \ outgoing]

\* group: the calls a motion may hold; a failing call leaves the storage as it was.
AddMember(S, d) ==
    IF d \in S.active \/ Cardinality(S.active) + 1 > S.limit THEN S
    ELSE ChangeMembersSorted([S EXCEPT !.active = @ \cup {d}], {d}, {}, S.active \cup {d})

RemoveActiveMember(S, d) ==
    ChangeMembersSorted([S EXCEPT !.active = @ \ {d}], {}, {d}, S.active \ {d})

RemoveMember(S, d) ==
    LET pos == Position(S.inactive, d)
    IN  IF d \in S.active THEN RemoveActiveMember(S, d)
        ELSE IF pos # 0 THEN [S EXCEPT !.inactive = SwapRemove(@, pos)]
        ELSE S

DisableMember(S, d, expiry) ==
    IF d \notin S.active THEN S
    ELSE [RemoveActiveMember(S, d) EXCEPT
            !.inactive = WithInactive(@, [id |-> d, expiry |-> expiry])]

SwapMember(S, remove, add) ==
    IF remove = add \/ remove \notin S.active \/ add \in S.active THEN S
    ELSE LET new == (S.active \ {remove}) \cup {add}
         IN  ChangeMembersSorted([S EXCEPT !.active = new], {add}, {remove}, new)

SetVoteThreshold(S, n, d) ==
    IF d > 0 /\ n <= d THEN [S EXCEPT !.threshold = <<n, d>>] ELSE S

SetReleaseCoordinator(S, d) ==
    IF d \in S.members THEN [S EXCEPT !.coordinator = d] ELSE S

SetExpiresAfter(S, e) == [S EXCEPT !.expiresAfter = e]

Dispatch(S, m) ==
    CASE m.call = "add"         -> AddMember(S, m.who)
      [] m.call = "remove"      -> RemoveMember(S, m.who)
      [] m.call = "disable"     -> DisableMember(S, m.who, m.arg)
      [] m.call = "swap"        -> SwapMember(S, m.who, m.arg)
      [] m.call = "threshold"   -> SetVoteThreshold(S, m.who, m.arg)
      [] m.call = "coordinator" -> SetReleaseCoordinator(S, m.who)
      [] m.call = "expires"     -> SetExpiresAfter(S, m.arg)
      [] OTHER                  -> S     \* a call of another pallet

\* Mutant: the call leaves storage only after it was dispatched.
MutFinalizeProposal(S, m, approved) ==
    LET run == IF approved /\ m \in S.proposalOf
               THEN Dispatch([S EXCEPT !.log = Append(@, S.voting[m].index)], m)
               ELSE S
    IN  ClearProposal([run EXCEPT !.proposalOf = @ \ {m}], m)

\* finalize_proposal: the call is taken out of storage before it is dispatched.
FinalizeProposal(S, m, approved) ==
    LET taken == [S EXCEPT !.proposalOf = @ \ {m}]
        run   == IF approved /\ m \in S.proposalOf
                 THEN Dispatch([taken EXCEPT !.log = Append(@, S.voting[m].index)], m)
                 ELSE taken
    IN  ClearProposal(run, m)

ExecuteIfPassed(S, m) ==
    LET v        == S.voting[m]
        approved == Satisfied(S, v.ayes, v.nays)
        rejected == Satisfied(S, v.nays, v.ayes)
    IN  IF ~ HasVoting(S, m) THEN S
        ELSE IF IsExpired(S, m) THEN [ClearProposal(S, m) EXCEPT !.proposalOf = @ \ {m}]
        ELSE IF ~ approved /\ ~ rejected THEN S
        ELSE FinalizeProposal(S, m, approved)

-----------------------------------------------------------------------------
(* Extrinsics.  A call that returns an error changes nothing, so the guards  *)
(* are the code's ensure!s.                                                  *)

\* vote, also the second half of vote_or_propose: the caller names the index.
Vote(d, m, approve) ==
    LET v     == gc.voting[m]
        main  == IF approve THEN v.ayes ELSE v.nays
        voted == [gc EXCEPT
                    !.voting[m].ayes = IF approve THEN @ \cup {d} ELSE @ \ {d},
                    !.voting[m].nays = IF approve THEN @ \ {d} ELSE @ \cup {d}]
    IN  /\ IsMember(d)
        /\ HasVoting(gc, m)
        /\ ~ IsExpired(gc, m)
        /\ d \notin main
        /\ gc' = ExecuteIfPassed(voted, m)
        /\ UNCHANGED block

\* propose, reached from vote_or_propose with approve = true and no voting under the hash.
Propose(d, m) ==
    /\ IsMember(d)
    /\ ~ HasVoting(gc, m)
    /\ gc.count < PROPOSALS_MAX
    /\ m \notin gc.proposalOf
    /\ gc' = IF Seats(gc) < 2 THEN Dispatch(gc, m)
             ELSE [gc EXCEPT !.count = @ + 1, !.proposals = Append(@, m),
                             !.proposalOf = @ \cup {m},
                             !.voting[m] = [index |-> gc.count, ayes |-> {d}, nays |-> {},
                                            expiry |-> IF gc.expiresAfter = Never THEN Never
                                                       ELSE gc.expiresAfter + block]]
    /\ UNCHANGED block

SetActiveMembersLimit(l) ==
    /\ l <= COMMITTEE_MEMBERS_MAX
    /\ gc' = [gc EXCEPT !.limit = l]
    /\ UNCHANGED block

\* ActiveMembers is written when the closure returns, after everything the
\* membership change dispatched.
ResetMembers(new) ==
    /\ Cardinality(new) <= gc.limit
    /\ gc' = [ChangeMembersSorted(gc, new \ gc.active, gc.active \ new, new)
                EXCEPT !.active = new]
    /\ UNCHANGED block

AbdicateMembership(d) ==
    /\ Cardinality(gc.active) > 1
    /\ d \in gc.active
    /\ gc' = RemoveActiveMember(gc, d)
    /\ UNCHANGED block

CommitteeBlock ==
    /\ block < MaxBlock
    /\ block' = block + 1
    /\ UNCHANGED gc

\* The calls, with the motions that are proposed.
CommitteeCall(motions) ==
    \/ \E d \in Dids, m \in motions, a \in BOOLEAN : Vote(d, m, a)
    \/ \E d \in Dids, m \in motions : Propose(d, m)
    \/ \E l \in Limits : SetActiveMembersLimit(l)
    \/ \E l \in ResetLists : ResetMembers(l)
    \/ \E d \in Dids : AbdicateMembership(d)
    \/ CommitteeBlock

CommitteeNext == CommitteeCall(Motions)
CommitteeSpec == CommitteeInit /\ [][CommitteeNext]_committeeVars

-----------------------------------------------------------------------------
(* Properties. *)

CommitteeTypeOK ==
    /\ gc.active \subseteq Dids /\ gc.members \subseteq Dids /\ gc.cdd \subseteq Dids
    /\ gc.proposalOf \subseteq Motions
    /\ gc.count \in 0 .. PROPOSALS_MAX
    /\ block \in 1 .. MaxBlock

\* A motion is dispatched at most once, although the call it holds may retract
\* votes on the motion itself and re-enter execute_if_passed for it
\* (finalize_proposal takes the call out of ProposalOf first).
MotionRunsOnce ==
    \A i, j \in DOMAIN gc.log : gc.log[i] = gc.log[j] => i = j

\* The committee's Members and the group's ActiveMembers part only in a reset that makes a
\* motion pass: reset_members writes its list after the calls it led to, which may have
\* changed the members.
ListsPartOnlyInReset ==
    [][gc.members = gc.active /\ gc'.members # gc'.active =>
          /\ gc'.log # gc.log
          /\ \E l \in ResetLists : ResetMembers(l)]_committeeVars

\* While the two lists agree, a vote outlives the membership of who cast it only where
\* change_members_sorted stopped early: another voter on the same motion left in the same
\* step, and that vote was taken out (`any` looks no further, although the comment on the
\* function has every outgoing member's vote removed).  So a member who leaves alone takes
\* along all their votes, also when the departure passes other motions.
Voted(S, m) == S.voting[m].ayes \cup S.voting[m].nays
VotesLeaveWithMembers ==
    [][gc.members = gc.active => \A m \in Motions : \A d \in Voted(gc', m) \ gc'.members :
          \/ d \in Voted(gc, m) \ gc.members
          \/ \E e \in (gc.members \ gc'.members) \ {d} : e \in Voted(gc, m) \ Voted(gc', m)]_committeeVars

\* The release coordinator is a member (change_members_sorted looks at all who leave).
CoordinatorIsMember == gc.coordinator \in gc.members \cup {NoDid}

\* Proposals, ProposalOf and Voting speak of the same motions, each listed once,
\* between extrinsics (propose, clear_proposal and the pruning of expired ones).
ProposalMapsAgree ==
    /\ \A m \in Motions : HasVoting(gc, m) <=> m \in gc.proposalOf
    /\ ToSet(gc.proposals) = gc.proposalOf
    /\ Len(gc.proposals) = Cardinality(gc.proposalOf)

\* All of it, for every order of motions, votes, departures and blocks.
CommitteeSound ==
    /\ [](CommitteeTypeOK /\ MotionRunsOnce /\ CoordinatorIsMember /\ ProposalMapsAgree)
    /\ ListsPartOnlyInReset /\ VotesLeaveWithMembers
=============================================================================
