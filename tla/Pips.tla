-------------------------------- MODULE Pips --------------------------------
(***************************************************************************)
(* Polymesh improvement proposals (pallets/pips): proposals with deposits,   *)
(* votes weighted by deposits, the live queue sorted by votes, the snapshot  *)
(* queue the governance committee works through, and the scheduler's         *)
(* execution and expiry tasks.                                               *)
(*                                                                          *)
(* Calls of the governance committee, of its members and of root are         *)
(* actions without a caller: any of them may come at any time.  Protocol     *)
(* fees are left out.  A weight is the signed difference of the stakes, the  *)
(* pair (sign, magnitude) of the code.                                       *)
(***************************************************************************)
EXTENDS Integers, FiniteSets, FiniteSetsExt, Sequences, SequencesExt, Slices

CONSTANTS
    Voters,           \* accounts of the community
    FreeBalance,      \* the POLYX each of them has
    Amounts,          \* deposits a proposer or voter may name
    MaxPips,          \* bound: proposals made
    Configs,          \* configurations at genesis
    ConfigSteps,      \* bound: the changes of the configuration explored, as pairs
    MaxPipBlock       \* bound: the last block explored

VARIABLES
    pip,              \* ProposalStates, Proposals, ProposalVotes, Deposits,
                      \*   ProposalResult, PipSkipCount and PipToSchedule, by id
    queues,           \* LiveQueue, SnapshotQueue, SnapshotMeta, CommitteePips
    pipCount,         \* ActivePipCount
    pipLock,          \* what the balances pallet has locked under PIPS_LOCK_ID
    pipTasks,         \* named scheduler tasks: execution and expiry of each id
    pipConfig,        \* the values root sets
    pipBlock

pipsVars == <<pip, queues, pipCount, pipLock, pipTasks, pipConfig, pipBlock>>

NoBlock == -1
Gone    == "Gone"                        \* no entry in ProposalStates
Committees == {"Committee"}             \* technical or upgrade: it makes no difference
Proposers == Voters \cup Committees      \* ensure_infer_proposer
Active  == {"Pending", "Scheduled"}      \* is_active
NoVote  == [aye |-> TRUE, stake |-> -1]
NoTally == [ayes |-> 0, ayeStake |-> 0, nays |-> 0, nayStake |-> 0]
PipIds  == DOMAIN pip                    \* PipIdSequence is the next id

NewPip(by) ==
    [state |-> "Pending", proposer |-> by, votes |-> [v \in Voters |-> NoVote],
     deposit |-> [v \in Voters |-> 0], tally |-> NoTally, skips |-> 0, schedule |-> NoBlock]

PipsInit ==
    /\ pip = <<>>
    /\ queues = [live |-> <<>>, snapshot |-> <<>>, taken |-> FALSE, committee |-> <<>>]
    /\ pipCount = 0
    /\ pipLock = [v \in Voters |-> 0]
    /\ pipTasks = [execute |-> <<>>, expire |-> <<>>]
    /\ pipConfig \in Configs
    /\ pipBlock = 1

-----------------------------------------------------------------------------
(* The live queue. *)

Weight(tally) == tally.ayeStake - tally.nayStake

\* aggregate_result
Spip(i, tally) == [id |-> i, weight |-> Weight(tally)]

\* compare_spip: less support first, and among equals the later proposal first.
Below(l, r) == l.weight < r.weight \/ (l.weight = r.weight /\ l.id > r.id)

QueuePosition(q, e) ==
    BinarySearchBy([i \in 1..Len(q) |-> IF q[i] = e THEN "Equal" ELSE IF Below(q[i], e) THEN "Less" ELSE "Greater"])

InsertLiveQueue(q, e) ==
    LET at == QueuePosition(q, e) IN IF at.found THEN q ELSE InsertAt(q, at.pos, e)

\* Mutant: the element is searched for under its new weight.
MutAdjustLiveQueue(q, old, new) ==
    LET at == QueuePosition(q, new)
    IN  InsertLiveQueue(IF at.found THEN RemoveAt(q, at.pos) ELSE q, new)

AdjustLiveQueue(q, old, new) ==
    LET at == QueuePosition(q, old)
    IN  InsertLiveQueue(IF at.found THEN RemoveAt(q, at.pos) ELSE q, new)

Without(q, ids) == SelectSeq(q, LAMBDA e : e.id \notin ids)

-----------------------------------------------------------------------------
(* Votes and deposits. *)

\* One side of the tally, changed by n votes and stake s.
AddVote(tally, aye, n, s) ==
    IF aye THEN [tally EXCEPT !.ayes = @ + n, !.ayeStake = @ + s]
    ELSE [tally EXCEPT !.nays = @ + n, !.nayStake = @ + s]

\* unsafe_vote: an earlier vote of the same account is taken back first.
UnsafeVote(p, v, vote) ==
    LET old  == p.votes[v]
        base == IF old = NoVote THEN p.tally ELSE AddVote(p.tally, old.aye, -1, - old.stake)
    IN  [p EXCEPT !.votes[v] = vote, !.tally = AddVote(base, vote.aye, 1, vote.stake)]

CanLock(v, amount) == pipLock[v] + amount <= FreeBalance[v]

CanUnlock(v, amount) == amount <= pipLock[v]

\* The second half of refund_proposal; Refunded is the first.
ForgetDeposits(p) == [p EXCEPT !.deposit = [v \in Voters |-> 0]]

\* prune_data, of a proposal that is no longer active.
PruneData(p, prune) ==
    IF prune THEN [NewPip(p.proposer) EXCEPT !.state = Gone] ELSE ForgetDeposits(p)

CommitteeAfter(is) == SelectSeq(queues.committee, LAMBDA c : c \notin is)

\* decrement_count_if_active, a saturating subtraction, for each of `is`.
CountWithout(is) ==
    LET n == Cardinality({i \in is : pip[i].state \in Active})
    IN  IF n >= pipCount THEN 0 ELSE pipCount - n

\* maybe_prune: each of `is` gets a final state, is refunded and perhaps pruned.
Closed(i, new) ==
    PruneData([pip[i] EXCEPT !.state = IF @ = Gone THEN Gone ELSE new, !.schedule = NoBlock],
              pipConfig.prune)

Refunded(is) ==
    [v \in Voters |-> pipLock[v] - MapThenSumSet(LAMBDA i : pip[i].deposit[v], is)]

Close(is, new) ==
    /\ pip' = [i \in PipIds |-> IF i \in is THEN Closed(i, new) ELSE pip[i]]
    /\ pipLock' = Refunded(is)
    /\ pipCount' = CountWithout(is)

\* maybe_unsnapshot_pip: only a pending proposal is looked for in the queues.
Unsnapshot(i, q) ==
    IF pip[i].state # "Pending" THEN q
    ELSE [q EXCEPT !.live = Without(@, {i}),
                   !.snapshot = IF q.taken THEN Without(@, {i}) ELSE @]

\* maybe_unschedule_pip
Unscheduled(i) ==
    IF pip[i].state = "Scheduled" THEN [pipTasks EXCEPT !.execute[i] = NoBlock] ELSE pipTasks

\* The execution block of a proposal scheduled now.
EnactAt == pipBlock + (IF pipConfig.period > 1 THEN pipConfig.period ELSE 1)

\* Mutant: the next block is too early for a task.
MutScheduleNamed(tasks, i, at) ==
    IF tasks[i] = NoBlock /\ at > pipBlock + 1 THEN [tasks EXCEPT ![i] = at] ELSE tasks

\* schedule_named fails for a name in use and for a block that is not in the future.
ScheduleNamed(tasks, i, at) ==
    IF tasks[i] = NoBlock /\ at > pipBlock THEN [tasks EXCEPT ![i] = at] ELSE tasks

\* schedule_pip_for_execution
Scheduled(p) ==
    [p EXCEPT !.state = IF @ = Gone THEN Gone ELSE "Scheduled", !.schedule = EnactAt]

-----------------------------------------------------------------------------
(* Calls. *)

\* propose: by an account of the community with a deposit, or by a committee without.
ProposePip(by, amount) ==
    LET i         == Len(pip) + 1
        community == by \in Voters
        made      == IF community
                     THEN UnsafeVote([NewPip(by) EXCEPT !.deposit[by] = amount], by,
                                     [aye |-> TRUE, stake |-> amount])
                     ELSE NewPip(by)
        expiry    == IF pipConfig.expiry = NoBlock THEN NoBlock ELSE pipConfig.expiry + pipBlock
    IN  /\ Len(pip) < MaxPips
        /\ expiry <= MaxPipBlock
        /\ community => /\ pipConfig.limit = 0 \/ pipCount < pipConfig.limit
                        /\ amount >= pipConfig.minDeposit
                        /\ CanLock(by, amount)
        /\ ~ community => amount = 0
        /\ pip' = Append(pip, made)
        /\ pipCount' = pipCount + 1
        /\ pipLock' = IF community THEN [pipLock EXCEPT ![by] = @ + amount] ELSE pipLock
        /\ pipTasks' = [execute |-> Append(pipTasks.execute, NoBlock),
                        expire  |-> ScheduleNamed(Append(pipTasks.expire, NoBlock), i, expiry)]
        /\ queues' = IF community
                     THEN [queues EXCEPT !.live = InsertLiveQueue(@, Spip(i, made.tally))]
                     ELSE [queues EXCEPT !.committee = Append(@, i)]
        /\ UNCHANGED <<pipConfig, pipBlock>>

\* vote: not additive, the deposit replaces the earlier one.
VotePip(v, i, aye, amount) ==
    LET p     == pip[i]
        voted == [UnsafeVote(p, v, [aye |-> aye, stake |-> amount]) EXCEPT !.deposit[v] = amount]
    IN  /\ p.proposer \in Voters
        /\ p.proposer = v => amount >= pipConfig.minDeposit
        /\ p.state = "Pending"
        /\ amount >= p.deposit[v] => CanLock(v, amount - p.deposit[v])
        /\ amount < p.deposit[v] => CanUnlock(v, p.deposit[v] - amount)
        /\ pip' = [pip EXCEPT ![i] = voted]
        /\ pipLock' = [pipLock EXCEPT ![v] = @ + amount - p.deposit[v]]
        /\ queues' = [queues EXCEPT
                        !.live = AdjustLiveQueue(@, Spip(i, p.tally), Spip(i, voted.tally))]
        /\ UNCHANGED <<pipCount, pipTasks, pipConfig, pipBlock>>

ApproveCommitteeProposal(i) ==
    /\ pip[i].state = "Pending"
    /\ pip[i].proposer \in Committees
    /\ EnactAt <= MaxPipBlock
    /\ pip' = [pip EXCEPT ![i] = Scheduled(@)]
    /\ pipTasks' = [pipTasks EXCEPT !.execute = ScheduleNamed(@, i, EnactAt)]
    /\ UNCHANGED <<queues, pipCount, pipLock, pipConfig, pipBlock>>

\* A scheduled proposal may still be rejected; its task is cancelled.
RejectProposal(i) ==
    LET q == Unsnapshot(i, queues)
    IN  /\ pip[i].state \in Active
        /\ pipTasks' = Unscheduled(i)
        /\ Close({i}, "Rejected")
        /\ queues' = IF pipConfig.prune THEN [q EXCEPT !.committee = CommitteeAfter({i})] ELSE q
        /\ UNCHANGED <<pipConfig, pipBlock>>

PruneProposal(i) ==
    /\ pip[i].state \notin Active \cup {Gone}
    /\ pip' = [pip EXCEPT ![i] = PruneData(@, TRUE)]
    /\ pipLock' = Refunded({i})
    /\ queues' = [queues EXCEPT !.committee = CommitteeAfter({i})]
    /\ UNCHANGED <<pipCount, pipTasks, pipConfig, pipBlock>>

\* reschedule_execution by the release coordinator; reschedule_named needs the task.
RescheduleExecution(i, until) ==
    /\ pip[i].state = "Scheduled"
    /\ until > pipBlock
    /\ pip' = [pip EXCEPT ![i].schedule = until]
    /\ pipTasks' = [pipTasks EXCEPT !.execute[i] = IF @ = NoBlock THEN NoBlock ELSE until]
    /\ UNCHANGED <<queues, pipCount, pipLock, pipConfig, pipBlock>>

ClearSnapshot ==
    /\ queues.taken
    /\ queues' = [queues EXCEPT !.taken = FALSE, !.snapshot = <<>>]
    /\ UNCHANGED <<pip, pipCount, pipLock, pipTasks, pipConfig, pipBlock>>

Snapshot ==
    /\ queues' = [queues EXCEPT !.taken = TRUE, !.snapshot = queues.live]
    /\ UNCHANGED <<pip, pipCount, pipLock, pipTasks, pipConfig, pipBlock>>

\* enact_snapshot_results: the results name the tail of the queue, last first.
EnactSnapshotResults(results) ==
    LET q       == queues.snapshot
        n       == Len(results)
        ids     == [k \in 1 .. n |-> q[Len(q) - k + 1].id]
        With(r) == {ids[k] : k \in {j \in 1 .. n : results[j] = r}}
        done    == With("Reject") \cup With("Approve")
        after   == [queues EXCEPT !.snapshot = SubSeq(q, 1, Len(q) - n),
                                  !.live = Without(@, done)]
        After(i) == IF i \in With("Skip") THEN [pip[i] EXCEPT !.skips = @ + 1]
                    ELSE IF i \in With("Reject") THEN Closed(i, "Rejected")
                    ELSE IF i \in With("Approve") THEN Scheduled(pip[i])
                    ELSE pip[i]
    IN  /\ \A i \in With("Skip") : pip[i].skips < pipConfig.maxSkips
        /\ With("Approve") # {} => EnactAt <= MaxPipBlock
        /\ queues' = [after EXCEPT !.committee =
                        IF pipConfig.prune THEN CommitteeAfter(With("Reject")) ELSE @]
        /\ pip' = [i \in PipIds |-> After(i)]
        /\ pipLock' = Refunded(With("Reject"))
        /\ pipCount' = CountWithout(With("Reject"))
        /\ pipTasks' = [pipTasks EXCEPT !.execute =
                          [i \in PipIds |-> IF i \in With("Approve")
                                            THEN ScheduleNamed(@, i, EnactAt)[i] ELSE @[i]]]
        /\ UNCHANGED <<pipConfig, pipBlock>>

\* The scheduler runs execute_scheduled_pip, at its block or later; the call of
\* the proposal succeeds or fails.  An error of the task undoes all it did.
ExecuteScheduledPip(i, ok) ==
    /\ pipTasks.execute[i] # NoBlock /\ pipTasks.execute[i] <= pipBlock
    /\ pipTasks' = [pipTasks EXCEPT !.execute[i] = NoBlock]
    /\ IF pip[i].state = "Scheduled"
       THEN /\ Close({i}, IF ok THEN "Executed" ELSE "Failed")
            /\ queues' = IF pipConfig.prune
                         THEN [queues EXCEPT !.committee = CommitteeAfter({i})] ELSE queues
       ELSE UNCHANGED <<pip, queues, pipCount, pipLock>>
    /\ UNCHANGED <<pipConfig, pipBlock>>

ExpireScheduledPip(i) ==
    LET q == Unsnapshot(i, queues)
    IN  /\ pipTasks.expire[i] # NoBlock /\ pipTasks.expire[i] <= pipBlock
        /\ pipTasks' = [pipTasks EXCEPT !.expire[i] = NoBlock]
        /\ IF pip[i].state = "Pending"
           THEN /\ Close({i}, "Expired")
                /\ queues' = IF pipConfig.prune
                             THEN [q EXCEPT !.committee = CommitteeAfter({i})] ELSE q
           ELSE UNCHANGED <<pip, queues, pipCount, pipLock>>
        /\ UNCHANGED <<pipConfig, pipBlock>>

\* set_prune_historical_pips, set_min_proposal_deposit, set_default_enactment_period,
\* set_pending_pip_expiry, set_max_pip_skip_count, set_active_pip_limit.
SetPipConfig(step) ==
    /\ step[1] = pipConfig
    /\ pipConfig' = step[2]
    /\ UNCHANGED <<pip, queues, pipCount, pipLock, pipTasks, pipBlock>>

PipsBlock ==
    /\ pipBlock < MaxPipBlock
    /\ pipBlock' = pipBlock + 1
    /\ UNCHANGED <<pip, queues, pipCount, pipLock, pipTasks, pipConfig>>

ResultLists ==
    UNION {[1 .. n -> {"Approve", "Reject", "Skip"}] : n \in 1 .. Len(queues.snapshot)}

PipsNext ==
    \/ \E p \in Proposers, a \in Amounts \cup {0} : ProposePip(p, a)
    \/ \E v \in Voters, i \in PipIds, aye \in BOOLEAN, a \in Amounts : VotePip(v, i, aye, a)
    \/ \E i \in PipIds : ApproveCommitteeProposal(i) \/ RejectProposal(i) \/ PruneProposal(i)
    \/ \E i \in PipIds, b \in 1 .. MaxPipBlock : RescheduleExecution(i, b)
    \/ ClearSnapshot
    \/ Snapshot
    \/ \E r \in ResultLists : EnactSnapshotResults(r)
    \/ \E i \in PipIds, ok \in BOOLEAN : ExecuteScheduledPip(i, ok)
    \/ \E i \in PipIds : ExpireScheduledPip(i)
    \/ \E s \in ConfigSteps : SetPipConfig(s)
    \/ PipsBlock

\* Blocks keep coming, and the scheduler runs a due task in some later block.
PipsFairness ==
    /\ WF_pipsVars(PipsBlock)
    /\ \A i \in 1 .. MaxPips :
        /\ WF_pipsVars(i \in PipIds /\ \E ok \in BOOLEAN : ExecuteScheduledPip(i, ok))
        /\ WF_pipsVars(i \in PipIds /\ ExpireScheduledPip(i))

PipsSpec == PipsInit /\ [][PipsNext]_pipsVars /\ PipsFairness

-----------------------------------------------------------------------------
(* Properties. *)

StateOf(i) == IF i \in PipIds THEN pip[i].state ELSE Gone

Pending(i) == pip[i].state = "Pending" /\ pip[i].proposer \in Voters

\* The live queue holds exactly the pending proposals of the community, in the
\* order of their present weights, and the snapshot queue holds, once each, only
\* proposals that are still pending: votes, expiries and rejections while the
\* committee works through a snapshot reach both queues (adjust_live_queue,
\* maybe_unsnapshot_pip, enact_snapshot_results).
PipQueuesExact ==
    LET q == queues.live
        s == queues.snapshot
    IN  /\ {e.id : e \in ToSet(q)} = {i \in PipIds : Pending(i)}
        /\ \A k \in DOMAIN q : q[k] = Spip(q[k].id, pip[q[k].id].tally)
        /\ \A k \in 1 .. Len(q) - 1 : Below(q[k], q[k + 1])
        /\ \A k \in DOMAIN s : Pending(s[k].id)
        /\ \A j, k \in DOMAIN s : s[j].id = s[k].id => j = k

\* What is locked for an account is the sum of its deposits, a deposit is the
\* stake of a vote on an active proposal, and the tally counts the votes:
\* the unwrap in refund_proposal and the subtractions in unsafe_vote cannot fail.
PipMoneyExact ==
    /\ \A v \in Voters : pipLock[v] = MapThenSumSet(LAMBDA i : pip[i].deposit[v], PipIds)
    /\ \A i \in PipIds, v \in Voters :
        pip[i].deposit[v] > 0 => /\ pip[i].state \in Active
                                 /\ pip[i].deposit[v] = pip[i].votes[v].stake
    /\ \A i \in PipIds :
        LET Side(b) == {v \in Voters : pip[i].votes[v] # NoVote /\ pip[i].votes[v].aye = b}
            Sum(b)  == MapThenSumSet(LAMBDA v : pip[i].votes[v].stake, Side(b))
        IN  pip[i].tally = [ayes |-> Cardinality(Side(TRUE)), ayeStake |-> Sum(TRUE),
                            nays |-> Cardinality(Side(FALSE)), nayStake |-> Sum(FALSE)]

\* A proposal is scheduled exactly while the scheduler has its execution task,
\* at the block PipToSchedule says, and the active count is the number of
\* proposals that are pending or scheduled.
PipScheduleExact ==
    /\ \A i \in PipIds :
        /\ (pip[i].state = "Scheduled") <=> (pipTasks.execute[i] # NoBlock)
        /\ pip[i].schedule = pipTasks.execute[i]
    /\ pipCount = Cardinality({i \in PipIds : pip[i].state \in Active})

\* The queues, the money and the schedule of proposals are exact.
PipBooksExact == PipQueuesExact /\ PipMoneyExact /\ PipScheduleExact

\* A scheduled proposal is executed or rejected in the end, and a pending one
\* with an expiry task does not stay pending for ever.
ScheduledPipLeaves ==
    \A i \in 1 .. MaxPips :
        /\ (StateOf(i) = "Scheduled") ~> (StateOf(i) # "Scheduled")
        /\ (StateOf(i) = "Pending" /\ pipTasks.expire[i] # NoBlock) ~> (StateOf(i) # "Pending")
=============================================================================
