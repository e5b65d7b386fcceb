----------------------------- MODULE Checkpoints ----------------------------
(***************************************************************************)
(* Checkpoints of the balances of an asset (pallets/asset/src/checkpoint):   *)
(* made by an agent, or due at the dates of a schedule.  Nothing runs when a *)
(* date passes: the next change of a balance first makes the checkpoints     *)
(* that are due, then stores the old balance of the holders it touches, once *)
(* for each checkpoint.  One asset.                                          *)
(***************************************************************************)
EXTENDS Integers, Sequences, FiniteSets
LOCAL INSTANCE FiniteSetsExt
LOCAL INSTANCE SequencesExt

CONSTANTS
    Holders, Issuer,    \* identities; the agent, who issues and redeems
    FirstBalance,       \* their balances at first
    ScheduleForms,      \* sets of dates a schedule can be created with
    Complexities,       \* values of SchedulesMaxComplexity
    MaxSchedules, MaxCheckpoints, MaxCpTime, MaxMoves   \* bounds

VARIABLES
    cpBalance,          \* Asset::BalanceOf; the supply is their sum
    supplyAt, stamps,   \* TotalSupply, Timestamps of the checkpoints 1..CheckpointIdSequence
    updates,            \* BalanceUpdates with Balance: per holder, [cp, bal] by checkpoint
    pendingOf, points, refs,    \* ScheduledCheckpoints, SchedulePoints, ScheduleRefCount
    cached,             \* CachedNextCheckpoints
    maxComplexity,
    cpTime,
    moves,              \* how often balances changed, for the bound
    due, truth          \* history: the balances at each date of a schedule, and of each checkpoint

cpVars == <<cpBalance, supplyAt, stamps, updates, pendingOf, points, refs, cached, maxComplexity,
            cpTime, moves, due, truth>>

Never == 99
NoSchedule == [at |-> Never, total |-> 0, next |-> <<>>]
SumOf(b) == MapThenSumSet(LAMBDA d : b[d], Holders)
Sorted(S) == [i \in 1..Cardinality(S) |-> CHOOSE x \in S : Cardinality({y \in S : y < x}) = i - 1]

CheckpointsInit ==
    /\ cpBalance = FirstBalance
    /\ supplyAt = <<>> /\ stamps = <<>> /\ truth = <<>>
    /\ updates = [d \in Holders |-> <<>>]
    /\ pendingOf = <<>> /\ points = <<>> /\ refs = <<>> /\ due = <<>>
    /\ cached = NoSchedule
    /\ maxComplexity \in Complexities
    /\ cpTime = 0 /\ moves = 0

-----------------------------------------------------------------------------
(* Balances at a checkpoint. *)

CheckpointExists(cp) == cp \in 1..Len(stamps)

\* find_ceiling
FindCeiling(us, cp) == us[CHOOSE i \in DOMAIN us : us[i].cp >= cp /\ \A j \in 1..(i - 1) : us[j].cp < cp]

\* Asset::get_balance_at, with balance_at
BalanceAt(d, cp) ==
    LET us == updates[d]
    IN  IF CheckpointExists(cp) /\ us # <<>> /\ cp <= us[Len(us)].cp
        THEN FindCeiling(us, cp).bal ELSE cpBalance[d]

-----------------------------------------------------------------------------
(* Schedules. *)

FirstOf(next) == IF next = <<>> THEN Never ELSE Min({next[s] : s \in DOMAIN next})

\* add_schedule_next, inc_total_pending
CacheWith(c, s, date, n) ==
    [at |-> IF date < c.at THEN date ELSE c.at, total |-> c.total + n,
     next |-> [t \in DOMAIN c.next \cup {s} |-> IF t = s THEN date ELSE c.next[t]]]

\* Mutant: the first date is not looked for again.
MutCacheWithout(c, s, n) == [c EXCEPT !.total = @ - n, !.next = [t \in DOMAIN c.next \ {s} |-> c.next[t]]]

\* remove_schedule, dec_total_pending
CacheWithout(c, s, n) ==
    LET next == [t \in DOMAIN c.next \ {s} |-> c.next[t]]
    IN  [at |-> IF s \in DOMAIN c.next /\ c.next[s] = c.at THEN FirstOf(next) ELSE c.at,
         total |-> c.total - n, next |-> next]

\* remove_expired
Expired(s) == {t \in pendingOf[s] : cpTime >= t}

\* advance_schedules: [made, made points, pending, cache] of the schedules the cache says are due.
Advanced ==
    LET over    == {s \in DOMAIN cached.next : cpTime >= cached.at /\ cpTime >= cached.next[s]}
        made    == FlattenSeq([k \in 1..Cardinality(over) |->
                       LET s == Sorted(over)[k]
                       IN  [i \in 1..Cardinality(Expired(s)) |->
                               [sched |-> s, at |-> Sorted(Expired(s))[i]]]])
        pending == [s \in DOMAIN pendingOf |-> IF s \in over THEN pendingOf[s] \ Expired(s) ELSE pendingOf[s]]
        rest    == [s \in DOMAIN cached.next \ over |-> cached.next[s]]
        kept    == [at |-> IF cpTime >= cached.at THEN FirstOf(rest) ELSE cached.at,
                    total |-> cached.total - Len(made), next |-> rest]
    IN  [made |-> made, pending |-> pending,
         points |-> [s \in DOMAIN points |-> points[s] \o
             [i \in 1..Len(SelectSeq(made, LAMBDA m : m.sched = s)) |->
                 Len(stamps) + (CHOOSE k \in DOMAIN made :
                     made[k].sched = s /\ Cardinality({j \in 1..k : made[j].sched = s}) = i)]],
         cached |-> FoldSet(LAMBDA s, c : CacheWith(c, s, Min(pending[s]), 0), kept,
                            {s \in over : pending[s] # {}})]

\* update_balances
UpdateBalances(ds, last) ==
    [d \in Holders |-> IF d \in ds /\ last > 0 /\ (updates[d] = <<>> \/ updates[d][Len(updates[d])].cp # last)
                       THEN Append(updates[d], [cp |-> last, bal |-> cpBalance[d]])
                       ELSE updates[d]]

\* advance_update_balances, before a change of the balances of `ds`.
AdvanceUpdateBalances(ds) ==
    LET adv == Advanced
        n   == Len(stamps) + Len(adv.made)
    IN  /\ n <= MaxCheckpoints /\ moves < MaxMoves
        /\ moves' = moves + 1
        /\ stamps' = stamps \o [i \in DOMAIN adv.made |-> adv.made[i].at]
        /\ supplyAt' = supplyAt \o [i \in DOMAIN adv.made |-> SumOf(cpBalance)]
        /\ truth' = truth \o [i \in DOMAIN adv.made |-> due[adv.made[i].sched][adv.made[i].at]]
        /\ pendingOf' = adv.pending /\ points' = adv.points
        /\ cached' = adv.cached
        /\ updates' = UpdateBalances(ds, n)
        /\ UNCHANGED <<refs, maxComplexity, cpTime, due>>

\* base_create_schedule, with the references it starts with, after the references `rs`.
CreateScheduleWith(dates, refCount, rs) ==
    LET id == Len(pendingOf) + 1
    IN  /\ id <= MaxSchedules
        /\ dates # {} /\ cached.total + Cardinality(dates) <= maxComplexity
        /\ \A t \in dates : t >= cpTime
        /\ cached' = CacheWith(cached, id, Min(dates), Cardinality(dates))
        /\ pendingOf' = Append(pendingOf, dates)
        /\ points' = Append(points, <<>>)
        /\ refs' = Append(rs, refCount)
        /\ due' = Append(due, [t \in dates |-> cpBalance])
        /\ UNCHANGED <<cpBalance, supplyAt, stamps, updates, maxComplexity, cpTime, moves, truth>>

-----------------------------------------------------------------------------
(* Calls. *)

\* create_checkpoint: the schedules are not advanced.
CreateCheckpoint ==
    /\ Len(stamps) < MaxCheckpoints
    /\ stamps' = Append(stamps, cpTime)
    /\ supplyAt' = Append(supplyAt, SumOf(cpBalance))
    /\ truth' = Append(truth, cpBalance)
    /\ UNCHANGED <<cpBalance, updates, pendingOf, points, refs, cached, maxComplexity, cpTime, moves, due>>

SetSchedulesMaxComplexity(n) ==
    /\ maxComplexity' = n
    /\ UNCHANGED <<cpBalance, supplyAt, stamps, updates, pendingOf, points, refs, cached, cpTime, moves, due, truth>>

CreateSchedule(dates) == CreateScheduleWith(dates, 0, refs)

Removable(s) == pendingOf[s] # {} /\ refs[s] = 0

\* remove_schedule: the points already made stay.
RemoveSchedule(s) ==
    /\ Removable(s)
    /\ refs' = [refs EXCEPT ![s] = 0]
    /\ cached' = CacheWithout(cached, s, Cardinality(pendingOf[s]))
    /\ pendingOf' = [pendingOf EXCEPT ![s] = {}]
    /\ UNCHANGED <<cpBalance, supplyAt, stamps, updates, points, maxComplexity, cpTime, moves, due, truth>>

\* The changes of balances: unsafe_transfer, _mint and base_redeem.
Shift(from, to) ==
    /\ from # to /\ cpBalance[from] > 0
    /\ AdvanceUpdateBalances({from, to})
    /\ cpBalance' = [cpBalance EXCEPT ![from] = @ - 1, ![to] = @ + 1]

MintCp ==
    /\ AdvanceUpdateBalances({Issuer})
    /\ cpBalance' = [cpBalance EXCEPT ![Issuer] = @ + 1]

RedeemCp ==
    /\ cpBalance[Issuer] > 0
    /\ AdvanceUpdateBalances({Issuer})
    /\ cpBalance' = [cpBalance EXCEPT ![Issuer] = @ - 1]

\* Time passes; the balances at a date are those when it comes.
CpTick ==
    /\ cpTime < MaxCpTime
    /\ cpTime' = cpTime + 1
    /\ due' = [s \in DOMAIN due |-> [t \in DOMAIN due[s] |-> IF t >= cpTime' THEN cpBalance ELSE due[s][t]]]
    /\ UNCHANGED <<cpBalance, supplyAt, stamps, updates, pendingOf, points, refs, cached, maxComplexity, moves, truth>>

CheckpointsNext ==
    \/ CreateCheckpoint
    \/ \E n \in Complexities : SetSchedulesMaxComplexity(n)
    \/ \E f \in ScheduleForms : CreateSchedule(f)
    \/ \E s \in DOMAIN pendingOf : RemoveSchedule(s)
    \/ MintCp \/ RedeemCp \/ \E d, e \in Holders : Shift(d, e)
    \/ CpTick

-----------------------------------------------------------------------------
(* Properties. *)

\* What a checkpoint says of a holder and of the supply is what they were at its date, however
\* late it is made, however many dates are made at once and whatever moved since
\* (advance_update_balances, balance_at, create_at).
CheckpointsExact ==
    \A cp \in DOMAIN stamps :
        /\ \A d \in Holders : BalanceAt(d, cp) = truth[cp][d]
        /\ supplyAt[cp] = SumOf(truth[cp])

\* The cache knows every pending date, or a due checkpoint would be missed
\* (CachedNextCheckpoints, advance_schedules, base_remove_schedule).
CacheExact ==
    /\ DOMAIN cached.next = {s \in DOMAIN pendingOf : pendingOf[s] # {}}
    /\ \A s \in DOMAIN cached.next : cached.next[s] = Min(pendingOf[s])
    /\ cached.at = FirstOf(cached.next)
    /\ cached.total = MapThenSumSet(LAMBDA s : Cardinality(pendingOf[s]), DOMAIN pendingOf)
    /\ \A s \in DOMAIN points : \A i \in DOMAIN points[s] :
           stamps[points[s][i]] \in DOMAIN due[s] \ pendingOf[s]

\* Every date of a schedule gets its checkpoint, and the checkpoint tells the balances of
\* its date: the two above, which fail together when a cached date is stale.
SchedulesExact == CheckpointsExact /\ CacheExact
=============================================================================
