-------------------------------- MODULE Eras --------------------------------
(***************************************************************************)
(* Sessions and eras of the staking pallet: the election window and the    *)
(* validator set it elects, the rewards of an era and their payout, and    *)
(* offences with their deferred slashes.                                   *)
(*                                                                         *)
(* The session pallet and the Phragmen election are not part of this       *)
(* repository.  The first ends a session, starts the next and plans the    *)
(* one after it; the second yields some set of the wanted number of        *)
(* candidates and, for every voter, a winner among its targets.            *)
(***************************************************************************)
EXTENDS Staking
LOCAL INSTANCE SequencesExt
LOCAL INSTANCE FiniteSetsExt
LOCAL INSTANCE Functions

CONSTANTS
    SessionsPerEra, SlashDeferDuration,
    MinimumValidatorCount,
    MaxNominatorRewarded,    \* MaxNominatorRewardedPerValidator
    RewardProportion,        \* SlashRewardFraction, in Parts
    Invulnerables,
    EraPayouts,              \* what the inflation curve may yield for an era
    Fractions                \* slash fractions, in Parts

ASSUME ErasAssumption ==
    /\ SessionsPerEra \in Nat \ {0}
    /\ SlashDeferDuration + 1 < BondingDuration

VARIABLES
    session, sessionSet, queuedSet,  \* the session pallet: index, validators, next validators
    active,        \* ActiveEra: [index, started]
    startOf,       \* ErasStartSessionIndex
    bondedEras,    \* BondedEras: sequence of <<era, first session>>
    forceEra, sessionFinal,
    snapshot,      \* SnapshotValidators and SnapshotNominators, empty when killed
    queued,        \* QueuedElected and QueuedScore
    stakers,       \* ErasStakers and ErasValidatorPrefs: era -> stash -> exposure
    reward, points,    \* ErasValidatorReward, ErasRewardPoints
    payoutTasks,   \* scheduled payout_stakers_by_system calls
    slashInEra,    \* ValidatorSlashInEra and NominatorSlashInEra: <<era, stash>> -> Nat
    unapplied,     \* UnappliedSlashes: era -> sequence
    earliest,      \* EarliestUnappliedSlash
    offending,     \* OffendingValidators: stash -> disabled
    slashFor,      \* SlashingAllowedFor
    paid, charged  \* history: payouts per <<era, stash>>; slashes per <<era, stash>>

sessionVars == <<session, sessionSet, queuedSet, active, startOf, bondedEras>>
electionVars == <<sessionFinal, snapshot, queued>>
rewardVars == <<reward, points, payoutTasks, paid>>
slashVars == <<slashInEra, unapplied, earliest, offending, slashFor, charged>>
erasVars == <<sessionVars, electionVars, rewardVars, slashVars, stakers, forceEra>>
stakingVars == <<bondVars, roleVars, spanVars, eraVars, cdd, limits>>

None == <<>>
Null == -1
Get(f, x, default) == IF x \in DOMAIN f THEN f[x] ELSE default
Nothing == [own |-> 0, others |-> <<>>]
Total(e) == e.own + MapThenSumSet(LAMBDA n : e.others[n], DOMAIN e.others)

----------------------------------------------------------------------------
(* Elections.                                                              *)

\* slashable_balance_of, given the ledgers.
Slashable(led, s) ==
    IF s \in DOMAIN bonded /\ bonded[s] \in DOMAIN led THEN led[bonded[s]].active ELSE 0

\* is_active_balance_above_min_bond and is_validator_compliant.
Candidates(led) ==
    {v \in DOMAIN validators :
        /\ v \in DOMAIN bonded /\ bonded[v] \in DOMAIN led
        /\ led[bonded[v]].active >= limits.threshold
        /\ cdd[DidOf[v]] # "none" /\ DidOf[v] \in DOMAIN permissioned}

\* A nomination counts for a target unless the target was slashed after it.
StillCounts(nomination, target) ==
    target \in DOMAIN spans => nomination.era >= spans[target].last

VotesFor(n) == {t \in nominators[n].targets : StillCounts(nominators[n], t)}

\* collect_exposure: the support of every winner.
CollectExposure(led, winners, vote) ==
    [w \in winners |->
        [own |-> IF w \in DOMAIN vote /\ vote[w] = w THEN Slashable(led, w) ELSE 0,
         others |-> LET backers == {n \in DOMAIN vote \ {w} : vote[n] = w}
                    IN  [n \in backers |-> Slashable(led, n)]]]

\* do_phragmen: the elections the current validators and nominators allow;
\* none if there are too few candidates.
DoPhragmen(led) ==
    LET candidates == Candidates(led)
        wanted == Least(limits.count, Cardinality(candidates))
        voters == {n \in DOMAIN nominators : cdd[DidOf[n]] # "none"}
        Votes(winners) ==
            LET able == {n \in voters : VotesFor(n) \cap winners # {}}
            IN  {vote \in [winners \cup able -> winners] :
                    /\ \A w \in winners : vote[w] = w
                    /\ \A n \in able \ winners : vote[n] \in VotesFor(n)}
    IN  IF Cardinality(candidates) < Most(MinimumValidatorCount, 1) THEN {}
        ELSE UNION {{[winners |-> ws, vote |-> vote] : vote \in Votes(ws)}
                      : ws \in {c \in SUBSET candidates : Cardinality(c) = wanted}}

\* The score of a solution is its least supported winner, then the total stake.
Score(exposures) ==
    LET sums == {Total(exposures[w]) : w \in DOMAIN exposures}
    IN  <<IF sums = {} THEN 0 ELSE Min(sums),
          MapThenSumSet(LAMBDA w : Total(exposures[w]), DOMAIN exposures)>>
Better(s, t) == s[1] > t[1] \/ (s[1] = t[1] /\ s[2] > t[2])

\* on_initialize: late in the final session of an era, or when an era is
\* forced, the stakers are recorded and the window opens.
WillEraBeForced == forceEra \in {"ForceAlways", "ForceNew"}
CreateStakersSnapshot ==
    snapshot' = [validators |-> Candidates(ledger),
                 voters |-> DOMAIN nominators \cup Candidates(ledger)]
OpenElectionWindow ==
    /\ ~electionOpen
    /\ sessionFinal \/ WillEraBeForced
    /\ CreateStakersSnapshot
    /\ electionOpen' = TRUE
    /\ UNCHANGED <<bondVars, roleVars, spanVars, cdd, limits, currentEra, historyDepth,
                   sessionVars, sessionFinal, queued, rewardVars, slashVars, stakers, forceEra>>

\* pre_dispatch_checks: the window is open, the solution is of this era and
\* its score beats the queued one.
PreDispatchChecks(score, era) ==
    /\ electionOpen
    /\ era = currentEra
    /\ queued # None => Better(score, queued.score)

\* A voter of the snapshot must still be a validator, voting for itself, or a
\* nominator, voting for a target it nominated since the target's last slash.
ValidVote(who, target) ==
    /\ (who \in DOMAIN validators) # (who \in DOMAIN nominators)
    /\ who \in DOMAIN validators => target = who
    /\ who \in DOMAIN nominators => target \in VotesFor(who)

\* check_and_replace_solution.  The solution names winners and, for some
\* voters of the snapshot, the target each votes for; as many targets as
\* winners must occur, but they need not be the winners.
CheckAndReplaceSolution(sol) ==
    LET targets == Range(sol.vote)
        exposures == CollectExposure(ledger, targets, sol.vote)
    IN  /\ PreDispatchChecks(Score(exposures), sol.era)
        /\ Cardinality(targets) = Cardinality(sol.winners)
        /\ Cardinality(sol.winners) = Least(limits.count, Cardinality(snapshot.validators))
        /\ sol.winners \subseteq snapshot.validators
        /\ DOMAIN sol.vote \subseteq snapshot.voters /\ targets \subseteq snapshot.validators
        /\ \A who \in DOMAIN sol.vote : ValidVote(who, sol.vote[who])
        /\ queued' = [winners |-> sol.winners, exposures |-> exposures, score |-> Score(exposures)]

SubmitElectionSolution(sol) ==
    /\ CheckAndReplaceSolution(sol)
    /\ UNCHANGED <<stakingVars, sessionVars, sessionFinal, snapshot, rewardVars, slashVars,
                   stakers, forceEra>>

\* prepare_submission: the result in terms of the snapshot, if it covers it.
PrepareSubmission(result) ==
    {sol \in {[winners |-> result.winners, vote |-> result.vote, era |-> currentEra]} :
        sol.winners \subseteq snapshot.validators /\ DOMAIN sol.vote \subseteq snapshot.voters}

\* validate_unsigned and pre_dispatch: an unsigned solution passes the checks
\* when the pool takes it and once more in the block.
SubmitUnsigned(sol) ==
    /\ PreDispatchChecks(Score(CollectExposure(ledger, Range(sol.vote), sol.vote)), sol.era)
    /\ SubmitElectionSolution(sol)

\* A validator's own election is submitted unsigned.
OffchainWorker ==
    /\ electionOpen
    /\ \E result \in DoPhragmen(ledger) :
          \E sol \in PrepareSubmission(result) : SubmitUnsigned(sol)

\* select_and_update_validators: the results an election may have, given the
\* ledgers.  A queued solution is taken; without one the chain elects.
Elected(led) ==
    IF queued # None THEN {[winners |-> queued.winners, exposures |-> queued.exposures]}
    ELSE {[winners |-> r.winners, exposures |-> CollectExposure(led, r.winners, r.vote)]
            : r \in DoPhragmen(led)}

\* Clipped exposure: only the largest nominators are rewarded.
Clipped(e) ==
    IF Cardinality(DOMAIN e.others) <= MaxNominatorRewarded THEN e.others
    ELSE Restrict(e.others, CHOOSE top \in SUBSET DOMAIN e.others :
            /\ Cardinality(top) = MaxNominatorRewarded
            /\ \A n \in top, m \in DOMAIN e.others \ top : e.others[n] >= e.others[m])

\* What is recorded for every winner and every exposed stash of a new era.
EraStakers(result) ==
    [s \in result.winners \cup DOMAIN result.exposures |->
        [exposure |-> Get(result.exposures, s, Nothing),
         clipped |-> Clipped(Get(result.exposures, s, Nothing)),
         commission |-> Get(validators, s, [commission |-> 0, blocked |-> FALSE]).commission]]

----------------------------------------------------------------------------
(* Rewards.                                                                *)

\* reward_by_ids, for the author of a block.
NoteAuthor(v) ==
    /\ v \in sessionSet
    /\ LET old == Get(points, active.index, <<>>)
       IN  points' = (active.index :> ((v :> Get(old, v, 0) + 1) @@ old)) @@ points
    /\ UNCHANGED <<stakingVars, sessionVars, electionVars, reward, payoutTasks, paid,
                   slashVars, stakers, forceEra>>

\* make_payout for every stash of `due`: a staked reward is added to the bond.
MakePayouts(led, due) ==
    LET dest == [s \in DOMAIN due |-> Get(payee, s, "Staked")]
        owned == {s \in DOMAIN due : s \in DOMAIN bonded}
        staked == {s \in owned : dest[s] = "Staked"}
        Receives(a) ==
            {s \in DOMAIN due :
                \/ a = s /\ dest[s] = "Stash"
                \/ a = s /\ s \in staked
                \/ dest[s] = "Controller" /\ s \in owned /\ bonded[s] = a}
    IN  /\ free' = [a \in Accounts |->
                      free[a] + MapThenSumSet(LAMBDA s : due[s], Receives(a))]
        /\ ledger' = [c \in DOMAIN led |->
                        IF led[c].stash \in staked
                        THEN [led[c] EXCEPT !.active = @ + due[led[c].stash],
                                            !.total = @ + due[led[c].stash]]
                        ELSE led[c]]
        /\ lock' = [s \in Stashes |->
                      IF s \in staked THEN led[bonded[s]].total + due[s] ELSE lock[s]]

\* What the validator and its rewarded nominators get of the era's reward.
Shares(v, era) ==
    LET of == Get(stakers[era], v, [exposure |-> Nothing, clipped |-> <<>>, commission |-> 0])
        scored == Get(points, era, <<>>)
        total == MapThenSumSet(LAMBDA s : scored[s], DOMAIN scored)
        sum == Portion(FromRational(Get(scored, v, 0), total), reward[era])
        cut == Portion(of.commission, sum)
        Part(stake) == Portion(FromRational(stake, Total(of.exposure)), sum - cut)
    IN  IF Get(scored, v, 0) = 0 THEN <<>>
        ELSE (v :> Part(of.exposure.own) + cut) @@ [n \in DOMAIN of.clipped |-> Part(of.clipped[n])]

Unclaimed(v, era) == era \notin LedgerOf(v).claimed

\* do_payout_stakers: the era must be within the history and not yet claimed.
Payable(v, era) ==
    /\ ~electionOpen
    /\ era <= currentEra /\ era >= Minus(currentEra, historyDepth)
    /\ era \in DOMAIN reward
    /\ IsStash(v)
    /\ Unclaimed(v, era)

\* The eras that stay in claimed_rewards: only what is out of reach is dropped.
StillClaimable(v) == {e \in LedgerOf(v).claimed : e >= Minus(currentEra, historyDepth)}

DoPayoutStakers(v, era) ==
    /\ Payable(v, era)
    /\ MakePayouts([ledger EXCEPT ![bonded[v]].claimed = StillClaimable(v) \cup {era}],
                   Shares(v, era))
    /\ paid' = (<<era, v>> :> Get(paid, <<era, v>>, 0) + 1) @@ paid
    /\ UNCHANGED <<bonded, payee, roleVars, spanVars, eraVars, cdd, limits, sessionVars,
                   electionVars, reward, points, slashVars, stakers, forceEra>>

PayoutStakers(v, era) == DoPayoutStakers(v, era) /\ UNCHANGED payoutTasks

\* A task scheduled by end_era runs once; if the payout is refused it is lost.
PayoutStakersBySystem(task) ==
    /\ task \in payoutTasks
    /\ payoutTasks' = payoutTasks \ {task}
    /\ IF Payable(task[1], task[2]) THEN DoPayoutStakers(task[1], task[2])
       ELSE UNCHANGED <<stakingVars, sessionVars, electionVars, reward, points, paid,
                        slashVars, stakers, forceEra>>

\* inflation::compute_total_payout, given the portion of the yearly inflation,
\* its maximum and the fixed reward that replaces it above a total issuance.
ComputeTotalPayout(p) ==
    IF p.fixedApplies /\ p.fixed <= p.curve THEN <<p.fixed, p.fixed>> ELSE <<p.curve, p.maximum>>

\* clear_era_information.
Cleared(f, eras) == Restrict(f, DOMAIN f \ eras)

SetHistoryDepth(depth) ==
    LET gone == Minus(currentEra, historyDepth)..Minus(currentEra, depth) - 1
    IN  /\ historyDepth' = depth
        /\ stakers' = Cleared(stakers, gone)
        /\ reward' = Cleared(reward, gone)
        /\ points' = Cleared(points, gone)
        /\ startOf' = Cleared(startOf, gone)
        /\ UNCHANGED <<bondVars, roleVars, spanVars, currentEra, electionOpen, cdd, limits,
                       session, sessionSet, queuedSet, active, bondedEras, electionVars,
                       payoutTasks, paid, slashVars, forceEra>>

----------------------------------------------------------------------------
(* Offences.                                                               *)

\* The span records of one staker while an offence is looked at:
\* fetch_spans, compare_and_update_span_slash, end_span and the drop handler.
\* `st` is [spans, spanSlash]; the result adds what is charged, and whether
\* the offence falls in the ongoing span.

\* Mutant: what was slashed before is not taken into account.
MutCharge(record, amount) == amount

\* What a larger slash of the same span adds.
Charge(record, amount) == Minus(amount, record.slashed)

\* What is left when `spans` and the slash records are written back: the
\* records of pruned spans go.
WriteBack(stash, st, spansOf, records) ==
    [spans |-> (stash :> spansOf) @@ st.spans,
     spanSlash |-> Restrict(records, {k \in DOMAIN records :
                                        k[1] = stash => k[2] >= FirstIndex(spansOf)})]

\* The reward for reporting grows with the slash of the span.
Earned(record, amount) ==
    IF amount < record.slashed THEN 0
    ELSE Portion(Parts \div 2, Minus(Portion(RewardProportion, amount), record.paid))

\* compare_and_update_span_slash, for the span `target` of `old` with its
\* record: a larger slash replaces the recorded one and its difference is
\* charged.
CompareAndUpdate(st, stash, amount, old, target, record, slashEra) ==
    IF target = NoSpan THEN [spansOf |-> old, records |-> st.spanSlash, charge |-> 0, dirty |-> FALSE]
    ELSE LET earned == Earned(record, amount)
             grew == amount > record.slashed
         IN  [spansOf |-> IF grew THEN [old EXCEPT !.last = Most(@, slashEra)] ELSE old,
              records |-> IF ~grew /\ earned = 0 THEN st.spanSlash
                          ELSE (<<stash, target>> :>
                                  [slashed |-> Most(amount, record.slashed),
                                   paid |-> record.paid + earned]) @@ st.spanSlash,
              charge |-> IF grew THEN Charge(record, amount) ELSE 0,
              dirty |-> grew \/ earned > 0]

\* An offence in the ongoing span ends it; spans that changed are pruned.
EndAndPrune(stash, st, marked, records, recent, dirty, windowStart, now) ==
    LET ended == IF recent THEN EndSpan(marked, now) ELSE marked
    IN  WriteBack(stash, st,
                  IF dirty \/ ended # marked THEN PruneSpans(ended, windowStart) ELSE marked,
                  records)
        @@ [recent |-> recent]

InspectSpan(st, stash, amount, old, target, slashEra, windowStart, now) ==
    LET record == Get(st.spanSlash, <<stash, target>>, [slashed |-> 0, paid |-> 0])
        Finish(seen) ==
            EndAndPrune(stash, st, seen.spansOf, seen.records, target = old.index, seen.dirty,
                        windowStart, now) @@ [charge |-> seen.charge]
    IN  Finish(CompareAndUpdate(st, stash, amount, old, target, record, slashEra))

InspectSpans(st, stash, amount, slashEra, windowStart, now) ==
    LET old == Get(st.spans, stash, NewSpans(windowStart))
    IN  InspectSpan(st, stash, amount, old, EraSpan(old, slashEra), slashEra, windowStart, now)

\* kick_out_if_recent: no slash, but an offence in the ongoing span ends it.
KickOut(st, stash, slashEra, windowStart, now) ==
    LET old == Get(st.spans, stash, NewSpans(windowStart))
    IN  EndAndPrune(stash, st, old, st.spanSlash, EraSpan(old, slashEra) = old.index, FALSE,
                    windowStart, now)

\* slash_nominators: every exposed nominator, in turn.  `st` gathers the span
\* records, the nominators' slashes of the era and what each is charged.
SlashNominators(st, exposure, fraction, prior, slashEra, windowStart, now) ==
    LET One(n, acc) ==
            LET value == exposure.others[n]
                grown == Get(acc.inEra, <<slashEra, n>>, 0)
                           + Minus(Portion(fraction, value), Portion(prior, value))
                seen == InspectSpans(acc, n, grown, slashEra, windowStart, now)
            IN  [spans |-> seen.spans, spanSlash |-> seen.spanSlash,
                 inEra |-> (<<slashEra, n>> :> grown) @@ acc.inEra,
                 others |-> (n :> seen.charge) @@ acc.others]
    IN  FoldSet(One, [spans |-> st.spans, spanSlash |-> st.spanSlash, inEra |-> st.inEra,
                      others |-> <<>>], DOMAIN exposure.others)

\* do_slash and apply_slash over [ledger, free, lock].
DoSlash(st, stash, value) ==
    IF stash \notin DOMAIN bonded \/ bonded[stash] \notin DOMAIN st.ledger THEN st
    ELSE LET old == st.ledger[bonded[stash]]
             new == SlashLedger(old, value)
         IN  IF new.total = old.total THEN st
             ELSE [ledger |-> [st.ledger EXCEPT ![bonded[stash]] = new],
                   free |-> [st.free EXCEPT ![stash] = Minus(@, old.total - new.total)],
                   lock |-> [st.lock EXCEPT ![stash] = new.total]]

ApplySlash(st, slash) ==
    LET first == DoSlash(st, slash.validator, slash.own)
    IN  IF slashFor # "ValidatorAndNominator" THEN first
        ELSE FoldSet(LAMBDA n, acc : DoSlash(acc, n, slash.others[n]), first, DOMAIN slash.others)

Applied(slashes) ==
    FoldLeft(ApplySlash, [ledger |-> ledger, free |-> free, lock |-> lock], slashes)

\* add_offending_validator: enough offenders force a new era.
AddOffending(v, disable) ==
    IF v \notin sessionSet THEN UNCHANGED <<offending, forceEra>>
    ELSE /\ offending' = (v :> (disable \/ Get(offending, v, FALSE))) @@ offending
         /\ forceEra' = IF v \notin DOMAIN offending /\ ~WillEraBeForced
                           /\ Cardinality(DOMAIN offending) + 1
                                >= Portion(FromRational(17, 100), Cardinality(sessionSet))
                        THEN "ForceNew" ELSE forceEra

\* The era an offence of `slashSession` belongs to.
SlashEra(slashSession) ==
    IF slashSession >= Get(startOf, active.index, 0) THEN active.index
    ELSE Max({e[1] : e \in {b \in Range(bondedEras) : b[2] <= slashSession}})

\* compute_slash: what an offence of `era` leaves in the span records, whether
\* the offender is chilled (`recent`), and the slash.  A fraction of nothing is
\* no slash; a fraction no larger than an earlier one of the era has no effect.
ComputeSlash(v, fraction, exposure, era, window, now) ==
    LET st == [spans |-> spans, spanSlash |-> spanSlash, inEra |-> slashInEra]
        prior == Get(slashInEra, <<era, v, "validator">>, 0)
        Slash(own, end) ==
            [spans |-> end.spans, spanSlash |-> end.spanSlash, recent |-> own.recent, counts |-> TRUE,
             inEra |-> (<<era, v, "validator">> :> fraction) @@ end.inEra,
             slash |-> [validator |-> v, own |-> own.charge, others |-> end.others, era |-> era]]
        WithOwn(own) ==
            Slash(own, SlashNominators([spans |-> own.spans, spanSlash |-> own.spanSlash,
                                        inEra |-> slashInEra],
                                       IF slashFor = "ValidatorAndNominator" THEN exposure ELSE Nothing,
                                       fraction, prior, era, window, now))
    IN  IF Portion(fraction, Total(exposure)) = 0
        THEN KickOut(st, v, era, window, now) @@ [inEra |-> slashInEra, slash |-> None, counts |-> TRUE]
        ELSE IF fraction <= prior
        THEN st @@ [recent |-> FALSE, slash |-> None, counts |-> FALSE]
        ELSE WithOwn(InspectSpans(st, v, Portion(fraction, exposure.own), era, window, now))

\* A slash is applied at once or kept until its deferral ends.
TakeSlash(slash) ==
    IF slash = None THEN UNCHANGED <<bondVars, unapplied, charged>>
    ELSE LET hit == ({slash.validator} \cup DOMAIN slash.others) \X {slash.era}
             now == active.index
         IN  /\ charged' = [s \in hit |-> Get(charged, s, 0) +
                              (IF s[1] = slash.validator THEN slash.own ELSE slash.others[s[1]])] @@ charged
             /\ IF SlashDeferDuration = 0
                THEN \E after \in {Applied(<<slash>>)} :
                         /\ ledger' = after.ledger /\ free' = after.free
                         /\ lock' = after.lock /\ UNCHANGED <<bonded, payee, unapplied>>
                ELSE /\ unapplied' = (now :> Append(Get(unapplied, now, <<>>), slash)) @@ unapplied
                     /\ UNCHANGED bondVars

\* Reports of sessions before the bonding period are discarded.
IsHistorical(slashSession) == bondedEras # <<>> => slashSession < bondedEras[1][2]

\* on_offence for one offender.  The election window is not looked at.
OnOffence(v, reported, slashSession) ==
    /\ ~IsHistorical(slashSession)
    /\ LET fraction == IF slashFor = "None" THEN 0 ELSE reported
           era == SlashEra(slashSession)
           now == active.index
           exposure == Get(Get(stakers, era, <<>>), v, [exposure |-> Nothing]).exposure
       IN  \E out \in {ComputeSlash(v, fraction, exposure, era, Minus(now, BondingDuration), now)} :
           /\ earliest' = IF earliest = Null THEN now ELSE earliest
           /\ IF v \in Invulnerables
              THEN UNCHANGED <<bondVars, roleVars, spanVars, slashInEra, unapplied, offending,
                               charged, forceEra>>
              ELSE /\ spans' = out.spans /\ spanSlash' = out.spanSlash /\ slashInEra' = out.inEra
                   /\ IF out.recent THEN ChillStash(v) ELSE UNCHANGED roleVars
                   /\ IF out.counts THEN AddOffending(v, out.slash # None)
                      ELSE UNCHANGED <<offending, forceEra>>
                   /\ TakeSlash(out.slash)
    /\ UNCHANGED <<eraVars, cdd, limits, sessionVars, electionVars, rewardVars, slashFor, stakers>>

\* cancel_deferred_slash: the slashes at the given positions are dropped.
CancelDeferredSlash(era, indices) ==
    /\ indices # {}
    /\ era \in DOMAIN unapplied
    /\ \A i \in indices : i \in DOMAIN unapplied[era]
    /\ LET kept == SetToSortSeq(DOMAIN unapplied[era] \ indices, <)
       IN  unapplied' = [unapplied EXCEPT ![era] = [i \in DOMAIN kept |-> @[kept[i]]]]
    /\ UNCHANGED <<stakingVars, sessionVars, electionVars, rewardVars, slashInEra, earliest,
                   offending, slashFor, charged, stakers, forceEra>>

ChangeSlashingAllowedFor(switch) ==
    /\ slashFor' = switch
    /\ UNCHANGED <<stakingVars, sessionVars, electionVars, rewardVars, slashInEra, unapplied,
                   earliest, offending, charged, stakers, forceEra>>

\* force_no_eras, force_new_era and force_new_era_always.
SetForceEra(forcing) ==
    /\ forceEra' = forcing
    /\ UNCHANGED <<stakingVars, sessionVars, electionVars, rewardVars, slashVars, stakers>>

----------------------------------------------------------------------------
(* Sessions.  The session pallet's rotation calls end_session, start_session *)
(* and new_session in this order, in one step.                              *)

\* end_session: the last session of the active era ends the era, which sets its
\* reward and schedules the payouts (only if the era's start was recorded).
EndsEra == Get(startOf, active.index + 1, Null) = session + 1
EndSession ==
    IF EndsEra /\ active.started
    THEN /\ payoutTasks' = payoutTasks \cup (sessionSet \X {active.index})
         /\ offending' = <<>>
    ELSE UNCHANGED <<payoutTasks, offending>>
RewardsWith(payout) ==
    IF EndsEra /\ active.started THEN (active.index :> payout) @@ reward ELSE reward

\* apply_unapplied_slashes: the slashes older than the deferral, in order.
DueSlashes(newActive) ==
    LET due == IF earliest = Null THEN {}
               ELSE DOMAIN unapplied \cap earliest..Minus(newActive, SlashDeferDuration) - 1
    IN  FlattenSeq([i \in 1..Cardinality(due) |-> unapplied[SetToSortSeq(due, <)[i]]])

\* start_session: the planned era becomes active; metadata that is older than
\* the bonding duration goes and the due slashes are applied.
StartsEra == Get(startOf, active.index + 1, session + 2) <= session + 1
StartSession ==
    LET new == active.index + 1
        pushed == Append(bondedEras, <<new, session + 1>>)
        first == Minus(new, BondingDuration)
    IN  IF StartsEra
        THEN \E after \in {Applied(DueSlashes(new))} :
             /\ active' = [index |-> new, started |-> FALSE]
             /\ bondedEras' = SelectSeq(pushed, LAMBDA b : b[1] >= first)
             /\ slashInEra' = Restrict(slashInEra, {k \in DOMAIN slashInEra : k[1] >= first})
             /\ ledger' = after.ledger /\ free' = after.free /\ lock' = after.lock
             /\ unapplied' = IF earliest = Null THEN unapplied
                             ELSE Restrict(unapplied, {e \in DOMAIN unapplied :
                                    ~(e \in earliest..Minus(new, SlashDeferDuration) - 1)})
             /\ earliest' = IF earliest = Null THEN Null
                            ELSE Most(earliest, Minus(new, SlashDeferDuration))
        ELSE UNCHANGED <<active, bondedEras, slashInEra, ledger, free, lock, unapplied, earliest>>

\* Mutant: the window stays open.
MutCloseElectionWindow ==
    /\ UNCHANGED electionOpen
    /\ snapshot' = None
    /\ sessionFinal' = FALSE

CloseElectionWindow ==
    /\ electionOpen' = FALSE
    /\ snapshot' = None
    /\ sessionFinal' = FALSE

\* new_era: the next era is planned for `first`, the oldest era is forgotten
\* and the validators are elected.  If the election fails the window stays as
\* it is.
NewEra(first, payout) ==
    LET era == currentEra + 1
        gone == {era - historyDepth - 1}
        results == Elected(ledger')
    IN  /\ currentEra' = era
        /\ startOf' = (era :> first) @@ Cleared(startOf, gone)
        /\ points' = Cleared(points, gone)
        /\ reward' = Cleared(RewardsWith(payout), gone)
        /\ queued' = None
        /\ IF results = {}
           THEN /\ stakers' = (era :> <<>>) @@ Cleared(stakers, gone)
                /\ UNCHANGED <<queuedSet, electionOpen, snapshot, sessionFinal>>
           ELSE \E result \in results :
                /\ stakers' = (era :> EraStakers(result)) @@ Cleared(stakers, gone)
                /\ queuedSet' = result.winners
                /\ CloseElectionWindow

\* new_session: whether the session after the next one starts an era.
NewSession(payout) ==
    LET first == session + 2
        length == Minus(first, Get(startOf, currentEra, 0))
    IN  IF \/ WillEraBeForced
           \/ forceEra = "NotForcing" /\ length >= SessionsPerEra
        THEN /\ NewEra(first, payout)
             /\ forceEra' = IF forceEra = "ForceNew" THEN "NotForcing" ELSE forceEra
        ELSE /\ IF length + 1 = SessionsPerEra
                THEN sessionFinal' = TRUE /\ UNCHANGED <<electionOpen, snapshot>>
                ELSE IF length >= SessionsPerEra THEN CloseElectionWindow
                ELSE UNCHANGED <<sessionFinal, electionOpen, snapshot>>
             /\ reward' = RewardsWith(payout)
             /\ UNCHANGED <<currentEra, startOf, points, queued, stakers, queuedSet, forceEra>>

RotateSession(payout) ==
    /\ EndSession
    /\ StartSession
    /\ session' = session + 1
    /\ sessionSet' = queuedSet
    /\ NewSession(payout)
    /\ UNCHANGED <<bonded, payee, roleVars, spanVars, historyDepth, cdd, limits, paid, charged,
                   slashFor>>

\* on_finalize: the first block of an era records when it started.
OnFinalize ==
    /\ ~active.started
    /\ active' = [active EXCEPT !.started = TRUE]
    /\ UNCHANGED <<stakingVars, session, sessionSet, queuedSet, startOf, bondedEras, electionVars,
                   rewardVars, slashVars, stakers, forceEra>>

----------------------------------------------------------------------------
(* A step of Staking.tla leaves the eras alone.  The history of charges is  *)
(* forgotten with the span records of a stash that leaves.                  *)
StakersStep(step) ==
    /\ step
    /\ charged' = Restrict(charged, {k \in DOMAIN charged :
                                       k[1] \in DOMAIN bonded => k[1] \in DOMAIN bonded'})
    /\ UNCHANGED <<sessionVars, electionVars, rewardVars, slashInEra, unapplied, earliest,
                   offending, slashFor, stakers, forceEra>>

\* Genesis: the stakers bond, era 0 is elected and sessions 0 and 1 are planned.
InitEras(result) ==
    /\ session = 0 /\ sessionSet = result.winners /\ queuedSet = result.winners
    /\ active = [index |-> 0, started |-> FALSE]
    /\ startOf = (0 :> 0) /\ bondedEras = <<<<0, 0>>>>
    /\ currentEra = 0 /\ electionOpen = FALSE
    /\ forceEra = "NotForcing"
    /\ sessionFinal = (SessionsPerEra = 2)
    /\ snapshot = None /\ queued = None
    /\ stakers = (0 :> EraStakers(result))
    /\ reward = <<>> /\ points = <<>> /\ payoutTasks = {}
    /\ slashInEra = <<>> /\ unapplied = <<>> /\ earliest = Null /\ offending = <<>>
    /\ slashFor = "ValidatorAndNominator"
    /\ paid = <<>> /\ charged = <<>>
    /\ spans = <<>> /\ spanSlash = <<>>

----------------------------------------------------------------------------
(* Properties.                                                             *)

\* Bonded, Ledger, the lock and the roles tell one story: every stash has one
\* controller and every ledger one stash, a ledger's total is its active stake
\* plus what is unlocking, the lock is that total and the stash holds it, and a
\* stash that validates or nominates is bonded and does not do both.  Every call
\* edits several of these maps, and kill_stash removes all of them.
StakersExact ==
    /\ \A s \in DOMAIN bonded : bonded[s] \in DOMAIN ledger /\ LedgerOf(s).stash = s
    /\ \A c \in DOMAIN ledger :
          LET l == ledger[c]
          IN  /\ l.stash \in DOMAIN bonded /\ bonded[l.stash] = c
              /\ l.total = l.active + Unlocking(l)
              /\ lock[l.stash] = l.total /\ l.total <= free[l.stash]
    /\ \A s \in Stashes \ DOMAIN bonded : lock[s] = 0
    /\ DOMAIN validators \cap DOMAIN nominators = {}
    /\ DOMAIN validators \cup DOMAIN nominators \subseteq DOMAIN bonded

\* A validator's reward of an era is paid at most once, whoever asks first (the
\* scheduled call or anyone's payout_stakers), although claimed_rewards is
\* pruned, starts afresh with every bond and the history depth changes.
RewardedOnce == \A k \in DOMAIN paid : paid[k] <= 1

\* However many reports name the same era, a staker is charged at most what it
\* had at stake in that era: the span records turn each new report into the
\* difference to what was charged before.
Exposed(s, era) ==
    MapThenSumSet(LAMBDA v : LET e == stakers[era][v].exposure
                             IN  IF v = s THEN e.own ELSE Get(e.others, s, 0),
                  DOMAIN stakers[era])
ChargedWithinExposure ==
    \A k \in DOMAIN charged : k[2] \in DOMAIN stakers => charged[k] <= Exposed(k[1], k[2])

\* Rewards and slashes are each applied once: the two above.
SettledOnce == RewardedOnce /\ ChargedWithinExposure

\* Withdrawing never takes stake out of the reach of a deferred slash whose
\* offence was reported in the era it happened in: the slash is applied before
\* the chunks of that era open.
TimelyPending(s) ==
    LET all == UNION {{<<e, i>> : i \in DOMAIN unapplied[e]} : e \in DOMAIN unapplied}
        timely == {k \in all : unapplied[k[1]][k[2]].era = k[1]}
        Amount(u) == IF u.validator = s THEN u.own ELSE Get(u.others, s, 0)
    IN  {Amount(unapplied[k[1]][k[2]]) : k \in timely}
WithdrawalKeepsSlashable ==
    [][\A s \in Stashes :
          (\E c \in Controllers : WithdrawUnbonded(c) /\ ledger[c].stash = s) =>
             \A amount \in TimelyPending(s) : lock'[s] >= Least(lock[s], amount)]_<<ledger, lock>>

=============================================================================
