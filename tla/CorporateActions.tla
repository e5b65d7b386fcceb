-------------------------- MODULE CorporateActions --------------------------
(***************************************************************************)
(* Corporate actions (pallets/corporate-actions): a CA of an asset with a    *)
(* record date, which is an existing checkpoint, the next date of a schedule,*)
(* or a schedule of its own; the ballot of a notice, in which holders vote   *)
(* with their balance at the record date; and the distribution of a benefit, *)
(* which locks a currency and pays each holder once by that balance.         *)
(* All calls but voting and claiming are by the agent of the asset, Issuer.  *)
(***************************************************************************)
EXTENDS Checkpoints
LOCAL INSTANCE FiniteSetsExt
LOCAL INSTANCE SequencesExt

CONSTANTS
    TargetForms,        \* [include, ids]: TargetIdentities
    Taxes, TaxUnit,     \* withholding taxes, in parts of TaxUnit
    MaxDidWhts,         \* taxes for identities an asset or a CA can have
    BallotForms,        \* [start, end, choices, rcv]; choices are counts, one per motion
    VoteForms,          \* sequences of [power, fallback]
    DistForms,          \* [perShare, amount, pay, expires]
    ShareUnit,          \* PER_SHARE_PRECISION
    CurrencyUnit,       \* the unit of the currency: ONE_UNIT, or 1 if it is divisible
    MaxCAs, Cash        \* bound; what of the currency the agent holds at first

VARIABLES
    cas,                \* CorporateActions, by id; NoCA when removed
    defTargets, defTax, didTax, \* DefaultTargetIdentities, DefaultWithholdingTax, DidWithholdingTax
    ballots,            \* TimeRanges, MotionNumChoices, RCV, by CA, or NoBallot
    votes, results,     \* Votes, Results
    dists,              \* Distributions by CA, or NoDist
    paid,               \* HolderPaid: the benefit paid, or NotPaid
    cash, cashLock,     \* the currency: what each holds; what of the agent's is locked
    lent                \* another identity has custody of the agent's portfolio

caOnlyVars == <<cas, defTargets, defTax, didTax>>
ballotVars == <<ballots, votes, results>>
distVars == <<dists, paid, cash, cashLock, lent>>
caVars == <<caOnlyVars, ballotVars, distVars>>

NoCA == [kind |-> "none"]
NoDate == [date |-> Never, cp |-> <<"none">>]
NoBallot == [start |-> Never]
NoDist == [amount |-> 0]
NotPaid == -1
None == -1

\* CAKind: a benefit or a notice, the two kinds the pallets tell apart.
Kinds == {"benefit", "notice"}

\* A vote on one choice: its weight, and the choice of the same motion to fall back on.
BallotVote == [power : Nat, fallback : Nat \cup {None}]

ASSUME VoteFormsAssumption == VoteForms \subseteq Seq(BallotVote)

CorporateInit ==
    /\ cas = <<>> /\ ballots = <<>> /\ votes = <<>> /\ results = <<>> /\ dists = <<>> /\ paid = <<>>
    /\ defTargets = [include |-> FALSE, ids |-> {}]
    /\ defTax = 0 /\ didTax = [d \in Holders |-> None]
    /\ cash = [d \in Holders |-> IF d = Issuer THEN Cash ELSE 0]
    /\ cashLock = 0 /\ lent = FALSE

Exists(c) == c \in DOMAIN cas /\ cas[c] # NoCA

-----------------------------------------------------------------------------
(* Record dates. *)

Targets(ca, d) == ca.targets.include = (d \in ca.targets.ids)

TaxOf(ca, d) == IF ca.didTax[d] # None THEN ca.didTax[d] ELSE ca.defTax

\* ensure_record_date_before_start
RecordDateBefore(ca, start) == ca.record # NoDate /\ ca.record.date <= start

\* record_date_cp, or 0
RecordDateCp(ca) ==
    LET cp == ca.record.cp
    IN  CASE cp[1] = "Existing" -> cp[2]
          [] cp[1] = "Scheduled" -> IF cp[3] < Len(points[cp[2]]) THEN points[cp[2]][cp[3] + 1] ELSE 0

\* balance_at_cp: without a checkpoint nothing has moved since the record date.
BalanceAtRecordDate(ca, d) ==
    IF RecordDateCp(ca) = 0 THEN cpBalance[d] ELSE BalanceAt(d, RecordDateCp(ca))

\* dec_strong_ref_count
DecRef(rs, ca) ==
    IF ca.record.cp[1] = "Scheduled" THEN [rs EXCEPT ![ca.record.cp[2]] = IF @ > 0 THEN @ - 1 ELSE 0] ELSE rs

\* Mutant: a CA does not hold on to the schedule it uses.
MutExistingSchedule(rs, s) == [record |-> [date |-> Min(pendingOf[s]), cp |-> <<"Scheduled", s, Len(points[s])>>],
                               refs |-> rs]

\* handle_record_date, for ExistingSchedule
ExistingSchedule(rs, s) == [record |-> [date |-> Min(pendingOf[s]), cp |-> <<"Scheduled", s, Len(points[s])>>],
                            refs |-> [rs EXCEPT ![s] = @ + 1]]

\* handle_record_date, of what exists: the record date and the references, if any.
Resolved(rs, spec) ==
    CASE spec[1] = "none" -> {[record |-> NoDate, refs |-> rs]}
      [] spec[1] = "Existing" -> {[record |-> [date |-> stamps[cp], cp |-> <<"Existing", cp>>], refs |-> rs]
                                     : cp \in {cp \in DOMAIN stamps : cp = spec[2]}}
      [] spec[1] = "ExistingSchedule" -> {ExistingSchedule(rs, s) : s \in {s \in DOMAIN pendingOf :
                                             s = spec[2] /\ pendingOf[s] # {}}}
      [] OTHER -> {}

\* handle_record_date: the record dates the call may continue with, one at most.
RecordDates(rs, spec) ==
    {h.record : h \in Resolved(rs, spec)}
    \cup {[date |-> t, cp |-> <<"Scheduled", Len(pendingOf) + 1, 0>>] :
            t \in {t \in cpTime..MaxCpTime : spec = <<"Scheduled", t>>}}

\* handle_record_date, after the references `rs`, on the record date r.
HandleRecordDate(rs, spec, r) ==
    \/ \E h \in Resolved(rs, spec) :
         /\ h.record = r /\ refs' = h.refs
         /\ UNCHANGED <<pendingOf, points, cached, due, cpBalance, supplyAt, stamps, updates, maxComplexity,
                        cpTime, moves, truth>>
    \/ /\ spec[1] = "Scheduled"
       /\ CreateScheduleWith({spec[2]}, 1, rs)

Specs == {<<"none">>} \cup {<<"Existing", cp>> : cp \in DOMAIN stamps}
         \cup {<<"ExistingSchedule", s>> : s \in DOMAIN pendingOf} \cup {<<"Scheduled", t>> : t \in cpTime..MaxCpTime}

-----------------------------------------------------------------------------
(* Corporate actions. *)

SetDefaultTargets(t) ==
    /\ defTargets' = t
    /\ UNCHANGED <<cas, defTax, didTax, cpVars, ballotVars, distVars>>

SetDefaultTax(x) ==
    /\ defTax' = x
    /\ UNCHANGED <<cas, defTargets, didTax, cpVars, ballotVars, distVars>>

SetDidTax(d, x) ==
    /\ x # None /\ didTax[d] = None => Cardinality({e \in Holders : didTax[e] # None}) < MaxDidWhts
    /\ didTax' = [didTax EXCEPT ![d] = x]
    /\ UNCHANGED <<cas, defTargets, defTax, cpVars, ballotVars, distVars>>

NewCA(kind, decl, record, targets, tax) ==
    [kind |-> kind, decl |-> decl, record |-> record,
     targets |-> IF targets = <<>> THEN defTargets ELSE targets[1],
     defTax |-> IF tax = None THEN defTax ELSE tax, didTax |-> didTax]

\* unsafe_initiate_corporate_action, with its slots for a ballot and a distribution.
InitiateCA(kind, decl, spec, targets, tax) ==
    /\ kind \in Kinds /\ Len(cas) < MaxCAs /\ decl <= cpTime
    /\ \E r \in RecordDates(refs, spec) :
         /\ HandleRecordDate(refs, spec, r)
         /\ r # NoDate => decl <= r.date
         /\ cas' = Append(cas, NewCA(kind, decl, r, targets, tax))
    /\ ballots' = Append(ballots, NoBallot)
    /\ votes' = Append(votes, [d \in Holders |-> <<>>])
    /\ results' = Append(results, <<>>)
    /\ paid' = Append(paid, [d \in Holders |-> NotPaid])
    /\ UNCHANGED <<defTargets, defTax, didTax, cash, lent>>

InitiateCorporateAction(kind, decl, spec, targets, tax) ==
    /\ InitiateCA(kind, decl, spec, targets, tax)
    /\ dists' = Append(dists, NoDist)
    /\ UNCHANGED cashLock

\* What is locked is released as a whole, before the payment.
Releasable(c) == dists[c] # NoDist => cpTime < dists[c].pay
Unlocked(c) == IF dists[c] = NoDist THEN cashLock ELSE cashLock - dists[c].amount

BallotChangeable(c) == ballots[c] # NoBallot => cpTime < ballots[c].start

\* remove_ca, with its ballot or its distribution, which must not have started.
RemoveCA(c) ==
    /\ Exists(c) /\ BallotChangeable(c) /\ Releasable(c)
    /\ refs' = DecRef(refs, cas[c])
    /\ cas' = [cas EXCEPT ![c] = NoCA]
    /\ ballots' = [ballots EXCEPT ![c] = NoBallot]
    /\ dists' = [dists EXCEPT ![c] = NoDist]
    /\ cashLock' = Unlocked(c)
    /\ UNCHANGED <<cpBalance, supplyAt, stamps, updates, pendingOf, points, cached, maxComplexity, cpTime,
                   moves, due, truth, defTargets, defTax, didTax, votes, results, paid, cash, lent>>

\* change_record_date: not once the ballot or the payment has started.
ChangeRecordDate(c, spec) ==
    /\ Exists(c)
    /\ LET rs == DecRef(refs, cas[c])
       IN  \E r \in RecordDates(rs, spec) :
              HandleRecordDate(rs, spec, r) /\ cas' = [cas EXCEPT ![c].record = r]
    /\ ballots[c] # NoBallot => RecordDateBefore(cas'[c], ballots[c].start) /\ cpTime < ballots[c].start
    /\ dists[c] # NoDist => RecordDateBefore(cas'[c], dists[c].pay) /\ cpTime < dists[c].pay
    /\ UNCHANGED <<defTargets, defTax, didTax, ballotVars, distVars>>

-----------------------------------------------------------------------------
(* Ballots. *)

\* attach_ballot
\* ensure_range_invariant
RangeOk(ca, b) == b.start <= b.end /\ cpTime <= b.end /\ RecordDateBefore(ca, b.start)

AttachBallot(c, b) ==
    /\ Exists(c) /\ cas[c].kind = "notice" /\ RangeOk(cas[c], b)
    /\ ballots[c] = NoBallot
    /\ ballots' = [ballots EXCEPT ![c] = b]
    /\ UNCHANGED <<cpVars, caOnlyVars, votes, results, distVars>>

\* The votes of a motion: a slice of the votes.
MotionVotes(b, vs, m) ==
    LET start == FoldLeft(LAMBDA n, k : n + k, 0, SubSeq(b.choices, 1, m - 1))
    IN  SubSeq(vs, start + 1, start + b.choices[m])

PowerOf(vs) == FoldLeft(LAMBDA n, v : n + v.power, 0, vs)

\* Fallbacks are to another choice of the same motion, and only with ranked choices.
FallbacksOk(b, vs) ==
    \A m \in DOMAIN b.choices : LET ms == MotionVotes(b, vs, m) IN
        \A i \in DOMAIN ms : ms[i].fallback # None =>
            b.rcv /\ ms[i].fallback # i - 1 /\ ms[i].fallback < Len(ms)

\* Mutant: the earlier vote of the holder still counts.
MutTally(res, old, new) == IF res = <<>> THEN [i \in DOMAIN new |-> new[i].power]
                           ELSE [i \in DOMAIN res |-> res[i] + new[i].power]

\* The results with the old votes of a holder replaced; `zip` stops at the shorter one.
Tally(res, old, new) ==
    IF res = <<>> THEN [i \in DOMAIN new |-> new[i].power]
    ELSE [i \in DOMAIN res |-> res[i] - (IF i \in DOMAIN old THEN old[i].power ELSE 0)
                                      + (IF i \in DOMAIN new THEN new[i].power ELSE 0)]

\* vote, or vote again.
Vote(d, c, vs) ==
    LET b == ballots[c]
    IN  /\ b # NoBallot /\ b.start <= cpTime /\ cpTime <= b.end
        /\ Exists(c) /\ Targets(cas[c], d)
        /\ Len(vs) = FoldLeft(LAMBDA n, k : n + k, 0, b.choices)
        /\ FallbacksOk(b, vs)
        /\ \A m \in DOMAIN b.choices : PowerOf(MotionVotes(b, vs, m)) <= BalanceAtRecordDate(cas[c], d)
        /\ votes' = [votes EXCEPT ![c][d] = vs]
        /\ results' = [results EXCEPT ![c] = Tally(@, votes[c][d], vs)]
        /\ UNCHANGED <<cpVars, caOnlyVars, ballots, distVars>>

\* change_end, change_meta and change_rcv
ChangeBallot(c, b) ==
    LET old == ballots[c]
    IN  /\ old # NoBallot /\ cpTime < old.start
        /\ \/ ballots' = [ballots EXCEPT ![c].end = b.end] /\ old.start <= b.end
           \/ ballots' = [ballots EXCEPT ![c].choices = b.choices]
           \/ ballots' = [ballots EXCEPT ![c].rcv = b.rcv]
        /\ UNCHANGED <<cpVars, caOnlyVars, votes, results, distVars>>

\* remove_ballot: votes and results are not looked at, since it has not started.
RemoveBallot(c) ==
    /\ ballots[c] # NoBallot /\ cpTime < ballots[c].start
    /\ ballots' = [ballots EXCEPT ![c] = NoBallot]
    /\ UNCHANGED <<cpVars, caOnlyVars, votes, results, distVars>>

-----------------------------------------------------------------------------
(* Distributions. *)

NewDist(f) == [perShare |-> f.perShare, amount |-> f.amount, remaining |-> f.amount, reclaimed |-> FALSE,
               pay |-> f.pay, expires |-> f.expires]

\* unverified_distribute: what it needs, but for the CA.
DistributeOk(f) ==
    /\ f.amount > 0 /\ f.perShare > 0 /\ f.expires > f.pay
    /\ ~ lent /\ cash[Issuer] - cashLock >= f.amount

Distribute(c, f) ==
    /\ Exists(c) /\ cas[c].kind = "benefit" /\ dists[c] = NoDist
    /\ DistributeOk(f) /\ RecordDateBefore(cas[c], f.pay)
    /\ cashLock' = cashLock + f.amount
    /\ dists' = [dists EXCEPT ![c] = NewDist(f)]
    /\ UNCHANGED <<cpVars, caOnlyVars, ballotVars, paid, cash, lent>>

\* initiate_corporate_action_and_distribute
InitiateAndDistribute(decl, spec, targets, tax, f) ==
    /\ InitiateCA("benefit", decl, spec, targets, tax)
    /\ DistributeOk(f) /\ RecordDateBefore(cas'[Len(cas')], f.pay)
    /\ cashLock' = cashLock + f.amount
    /\ dists' = Append(dists, NewDist(f))

BenefitOf(ca, d, perShare) == (BalanceAtRecordDate(ca, d) * perShare) \div ShareUnit

\* `tax * benefit`, to the nearest, and a half down; then whole units of the currency.
GainOf(benefit, tax) ==
    LET gain == benefit - (2 * benefit * tax + TaxUnit - 1) \div (2 * TaxUnit)
    IN  (gain \div CurrencyUnit) * CurrencyUnit

\* ensure_active_distribution
ActiveDistribution(f) == f # NoDist /\ f.pay <= cpTime /\ cpTime < f.expires

\* Mutant: whether a holder was paid is not looked at.
MutTransferBenefit(d, c) ==
    LET f       == dists[c]
        benefit == BenefitOf(cas[c], d, f.perShare)
        gain    == GainOf(benefit, TaxOf(cas[c], d))
    IN  /\ ActiveDistribution(f)
        /\ Exists(c) /\ Targets(cas[c], d)
        /\ d # Issuer /\ benefit <= cashLock /\ benefit <= f.remaining
        /\ cashLock' = cashLock - benefit
        /\ cash' = [cash EXCEPT ![Issuer] = @ - gain, ![d] = @ + gain]
        /\ paid' = [paid EXCEPT ![c][d] = benefit]
        /\ dists' = [dists EXCEPT ![c].remaining = @ - benefit]
        /\ UNCHANGED <<cpVars, caOnlyVars, ballotVars, lent>>

\* transfer_benefit, for claim and push_benefit.  The agent itself cannot be paid, as the
\* transfer would be to the same identity.  The tax stays with the agent, unlocked.
TransferBenefit(d, c) ==
    LET f       == dists[c]
        benefit == BenefitOf(cas[c], d, f.perShare)
        gain    == GainOf(benefit, TaxOf(cas[c], d))
    IN  /\ paid[c][d] = NotPaid
        /\ ActiveDistribution(f)
        /\ Exists(c) /\ Targets(cas[c], d)
        /\ benefit <= f.remaining /\ d # Issuer
        /\ cashLock' = cashLock - benefit
        /\ cash' = [cash EXCEPT ![Issuer] = @ - gain, ![d] = @ + gain]
        /\ paid' = [paid EXCEPT ![c][d] = benefit]
        /\ dists' = [dists EXCEPT ![c].remaining = @ - benefit]
        /\ UNCHANGED <<cpVars, caOnlyVars, ballotVars, lent>>

\* reclaim
Reclaim(c) ==
    /\ dists[c] # NoDist /\ ~ dists[c].reclaimed /\ dists[c].expires <= cpTime /\ ~ lent
    /\ cashLock' = cashLock - dists[c].remaining
    /\ dists' = [dists EXCEPT ![c].reclaimed = TRUE, ![c].remaining = 0]
    /\ UNCHANGED <<cpVars, caOnlyVars, ballotVars, paid, cash, lent>>

\* remove_distribution
RemoveDistribution(c) ==
    /\ dists[c] # NoDist /\ cpTime < dists[c].pay
    /\ cashLock' = Unlocked(c)
    /\ dists' = [dists EXCEPT ![c] = NoDist]
    /\ UNCHANGED <<cpVars, caOnlyVars, ballotVars, paid, cash, lent>>

\* Custody of the agent's portfolio is given, or comes back.
Lend ==
    /\ lent' = ~ lent
    /\ UNCHANGED <<cpVars, caOnlyVars, ballotVars, dists, paid, cash, cashLock>>

-----------------------------------------------------------------------------

Optional(S) == {<<>>} \cup {<<x>> : x \in S}

RecordsNext(kinds) ==
    \/ \E k \in kinds, t \in {0, cpTime}, s \in Specs :
         InitiateCorporateAction(k, t, s, <<>>, None)
    \/ \E c \in DOMAIN cas : RemoveCA(c) \/ \E s \in Specs : ChangeRecordDate(c, s)
    \/ CheckpointsNext /\ UNCHANGED caVars

BallotNext ==
    \/ \E c \in DOMAIN cas :
         \/ \E b \in BallotForms : AttachBallot(c, b) \/ ChangeBallot(c, b)
         \/ RemoveBallot(c)
         \/ \E d \in Holders, vs \in VoteForms : Vote(d, c, vs)

DefaultsNext ==
    \/ \E t \in TargetForms : SetDefaultTargets(t)
    \/ \E x \in Taxes : SetDefaultTax(x)
    \/ \E d \in Holders, x \in Taxes \cup {None} : SetDidTax(d, x)

DistributionNext(specs) ==
    \/ \E s \in specs, t \in Optional(TargetForms), x \in Taxes \cup {None}, f \in DistForms :
         InitiateAndDistribute(0, s, t, x, f)
    \/ \E c \in DOMAIN cas :
         \/ \E f \in DistForms : Distribute(c, f)
         \/ \E d \in Holders : TransferBenefit(d, c)
         \/ Reclaim(c) \/ RemoveDistribution(c)
    \/ Lend

-----------------------------------------------------------------------------
(* Properties. *)

\* The balances at the record date of a CA, as they were when it came.
RecordTruth(ca) ==
    IF ca.record.cp[1] = "Existing" THEN truth[ca.record.cp[2]] ELSE due[ca.record.cp[2]][ca.record.date]

\* A CA never loses its record date: a schedule it uses is not removed, the index it keeps is
\* that of its date, and once the date has come its holders' balances are those of that date,
\* checkpoint or not (handle_record_date, dec_strong_ref_count, record_date_cp, balance_at_cp).
RecordDateKept ==
    \A c \in {c \in DOMAIN cas : Exists(c) /\ cas[c].record # NoDate} :
        LET ca == cas[c]
            cp == ca.record.cp
        IN  /\ cp[1] = "Scheduled" =>
                 /\ cp[3] >= Len(points[cp[2]]) => ca.record.date \in pendingOf[cp[2]]
                 /\ cp[3] < Len(points[cp[2]]) => stamps[RecordDateCp(ca)] = ca.record.date
                 /\ pendingOf[cp[2]] # {} => refs[cp[2]] = Cardinality({e \in DOMAIN cas : Exists(e)
                        /\ cas[e].record.cp[1] = "Scheduled" /\ cas[e].record.cp[2] = cp[2]})
            /\ ca.record.date <= cpTime => \A d \in Holders : BalanceAtRecordDate(ca, d) = RecordTruth(ca)[d]

\* The results of a ballot are the sum of the last votes, none of them with more than the
\* holder had at the record date, and the record date cannot move once there are votes (vote,
\* remove_ballot_base, change_record_date).
BallotExact ==
    \A c \in {c \in DOMAIN cas : results[c] # <<>>} :
        LET voted == {d \in Holders : votes[c][d] # <<>>}
        IN  /\ Exists(c) /\ ballots[c] # NoBallot
            /\ \A i \in DOMAIN results[c] : results[c][i] = MapThenSumSet(LAMBDA d : votes[c][d][i].power, voted)
            /\ \A d \in voted, m \in DOMAIN ballots[c].choices :
                 PowerOf(MotionVotes(ballots[c], votes[c][d], m)) <= RecordTruth(cas[c])[d]

\* The lock on the currency is exactly what the distributions have left, each holder is paid
\* once, by the balance at the record date, and nobody is paid more than was set aside
\* (unverified_distribute, transfer_benefit, base_reclaim, unverified_remove_distribution).
DistributionExact ==
    /\ cashLock = MapThenSumSet(LAMBDA c : IF dists[c] = NoDist THEN 0 ELSE dists[c].remaining, DOMAIN dists)
    /\ cashLock <= cash[Issuer]
    /\ \A c \in DOMAIN dists :
         LET got == {d \in Holders : paid[c][d] # NotPaid}
             sum == MapThenSumSet(LAMBDA d : paid[c][d], got)
         IN  /\ got # {} => dists[c] # NoDist /\ Exists(c)
             /\ dists[c] # NoDist /\ ~ dists[c].reclaimed => dists[c].remaining + sum = dists[c].amount
             /\ \A d \in got : paid[c][d] = (RecordTruth(cas[c])[d] * dists[c].perShare) \div ShareUnit
=============================================================================
