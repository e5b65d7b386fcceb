------------------------------- MODULE Staking ------------------------------
(***************************************************************************)
(* The staking pallet's stakers: bonding, unbonding and withdrawing,       *)
(* validating under a permissioned identity, nominating, and what          *)
(* governance may do to them.  Eras.tla adds sessions, elections, rewards  *)
(* and slashes.                                                            *)
(*                                                                         *)
(* What is kept for one staker comes first, as pure operators: the bonded  *)
(* ledger, a record [stash, total, active, unlocking, claimed] with        *)
(* unlocking chunks [value, era], and the slashing spans that say which    *)
(* offences are punished together, a record [index, start, last, prior]:   *)
(* the index and first era of the ongoing span, the last era with a        *)
(* non-zero slash, and the lengths of the earlier spans, the latest first. *)
(***************************************************************************)
EXTENDS Integers, Sequences, FiniteSets, TLC
LOCAL INSTANCE SequencesExt
LOCAL INSTANCE FiniteSetsExt
LOCAL INSTANCE Functions

CONSTANTS
    MinimumBalance,  \* T::Currency::minimum_balance()
    Parts            \* the parts of a Perbill

ASSUME LedgerAssumption == MinimumBalance \in Nat /\ Parts \in Nat \ {0}

Least(m, n) == IF m <= n THEN m ELSE n
Most(m, n) == IF m >= n THEN m ELSE n
Minus(m, n) == Most(m - n, 0)

\* Perbill::from_rational (rounds down) and Perbill * amount (rounds to the
\* nearest, a half going down).
FromRational(p, q) == IF q = 0 THEN Parts ELSE Least((p * Parts) \div q, Parts)
Portion(part, amount) == (2 * part * amount + Parts - 1) \div (2 * Parts)

NewLedger(stash, value, claimed) ==
    [stash |-> stash, total |-> value, active |-> value, unlocking |-> <<>>, claimed |-> claimed]

Unlocking(l) == FoldLeft(LAMBDA sum, chunk : sum + chunk.value, 0, l.unlocking)

\* consolidate_unlocked: the chunks whose era has come leave the ledger.
ConsolidateUnlocked(l, era) ==
    LET kept == SelectSeq(l.unlocking, LAMBDA chunk : chunk.era > era)
    IN  [l EXCEPT !.unlocking = kept,
                  !.total = Minus(@, Unlocking(l) - Unlocking([l EXCEPT !.unlocking = kept]))]

\* StakingLedger::rebond: the youngest chunks become active again, the last of
\* them in part, until `value` is reached.
Rebonded(l, value) ==
    LET Back(state, chunk) ==
            LET taken == Least(chunk.value, value - state.moved)
                rest == IF taken = chunk.value THEN <<>> ELSE <<[chunk EXCEPT !.value = @ - taken]>>
            IN  [moved |-> state.moved + taken, kept |-> rest \o state.kept]
        end == FoldRight(LAMBDA chunk, state : Back(state, chunk), l.unlocking,
                         [moved |-> 0, kept |-> <<>>])
    IN  [l EXCEPT !.active = @ + end.moved, !.unlocking = end.kept]

\* slash_out_of: what is taken out of `target` for a slash of `value`; a
\* remainder that is dust goes too.
TakenFrom(target, value) ==
    LET taken == Least(value, target)
    IN  IF taken > 0 /\ target - taken <= MinimumBalance THEN target ELSE taken

\* StakingLedger::slash: the active stake first, then the oldest chunks; the
\* drained chunks at the front are removed, and the loop ends at the first
\* chunk that keeps something.
SlashLedger(l, value) ==
    LET fromActive == TakenFrom(l.active, value)
        Chunk(state, chunk) ==
            LET taken == IF state.stopped THEN 0 ELSE TakenFrom(chunk.value, state.value)
                left == chunk.value - taken
            IN  [value |-> Minus(state.value, taken), taken |-> state.taken + taken,
                 stopped |-> state.stopped \/ left > 0,
                 kept |-> IF left = 0 /\ ~state.stopped THEN state.kept
                          ELSE Append(state.kept, [chunk EXCEPT !.value = left])]
        end == FoldLeft(Chunk, [value |-> Minus(value, fromActive), taken |-> fromActive,
                                stopped |-> FALSE, kept |-> <<>>], l.unlocking)
    IN  [l EXCEPT !.total = Minus(@, end.taken), !.active = @ - fromActive,
                  !.unlocking = end.kept]

----------------------------------------------------------------------------
(* Slashing spans.                                                         *)

NewSpans(windowStart) == [index |-> 0, start |-> windowStart, last |-> 0, prior |-> <<>>]

\* SlashingSpans::end_span: the ongoing span ends with era `now`.
EndSpan(spans, now) ==
    IF now + 1 <= spans.start THEN spans
    ELSE [spans EXCEPT !.index = @ + 1, !.start = now + 1,
                       !.prior = <<now + 1 - spans.start>> \o @]

\* SlashingSpans::iter: the spans as [index, start, length], the most recent
\* first; the ongoing one has no length.
Ongoing == -1
SpanList(spans) ==
    LET Before(i) == spans.start - FoldLeft(LAMBDA s, len : s + len, 0, SubSeq(spans.prior, 1, i))
    IN  [i \in 1..Len(spans.prior) + 1 |->
            [index |-> spans.index - (i - 1), start |-> Before(i - 1),
             length |-> IF i = 1 THEN Ongoing ELSE spans.prior[i - 1]]]

ContainsEra(span, era) ==
    span.start <= era /\ (span.length # Ongoing => span.start + span.length > era)

\* InspectingSpans::era_span: the index of the span `era` falls in, if any.
NoSpan == -1
EraSpan(spans, era) ==
    LET list == SpanList(spans)
        found == {i \in DOMAIN list : ContainsEra(list[i], era)}
    IN  IF found = {} THEN NoSpan ELSE list[Min(found)].index

\* SlashingSpans::prune: the earlier spans that ended before the window go.
\* Yields the spans kept; the indices below FirstIndex(spans) are pruned.
PruneSpans(spans, windowStart) ==
    LET list == SpanList(spans)
        old == {i \in 2..Len(list) : list[i].start + list[i].length <= windowStart}
    IN  [spans EXCEPT !.prior = IF old = {} THEN @ ELSE SubSeq(@, 1, Min(old) - 2),
                      !.start = Most(@, windowStart)]

FirstIndex(spans) == spans.index - Len(spans.prior)
-----------------------------------------------------------------------------
(* The stakers. *)

CONSTANTS
    Stashes, Controllers,  \* accounts; a stash may be its own controller
    Dids, DidOf,           \* identities, and the identity of each stash
    BondingDuration, MaxUnlockingChunks, MinimumBond, MaxNominations,
    BondValues,            \* amounts the callers ask for
    Commissions,           \* commissions validators ask for
    Thresholds,            \* values of set_min_bond_threshold
    StartFree              \* what each account holds at the start

VARIABLES
    bonded,        \* Bonded: stash -> controller
    ledger,        \* Ledger: controller -> ledger
    payee,         \* Payee: stash -> reward destination
    free, lock,    \* free balance of every account; staking lock of every stash
    validators,    \* Validators: stash -> [commission, blocked]
    nominators,    \* Nominators: stash -> [targets, era submitted in]
    permissioned,  \* PermissionedIdentity: identity -> [intended, running]
    cdd,           \* how long each identity's CDD lasts: "long", "short", "none"
    limits,        \* [cap, threshold, count]: commission, bond, validator count
    spans, spanSlash,   \* SlashingSpans, SpanSlash
    currentEra, historyDepth,
    electionOpen   \* EraElectionStatus is Open

bondVars == <<bonded, ledger, payee, free, lock>>
roleVars == <<validators, nominators, permissioned>>
spanVars == <<spans, spanSlash>>
eraVars == <<currentEra, historyDepth, electionOpen>>

Accounts == Stashes \cup Controllers
Destinations == {"Staked", "Stash", "Controller", "Account"}
Without(f, x) == Restrict(f, DOMAIN f \ {x})
LedgerOf(stash) == ledger[bonded[stash]]
IsStash(stash) == stash \in DOMAIN bonded /\ bonded[stash] \in DOMAIN ledger

\* update_ledger: the ledger is written and the lock follows its total.
UpdateLedger(controller, l) ==
    /\ ledger' = (controller :> l) @@ ledger
    /\ lock' = [lock EXCEPT ![l.stash] = l.total]

\* release_running_validator: one validator fewer for the stash's identity.
Released(stash) ==
    LET id == DidOf[stash]
    IN  IF stash \in DOMAIN validators /\ id \in DOMAIN permissioned
           /\ permissioned[id].running > 0
        THEN [permissioned EXCEPT ![id].running = @ - 1]
        ELSE permissioned

ChillStash(stash) ==
    /\ permissioned' = Released(stash)
    /\ validators' = Without(validators, stash)
    /\ nominators' = Without(nominators, stash)

\* slashing::clear_stash_metadata and kill_stash, with the removal of the lock
\* that every caller adds.  The caller names enough slashing spans.
ClearStashMetadata(stash) ==
    /\ spans' = Without(spans, stash)
    /\ spanSlash' = Restrict(spanSlash, {k \in DOMAIN spanSlash : k[1] # stash})

\* Mutant: a nominator is forgotten.
MutKillStash(stash) ==
    /\ ClearStashMetadata(stash)
    /\ bonded' = Without(bonded, stash)
    /\ ledger' = Without(ledger, bonded[stash])
    /\ payee' = Without(payee, stash)
    /\ validators' = Without(validators, stash)
    /\ lock' = [lock EXCEPT ![stash] = 0]
    /\ UNCHANGED <<free, permissioned, nominators>>

KillStash(stash) ==
    /\ ClearStashMetadata(stash)
    /\ bonded' = Without(bonded, stash)
    /\ ledger' = Without(ledger, bonded[stash])
    /\ payee' = Without(payee, stash)
    /\ validators' = Without(validators, stash)
    /\ nominators' = Without(nominators, stash)
    /\ lock' = [lock EXCEPT ![stash] = 0]
    /\ UNCHANGED <<free, permissioned>>

----------------------------------------------------------------------------
(* Bonding.  LedgerEdit is the part the calls share: the ledger changes and *)
(* no role does.                                                            *)

LedgerEdit(controller, l) ==
    /\ UpdateLedger(controller, l)
    /\ UNCHANGED <<bonded, payee, free, roleVars, cdd, limits, spanVars, eraVars>>

Bond(stash, controller, value, dest) ==
    /\ value >= MinimumBond
    /\ stash \notin DOMAIN bonded
    /\ controller \notin DOMAIN ledger
    /\ value >= MinimumBalance
    /\ bonded' = (stash :> controller) @@ bonded
    /\ payee' = (stash :> dest) @@ payee
    /\ UpdateLedger(controller,
           NewLedger(stash, Least(value, free[stash]),
                     Minus(currentEra, historyDepth)..currentEra - 1))
    /\ UNCHANGED <<free, roleVars, cdd, limits, spanVars, eraVars>>

BondExtra(stash, maxAdditional) ==
    /\ ~electionOpen
    /\ IsStash(stash)
    /\ LET l == LedgerOf(stash)
           extra == Least(free[stash] - l.total, maxAdditional)
       IN  /\ free[stash] >= l.total
           /\ l.active + extra >= MinimumBalance
           /\ LedgerEdit(bonded[stash], [l EXCEPT !.total = @ + extra, !.active = @ + extra])

\* Mutant: the chunk opens an era early.
MutUnbonded(l, value) ==
    LET v == Least(value, l.active)
        w == IF l.active - v < MinimumBalance THEN l.active ELSE v
    IN  IF v = 0 THEN l
        ELSE [l EXCEPT !.active = @ - w,
                       !.unlocking = Append(@, [value |-> w, era |-> currentEra + BondingDuration - 1])]

\* unbond_balance: the ledger after `value` has moved to a chunk that opens
\* BondingDuration eras from now; unchanged if there is nothing to move.
Unbonded(l, value) ==
    LET v == Least(value, l.active)
        w == IF l.active - v < MinimumBalance THEN l.active ELSE v
    IN  IF v = 0 THEN l
        ELSE [l EXCEPT !.active = @ - w,
                       !.unlocking = Append(@, [value |-> w, era |-> currentEra + BondingDuration])]

Unbond(controller, value) ==
    /\ ~electionOpen
    /\ controller \in DOMAIN ledger
    /\ LET l == ledger[controller]
       IN  /\ Len(l.unlocking) < MaxUnlockingChunks
           /\ l.stash \in DOMAIN validators => Minus(l.active, value) >= limits.threshold
           /\ LedgerEdit(controller, Unbonded(l, value))

WithdrawUnbonded(controller) ==
    /\ ~electionOpen
    /\ controller \in DOMAIN ledger
    /\ LET l == ConsolidateUnlocked(ledger[controller], currentEra)
       IN  IF l.unlocking = <<>> /\ l.active <= MinimumBalance
           THEN KillStash(l.stash) /\ UNCHANGED <<cdd, limits, eraVars>>
           ELSE LedgerEdit(controller, l)

Rebond(controller, value) ==
    /\ ~electionOpen
    /\ controller \in DOMAIN ledger
    /\ ledger[controller].unlocking # <<>>
    /\ Rebonded(ledger[controller], value).active >= MinimumBalance
    /\ LedgerEdit(controller, Rebonded(ledger[controller], value))

SetPayee(controller, dest) ==
    /\ controller \in DOMAIN ledger
    /\ payee' = (ledger[controller].stash :> dest) @@ payee
    /\ UNCHANGED <<bonded, ledger, free, lock, roleVars, cdd, limits, spanVars, eraVars>>

SetController(stash, controller) ==
    /\ IsStash(stash)
    /\ controller \notin DOMAIN ledger
    /\ bonded' = [bonded EXCEPT ![stash] = controller]
    /\ ledger' = (controller :> LedgerOf(stash)) @@ Without(ledger, bonded[stash])
    /\ UNCHANGED <<payee, free, lock, roleVars, cdd, limits, spanVars, eraVars>>

\* force_unstake (root) and reap_stash (anyone, once the stash holds nothing).
ForceUnstake(stash) ==
    /\ stash \in DOMAIN bonded
    /\ KillStash(stash)
    /\ UNCHANGED <<cdd, limits, eraVars>>

ReapStash(stash) ==
    /\ free[stash] = MinimumBalance
    /\ stash \in DOMAIN bonded
    /\ KillStash(stash)
    /\ UNCHANGED <<cdd, limits, eraVars>>

----------------------------------------------------------------------------
(* Roles.  RoleEdit is the part the calls share.                           *)

RoleEdit == UNCHANGED <<bondVars, cdd, limits, spanVars, eraVars>>

Validate(controller, prefs) ==
    /\ ~electionOpen
    /\ controller \in DOMAIN ledger
    /\ LET stash == ledger[controller].stash
           id == DidOf[stash]
       IN  /\ id \in DOMAIN permissioned
           /\ ledger[controller].active >= limits.threshold
           /\ prefs.commission <= limits.cap
           /\ stash \notin DOMAIN validators =>
                permissioned[id].running < permissioned[id].intended
           /\ permissioned' = IF stash \in DOMAIN validators THEN permissioned
                              ELSE [permissioned EXCEPT ![id].running = @ + 1]
           /\ nominators' = Without(nominators, stash)
           /\ validators' = (stash :> prefs) @@ validators
    /\ RoleEdit

Nominate(controller, targets) ==
    /\ ~electionOpen
    /\ controller \in DOMAIN ledger
    /\ targets # {} /\ Cardinality(targets) <= MaxNominations
    /\ LET stash == ledger[controller].stash
           old == IF stash \in DOMAIN nominators THEN nominators[stash].targets ELSE {}
       IN  /\ cdd[DidOf[stash]] = "long"
           /\ \A t \in targets \ old : t \in DOMAIN validators => ~validators[t].blocked
           /\ permissioned' = Released(stash)
           /\ validators' = Without(validators, stash)
           /\ nominators' = (stash :> [targets |-> targets, era |-> currentEra]) @@ nominators
    /\ RoleEdit

Chill(controller) ==
    /\ ~electionOpen
    /\ controller \in DOMAIN ledger
    /\ ChillStash(ledger[controller].stash)
    /\ RoleEdit

\* validate_cdd_expiry_nominators, for one target: a nominator without valid
\* CDD is unbonded and forgotten.  There is no check of the election window.
InvalidateNominator(target) ==
    /\ target \in DOMAIN nominators
    /\ cdd[DidOf[target]] = "none"
    /\ IsStash(target)
    /\ Len(LedgerOf(target).unlocking) < MaxUnlockingChunks
    /\ UpdateLedger(bonded[target], Unbonded(LedgerOf(target), LedgerOf(target).active))
    /\ nominators' = Without(nominators, target)
    /\ UNCHANGED <<bonded, payee, free, validators, permissioned, cdd, limits, spanVars, eraVars>>

\* get_allowed_validator_count: 33% of the validator count, at least one.
AllowedValidatorCount == Most((66 * limits.count + 99) \div 200, 1)

DefaultIntended == 1
AddPermissionedValidator(id, intended) ==
    /\ id \notin DOMAIN permissioned
    /\ cdd[id] # "none"
    /\ intended = DefaultIntended \/ intended < AllowedValidatorCount
    /\ permissioned' = (id :> [intended |-> intended, running |-> 0]) @@ permissioned
    /\ UNCHANGED <<validators, nominators>> /\ RoleEdit

RemovePermissionedValidator(id) ==
    /\ id \in DOMAIN permissioned
    /\ permissioned' = Without(permissioned, id)
    /\ UNCHANGED <<validators, nominators>> /\ RoleEdit

UpdateIntendedCount(id, intended) ==
    /\ AllowedValidatorCount > intended
    /\ id \in DOMAIN permissioned
    /\ permissioned' = [permissioned EXCEPT ![id].intended = intended]
    /\ UNCHANGED <<validators, nominators>> /\ RoleEdit

\* chill_from_governance: every named stash is a validator of the identity;
\* all are chilled and the identity is no longer permissioned.
ChillFromGovernance(id, stashes) ==
    /\ ~electionOpen
    /\ id \in DOMAIN permissioned
    /\ \A s \in stashes : DidOf[s] = id /\ s \in DOMAIN validators
    /\ validators' = Restrict(validators, DOMAIN validators \ stashes)
    /\ nominators' = Restrict(nominators, DOMAIN nominators \ stashes)
    /\ permissioned' = Without(permissioned, id)
    /\ RoleEdit

SetCommissionCap(cap) ==
    /\ cap # limits.cap
    /\ limits' = [limits EXCEPT !.cap = cap]
    /\ validators' = [s \in DOMAIN validators |->
                        [validators[s] EXCEPT !.commission = Least(@, cap)]]
    /\ UNCHANGED <<bondVars, nominators, permissioned, cdd, spanVars, eraVars>>

SetMinBondThreshold(value) ==
    /\ limits' = [limits EXCEPT !.threshold = value]
    /\ UNCHANGED <<bondVars, roleVars, cdd, spanVars, eraVars>>

\* set_, increase_ and scale_validator_count.
SetValidatorCount(count) ==
    /\ limits' = [limits EXCEPT !.count = count]
    /\ UNCHANGED <<bondVars, roleVars, cdd, spanVars, eraVars>>

\* The CDD of an identity runs out or is renewed (the identity pallet).
CddChanges(id, state) ==
    /\ cdd' = [cdd EXCEPT ![id] = state]
    /\ UNCHANGED <<bondVars, roleVars, limits, spanVars, eraVars>>

\* The stash spends what is not locked (the balances pallet).
Spend(stash) ==
    /\ free[stash] > lock[stash]
    /\ free' = [free EXCEPT ![stash] = lock[stash]]
    /\ UNCHANGED <<bonded, ledger, payee, lock, roleVars, cdd, limits, spanVars, eraVars>>
=============================================================================
