----------------------------- MODULE MCStaking -----------------------------
(***************************************************************************)
(* A chain with two validators v, w of one identity and a nominator n.  A   *)
(* behaviour exercises one group of operations (`focus`) together with the  *)
(* passing of sessions; all groups work on the same storage.                *)
(***************************************************************************)
EXTENDS Eras

CONSTANTS MaxSession, MaxPoints, MaxCalls

VARIABLES
    focus, calls,
    waited  \* sessions an open window has outlived although there were candidates
vars == <<stakingVars, erasVars, focus, calls, waited>>

AllStashes == {"v", "w", "n"}
AllControllers == {"v", "w", "n", "c"}
StashDids == [s \in AllStashes |-> IF s = "n" THEN "e" ELSE "d"]
Payouts == {[fixedApplies |-> FALSE, fixed |-> 0, curve |-> 4, maximum |-> 4]}
Depths == {3, 5}

CallsOf == [bond |-> 5, roles |-> 3, elect |-> 3, reward |-> 4, slash |-> 3]

Vote == [s \in {"v", "w", "n"} |-> IF s = "n" THEN "v" ELSE s]
Init ==
    /\ calls = 0 /\ waited = 0
    /\ focus \in {"bond", "roles", "elect", "reward", "slash"}
    /\ bonded = [s \in Stashes |-> s]
    /\ ledger = [s \in Stashes |-> NewLedger(s, 2, {})]
    /\ payee = [s \in Stashes |-> "Staked"]
    /\ free = [a \in Accounts |-> IF a \in Stashes THEN StartFree ELSE 0]
    /\ lock = [s \in Stashes |-> 2]
    /\ validators = [s \in {"v", "w"} |-> [commission |-> 10, blocked |-> FALSE]]
    /\ nominators = ("n" :> [targets |-> IF focus = "elect" THEN {"v", "w"} ELSE {"v"}, era |-> 0])
    /\ permissioned = ("d" :> [intended |-> 3, running |-> 2])
    /\ cdd = [d \in Dids |-> "long"]
    /\ limits = [cap |-> 10, threshold |-> 1, count |-> 2]
    /\ historyDepth = 3
    /\ InitEras([winners |-> {"v", "w"},
                 exposures |-> CollectExposure(ledger, {"v", "w"}, Vote)])

\* Every session has a block, so the start of an era is known when a session ends.
Rotate ==
    /\ session < MaxSession /\ active.started
    /\ focus # "roles"
    /\ \E p \in EraPayouts : RotateSession(ComputeTotalPayout(p)[1])
    /\ waited' = IF /\ electionOpen /\ electionOpen'
                    /\ Cardinality(Candidates(ledger)) >= Most(MinimumValidatorCount, 1)
                 THEN waited + 1 ELSE 0

BondStep ==
    \/ \E c \in {"n", "c"} :
          \/ StakersStep(Bond("n", c, 2, "Staked"))
          \/ StakersStep(SetController("n", c))
          \/ StakersStep(WithdrawUnbonded(c))
          \/ StakersStep(Rebond(c, 1))
          \/ \E x \in BondValues : StakersStep(Unbond(c, x))
    \/ StakersStep(BondExtra("n", 1))
    \/ StakersStep(ForceUnstake("n"))
    \/ StakersStep(Spend("n"))

RoleStep ==
    \/ \E c \in Controllers :
          \/ \E x \in Commissions, b \in {TRUE, FALSE} :
                StakersStep(Validate(c, [commission |-> x, blocked |-> b]))
          \/ \E t \in {{"v"}, {"v", "w"}, {}} : StakersStep(Nominate(c, t))
          \/ StakersStep(Chill(c))
    \/ \E s \in Stashes : StakersStep(InvalidateNominator(s) \/ ForceUnstake(s))
    \/ \E d \in {"d"}, i \in 0..2 :
          StakersStep(AddPermissionedValidator(d, i) \/ UpdateIntendedCount(d, i))
    \/ StakersStep(RemovePermissionedValidator("d"))
    \/ \E ss \in SUBSET {"v", "w"} : StakersStep(ChillFromGovernance("d", ss))
    \/ \E x \in Commissions : StakersStep(SetCommissionCap(x))
    \/ \E x \in Thresholds : StakersStep(SetMinBondThreshold(x))
    \/ \E x \in {2, 6} : StakersStep(SetValidatorCount(x))
    \/ \E d \in Dids, x \in {"long", "short", "none"} : StakersStep(CddChanges(d, x))

Solutions ==
    {[winners |-> ws, vote |-> vote, era |-> currentEra] :
        ws \in SUBSET {"v", "w"},
        vote \in UNION {[who -> {"v", "w"}] : who \in SUBSET Stashes}}

ElectStep ==
    \/ OpenElectionWindow
    \/ \E sol \in Solutions : SubmitElectionSolution(sol)
    \/ OffchainWorker
    \/ \E f \in {"ForceNone", "ForceNew", "ForceAlways"} : SetForceEra(f)
    \/ \E d \in Dids, x \in {"long", "none"} : StakersStep(CddChanges(d, x))
    \/ StakersStep(InvalidateNominator("n"))
    \/ \E v \in {"v", "w"} : OnOffence(v, 0, session)
    \/ StakersStep(Chill("w"))

RewardStep ==
    \/ \E v \in {"v", "w"} :
          /\ Get(Get(points, active.index, <<>>), v, 0) < MaxPoints
          /\ NoteAuthor(v)
    \/ \E task \in payoutTasks : PayoutStakersBySystem(task)
    \/ \E e \in 0..currentEra : PayoutStakers("v", e)
    \/ \E depth \in Depths : SetHistoryDepth(depth)
    \/ \E dest \in Destinations : StakersStep(SetPayee("v", dest))
    \/ StakersStep(ForceUnstake("v"))
    \/ StakersStep(Bond("v", "v", 2, "Staked"))

SlashStep ==
    \/ \E f \in Fractions, s \in {session, session - 2} : OnOffence("v", f, s)
    \/ \E e \in DOMAIN unapplied, i \in {{1}, {2}} : CancelDeferredSlash(e, i)
    \/ ChangeSlashingAllowedFor("Validator")
    \/ \E c \in {"v", "n"} : StakersStep(Unbond(c, 2)) \/ StakersStep(WithdrawUnbonded(c))
    \/ StakersStep(Validate("v", [commission |-> 0, blocked |-> FALSE]))
    \/ StakersStep(Spend("v"))
    \/ StakersStep(ReapStash("v"))

Call ==
    \/ focus = "bond" /\ BondStep
    \/ focus = "roles" /\ RoleStep
    \/ focus = "elect" /\ ElectStep
    \/ focus = "reward" /\ RewardStep
    \/ focus = "slash" /\ SlashStep

Next ==
    /\ \/ Rotate /\ UNCHANGED calls
       \/ OnFinalize /\ UNCHANGED <<calls, waited>>
       \/ calls < MaxCalls[focus] /\ calls' = calls + 1 /\ Call /\ UNCHANGED waited
    /\ UNCHANGED focus

Spec == Init /\ [][Next]_vars

\* An open election window closes within an era's number of sessions in which an
\* election is possible, whatever is forced meanwhile.  While it is open no staker
\* can bond more, unbond, validate or nominate; a failed election leaves it open.
WindowCloses == waited < SessionsPerEra

=============================================================================
