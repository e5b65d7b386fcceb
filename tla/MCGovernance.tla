---------------------------- MODULE MCGovernance ----------------------------
(***************************************************************************)
(* The committee and the improvement proposals.  They share no storage     *)
(* here; `focus` says which of them a behaviour exercises, so that the run *)
(* has the sum of their states.                                            *)
(***************************************************************************)
EXTENDS Committee, Pips

\* The committee: two motions come up in a behaviour.
Call(c, w, a) == [call |-> c, who |-> w, arg |-> a]
Dockets ==
    { {Call("disable", 3, 2), Call("coordinator", 3, 0)}, {Call("swap", 2, 4), Call("threshold", 1, 3)},
      {Call("remove", 3, 0), Call("expires", 0, 1)}, {Call("add", 4, 0), Call("other", 0, 0)},
      {Call("disable", 3, 2), Call("swap", 2, 4)}, {Call("remove", 3, 0), Call("coordinator", 3, 0)} }
MCMotions == UNION Dockets
\* One reset may take two members out at once.
MCReset == {{1, 2, 3}, {1, 4, 5}}

\* The proposals: two voters, with pruning and expiry or with a limit.
MCFree == [v \in Voters |-> IF v = "v1" THEN 2 ELSE 1]
Cfg(p, l, e, d, m) == [prune |-> p, limit |-> l, expiry |-> e, minDeposit |-> d, period |-> 1, maxSkips |-> m]
MCConfigs == {Cfg(TRUE, 0, 1, 1, 1), Cfg(FALSE, 1, NoBlock, 2, 0)}
MCSteps == {<<Cfg(FALSE, 1, NoBlock, 2, 0), Cfg(FALSE, 0, 1, 2, 0)>>}

VARIABLES focus, docket
allVars == <<focus, docket, committeeVars, pipsVars>>

MCInit ==
    /\ focus \in {"committee", "pips"}
    /\ docket \in IF focus = "committee" THEN Dockets ELSE {{}}
    /\ CommitteeInit /\ PipsInit
    \* What is not exercised starts in one way only.
    /\ focus # "pips" => pipConfig = Cfg(TRUE, 0, 1, 1, 1)

MCNext ==
    /\ \/ focus = "committee" /\ CommitteeCall(docket) /\ UNCHANGED pipsVars
       \/ focus = "pips" /\ PipsNext /\ UNCHANGED committeeVars
    /\ UNCHANGED <<focus, docket>>

\* The fairness of Pips: blocks keep coming, and the scheduler runs a due task in a later block.
Pip(A) == focus = "pips" /\ A /\ UNCHANGED <<focus, docket, committeeVars>>
MCFairness ==
    /\ WF_allVars(Pip(PipsBlock))
    /\ \A i \in 1 .. MaxPips :
        /\ WF_allVars(Pip(i \in PipIds /\ \E ok \in BOOLEAN : ExecuteScheduledPip(i, ok)))
        /\ WF_allVars(Pip(i \in PipIds /\ ExpireScheduledPip(i)))

MCSpec == MCInit /\ [][MCNext]_allVars /\ MCFairness
=============================================================================
