---------------------------- MODULE MCCorporate -----------------------------
(***************************************************************************)
(* Record dates, ballots and distributions on small instances.  `focus` says *)
(* which of them a behaviour exercises beyond the creation of the CA.        *)
(***************************************************************************)
EXTENDS CorporateActions

MCFirst == [d \in Holders |-> 1]
MCTargets == {[include |-> TRUE, ids |-> {"h2"}]}
MCBallots == {[start |-> 1, end |-> 1, choices |-> <<2>>, rcv |-> TRUE],
              [start |-> 1, end |-> 2, choices |-> <<1, 1>>, rcv |-> FALSE]}
V(p, f) == [power |-> p, fallback |-> f]
MCVotes == {<<V(1, None), V(1, None)>>, <<V(0, 1), V(1, None)>>, <<V(2, None), V(0, None)>>}
MCDists == {[perShare |-> 3, amount |-> 2, pay |-> 1, expires |-> 2],
            [perShare |-> 2, amount |-> 3, pay |-> 2, expires |-> Never]}

VARIABLE focus
vars == <<focus, cpVars, caVars>>

MCInit == focus \in {"checkpoints", "records", "shared", "ballot", "distribution"} /\ CheckpointsInit /\ CorporateInit

\* A record date that is a checkpoint or the next date of a schedule, and one transfer either way.
SomeRecords(kind) ==
    \/ InitiateCorporateAction(kind, 0, <<"Scheduled", 1>>, <<>>, None)
    \/ InitiateCorporateAction(kind, 0, <<"Existing", 1>>, <<>>, None)
    \/ \E c \in DOMAIN cas : ChangeRecordDate(c, <<"Scheduled", 2>>) \/ RemoveCA(c)
    \/ (CreateCheckpoint \/ CpTick \/ \E d, e \in Holders : Shift(d, e)) /\ UNCHANGED caVars

\* Two CAs that use one schedule.
Shared ==
    \/ (CreateSchedule({1, 2}) \/ CpTick \/ Shift("h1", "h2") \/ \E s \in DOMAIN pendingOf : RemoveSchedule(s))
       /\ UNCHANGED caVars
    \/ InitiateCorporateAction("notice", 0, <<"ExistingSchedule", 1>>, <<>>, None)
    \/ \E c \in DOMAIN cas : RemoveCA(c) \/ \E s \in Specs : ChangeRecordDate(c, s)

\* One CA, one transfer from h1, two checkpoints.
Small == Len(cas') < 2 /\ moves' < 2 /\ cpBalance'["h1"] < 2 /\ Len(stamps') < 3

MCNext ==
    /\ \/ focus = "checkpoints" /\ CheckpointsNext /\ UNCHANGED caVars
       \/ focus = "records" /\ RecordsNext({"notice"}) /\ Small
       \/ focus = "shared" /\ Shared
       \/ focus = "ballot" /\ (BallotNext \/ SomeRecords("notice")) /\ Len(cas') < 2
       \/ /\ focus = "distribution"
          /\ \/ DistributionNext({<<"Scheduled", 1>>, <<"Existing", 1>>})
             \/ SomeRecords("benefit")
             \/ cas = <<>> /\ DefaultsNext
          /\ Small
    /\ UNCHANGED focus

MCSpec == MCInit /\ [][MCNext]_vars
=============================================================================
