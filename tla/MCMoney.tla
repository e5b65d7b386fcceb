------------------------------ MODULE MCMoney -------------------------------
(***************************************************************************)
(* How POLYX is paid: subsidies, the bridge, and the balances under        *)
(* transactions.  They share no storage here; `focus` says which of them a *)
(* behaviour exercises, so that the run has the sum of their states.       *)
(***************************************************************************)
EXTENDS Relayer, Bridge, Transactions, TLC

CONSTANTS A, B, keyA, keyB, keyC

\* Subsidies: A and B exist at genesis, with the primary keys keyA and keyB; keyC is free.
\* keyA and keyC may pay, keyB and keyC may be paid for, so keyC may do both.
MCGenesisKey == (A :> keyA) @@ (B :> keyB)
\* Rotations, invitations and a subsidy authorization made by hand.
MCOffers == KeySet \X {<<"JoinIdentity", "whole">>, <<"RotatePrimaryKey">>,
                        AddRelayerPayingKey(keyB, keyA, 1)}

\* The bridge: one transaction with two amounts, or two with one.
Conf(d, l, e) == [timelock |-> d, limit |-> l, exempt |-> e]
MCBridgeConfs == {Conf(1, 3, FALSE), Conf(0, 2, TRUE)}
MCWorkloads == {<<{1, 2}, {}>>, <<{2}, {2}>>}

\* The transactions.
MCAccounts == {BRR, Treasury, "author", "alice", "bob", "carol", "sub"}
MCDerivative == [a \in MCAccounts |-> "sub"]

Ext(who, fee, actual, call) ==
    [who |-> who, len |-> 0, weight |-> fee, tip |-> 0, call |-> call,
     post |-> [weight |-> actual, pays |-> TRUE]]
Xfer(to, v) == [op |-> "transfer", to |-> to, v |-> v]
Op(o, v) == [op |-> o, v |-> v]
Many(mode, calls) == [op |-> "batch", mode |-> mode, calls |-> calls]
Relayed(n, call) == [op |-> "relay", target |-> "bob", nonce |-> n, call |-> call]

\* alice is subsidised by carol; bob signs calls that carol relays.
MCExtrinsics ==
    { Ext("alice", 2, 1, Xfer("bob", 1)), Ext("alice", 1, 1, Op("protocol", 1)),
      Ext("alice", 2, 2, Op("protocol", 1)), Ext("alice", 1, 1, Op("burn", 1)),
      Ext("alice", 1, 1, Op("deposit_brr", 1)), Ext("alice", 1, 1, [op |-> "unsubsidise"]),
      Ext("alice", 0, 0, Op("protocol", 1)),
      Ext("bob", 1, 1, Op("bond", 3)), Ext("bob", 1, 0, Op("deposit", 1)),
      Ext("bob", 1, 0, Op("refund", 1)), Ext("bob", 1, 1, Op("reimburse", 1)),
      Ext("bob", 1, 1, [op |-> "derivative", call |-> Op("protocol", 1)]),
      Ext("bob", 1, 1, [op |-> "accept", by |-> "carol"]),
      [Ext("bob", 1, 1, [op |-> "operational"]) EXCEPT !.tip = 1, !.post.pays = FALSE],
      Ext("carol", 1, 1, Relayed(0, Xfer("carol", 3))),
      Ext("carol", 1, 1, Relayed(0, Op("bond", 2))),
      Ext("carol", 1, 1, Relayed(1, Xfer("carol", 1))) }
    \cup {Ext("carol", 1, 1, Many(mode, <<Relayed(0, Xfer("carol", 1)), Xfer("bob", 9)>>)) :
             mode \in {"batch", "all", "force", "old", "atomic", "optimistic"}}
    \cup {Ext("carol", 1, 1, Many("all", <<Xfer("bob", 1), Many("all", <<Xfer("bob", 1)>>)>>))}

MCRootCalls ==
    { [op |-> "set_balance", who |-> "bob", free |-> 2, reserved |-> 1],
      [op |-> "force_transfer", from |-> "bob", to |-> "sub", v |-> 1],
      [op |-> "disburse", payments |-> <<[to |-> "sub", amount |-> 1], [to |-> "bob", amount |-> 1]>>],
      [op |-> "dispatch_as", as |-> "bob", call |-> Op("protocol", 1)],
      [op |-> "with_weight", call |-> [op |-> "force_transfer", from |-> "carol", to |-> BRR, v |-> 1]] }

MCPalletOps ==
    { [op |-> o, who |-> "bob", v |-> 2] : o \in {"slash", "mint", "issue", "reserve", "unreserve",
                                                  "slash_reserved", "extend", "unlock"} }
    \cup { [op |-> "repatriate", who |-> "bob", to |-> to, v |-> 1, status |-> s] :
             to \in {"bob", "carol"}, s \in {"Free", "Reserved"} }

MCLedger0 ==
    LET free == [alice |-> 1, bob |-> 3, carol |-> 4, brr |-> 1, treasury |-> 2, author |-> 0, sub |-> 1]
    IN  [acct |-> [a \in MCAccounts |-> [NoBalance EXCEPT !.free = free[a]]],
         locks |-> [a \in MCAccounts |-> <<>>], issued |-> 12,
         subsidy |-> [a \in MCAccounts |-> IF a = "alice" THEN [by |-> "carol", left |-> 3]
                                           ELSE NotSubsidised],
         charged |-> [a \in MCAccounts |-> 0], nonce |-> [a \in MCAccounts |-> 0],
         relayed |-> <<>>, payer |-> NoPayer]
MCLedgers == {MCLedger0}

VARIABLE focus
allVars == <<focus, relayerVars, bridgeVars, txVars>>

MCInit ==
    /\ focus \in {"relayer", "bridge", "transactions"}
    /\ RelayerInit /\ BridgeInit /\ TxInit
    \* What is not exercised starts in one way only.
    /\ focus # "bridge" => workload = <<{2}, {2}>> /\ bridgeConf.exempt

\* Two transactions run under settings that stay; the settings change around one.
KeepsSettings == bridgeConf'.limit = bridgeConf.limit /\ bridgeConf'.exempt = bridgeConf.exempt

MCNext ==
    /\ \/ focus = "relayer" /\ RelayerNext /\ UNCHANGED <<bridgeVars, txVars>>
       \/ /\ focus = "bridge" /\ BridgeNext
          /\ workload[2] # {} => KeepsSettings
          /\ UNCHANGED <<relayerVars, txVars>>
       \/ focus = "transactions" /\ TxNext /\ UNCHANGED <<relayerVars, bridgeVars>>
    /\ UNCHANGED focus

MCSpec == MCInit /\ [][MCNext]_allVars
=============================================================================
