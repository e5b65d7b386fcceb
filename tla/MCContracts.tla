---------------------------- MODULE MCContracts ----------------------------
(***************************************************************************)
(* The contracts run.  `focus` picks what a behaviour is about: the chain  *)
(* extension, one of the three contracts written with PolymeshInk, or one  *)
(* of the contracts that stand alone.  They share no state.                *)
(***************************************************************************)
EXTENDS Extension, InkContracts

CONSTANTS
    MaxRootCalls,         \* extrinsics and root calls of the chain extension
    MaxOwnerSteps,        \* what owners do on their own
    MaxTrades             \* steps with the settlements contract

VARIABLES focus, calls

MCRuleSet == [allowed : {{"T1"}}, tenths : {3, 5}, artist : {"a"}]

Focuses == {"extension", "wrapped", "settlements", "royalty", "erc20", "vesting", "proxy", "delegator"}

Linked == [u \in Users |-> [did |-> u, primary |-> TRUE, perms |-> {}]]
Funds == [d \in Dids |-> IF d = Contract THEN 0 ELSE 3]
Endowed == [t \in Tickers |-> [p \in Portfolios |-> IF p[2] = 0 /\ p[1] # Contract THEN 5 ELSE 0]]

Init ==
    /\ focus \in Focuses /\ calls = 0
    /\ InitExtension(Linked, {"call"}, [api \in Apis |-> 1])
    /\ InitContracts(Funds, IF focus = "royalty" THEN Endowed ELSE <<>>)
    /\ InitExamples

ExtensionNext ==
    /\ focus = "extension"
    /\ ExtensionStep
    /\ frames = <<>> => calls < MaxRootCalls
    /\ calls' = IF frames = <<>> THEN calls + 1 ELSE calls
    /\ UNCHANGED <<inkVars, contractVars, exampleVars>>

InkNext ==
    /\ \/ focus = "wrapped" /\ WrappedStep /\ UNCHANGED calls
       \/ focus = "settlements" /\ SettlementsStep /\ calls < MaxTrades /\ calls' = calls + 1
       \/ focus = "royalty" /\ RoyaltyStep /\ UNCHANGED calls
       \/ /\ focus \in {"wrapped", "settlements", "royalty"}
          /\ calls < MaxOwnerSteps /\ calls' = calls + 1
          /\ \E d \in Owners : OwnerStep(d)
          /\ UNCHANGED <<code, contractVars>>
    /\ UNCHANGED <<extensionVars, exampleVars>>

ExampleNext ==
    /\ \/ focus = "erc20" /\ Erc20Step
       \/ focus = "vesting" /\ VestingStep
       \/ focus = "proxy" /\ ProxyStep
       \/ focus = "delegator" /\ DelegatorStep
    /\ UNCHANGED <<extensionVars, inkVars, contractVars, calls>>

Next == (ExtensionNext \/ InkNext \/ ExampleNext) /\ UNCHANGED focus

\* No contract pays out or takes more than it promises: every wrapped token is
\* backed by the contract's POLYX, and a sale through the royalty contract costs
\* the buyer the price, the artist's share included.
InkMoneyExact == (focus = "wrapped" => WrappedBacked) /\ RoyaltyExact

\* The contracts that stand alone keep their books: the token's supply, the vesting
\* schedule, and state across proxies and exchanged code.
ExamplesExact == Erc20Conserved /\ ReleasedOnSchedule /\ ProxyKeepsState

\* The books of every contract of the repository agree with the runtime's: custody is what
\* their maps say (CustodyExact), and the two above.
ContractBooksExact == CustodyExact /\ InkMoneyExact /\ ExamplesExact

Spec == Init /\ [][Next]_<<extensionVars, inkVars, contractVars, exampleVars, focus, calls>>

=============================================================================
