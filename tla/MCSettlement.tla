---------------------------- MODULE MCSettlement ----------------------------
(* Instances of the settlement pallet.  A owns ACME and is its agent, B owns ART; *)
(* b1 is a numbered portfolio of B that may be deleted.                           *)
EXTENDS Settlement, TLC

CONSTANTS A, B, a0, b0, b1, ACME, ART, venue, r1, r2

MCPortfolioDid == (a0 :> A) @@ (b0 :> B) @@ (b1 :> B)
MCDefaultOf == (A :> a0) @@ (B :> b0)
MCAgent == (ACME :> A) @@ (ART :> B)
MCEndowment == (a0 :> (ACME :> 2)) @@ (b0 :> (ACME :> 0)) @@ (b1 :> (ACME :> 1))
MCNftEndowment == (a0 :> {}) @@ (b0 :> {<<ART, 1>>}) @@ (b1 :> {})
NoNfts == [p \in Portfolios |-> {}]
MCVenueCreator == (venue :> A)
MCSignerOf == (r1 :> A) @@ (r2 :> A)

Tokens(from, to, v) ==
    [type |-> "Fungible", sender |-> from, receiver |-> to, ticker |-> ACME, amount |-> v, nfts |-> {}]
Nft(from, to, n) ==
    [type |-> "NonFungible", sender |-> from, receiver |-> to, ticker |-> ART, amount |-> 0,
     nfts |-> {<<ART, n>>}]
Cash(from, to) ==
    [type |-> "OffChain", sender |-> from, receiver |-> to, ticker |-> ACME, amount |-> 1, nfts |-> {}]

\* A buys the NFT for one token; the token goes to B's second portfolio, which sends one back.
TradeLegs == {<<Tokens(a0, b1, 1), Nft(b0, a0, 1)>>, <<Tokens(a0, b1, 1), Tokens(b1, a0, 2)>>}
\* One token against a payment off chain.
CashLegs == {<<Tokens(a0, b0, 1), Cash(B, A)>>}
\* One token against two payments off chain.
TwoPaymentsLegs == {<<Tokens(a0, b0, 1), Cash(B, A), Cash(B, A)>>}
OneTokenLegs == {<<Tokens(a0, b0, 1)>>}
ReceiverPreApproves == {<<b0, ACME>>}
=============================================================================
