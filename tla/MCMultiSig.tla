---------------------------- MODULE MCMultiSig ----------------------------
(* A, a CDD provider, creates the multisig ms and invites b and c. *)
EXTENDS MultiSig, TLC

CONSTANTS A, a, b, c, ms

MCGenesisKey == (A :> a)
MCCalls == {<<"Act">>, <<"RemoveSigner", b>>, <<"ChangeSigs", 2>>, <<"AddSigner", c>>}
MCRemovalLists == {<<b>>, <<c>>}
=============================================================================
