------------------------------- MODULE MCKeys -------------------------------
(***************************************************************************)
(* Who may act for an identity: its keys, the permissions of a key, and    *)
(* the custody of its portfolios.  The three parts share no storage;       *)
(* `focus` says which of them a behaviour exercises, so that the run has   *)
(* the sum of their states and not the product.                            *)
(* A is the only identity at genesis and a CDD provider; its primary key   *)
(* is a.                                                                   *)
(***************************************************************************)
EXTENDS Keys, Permissions, Custody, TLC

CONSTANTS A, B, D, a, b, c, n1, n2

MCGenesisKey == (A :> a)
\* Any key may be asked to join; b and c may be offered a rotation and be vouched for.
MCOffers ==
    (KeySet \X {<<"JoinIdentity", "whole">>})
    \cup ({b, c} \X {<<"RotatePrimaryKey">>, <<"RotatePrimaryKeyToSecondary", "whole">>,
                     <<"AttestPrimaryKeyRotation", A>>})
\* c may sign to join A or to become a child of A.
MCConsents == {<<c, A>>}
\* No identity but A is at genesis, a provider, a freezer or named in an offer, and the other
\* two are the holders of portfolios.
Alike == Permutations({B, D}) \cup Permutations({n1, n2})

VARIABLE focus
allVars == <<focus, keyVars, permVars, custodyVars>>

MCInit ==
    /\ focus \in {"keys", "permissions", "custody"}
    /\ KeysInit /\ PermissionsInit /\ InitCustody

MCNext ==
    /\ \/ focus = "keys" /\ KeysNext /\ UNCHANGED <<permVars, custodyVars>>
       \/ focus = "permissions" /\ PermissionsNext /\ UNCHANGED <<keyVars, custodyVars>>
       \/ focus = "custody" /\ CustodyNext /\ UNCHANGED <<keyVars, permVars>>
    /\ UNCHANGED focus

MCSpec == MCInit /\ [][MCNext]_allVars
=============================================================================
