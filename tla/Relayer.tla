------------------------------ MODULE Relayer ------------------------------
(***************************************************************************)
(* The relayer pallet (a paying key subsidises the fees of a user key, up  *)
(* to a limit) on top of the keys of the identity pallet, with the two     *)
(* places that spend a subsidy: the transaction fee, checked before the    *)
(* call and debited after it, and the protocol fees the call itself        *)
(* charges.  The balances of the keys are left out: a key can always pay.  *)
(* A subsidised key may only send calls to some pallets itself; the others *)
(* reach the chain for it through Utility::relay_tx, at the sender's cost, *)
(* so the calls of the two pallets here are not restricted.                *)
(***************************************************************************)
EXTENDS Keys

CONSTANTS
    Users, Payers,   \* keys that may be subsidised, keys that may subsidise
    MaxLimit,        \* bound on the POLYX of a subsidy
    Fees             \* transaction fees and protocol fees in use

AddRelayerPayingKey(u, p, limit) == <<"AddRelayerPayingKey", u, p, limit>>
SubsidyOffers == {AddRelayerPayingKey(u, p, l) : u \in KeySet, p \in Payers, l \in 0..MaxLimit}

ASSUME RelayerAssumption ==
    /\ IsFiniteSet(KeySet) /\ Users \subseteq KeySet /\ Payers \subseteq KeySet
    /\ MaxLimit \in Nat /\ Fees \subseteq Nat \ {0}
    /\ \A o \in Offers : o[2][1] = "AddRelayerPayingKey" => o[2] \in SubsidyOffers

NoSubsidy == [payingKey |-> NoKey, remaining |-> 0]
NoTx == [payer |-> NoKey, fee |-> 0, before |-> 0, stage |-> "none"]

VARIABLES
    subsidies,  \* Subsidies, by user key
    tx          \* the subsidised transaction being applied, if any

relayerVars == <<keyVars, subsidies, tx>>
Subsidy == [payingKey : Payers, remaining : 0..MaxLimit]

RelayerInit ==
    /\ KeysInit
    /\ subsidies = [u \in KeySet |-> NoSubsidy]
    /\ tx = NoTx

IsSubsidised(u) == subsidies[u] # NoSubsidy
-----------------------------------------------------------------------------
(* The calls of the pallet. *)

SetPayingKey(k, user, limit) ==
    \E d \in Dids :
      /\ EnsurePerms(k, d)
      /\ AddAuth(d, user, AddRelayerPayingKey(user, k, limit))
      /\ UNCHANGED <<links, parentDid, childDid, frozenDids, refCount, consents, cdd,
                     cddRotation, subsidies, tx>>

\* Mutant: the user key gets a reference for every subsidy it accepts.
MutAcceptPayingKey(k, a) ==
    LET paying == auths[a].data[3]
        Inc(c, key) == [c EXCEPT ![key] = @ + 1]
    IN  /\ CanAccept(k, a, "AddRelayerPayingKey")
        /\ auths[a].data[2] = k
        /\ GetIdentity(k) # NoDid /\ HasValidCdd(GetIdentity(k))
        /\ GetIdentity(paying) = auths[a].by
        /\ refCount' = Inc(Inc(refCount, k), paying)
        /\ subsidies' = [subsidies EXCEPT ![k] = [payingKey |-> paying,
                                                  remaining |-> auths[a].data[4]]]
        /\ RemoveAuths({a})
        /\ UNCHANGED <<links, parentDid, childDid, frozenDids, consents, cdd, cddRotation, tx>>

\* Mutant: anybody may offer the paying key of somebody else.
MutForeignPayingKey(k, a) ==
    LET paying == auths[a].data[3]
        Inc(c, key) == [c EXCEPT ![key] = @ + 1]
        Dec(c, key) == [c EXCEPT ![key] = IF @ = 0 THEN 0 ELSE @ - 1]
    IN  /\ CanAccept(k, a, "AddRelayerPayingKey")
        /\ auths[a].data[2] = k
        /\ GetIdentity(k) # NoDid /\ HasValidCdd(GetIdentity(k))
        /\ refCount' = Inc(IF IsSubsidised(k) THEN Dec(refCount, subsidies[k].payingKey)
                           ELSE Inc(refCount, k), paying)
        /\ subsidies' = [subsidies EXCEPT ![k] = [payingKey |-> paying,
                                                  remaining |-> auths[a].data[4]]]
        /\ RemoveAuths({a})
        /\ UNCHANGED <<links, parentDid, childDid, frozenDids, consents, cdd, cddRotation, tx>>

\* auth_accept_paying_key: an existing subsidy is replaced, and its paying key
\* loses a reference; otherwise the user key gets one.
AcceptPayingKey(k, a) ==
    LET paying == auths[a].data[3]
        Inc(c, key) == [c EXCEPT ![key] = @ + 1]
        Dec(c, key) == [c EXCEPT ![key] = IF @ = 0 THEN 0 ELSE @ - 1]
    IN  /\ CanAccept(k, a, "AddRelayerPayingKey")
        /\ auths[a].data[2] = k
        /\ GetIdentity(k) # NoDid /\ HasValidCdd(GetIdentity(k))
        /\ GetIdentity(paying) = auths[a].by
        /\ refCount' = Inc(IF IsSubsidised(k) THEN Dec(refCount, subsidies[k].payingKey)
                           ELSE Inc(refCount, k), paying)
        /\ subsidies' = [subsidies EXCEPT ![k] = [payingKey |-> paying,
                                                  remaining |-> auths[a].data[4]]]
        /\ RemoveAuths({a})
        /\ UNCHANGED <<links, parentDid, childDid, frozenDids, consents, cdd, cddRotation, tx>>

RemovePayingKey(k, user) ==
    LET paying == subsidies[user].payingKey
        Dec(c, key) == [c EXCEPT ![key] = IF @ = 0 THEN 0 ELSE @ - 1]
    IN  /\ IsSubsidised(user)
        /\ \E d \in Dids : EnsurePerms(k, d) /\ (k \in {user, paying} \/ GetIdentity(user) = d)
        /\ refCount' = Dec(Dec(refCount, paying), user)
        /\ subsidies' = [subsidies EXCEPT ![user] = NoSubsidy]
        /\ UNCHANGED <<links, parentDid, childDid, frozenDids, auths, given, nextAuth,
                       consents, cdd, cddRotation, tx>>

\* update_, increase_ and decrease_polyx_limit, with checked arithmetic.
UpdatePolyxLimit(k, user, op, amount) ==
    LET old == subsidies[user].remaining
        new == CASE op = "Set" -> amount [] op = "Add" -> old + amount [] op = "Sub" -> old - amount
    IN  /\ \E d \in Dids : EnsurePerms(k, d)
        /\ IsSubsidised(user) /\ subsidies[user].payingKey = k
        /\ new \in 0..MaxLimit
        /\ subsidies' = [subsidies EXCEPT ![user].remaining = new]
        /\ UNCHANGED <<keyVars, tx>>
-----------------------------------------------------------------------------
(* The fees of a subsidised transaction. *)

\* check_subsidy in pre_dispatch: a call to a subsidised pallet, and enough
\* POLYX left for the fee.
SubsidyPreDispatch(u, fee) ==
    /\ tx = NoTx
    /\ \E d \in Dids : SignedBy(u, d)
    /\ IsSubsidised(u) /\ subsidies[u].remaining >= fee
    /\ tx' = [payer |-> u, fee |-> fee, before |-> subsidies[u].remaining, stage |-> "call"]
    /\ UNCHANGED <<keyVars, subsidies>>

\* The call charges a protocol fee to the same subsidy, or none.  A call that
\* fails, also for want of POLYX, charges none.
ProtocolFee(fee) ==
    /\ tx.stage = "call"
    /\ subsidies[tx.payer].remaining >= fee
    /\ subsidies' = [subsidies EXCEPT ![tx.payer].remaining = @ - fee]
    /\ tx' = [tx EXCEPT !.stage = "post"]
    /\ UNCHANGED keyVars

NoProtocolFee ==
    /\ tx.stage = "call"
    /\ tx' = [tx EXCEPT !.stage = "post"]
    /\ UNCHANGED <<keyVars, subsidies>>

\* debit_subsidy in post_dispatch, for the actual fee.
SubsidyPostDispatch(actual) ==
    /\ tx.stage = "post"
    /\ actual <= tx.fee
    /\ subsidies[tx.payer].remaining >= actual
    /\ subsidies' = [subsidies EXCEPT ![tx.payer].remaining = @ - actual]
    /\ tx' = NoTx
    /\ UNCHANGED keyVars

\* debit_subsidy fails in post_dispatch: the transaction is invalid after all,
\* and nothing of it remains.
SubsidyPostDispatchFails(actual) ==
    /\ tx.stage = "post"
    /\ actual <= tx.fee
    /\ subsidies[tx.payer].remaining < actual
    /\ subsidies' = [subsidies EXCEPT ![tx.payer].remaining = tx.before]
    /\ tx' = NoTx
    /\ UNCHANGED keyVars
-----------------------------------------------------------------------------
RelayerCall ==
    \/ \E k \in Payers, u \in Users, l \in 0..MaxLimit : SetPayingKey(k, u, l)
    \/ \E k \in KeySet, a \in AuthIds : AcceptPayingKey(k, a)
    \/ \E k \in KeySet, u \in KeySet : RemovePayingKey(k, u)
    \/ \E k \in Payers, u \in Users, op \in {"Set", "Add", "Sub"}, x \in 0..MaxLimit :
         UpdatePolyxLimit(k, u, op, x)

FeeStep ==
    \/ \E u \in Users, f \in Fees : SubsidyPreDispatch(u, f)
    \/ \E f \in Fees : ProtocolFee(f)
    \/ NoProtocolFee
    \/ \E f \in Fees : SubsidyPostDispatch(f) \/ SubsidyPostDispatchFails(f)

\* A transaction is applied without interruption.
RelayerNext ==
    \/ tx = NoTx /\ RelayerCall
    \/ tx = NoTx /\ KeysNext /\ UNCHANGED <<subsidies, tx>>
    \/ FeeStep

RelayerSpec == RelayerInit /\ [][RelayerNext]_relayerVars
-----------------------------------------------------------------------------
(* Subsidies and the transaction have their types.                           *)
RelayerTypeOK ==
    /\ subsidies \in [KeySet -> Subsidy \cup {NoSubsidy}]
    /\ tx = NoTx \/ /\ tx.payer \in KeySet /\ tx.fee \in Fees
                    /\ tx.before \in 0..MaxLimit /\ tx.stage \in {"call", "post"}

(* AccountKeyRefCount counts the uses of a key: one for each user it pays    *)
(* for, and one if it is itself subsidised.  Accepting a second subsidy,     *)
(* subsidising oneself and removing must all keep it so: one reference too   *)
(* few frees a key in use, one too many binds it for ever.                   *)
RefCountExact ==
    \A k \in KeySet :
      refCount[k] = Cardinality({u \in KeySet : subsidies[u] # NoSubsidy /\ subsidies[u].payingKey = k})
                    + (IF IsSubsidised(k) THEN 1 ELSE 0)

(* Both keys of a subsidy belong to identities for as long as it lasts.      *)
SubsidyKeysLinked ==
    \A u \in KeySet : IsSubsidised(u) => Linked(u) /\ Linked(subsidies[u].payingKey)

(* A subsidy only starts with the consent of the identity of the paying key: *)
(* an authorization that identity gave, for this user and this paying key,   *)
(* is consumed.                                                              *)
SubsidyAuthorized ==
    [][\A u \in KeySet :
         (subsidies'[u] # NoSubsidy /\ subsidies'[u].payingKey # subsidies[u].payingKey) =>
           \E a \in AuthIds :
             /\ auths[a] # NoAuth /\ auths'[a] = NoAuth
             /\ auths[a].data = AddRelayerPayingKey(u, subsidies'[u].payingKey,
                                                    subsidies'[u].remaining)
             /\ links.key[subsidies'[u].payingKey].of = auths[a].by]_relayerVars

(* The record of who pays for whom and the references that hold the keys of both in  *)
(* their identities agree.                                                            *)
SubsidyBooksExact == RelayerTypeOK /\ RefCountExact /\ SubsidyKeysLinked

(* A subsidy begins by consent, and what it refers to does not go away under it.      *)
SubsidyBinds == SubsidyAuthorized /\ ReferencedKeyStays
=============================================================================
