-------------------------------- MODULE Keys --------------------------------
(***************************************************************************)
(* The keys of the identity pallet: which account key acts for which       *)
(* identity (DID), the authorizations with which keys join identities and  *)
(* become their primary keys, and the tree of parent and child identities. *)
(*                                                                         *)
(* A failing call leaves the state as it was, so only calls that succeed   *)
(* are actions (and the retry counter of an authorization, which only a    *)
(* failing call decrements, never moves).  Fees are left out, and so is    *)
(* the expiry of an authorization: an expired one is one that nobody       *)
(* accepts any more.  The permissions of a secondary key either allow a    *)
(* call ("whole") or do not ("empty").  Authorizations for identities      *)
(* (rather than keys) as targets belong to other pallets.                  *)
(***************************************************************************)
EXTENDS Naturals, FiniteSets

CONSTANTS
    KeySet,        \* account keys
    Dids,          \* identities, also the ones not registered yet
    NoKey, NoDid,  \* None
    GenesisKey,    \* the primary keys of the identities there are at genesis
    CddProviders,  \* identities in the group of CDD providers
    Offers,        \* targets and data that add_authorization may be given
    MaxAuths,      \* bound on the number of authorizations
    Consents,      \* off-chain signatures <<key, did>> that may be made
    VolatileCdd,   \* identities whose CDD claim may come and go
    Freezers,      \* identities that may freeze their secondary keys
    RotationRules  \* values root may give cddRotation

AuthIds == 1..MaxAuths
Perms == {"whole", "empty"}

\* KeyRecord, with None as "Unlinked".
Unlinked == [kind |-> "Unlinked", of |-> NoDid, perms |-> "empty"]
PrimaryKey(d) == [kind |-> "Primary", of |-> d, perms |-> "whole"]
SecondaryKey(d, p) == [kind |-> "Secondary", of |-> d, perms |-> p]
MultiSigSignerKey(m) == [kind |-> "Signer", of |-> m, perms |-> "empty"]
KeyRecord == {Unlinked} \cup {PrimaryKey(d) : d \in Dids}
             \cup {SecondaryKey(d, p) : d \in Dids, p \in Perms}
             \cup {MultiSigSignerKey(m) : m \in KeySet}

NoAuth == [target |-> NoKey, by |-> NoDid, data |-> <<"None">>]

ASSUME KeysAssumption ==
    /\ KeySet \cap Dids = {}
    /\ NoKey \notin KeySet \cup Dids /\ NoDid \notin KeySet \cup Dids /\ NoKey # NoDid
    /\ DOMAIN GenesisKey \subseteq Dids
    /\ GenesisKey \in [DOMAIN GenesisKey -> KeySet]
    /\ \A d, e \in DOMAIN GenesisKey : d # e => GenesisKey[d] # GenesisKey[e]
    /\ CddProviders \subseteq Dids /\ VolatileCdd \subseteq Dids /\ Freezers \subseteq Dids
    /\ Consents \subseteq KeySet \X Dids /\ RotationRules \subseteq BOOLEAN
    /\ MaxAuths \in Nat
    /\ \A o \in Offers :
          /\ o[1] \in KeySet
          /\ o[2][1] \in {"JoinIdentity", "RotatePrimaryKeyToSecondary"} => o[2][2] \in Perms

VARIABLES
    links,       \* KeyRecords, DidKeys and DidRecords
    parentDid,   \* ParentDid
    childDid,    \* ChildDid
    frozenDids,  \* IsDidFrozen
    auths,       \* Authorizations, by id
    given,       \* AuthorizationsGiven: authorizer, id and target
    nextAuth,    \* the id of the next authorization
    refCount,    \* AccountKeyRefCount
    consents,    \* off-chain signatures <<key, did>> for the current nonce of did
    cdd,         \* identities with a valid CDD claim of their own
    cddRotation  \* CddAuthForPrimaryKeyRotation

keyVars == <<links, parentDid, childDid, frozenDids, auths, given, nextAuth,
             refCount, consents, cdd, cddRotation>>

Links == [key : [KeySet -> KeyRecord],
          didKeys : [Dids -> SUBSET KeySet],
          primary : [Dids -> KeySet \cup {NoKey, NoDid}]]   \* NoDid: no DidRecord

GenesisLinks ==
    [key |-> [k \in KeySet |-> IF \E d \in DOMAIN GenesisKey : GenesisKey[d] = k
                               THEN PrimaryKey(CHOOSE d \in DOMAIN GenesisKey : GenesisKey[d] = k)
                               ELSE Unlinked],
     didKeys |-> [d \in Dids |-> IF d \in DOMAIN GenesisKey THEN {GenesisKey[d]} ELSE {}],
     primary |-> [d \in Dids |-> IF d \in DOMAIN GenesisKey THEN GenesisKey[d] ELSE NoDid]]

KeysInit ==
    /\ links = GenesisLinks
    /\ parentDid = [d \in Dids |-> NoDid]
    /\ childDid = [d \in Dids |-> {}]
    /\ frozenDids = {}
    /\ auths = [a \in AuthIds |-> NoAuth]
    /\ given = {}
    /\ nextAuth = 1
    /\ refCount = [k \in KeySet |-> 0]
    /\ consents = {}
    /\ cdd = DOMAIN GenesisKey
    /\ cddRotation = FALSE

-----------------------------------------------------------------------------
(* Reading and writing key records. *)

Exists(d) == links.primary[d] # NoDid
FreshDids == {d \in Dids : ~Exists(d)}
Linked(k) == links.key[k].kind \in {"Primary", "Secondary"}

GetIdentity(k) ==
    IF \/ links.key[k].kind = "Primary"
       \/ links.key[k].kind = "Secondary" /\ links.key[k].of \notin frozenDids
    THEN links.key[k].of
    ELSE NoDid

\* add_key_record does nothing for a key that has a record.
AddKeyRecord(L, k, r) ==
    IF L.key[k] # Unlinked THEN L
    ELSE [key |-> [L.key EXCEPT ![k] = r],
          didKeys |-> IF r.kind = "Signer" THEN L.didKeys
                      ELSE [L.didKeys EXCEPT ![r.of] = @ \cup {k}],
          primary |-> IF r.kind = "Primary" THEN [L.primary EXCEPT ![r.of] = k]
                      ELSE L.primary]

\* With NoDid only the record of a signer of a multisig is removed.
RemoveKeyRecord(L, k, d) ==
    LET r == L.key[k] IN
    IF r.kind \in {"Primary", "Secondary"} /\ r.of = d
    THEN [key |-> [L.key EXCEPT ![k] = Unlinked],
          didKeys |-> [L.didKeys EXCEPT ![d] = @ \ {k}],
          primary |-> IF r.kind = "Primary" /\ L.primary[d] = k
                      THEN [L.primary EXCEPT ![d] = NoKey]
                      ELSE L.primary]
    ELSE IF r.kind = "Signer" /\ d = NoDid
    THEN [L EXCEPT !.key = [@ EXCEPT ![k] = Unlinked]]
    ELSE L

\* The balance of a multisig, which may also forbid it, is left out.
UnlinkableFromDid(k) == refCount[k] = 0

HasValidCdd(d) == d \in cdd \/ parentDid[d] \in cdd

\* A signed call is only accepted from a key of an identity with a valid CDD.
SignedBy(k, d) == d # NoDid /\ d = GetIdentity(k) /\ HasValidCdd(d)
EnsurePerms(k, d) == SignedBy(k, d) /\ links.key[k].perms = "whole"
EnsurePrimaryKey(k, d) == SignedBy(k, d) /\ links.key[k].kind = "Primary"
IsSecondaryKey(k, d) == links.key[k].kind = "Secondary" /\ links.key[k].of = d
-----------------------------------------------------------------------------
(* Authorizations. *)

AddAuth(from, target, data) ==
    /\ nextAuth <= MaxAuths
    /\ auths' = [auths EXCEPT ![nextAuth] = [target |-> target, by |-> from, data |-> data]]
    /\ given' = given \cup {<<from, nextAuth, target>>}
    /\ nextAuth' = nextAuth + 1

\* Mutant: AuthorizationsGiven keeps the entry.
MutRemoveAuths(ids) ==
    /\ auths' = [a \in AuthIds |-> IF a \in ids THEN NoAuth ELSE auths[a]]
    /\ UNCHANGED <<given, nextAuth>>

RemoveAuths(ids) ==
    /\ auths' = [a \in AuthIds |-> IF a \in ids THEN NoAuth ELSE auths[a]]
    /\ given' = given \ {<<auths[a].by, a, auths[a].target>> : a \in ids}
    /\ UNCHANGED nextAuth

\* The authorizer pays for the call that accepts, and needs a valid CDD.
CanAccept(k, a, type) ==
    /\ auths[a] # NoAuth
    /\ auths[a].target = k
    /\ auths[a].data[1] = type
    /\ HasValidCdd(auths[a].by)

AddAuthorization(k, target, data) ==
    \E d \in Dids :
      /\ EnsurePerms(k, d)
      /\ AddAuth(d, target, data)
      /\ UNCHANGED <<links, parentDid, childDid, frozenDids, refCount, consents, cdd, cddRotation>>

\* The issuer revokes it or the target rejects it.  A target without a key
\* record makes the issuer pay.
RemoveAuthorization(k, a) ==
    /\ auths[a] # NoAuth
    /\ \/ \E d \in Dids : EnsurePerms(k, d) /\ (auths[a].by = d \/ auths[a].target = k)
       \/ links.key[k] = Unlinked /\ auths[a].target = k /\ HasValidCdd(auths[a].by)
    /\ RemoveAuths({a})
    /\ UNCHANGED <<links, parentDid, childDid, frozenDids, refCount, consents, cdd, cddRotation>>
-----------------------------------------------------------------------------
(* Identities and their keys. *)

\* A CDD provider registers a key; one secondary key at most is invited.
CddRegisterDid(k, target, invited, withCdd) ==
    \E c \in CddProviders, d \in FreshDids :
      /\ EnsurePerms(k, c)
      /\ links.key[target] = Unlinked
      /\ target # invited
      /\ links' = AddKeyRecord(links, target, PrimaryKey(d))
      /\ IF invited = NoKey THEN UNCHANGED <<auths, given, nextAuth>>
         ELSE links.key[invited] = Unlinked /\ AddAuth(d, invited, <<"JoinIdentity", "whole">>)
      /\ cdd' = IF withCdd THEN cdd \cup {d} ELSE cdd
      /\ UNCHANGED <<parentDid, childDid, frozenDids, refCount, consents, cddRotation>>

LinkChild(child, parent) ==
    /\ parentDid' = [parentDid EXCEPT ![child] = parent]
    /\ childDid' = [childDid EXCEPT ![parent] = @ \cup {child}]

CreateChildIdentity(k, sk) ==
    \E p \in Dids, d \in FreshDids :
      /\ EnsurePrimaryKey(k, p)
      /\ parentDid[p] = NoDid
      /\ IsSecondaryKey(sk, p)
      /\ UnlinkableFromDid(sk)
      /\ links' = AddKeyRecord(RemoveKeyRecord(links, sk, p), sk, PrimaryKey(d))
      /\ LinkChild(d, p)
      /\ UNCHANGED <<frozenDids, auths, given, nextAuth, refCount, consents, cdd, cddRotation>>

\* Bound: one child a call.  The signatures for the old nonce are void.
CreateChildIdentities(k, child) ==
    \E p \in Dids, d \in FreshDids :
      /\ EnsurePrimaryKey(k, p)
      /\ parentDid[p] = NoDid
      /\ links.key[child] = Unlinked
      /\ <<child, p>> \in consents
      /\ consents' = {c \in consents : c[2] # p}
      /\ links' = AddKeyRecord(links, child, PrimaryKey(d))
      /\ LinkChild(d, p)
      /\ UNCHANGED <<frozenDids, auths, given, nextAuth, refCount, cdd, cddRotation>>

UnlinkChildIdentity(k, child) ==
    \E d \in Dids :
      /\ EnsurePrimaryKey(k, d)
      /\ parentDid[child] # NoDid
      /\ d \in {child, parentDid[child]}
      /\ parentDid' = [parentDid EXCEPT ![child] = NoDid]
      /\ childDid' = [childDid EXCEPT ![parentDid[child]] = @ \ {child}]
      /\ UNCHANGED <<links, frozenDids, auths, given, nextAuth, refCount, consents, cdd, cddRotation>>

\* A key signs, off chain, to join an identity as it stands.
SignConsent(k, d) ==
    /\ <<k, d>> \in Consents
    /\ Exists(d)
    /\ consents' = consents \cup {<<k, d>>}
    /\ UNCHANGED <<links, parentDid, childDid, frozenDids, auths, given, nextAuth,
                   refCount, cdd, cddRotation>>

\* Bound: one key a call.
AddSecondaryKeysWithAuthorization(k, sk, p) ==
    \E d \in Dids :
      /\ EnsurePrimaryKey(k, d)
      /\ links.key[sk] = Unlinked
      /\ <<sk, d>> \in consents
      /\ consents' = {c \in consents : c[2] # d}
      /\ links' = AddKeyRecord(links, sk, SecondaryKey(d, p))
      /\ UNCHANGED <<parentDid, childDid, frozenDids, auths, given, nextAuth, refCount,
                     cdd, cddRotation>>

\* Bound: one key a call.
RemoveSecondaryKeys(k, sk) ==
    \E d \in Dids :
      /\ EnsurePrimaryKey(k, d)
      /\ IsSecondaryKey(sk, d)
      /\ UnlinkableFromDid(sk)
      /\ links' = RemoveKeyRecord(links, sk, d)
      /\ UNCHANGED <<parentDid, childDid, frozenDids, auths, given, nextAuth, refCount,
                     consents, cdd, cddRotation>>

SetSecondaryKeyPermissions(k, sk, p) ==
    \E d \in Dids :
      /\ EnsurePrimaryKey(k, d)
      /\ IsSecondaryKey(sk, d)
      /\ links' = [links EXCEPT !.key = [@ EXCEPT ![sk] = SecondaryKey(d, p)]]
      /\ UNCHANGED <<parentDid, childDid, frozenDids, auths, given, nextAuth, refCount,
                     consents, cdd, cddRotation>>

JoinIdentity(k, a) ==
    /\ CanAccept(k, a, "JoinIdentity")
    /\ links.key[k] = Unlinked
    /\ links' = AddKeyRecord(links, k, SecondaryKey(auths[a].by, auths[a].data[2]))
    /\ RemoveAuths({a})
    /\ UNCHANGED <<parentDid, childDid, frozenDids, refCount, consents, cdd, cddRotation>>

LeaveIdentity(k) ==
    \E d \in Dids :
      /\ SignedBy(k, d)
      /\ IsSecondaryKey(k, d)
      /\ UnlinkableFromDid(k)
      /\ links' = RemoveKeyRecord(links, k, d)
      /\ UNCHANGED <<parentDid, childDid, frozenDids, auths, given, nextAuth, refCount,
                     consents, cdd, cddRotation>>

SetFrozenSecondaryKeyFlags(k, freeze) ==
    \E d \in Dids :
      /\ d \in Freezers
      /\ EnsurePrimaryKey(k, d)
      /\ frozenDids' = IF freeze THEN frozenDids \cup {d} ELSE frozenDids \ {d}
      /\ UNCHANGED <<links, parentDid, childDid, auths, given, nextAuth, refCount,
                     consents, cdd, cddRotation>>
-----------------------------------------------------------------------------
(* Rotation of the primary key.  perms is "none" when the old key is dropped. *)

\* Mutant: an attestation for another identity will do, and references do not bind the old key.
MutCanRotate(d, new, perms, attest) ==
    /\ links.primary[d] \in KeySet
    /\ links.key[new] = Unlinked \/ IsSecondaryKey(new, d)
    /\ cddRotation =>
         /\ attest \in AuthIds
         /\ auths[attest] # NoAuth
         /\ auths[attest].target = new
         /\ auths[attest].data[1] = "AttestPrimaryKeyRotation"
         /\ auths[attest].by \in CddProviders

CanRotate(d, new, perms, attest) ==
    /\ links.primary[d] \in KeySet
    /\ links.key[new] = Unlinked \/ IsSecondaryKey(new, d)
    /\ perms = "none" => UnlinkableFromDid(links.primary[d])
    /\ cddRotation =>
         /\ attest \in AuthIds
         /\ auths[attest] # NoAuth
         /\ auths[attest].target = new
         /\ auths[attest].data = <<"AttestPrimaryKeyRotation", d>>
         /\ auths[attest].by \in CddProviders

RotatedLinks(d, new, perms) ==
    LET old == links.primary[d]
        L == IF IsSecondaryKey(new, d)
             THEN [key |-> [links.key EXCEPT ![new] = PrimaryKey(d)],
                   didKeys |-> links.didKeys,
                   primary |-> [links.primary EXCEPT ![d] = new]]
             ELSE AddKeyRecord(links, new, PrimaryKey(d))
    IN  IF perms = "none" THEN RemoveKeyRecord(L, old, d)
        ELSE [L EXCEPT !.key = [@ EXCEPT ![old] = SecondaryKey(d, perms)]]

UsedAuths(a, attest) == {a} \cup (IF cddRotation THEN {attest} ELSE {})

AcceptPrimaryKey(k, a, attest) ==
    /\ CanAccept(k, a, "RotatePrimaryKey")
    /\ CanRotate(auths[a].by, k, "none", attest)
    /\ links' = RotatedLinks(auths[a].by, k, "none")
    /\ RemoveAuths(UsedAuths(a, attest))
    /\ UNCHANGED <<parentDid, childDid, frozenDids, refCount, consents, cdd, cddRotation>>

RotatePrimaryKeyToSecondary(k, a, attest) ==
    /\ CanAccept(k, a, "RotatePrimaryKeyToSecondary")
    /\ CanRotate(auths[a].by, k, auths[a].data[2], attest)
    /\ links' = RotatedLinks(auths[a].by, k, auths[a].data[2])
    /\ RemoveAuths(UsedAuths(a, attest))
    /\ UNCHANGED <<parentDid, childDid, frozenDids, refCount, consents, cdd, cddRotation>>

\* Root.
ChangeCddRequirementForMkRotation(required) ==
    /\ cddRotation' = required
    /\ UNCHANGED <<links, parentDid, childDid, frozenDids, auths, given, nextAuth, refCount,
                   consents, cdd>>

\* A CDD claim is issued, or it is revoked or expires.
ChangeCdd(d, valid) ==
    /\ Exists(d)
    /\ cdd' = IF valid THEN cdd \cup {d} ELSE cdd \ {d}
    /\ UNCHANGED <<links, parentDid, childDid, frozenDids, auths, given, nextAuth, refCount,
                   consents, cddRotation>>
-----------------------------------------------------------------------------
(* What a key may call. *)
KeyCall(k) ==
    \/ \E o \in Offers : AddAuthorization(k, o[1], o[2])
    \/ \E a \in AuthIds : RemoveAuthorization(k, a) \/ JoinIdentity(k, a)
    \/ \E a \in AuthIds, c \in AuthIds \cup {0} :
         AcceptPrimaryKey(k, a, c) \/ RotatePrimaryKeyToSecondary(k, a, c)
    \/ \E t \in KeySet, i \in KeySet \cup {NoKey}, v \in BOOLEAN : CddRegisterDid(k, t, i, v)
    \/ \E c \in KeySet : CreateChildIdentity(k, c) \/ CreateChildIdentities(k, c)
    \/ \E d \in Dids : UnlinkChildIdentity(k, d)
    \/ \E d \in Dids : SignConsent(k, d)
    \/ \E s \in KeySet, p \in Perms :
         AddSecondaryKeysWithAuthorization(k, s, p) \/ SetSecondaryKeyPermissions(k, s, p)
    \/ \E s \in KeySet : RemoveSecondaryKeys(k, s)
    \/ LeaveIdentity(k)
    \/ \E f \in BOOLEAN : SetFrozenSecondaryKeyFlags(k, f)

KeysEnvironment ==
    \/ \E b \in RotationRules : ChangeCddRequirementForMkRotation(b)
    \/ \E d \in VolatileCdd, v \in BOOLEAN : ChangeCdd(d, v)

KeysNext == (\E k \in KeySet : KeyCall(k)) \/ KeysEnvironment

KeysSpec == KeysInit /\ [][KeysNext]_keyVars
-----------------------------------------------------------------------------
(* Every variable has its type. *)
KeysTypeOK ==
    /\ links \in Links
    /\ parentDid \in [Dids -> Dids \cup {NoDid}]
    /\ childDid \in [Dids -> SUBSET Dids]
    /\ frozenDids \subseteq Dids
    /\ \A a \in AuthIds : \/ auths[a] = NoAuth
                          \/ auths[a].target \in KeySet /\ auths[a].by \in Dids
    /\ given \subseteq Dids \X AuthIds \X KeySet
    /\ nextAuth \in 1..(MaxAuths + 1)
    /\ refCount \in [KeySet -> Nat]
    /\ consents \subseteq KeySet \X Dids
    /\ cdd \subseteq Dids
    /\ cddRotation \in BOOLEAN

(* KeyRecords and DidKeys say the same: the keys listed for an identity are  *)
(* exactly the keys whose record names it, through every rotation, removal   *)
(* and change of identity.                                                   *)
DidKeysAgree ==
    \A d \in Dids :
      links.didKeys[d] = {k \in KeySet : Linked(k) /\ links.key[k].of = d}

(* A registered identity always has one primary key: the key DidRecords      *)
(* names has the PrimaryKey record of that identity, and no other key has    *)
(* it.  Rotation inserts and removes records in an order that could lose it. *)
OnePrimaryKey ==
    \A d \in Dids :
      IF Exists(d) THEN {k \in KeySet : links.key[k] = PrimaryKey(d)} = {links.primary[d]}
      ELSE \A k \in KeySet : ~(Linked(k) /\ links.key[k].of = d)

(* ParentDid and ChildDid are inverse, and a child is never itself a parent: *)
(* "can't create grand-child identity" (Error::IsChildIdentity).             *)
NoGrandChildren ==
    \A c, p \in Dids :
      /\ c \in childDid[p] <=> parentDid[c] = p
      /\ parentDid[c] = p => parentDid[p] = NoDid /\ Exists(c) /\ Exists(p)

(* AuthorizationsGiven lists exactly the authorizations there are.           *)
GivenAgrees ==
    given = {<<auths[a].by, a, auths[a].target>> : a \in {b \in AuthIds : auths[b] # NoAuth}}

(* A key is only linked to an identity that was there before by an           *)
(* authorization or a signature of that identity's that the same step uses   *)
(* up: neither links a key twice.                                            *)
LinkUsesUpConsent ==
    [][\A k \in KeySet, d \in Dids :
         (links.key[k] = Unlinked /\ Linked(k)' /\ links'.key[k].of = d /\ Exists(d)) =>
           \/ <<k, d>> \in consents \ consents'
           \/ \E a \in AuthIds : /\ auths[a] # NoAuth /\ auths'[a] = NoAuth
                                 /\ auths[a].target = k /\ auths[a].by = d]_keyVars

(* While a key has strong references it stays with its identity ("Strong     *)
(* references will block a key from leaving it's identity").                 *)
ReferencedKeyStays ==
    [][\A k \in KeySet :
         (refCount[k] > 0 /\ Linked(k)) =>
           Linked(k)' /\ links'.key[k].of = links.key[k].of]_keyVars

(* An identity changes its primary key only to a key that consumes a         *)
(* rotation authorization of that identity, and, when the chain asks for it, *)
(* an attestation of a CDD provider for the same identity.                   *)
RotationAuthorized ==
    [][\A d \in Dids :
         (Exists(d) /\ links'.primary[d] # links.primary[d]) =>
           LET new == links'.primary[d]
               Used(b) == auths[b] # NoAuth /\ auths'[b] = NoAuth /\ auths[b].target = new
           IN  /\ \E a \in AuthIds : /\ Used(a) /\ auths[a].by = d
                                     /\ auths[a].data[1] \in {"RotatePrimaryKey",
                                                              "RotatePrimaryKeyToSecondary"}
               /\ cddRotation =>
                    \E c \in AuthIds : /\ Used(c) /\ auths[c].by \in CddProviders
                                       /\ auths[c].data = <<"AttestPrimaryKeyRotation", d>>]_keyVars

(* The maps that record who has which key, parent and authorization agree:   *)
(* KeyRecords, DidKeys, DidRecords, ParentDid, ChildDid, Authorizations and  *)
(* AuthorizationsGiven, which the calls of identity write one by one.        *)
KeyMapsAgree ==
    KeysTypeOK /\ DidKeysAgree /\ OnePrimaryKey /\ NoGrandChildren /\ GivenAgrees

(* A key joins an identity, or becomes its primary key, only by consents     *)
(* that the same step uses up.                                               *)
KeysNeedConsent == LinkUsesUpConsent /\ RotationAuthorized
=============================================================================
