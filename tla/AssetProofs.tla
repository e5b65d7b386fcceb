---------------------------- MODULE AssetProofs -----------------------------
(***************************************************************************)
(* How an asset is administered (AssetAdmin), what is recorded about it    *)
(* (AssetRecords) and about the identities that hold it (Claims), for every *)
(* value of the constants.                                                 *)
(*                                                                         *)
(* AssetAdmin: who owns a ticker and its asset, and who acts for it, is    *)
(* recorded alike in every map; the inductive invariant adds the types, and *)
(* that an asset that was not created has no agents.                       *)
(* Claims: the invariant adds that a systematic claim is a CDD claim about *)
(* an active provider, and that every active provider has one.             *)
(* AssetRecords: the invariant adds the types of the maps and that no      *)
(* number beyond the counters has been given out.                          *)
(*                                                                         *)
(* The lemmas on steps take how finite sets are counted as a hypothesis    *)
(* (AgentsCounted, Limited), which is proved at the end from the theorems  *)
(* on finite sets: only that proof needs them.                             *)
(***************************************************************************)
EXTENDS AssetAdmin, Claims, AssetRecords, TLAPS

\* Steps are Zenon's unless they cite the SMT solver.
USE ZenonT(60)

-----------------------------------------------------------------------------
(* The claims.  *)

\* A claim is about an identity; the systematic claims of providers are about providers.
ClaimSound(c) ==
    /\ c.target \in Persons /\ c.expiry \in Int
    /\ c.issuer = Systematic => c.kind = "cdd" /\ c.target \in active

\* The systematic claim of p is stored.
HasSystematic(p) == \E c \in claims : c.issuer = Systematic /\ c.target = p

\* The inductive invariant of the claims.
CddInv ==
    /\ moment \in Nat /\ moment <= MaxMoment
    /\ active \subseteq Providers
    /\ parentDid \in [Persons -> Persons \cup {Orphan}]
    /\ \A c \in claims : ClaimSound(c)
    /\ \A p \in active : HasSystematic(p)
    /\ \A m \in inactive : m.expiry \in Int

\* What every call keeps to: time does not run back, an identity gets a parent only when
\* it is created, and only a provider becomes an inactive one.
OrderlyStep ==
    /\ moment <= moment'
    /\ \A d \in Persons : parentDid'[d] \in {parentDid[d], Orphan} \/ d \in known' \ known
    /\ \A m \in inactive' \ inactive : m.id \in active

\* A step that writes and removes no systematic claim, while the providers stay.
LEMMA OtherClaims ==
    ASSUME CddInv, UNCHANGED active,
           \A c \in claims' : c \in claims \/ (c.target \in Persons /\ c.expiry \in Int /\ c.issuer # Systematic),
           \A c \in claims : c \in claims' \/ c.issuer # Systematic
    PROVE  /\ active' \subseteq Providers
           /\ \A c \in claims' : ClaimSound(c)'
           /\ \A p \in active' : HasSystematic(p)'
<1>1. \A c \in claims' : ClaimSound(c)'
  BY DEF CddInv, ClaimSound
<1>2. \A p \in active' : HasSystematic(p)'
  BY DEF CddInv, HasSystematic
<1> QED BY <1>1, <1>2 DEF CddInv

\* unverified_add_claim_with_scope, for another issuer than the systematic one.
LEMMA WithClaimSound ==
    ASSUME CddInv, NEW who \in Persons, NEW kind, NEW issuer, issuer # Systematic, NEW value,
           NEW expiry \in Int, claims' = WithClaim(claims, who, kind, issuer, value, expiry), UNCHANGED active
    PROVE  /\ active' \subseteq Providers
           /\ \A c \in claims' : ClaimSound(c)'
           /\ \A p \in active' : HasSystematic(p)'
<1> DEFINE old == {c \in claims : c.target = who /\ c.kind = kind /\ c.issuer = issuer}
           New(since) == ClaimOf(who, kind, issuer, value, since, moment, expiry)
<1>1. PICK since : claims' = (claims \ old) \cup {New(since)}
  BY DEF WithClaim
<1>2. PICK new : new = New(since)
  OBVIOUS
<1>3. new.target = who /\ new.issuer = issuer /\ new.expiry = expiry
  BY <1>2 DEF ClaimOf
<1> HIDE DEF New
<1> QED BY <1>1, <1>2, <1>3, OtherClaims

\* change_members_sorted: the systematic claims follow the group.
LEMMA ChangeMembersSound ==
    ASSUME CddInv, NEW in \in SUBSET Providers, NEW out \in SUBSET Providers, in \cap out = {},
           ChangeMembers(in, out), active' = (active \cup in) \ out
    PROVE  /\ active' \subseteq Providers
           /\ \A c \in claims' : ClaimSound(c)'
           /\ \A p \in active' : HasSystematic(p)'
<1> DEFINE New(p) == ClaimOf(p, "cdd", Systematic, "blank", moment, moment, Never)
           Gone(c) == c.kind = "cdd" /\ c.issuer = Systematic /\ c.target \in out
<1>1. \A c : c \in claims' <=> (c \in claims \/ \E p \in in : c = New(p)) /\ ~ Gone(c)
  BY DEF ChangeMembers, WithoutSystematic, WithSystematic
<1>2. \A p : /\ New(p).target = p /\ New(p).issuer = Systematic /\ New(p).kind = "cdd" /\ New(p).expiry \in Int
  BY SMTT(60) DEF ClaimOf, Never
<1> HIDE DEF New
<1>3. active' \subseteq Providers
  BY DEF CddInv
<1>4. ASSUME NEW c \in claims' PROVE ClaimSound(c)'
  BY <1>1, <1>2, ClaimsAssumption, SMTT(60) DEF CddInv, ClaimSound
<1>5. ASSUME NEW p \in active' PROVE HasSystematic(p)'
  <2>1. CASE p \in active
    <3>1. PICK c \in claims : c.issuer = Systematic /\ c.target = p
      BY <2>1 DEF CddInv, HasSystematic
    <3> QED BY <1>1, <1>5, <3>1 DEF HasSystematic
  <2>2. CASE p \in in
    BY <1>1, <1>2, <1>5, <2>2 DEF HasSystematic
  <2> QED BY <2>1, <2>2
<1> QED BY <1>3, <1>4, <1>5

LEMMA CddInitially == ASSUME ClaimsInit PROVE CddInv
<1>1. active \subseteq Providers
  BY DEF ClaimsInit
<1> DEFINE New(p) == ClaimOf(p, "cdd", Systematic, "blank", 0, 0, Never)
<1>2. claims = {New(p) : p \in active}
  BY DEF ClaimsInit
<1>3. \A p : New(p).target = p /\ New(p).issuer = Systematic /\ New(p).kind = "cdd" /\ New(p).expiry \in Int
  BY SMTT(60) DEF ClaimOf, Never
<1> HIDE DEF New
<1>4. \A c \in claims : ClaimSound(c)
  BY <1>1, <1>2, <1>3, ClaimsAssumption, SMTT(60) DEF ClaimSound
<1>5. \A p \in active : HasSystematic(p)
  BY <1>2, <1>3 DEF HasSystematic
<1> QED BY <1>1, <1>4, <1>5, ClaimsAssumption, SMTT(60) DEF CddInv, ClaimsInit

\* Claims are written by identities and by the committee, never by the systematic issuer.
LEMMA OtherIssuers ==
    /\ Systematic \notin Persons /\ Committee # Systematic /\ Providers \subseteq Persons
    /\ Expiries \subseteq Int /\ Never \in Int
<1>1. Systematic \notin Persons /\ Providers \subseteq Persons /\ Expiries \subseteq Int
  BY ClaimsAssumption
<1>2. Committee # Systematic /\ Never \in Int
  BY SMTT(60) DEF Systematic, Committee, Never
<1> QED BY <1>1, <1>2

\* A call that writes one claim.
LEMMA WriteSound ==
    ASSUME CddInv, NEW who \in Persons, NEW kind, NEW issuer, issuer # Systematic, NEW value,
           NEW expiry \in Int, claims' = WithClaim(claims, who, kind, issuer, value, expiry),
           UNCHANGED <<parentDid, active, inactive, moment>>
    PROVE  CddInv' /\ OrderlyStep
<1>1. /\ active' \subseteq Providers
      /\ \A c \in claims' : ClaimSound(c)'
      /\ \A p \in active' : HasSystematic(p)'
  BY WithClaimSound
<1> QED BY <1>1, SMTT(60) DEF CddInv, OrderlyStep

\* A call that at most removes claims.
LEMMA RemovalSound ==
    ASSUME CddInv, claims' \subseteq claims, \A c \in claims : c \in claims' \/ c.issuer # Systematic,
           UNCHANGED <<parentDid, active, inactive, moment>>
    PROVE  CddInv' /\ OrderlyStep
<1>1. /\ active' \subseteq Providers
      /\ \A c \in claims' : ClaimSound(c)'
      /\ \A p \in active' : HasSystematic(p)'
  BY OtherClaims
<1> QED BY <1>1, SMTT(60) DEF CddInv, OrderlyStep

LEMMA AddClaimSound ==
    ASSUME CddInv, NEW i \in Persons, NEW d \in Persons, NEW k, NEW v, NEW x \in Expiries,
           AddClaim(i, d, k, v, x)
    PROVE  CddInv' /\ OrderlyStep
<1>1. claims' = WithClaim(claims, d, k, i, v, x) /\ UNCHANGED <<parentDid, active, inactive, moment>>
  BY DEF AddClaim
<1> QED BY <1>1, OtherIssuers, WriteSound

LEMMA RevokeClaimSound ==
    ASSUME CddInv, NEW i \in Persons \cup {Committee}, NEW d, NEW k, RevokeClaim(i, d, k)
    PROVE  CddInv' /\ OrderlyStep
<1>1. claims' = claims \ BaseClaim(d, k, i) /\ UNCHANGED <<parentDid, active, inactive, moment>>
  BY DEF RevokeClaim
<1>2. \A c \in claims : c \in claims' \/ c.issuer # Systematic
  BY <1>1, OtherIssuers DEF BaseClaim
<1> QED BY <1>1, <1>2, RemovalSound

LEMMA GcAddCddClaimSound ==
    ASSUME CddInv, NEW d \in Persons, GcAddCddClaim(d)
    PROVE  CddInv' /\ OrderlyStep
<1>1. /\ claims' = WithClaim(claims, d, "cdd", Committee, "blank", Never)
      /\ UNCHANGED <<parentDid, active, inactive, moment>>
  BY DEF GcAddCddClaim
<1> QED BY <1>1, OtherIssuers, WriteSound

LEMMA RegisterDidSound ==
    ASSUME CddInv, NEW p \in Providers, NEW d \in Persons, NEW w \in BOOLEAN, NEW x \in Expiries,
           RegisterDid(p, d, w, x)
    PROVE  CddInv' /\ OrderlyStep
<1>1. /\ claims' = claims \/ claims' = WithClaim(claims, d, "cdd", p, "blank", x)
      /\ UNCHANGED <<parentDid, active, inactive, moment>>
  BY DEF RegisterDid
<1>2. CASE claims' = claims
  BY <1>1, <1>2, RemovalSound
<1>3. CASE claims' = WithClaim(claims, d, "cdd", p, "blank", x)
  BY <1>1, <1>3, OtherIssuers, WriteSound
<1> QED BY <1>1, <1>2, <1>3

\* Calls on the group of providers.
LEMMA GroupCallsSound ==
    ASSUME CddInv,
           \/ \E p \in Providers : AddProvider(p) \/ RemoveProvider(p)
           \/ \E p \in Providers, x \in Expiries : \E at : DisableProvider(p, at, x)
           \/ \E new \in SUBSET Providers : ResetProviders(new)
    PROVE  CddInv' /\ OrderlyStep
<1> DEFINE Sound == /\ active' \subseteq Providers
                    /\ \A c \in claims' : ClaimSound(c)'
                    /\ \A p \in active' : HasSystematic(p)'
<1>1. UNCHANGED <<known, parentDid, moment>>
  BY DEF AddProvider, RemoveProvider, DisableProvider, ResetProviders
<1>2. ASSUME NEW in \in SUBSET Providers, NEW out \in SUBSET Providers, in \cap out = {},
             ChangeMembers(in, out), active' = (active \cup in) \ out
      PROVE  Sound
  BY <1>2, ChangeMembersSound
<1>3. ASSUME UNCHANGED <<claims, active>> PROVE Sound
  BY <1>3, OtherClaims
<1> HIDE DEF Sound
<1>4. ASSUME NEW p \in Providers, AddProvider(p)
      PROVE  Sound /\ inactive' = inactive
  <2>1. active' = (active \cup {p}) \ {} /\ ChangeMembers({p}, {}) /\ inactive' = inactive
    BY <1>4 DEF AddProvider
  <2> QED BY <2>1, <1>2
<1>5. ASSUME NEW p \in Providers, RemoveProvider(p)
      PROVE  Sound /\ inactive' \subseteq inactive
  <2>1. CASE p \in active /\ active' = active \ {p} /\ ChangeMembers({}, {p}) /\ UNCHANGED inactive
    <3>1. active' = (active \cup {}) \ {p}
      BY <2>1
    <3> QED BY <2>1, <3>1, <1>2
  <2>2. CASE inactive' = {m \in inactive : m.id # p} /\ UNCHANGED <<claims, active>>
    BY <2>2, <1>3
  <2> QED BY <1>5, <2>1, <2>2 DEF RemoveProvider
<1>6. ASSUME NEW p \in Providers, NEW at, NEW x \in Expiries, DisableProvider(p, at, x)
      PROVE  Sound /\ \A m \in inactive' : m \in inactive \/ (m.id \in active /\ m.expiry = x)
  <2>1. active' = (active \cup {}) \ {p} /\ ChangeMembers({}, {p})
    BY <1>6 DEF DisableProvider
  <2>2. \A m \in inactive' : m \in inactive \/ (m.id \in active /\ m.expiry = x)
    BY <1>6, SMTT(60) DEF DisableProvider
  <2> QED BY <2>1, <2>2, <1>2
<1>7. ASSUME NEW new \in SUBSET Providers, ResetProviders(new)
      PROVE  Sound /\ inactive' = inactive
  <2>1. active' = (active \cup (new \ active)) \ (active \ new) /\ ChangeMembers(new \ active, active \ new)
        /\ inactive' = inactive
    BY <1>7 DEF ResetProviders
  <2>2. (new \ active) \in SUBSET Providers /\ (active \ new) \in SUBSET Providers
    BY DEF CddInv
  <2> QED BY <2>1, <2>2, <1>2
<1>8. Sound /\ \A m \in inactive' : m \in inactive \/ (m.id \in active /\ m.expiry \in Int)
  BY <1>4, <1>5, <1>6, <1>7, ClaimsAssumption
<1> QED BY <1>1, <1>8, SMTT(60) DEF CddInv, OrderlyStep, Sound

LEMMA CddStepSound ==
    ASSUME CddInv, [CddStep \/ ClaimStep(Persons)]_claimsVars
    PROVE  CddInv' /\ OrderlyStep
<1>1. CASE UNCHANGED claimsVars
  BY <1>1, SMTT(60) DEF CddInv, OrderlyStep, claimsVars, ClaimSound, HasSystematic
<1>2. ASSUME NEW k, RegisterCustomClaimType(k) PROVE CddInv' /\ OrderlyStep
  BY <1>2, SMTT(60) DEF RegisterCustomClaimType, CddInv, OrderlyStep, ClaimSound, HasSystematic
<1>3. CASE Tick
  BY <1>3, ClaimsAssumption, SMTT(60) DEF Tick, CddInv, OrderlyStep, ClaimSound, HasSystematic
<1>4. ASSUME NEW q \in Persons, NEW d \in Persons, CreateChild(q, d) PROVE CddInv' /\ OrderlyStep
  BY <1>4, SMTT(60) DEF CreateChild, CddInv, OrderlyStep, ClaimSound, HasSystematic
<1>5. ASSUME NEW d \in Persons, UnlinkChild(d) PROVE CddInv' /\ OrderlyStep
  BY <1>5, SMTT(60) DEF UnlinkChild, CddInv, OrderlyStep, ClaimSound, HasSystematic
<1>6. CASE CddStep
  <2>1. ASSUME NEW p \in Providers, NEW at, NEW x \in Expiries, DisableProvider(p, at, x)
        PROVE  CddInv' /\ OrderlyStep
    BY <2>1, GroupCallsSound
  <2>2. ASSUME \/ \E p \in Providers : AddProvider(p) \/ RemoveProvider(p)
               \/ \E new \in SUBSET Providers : ResetProviders(new)
        PROVE  CddInv' /\ OrderlyStep
    BY <2>2, GroupCallsSound
  <2>3. ASSUME NEW p \in Providers, NEW d \in Persons, NEW x \in Expiries, AddClaim(p, d, "cdd", "blank", x)
        PROVE  CddInv' /\ OrderlyStep
    BY <2>3, AddClaimSound, OtherIssuers
  <2>4. ASSUME NEW i \in Providers \cup {Committee}, NEW d \in Persons, RevokeClaim(i, d, "cdd")
        PROVE  CddInv' /\ OrderlyStep
    BY <2>4, RevokeClaimSound, OtherIssuers
  <2> QED BY <1>3, <1>4, <1>5, <1>6, <2>1, <2>2, <2>3, <2>4, GcAddCddClaimSound, RegisterDidSound
          DEF CddStep
<1>7. CASE ClaimStep(Persons)
  <2>1. ASSUME NEW i \in Persons, NEW d \in Persons, NEW k, RevokeClaim(i, d, k)
        PROVE  CddInv' /\ OrderlyStep
    BY <2>1, RevokeClaimSound
  <2> QED BY <1>2, <1>3, <1>7, <2>1, AddClaimSound DEF ClaimStep
<1> QED BY <1>1, <1>6, <1>7

LEMMA SystematicExact == ASSUME CddInv PROVE SystematicClaimsExact
BY DEF CddInv, ClaimSound, HasSystematic, SystematicClaimsExact

\* What is valid at a later moment is valid at an earlier one.
LEMMA EarlierValid ==
    ASSUME NEW c, c.expiry \in Int, NEW t \in Nat, NEW u \in Nat, u <= t, NotExpiredAt(c, t)
    PROVE  NotExpiredAt(c, u)
BY SMTT(60) DEF NotExpiredAt

\* Without a leeway the claims must reach the moment.
NowIsReached == WithLeeway(0) = moment

LEMMA NoLeeway == ASSUME CddInv PROVE NowIsReached
BY ClaimsAssumption, SMTT(60) DEF CddInv, WithLeeway, NowIsReached

\* Who is verified with a leeway is verified now.
LeewaySound ==
    \A d \in Persons, l \in Leeways : moment + l <= MaxMoment /\ FetchCdd(d, l) => ValidCdd(d)

LEMMA LeewayHolds == ASSUME CddInv PROVE LeewaySound
<1> SUFFICES ASSUME NEW d \in Persons, NEW l \in Leeways, moment + l <= MaxMoment, FetchCdd(d, l)
             PROVE  ValidCdd(d)
  BY DEF LeewaySound
<1>1. l \in Nat /\ moment \in Nat
  BY ClaimsAssumption DEF CddInv
<1>2. WithLeeway(l) = moment + l /\ WithLeeway(0) = moment
  BY <1>1, NoLeeway, ClaimsAssumption, SMTT(60) DEF WithLeeway, NowIsReached
<1>3. PICK c \in claims : /\ c.kind = "cdd" /\ c.target \in {d, parentDid[d]}
                          /\ CddClaimValid(c, moment + l)
  BY <1>2 DEF FetchCdd, ValidCddClaims
<1>4. NotExpiredAt(c, moment)
  BY <1>1, <1>3, EarlierValid, SMTT(60) DEF CddClaimValid, CddInv, ClaimSound
<1>5. IsInactive(c, moment + l) => IsInactive(c, moment)
  BY <1>1 DEF IsInactive
<1>6. CddClaimValid(c, moment)
  BY <1>3, <1>4, <1>5 DEF CddClaimValid
<1> QED BY <1>2, <1>3, <1>6 DEF ValidCdd, FetchCdd, ValidCddClaims

\* A claim that was there and is valid after a step was valid, or there is a new provider.
LEMMA ValidBefore ==
    ASSUME CddInv, CddInv', OrderlyStep, active' \ active = {}, NEW c \in claims, CddClaimValid(c, moment)'
    PROVE  CddClaimValid(c, moment)
<1>1. moment \in Nat /\ moment' \in Nat /\ moment <= moment' /\ c.expiry \in Int
  BY DEF CddInv, OrderlyStep, ClaimSound
<1>2. NotExpiredAt(c, moment)
  BY <1>1, EarlierValid DEF CddClaimValid, NotExpiredAt
<1>3. CASE IsActive(c)'
  BY <1>2, <1>3 DEF CddClaimValid, IsActive
<1>4. CASE IsSystematic(c)'
  BY <1>2, <1>4 DEF CddClaimValid, IsSystematic
<1>5. CASE IsInactive(c, moment)'
  <2>1. PICK m \in inactive' : ~ MemberExpired(m, moment') /\ m.id = c.issuer /\ c.updated < m.at
    BY <1>5 DEF IsInactive, MemberExpired
  <2>2. CASE m \in inactive
    <3>1. ~ MemberExpired(m, moment)
      BY <1>1, <2>1, <2>2, SMTT(60) DEF MemberExpired, CddInv
    <3> QED BY <1>2, <2>1, <2>2, <3>1 DEF CddClaimValid, IsInactive
  <2>3. CASE m \notin inactive
    BY <1>2, <2>1, <2>3 DEF OrderlyStep, CddClaimValid, IsActive
  <2> QED BY <2>2, <2>3
<1> QED BY <1>3, <1>4, <1>5 DEF CddClaimValid

LEMMA GrantsNeeded ==
    ASSUME CddInv, CddInv', NowIsReached', OrderlyStep, NEW d \in Persons, ValidCdd(d)', ~ ValidCdd(d)
    PROVE  \/ \E c \in claims' \ claims : c.kind = "cdd" /\ c.target \in {d, parentDid'[d]}
           \/ active' \ active # {}
           \/ d \in known' \ known
<1>1. WithLeeway(0) = moment
  BY NoLeeway DEF NowIsReached
<1>2. WithLeeway(0)' = moment'
  BY DEF NowIsReached
<1>3. PICK c \in claims' : c.kind = "cdd" /\ c.target \in {d, parentDid'[d]} /\ CddClaimValid(c, moment)'
  BY <1>2 DEF ValidCdd, FetchCdd, ValidCddClaims
<1>4. SUFFICES ASSUME c \in claims, active' \ active = {}, d \notin known' \ known PROVE FALSE
  BY <1>3
<1>5. c.target \in {d, parentDid[d]}
  BY <1>3, <1>4, ClaimsAssumption DEF CddInv, ClaimSound, OrderlyStep
<1>6. CddClaimValid(c, moment)
  BY <1>3, <1>4, ValidBefore
<1> QED BY <1>1, <1>3, <1>4, <1>5, <1>6 DEF ValidCdd, FetchCdd, ValidCddClaims

\* However providers come, go and are disabled and claims are made, replaced, revoked and run
\* out, the systematic claims are those of the providers of now, and nobody becomes verified
\* without a claim, a new provider or a parent, nor with a leeway who is not verified now
\* (pallets/identity/src/claims.rs, the provider instance of pallets/group).
THEOREM CddAlwaysExact == ClaimsSpec => CddExact
<1>1. ClaimsInit => CddInv
  BY CddInitially
<1>2. CddInv /\ [CddStep \/ ClaimStep(Persons)]_claimsVars => CddInv'
  BY CddStepSound
<1>3. CddInv => SystematicClaimsExact
  BY SystematicExact
<1> DEFINE Granted ==
      claimsVars' # claimsVars =>
       /\ \A d \in Persons :
            ValidCdd(d)' /\ ~ ValidCdd(d) =>
                \/ \E c \in claims' \ claims : c.kind = "cdd" /\ c.target \in {d, parentDid'[d]}
                \/ active' \ active # {}
                \/ d \in known' \ known
       /\ \A d \in Persons, l \in Leeways :
            moment' + l <= MaxMoment /\ FetchCdd(d, l)' => ValidCdd(d)'
<1>4. CddInv => LeewaySound /\ NowIsReached
  BY LeewayHolds, NoLeeway
<1>5. ASSUME CddInv, CddInv', LeewaySound', NowIsReached', [CddStep \/ ClaimStep(Persons)]_claimsVars
      PROVE  [Granted]_claimsVars
  BY <1>5, CddStepSound, GrantsNeeded DEF LeewaySound
<1> HIDE DEF Granted
<1>6. ClaimsSpec => []SystematicClaimsExact
  BY <1>1, <1>2, <1>3, PTL DEF ClaimsSpec
<1>7. ClaimsSpec => [][Granted]_claimsVars
  BY <1>1, <1>2, <1>4, <1>5, PTL DEF ClaimsSpec
<1> QED BY <1>6, <1>7 DEF CddExact, CddOnlyGranted, Granted

-----------------------------------------------------------------------------
(* The records of an asset.  *)

\* The maps between names and keys of metadata.
NamesSound ==
    /\ localKey \in [MetaNames -> Int] /\ localName \in [LocalIds -> MetaNames \cup {NoName}]
    /\ globalKey \in [MetaNames -> Int] /\ globalName \in [GlobalIds -> MetaNames \cup {NoName}]
    /\ nextKey \in [{"Local", "Global"} -> Nat]
    /\ \A n \in MetaNames, i \in LocalIds : localKey[n] = i <=> localName[i] = n
    /\ \A n \in MetaNames, i \in GlobalIds : globalKey[n] = i <=> globalName[i] = n
    /\ \A n \in MetaNames : localKey[n] # NoKey => localKey[n] \in LocalIds
    /\ \A n \in MetaNames : globalKey[n] # NoKey => globalKey[n] \in GlobalIds
    /\ \A i \in LocalIds : localName[i] # NoName => i <= nextKey["Local"]
    /\ \A i \in GlobalIds : globalName[i] # NoName => i <= nextKey["Global"]

\* Values and locks are those of keys that exist, and so are the keys of the collection.
ValuesSound ==
    /\ metaValue = [k \in MetaKeys |-> metaValue[k]] /\ metaLock = [k \in MetaKeys |-> metaLock[k]]
    /\ \A k \in MetaKeys : ~ KeyExists(k) => metaValue[k] = NoValue /\ metaLock[k] = <<"none">>
    /\ collectionKeys \subseteq MetaKeys
    /\ \A k \in collectionKeys : KeyExists(k)

MetaInv == NamesSound /\ ValuesSound

\* What LockedValueKept says of a step.
KeepsLocked ==
    \A k \in MetaKeys : IsLocked(metaLock[k]) =>
        metaValue'[k] = metaValue[k] /\ metaLock'[k] = metaLock[k] /\ KeyExists(k)'

LEMMA MetaKeyForms ==
    /\ \A i \in LocalIds : <<"Local", i>> \in MetaKeys /\ (KeyExists(<<"Local", i>>) <=> localName[i] # NoName)
    /\ \A i \in GlobalIds : <<"Global", i>> \in MetaKeys /\ (KeyExists(<<"Global", i>>) <=> globalName[i] # NoName)
    /\ \A k \in MetaKeys : \/ \E i \in LocalIds : k = <<"Local", i>>
                           \/ \E i \in GlobalIds : k = <<"Global", i>>
BY SMTT(60) DEF MetaKeys, KeyExists

\* A lock that holds is on a key that exists.
LEMMA LockedExists ==
    ASSUME ValuesSound, NEW k \in MetaKeys, IsLocked(metaLock[k])
    PROVE  KeyExists(k)
BY SMTT(60) DEF ValuesSound, IsLocked

\* Steps that register or remove no key.
LEMMA NamesStay ==
    ASSUME NamesSound, UNCHANGED <<localKey, localName, globalKey, globalName, nextKey>>
    PROVE  NamesSound' /\ \A k \in MetaKeys : KeyExists(k)' <=> KeyExists(k)
BY SMTT(60) DEF NamesSound, KeyExists

\* unverified_register_asset_metadata_local_type: a key that did not exist.
LEMMA LocalRegistered ==
    ASSUME NamesSound, NEW n \in MetaNames, RegisterLocal(n), UNCHANGED <<globalKey, globalName>>
    PROVE  LET new == <<"Local", nextKey["Local"] + 1>> IN
           /\ NamesSound' /\ new \in MetaKeys /\ ~ KeyExists(new)
           /\ \A k \in MetaKeys : KeyExists(k)' <=> KeyExists(k) \/ k = new
<1> DEFINE j == nextKey["Local"] + 1
<1>1. j \in LocalIds /\ j > nextKey["Local"] /\ localName[j] = NoName
  BY RecordsAssumption, SMTT(60) DEF RegisterLocal, NamesSound, LocalIds
<1>2. nextKey' = [nextKey EXCEPT !["Local"] = j] /\ localKey[n] = NoKey
      /\ localKey' = [localKey EXCEPT ![n] = j] /\ localName' = [localName EXCEPT ![j] = n]
  BY DEF RegisterLocal
<1> HIDE DEF j
<1>3. /\ \A i \in LocalIds : localName'[i] = IF i = j THEN n ELSE localName[i]
      /\ \A m \in MetaNames : localKey'[m] = IF m = n THEN j ELSE localKey[m]
      /\ localName' \in [LocalIds -> MetaNames \cup {NoName}] /\ localKey' \in [MetaNames -> Int]
  BY <1>1, <1>2, SMTT(60) DEF NamesSound, LocalIds
<1>4. nextKey' \in [{"Local", "Global"} -> Nat] /\ nextKey'["Local"] = j /\ nextKey'["Global"] = nextKey["Global"]
  BY <1>1, <1>2, SMTT(60) DEF NamesSound, LocalIds
<1>5. \A m \in MetaNames, i \in LocalIds : localKey'[m] = i <=> localName'[i] = m
  BY <1>1, <1>2, <1>3, RecordsAssumption, SMTT(60) DEF NamesSound, NoKey, LocalIds
<1>6. NamesSound'
  BY <1>1, <1>2, <1>3, <1>4, <1>5, SMTT(60) DEF NamesSound, LocalIds
<1>7. \A k \in MetaKeys : KeyExists(k)' <=> KeyExists(k) \/ k = <<"Local", j>>
  BY <1>1, <1>3, RecordsAssumption, SMTT(60) DEF MetaKeys, KeyExists
<1> QED BY <1>1, <1>6, <1>7, MetaKeyForms DEF j

\* register_asset_metadata_global_type
LEMMA GlobalRegistered ==
    ASSUME NamesSound, NEW n \in MetaNames, RegisterGlobalType(n)
    PROVE  /\ NamesSound'
           /\ \A k \in MetaKeys : KeyExists(k) => KeyExists(k)'
<1> DEFINE j == nextKey["Global"] + 1
<1>1. j \in GlobalIds /\ j > nextKey["Global"] /\ globalName[j] = NoName
  BY RecordsAssumption, SMTT(60) DEF RegisterGlobalType, NamesSound, GlobalIds
<1>2. nextKey' = [nextKey EXCEPT !["Global"] = j] /\ globalKey[n] = NoKey
      /\ globalKey' = [globalKey EXCEPT ![n] = j] /\ globalName' = [globalName EXCEPT ![j] = n]
      /\ UNCHANGED <<localKey, localName>>
  BY DEF RegisterGlobalType
<1> HIDE DEF j
<1>3. /\ \A i \in GlobalIds : globalName'[i] = IF i = j THEN n ELSE globalName[i]
      /\ \A m \in MetaNames : globalKey'[m] = IF m = n THEN j ELSE globalKey[m]
      /\ globalName' \in [GlobalIds -> MetaNames \cup {NoName}] /\ globalKey' \in [MetaNames -> Int]
  BY <1>1, <1>2, SMTT(60) DEF NamesSound, GlobalIds
<1>4. nextKey' \in [{"Local", "Global"} -> Nat] /\ nextKey'["Global"] = j /\ nextKey'["Local"] = nextKey["Local"]
  BY <1>1, <1>2, SMTT(60) DEF NamesSound, GlobalIds
<1>5. \A m \in MetaNames, i \in GlobalIds : globalKey'[m] = i <=> globalName'[i] = m
  BY <1>1, <1>2, <1>3, RecordsAssumption, SMTT(60) DEF NamesSound, NoKey, GlobalIds
<1>6. NamesSound'
  BY <1>1, <1>2, <1>3, <1>4, <1>5, SMTT(60) DEF NamesSound, GlobalIds
<1>7. \A k \in MetaKeys : KeyExists(k) => KeyExists(k)'
  BY <1>1, <1>2, <1>3, RecordsAssumption DEF MetaKeys, KeyExists
<1> QED BY <1>6, <1>7

\* remove_local_metadata_key
LEMMA LocalRemoved ==
    ASSUME NamesSound, NEW i \in LocalIds, RemoveLocalKey(i)
    PROVE  /\ NamesSound'
           /\ \A k \in MetaKeys : KeyExists(k)' <=> KeyExists(k) /\ k # <<"Local", i>>
<1> DEFINE n == localName[i]
<1>1. n \in MetaNames /\ localKey[n] = i
  BY SMTT(60) DEF RemoveLocalKey, NamesSound
<1>2. localKey' = [localKey EXCEPT ![n] = NoKey] /\ localName' = [localName EXCEPT ![i] = NoName]
      /\ UNCHANGED <<globalKey, globalName, nextKey>>
  BY DEF RemoveLocalKey
<1> HIDE DEF n
<1>3. /\ \A j \in LocalIds : localName'[j] = IF j = i THEN NoName ELSE localName[j]
      /\ \A m \in MetaNames : localKey'[m] = IF m = n THEN NoKey ELSE localKey[m]
      /\ localName' \in [LocalIds -> MetaNames \cup {NoName}] /\ localKey' \in [MetaNames -> Int]
  BY <1>1, <1>2, SMTT(60) DEF NamesSound, NoKey
<1>4. \A m \in MetaNames, j \in LocalIds : localKey'[m] = j <=> localName'[j] = m
  BY <1>1, <1>3, RecordsAssumption, SMTT(60) DEF NamesSound, NoKey, LocalIds
<1>5. NamesSound'
  BY <1>2, <1>3, <1>4, SMTT(60) DEF NamesSound
<1>6. \A k \in MetaKeys : KeyExists(k)' <=> KeyExists(k) /\ k # <<"Local", i>>
  BY <1>2, <1>3, SMTT(60) DEF MetaKeys, KeyExists
<1> QED BY <1>5, <1>6

\* Calls that change no value, lock or collection, and remove no key that exists.
LEMMA ValuesStay ==
    ASSUME ValuesSound, \A k \in MetaKeys : KeyExists(k) => KeyExists(k)',
           UNCHANGED <<metaValue, metaLock, collectionKeys>>
    PROVE  ValuesSound' /\ KeepsLocked
<1>1. ValuesSound'
  BY DEF ValuesSound
<1>2. KeepsLocked
  BY LockedExists DEF KeepsLocked
<1> QED BY <1>1, <1>2

\* A call that changes value and lock of one key: one that exists and is not locked.
LEMMA OneValue ==
    ASSUME ValuesSound, NEW key \in MetaKeys, ~ IsLocked(metaLock[key]), KeyExists(key)',
           \A k \in MetaKeys : KeyExists(k)' <=> KeyExists(k) \/ k = key,
           NEW v, NEW l, metaValue' = [metaValue EXCEPT ![key] = v],
           metaLock' = [metaLock EXCEPT ![key] = l], UNCHANGED collectionKeys
    PROVE  ValuesSound' /\ KeepsLocked
<1>1. /\ \A k \in MetaKeys \ {key} : metaValue'[k] = metaValue[k] /\ metaLock'[k] = metaLock[k]
      /\ metaValue' = [k \in MetaKeys |-> metaValue'[k]] /\ metaLock' = [k \in MetaKeys |-> metaLock'[k]]
  BY DEF ValuesSound
<1>2. ValuesSound'
  BY <1>1 DEF ValuesSound
<1>3. KeepsLocked
  BY <1>1, LockedExists DEF KeepsLocked
<1> QED BY <1>2, <1>3

\* unverified_set_asset_metadata, with details or without.
LEMMA SetValueForm ==
    ASSUME ValuesSound, NEW key \in MetaKeys, NEW v, NEW l, SetValue(key, v, l)
    PROVE  \E m : /\ metaValue' = [metaValue EXCEPT ![key] = v]
                  /\ metaLock' = [metaLock EXCEPT ![key] = m]
<1>1. metaLock = [metaLock EXCEPT ![key] = metaLock[key]]
  BY DEF ValuesSound
<1> QED BY <1>1 DEF SetValue

LEMMA MetadataInitially == ASSUME MetadataInit PROVE MetaInv
<1>1. NamesSound
  BY RecordsAssumption, SMTT(60) DEF MetadataInit, NamesSound, NoKey, LocalIds, GlobalIds
<1>2. ValuesSound
  BY DEF MetadataInit, ValuesSound
<1> QED BY <1>1, <1>2 DEF MetaInv

LEMMA RegistersSound ==
    ASSUME MetaInv, NEW n \in MetaNames,
           \/ RegisterLocalType(n) \/ RegisterGlobalType(n)
           \/ \E v \in MetaValues, l \in LockStatus : RegisterAndSetLocal(n, v, l)
    PROVE  MetaInv' /\ KeepsLocked
<1>0. NamesSound /\ ValuesSound
  BY DEF MetaInv
<1>1. CASE RegisterLocalType(n)
  <2>1. RegisterLocal(n) /\ UNCHANGED <<globalKey, globalName, metaValue, metaLock, collectionKeys>>
    BY <1>1 DEF RegisterLocalType
  <2>2. NamesSound' /\ \A k \in MetaKeys : KeyExists(k) => KeyExists(k)'
    BY <1>0, <2>1, LocalRegistered
  <2> QED BY <1>0, <2>1, <2>2, ValuesStay DEF MetaInv
<1>2. CASE RegisterGlobalType(n)
  <2>1. UNCHANGED <<metaValue, metaLock, collectionKeys>>
    BY <1>2 DEF RegisterGlobalType
  <2> QED BY <1>0, <1>2, <2>1, GlobalRegistered, ValuesStay DEF MetaInv
<1>3. ASSUME NEW v \in MetaValues, NEW l \in LockStatus, RegisterAndSetLocal(n, v, l)
      PROVE  MetaInv' /\ KeepsLocked
  <2>1. PICK key : key = <<"Local", nextKey["Local"] + 1>>
    OBVIOUS
  <2>2. RegisterLocal(n) /\ SetValue(key, v, l) /\ UNCHANGED <<globalKey, globalName, collectionKeys>>
    BY <1>3, <2>1 DEF RegisterAndSetLocal
  <2>3. /\ NamesSound' /\ key \in MetaKeys /\ ~ KeyExists(key)
        /\ \A k \in MetaKeys : KeyExists(k)' <=> KeyExists(k) \/ k = key
    BY <1>0, <2>1, <2>2, LocalRegistered
  <2>4. PICK m : /\ metaValue' = [metaValue EXCEPT ![key] = v]
                 /\ metaLock' = [metaLock EXCEPT ![key] = m]
    BY <1>0, <2>2, <2>3, SetValueForm, SMTT(60)
  <2>5. ~ IsLocked(metaLock[key])
    BY <1>0, <2>3, LockedExists
  <2> QED BY <1>0, <2>2, <2>3, <2>4, <2>5, OneValue DEF MetaInv
<1> QED BY <1>1, <1>2, <1>3

LEMMA ValueCallsSound ==
    ASSUME MetaInv, NEW k \in MetaKeys,
           \/ RemoveValue(k)
           \/ \E l \in LockStatus : SetDetails(k, l) \/ \E v \in MetaValues : SetAssetMetadata(k, v, l)
    PROVE  MetaInv' /\ KeepsLocked
<1>0. NamesSound /\ ValuesSound
  BY DEF MetaInv
<1>1. /\ KeyExists(k) /\ ~ IsLocked(metaLock[k])
      /\ UNCHANGED <<localKey, localName, globalKey, globalName, nextKey, collectionKeys>>
  BY DEF RemoveValue, SetDetails, SetAssetMetadata
<1> DEFINE Changed(v, l) == /\ metaValue' = [metaValue EXCEPT ![k] = v]
                            /\ metaLock' = [metaLock EXCEPT ![k] = l]
<1>2. \E v, l : Changed(v, l)
  <2>1. CASE RemoveValue(k)
    BY <2>1 DEF RemoveValue
  <2>2. ASSUME NEW l, SetDetails(k, l) PROVE \E v, m : Changed(v, m)
    <3>1. metaValue = [metaValue EXCEPT ![k] = metaValue[k]]
      BY <1>0 DEF ValuesSound
    <3> QED BY <2>2, <3>1 DEF SetDetails
  <2>3. ASSUME NEW v, NEW l, SetAssetMetadata(k, v, l) PROVE \E u, m : Changed(u, m)
    BY <1>0, <2>3, SetValueForm, SMTT(60) DEF SetAssetMetadata
  <2> QED BY <2>1, <2>2, <2>3
<1>3. NamesSound' /\ \A j \in MetaKeys : KeyExists(j)' <=> KeyExists(j)
  BY <1>0, <1>1, NamesStay
<1> QED BY <1>0, <1>1, <1>2, <1>3, OneValue DEF MetaInv

LEMMA RemoveLocalKeySound ==
    ASSUME MetaInv, NEW i \in LocalIds, RemoveLocalKey(i)
    PROVE  MetaInv' /\ KeepsLocked
<1>0. NamesSound /\ ValuesSound
  BY DEF MetaInv
<1>1. PICK key : key = <<"Local", i>>
  OBVIOUS
<1>2. /\ key \in MetaKeys /\ ~ IsLocked(metaLock[key]) /\ key \notin collectionKeys
      /\ metaValue' = [metaValue EXCEPT ![key] = NoValue] /\ metaLock' = [metaLock EXCEPT ![key] = <<"none">>]
      /\ UNCHANGED collectionKeys
  BY <1>1, MetaKeyForms DEF RemoveLocalKey
<1>3. NamesSound' /\ \A k \in MetaKeys : KeyExists(k)' <=> KeyExists(k) /\ k # key
  BY <1>0, <1>1, LocalRemoved
<1>4. /\ \A k \in MetaKeys \ {key} : metaValue'[k] = metaValue[k] /\ metaLock'[k] = metaLock[k]
      /\ metaValue' = [k \in MetaKeys |-> metaValue'[k]] /\ metaLock' = [k \in MetaKeys |-> metaLock'[k]]
      /\ metaValue'[key] = NoValue /\ metaLock'[key] = <<"none">>
  BY <1>0, <1>2 DEF ValuesSound
<1>5. ValuesSound'
  BY <1>0, <1>2, <1>3, <1>4 DEF ValuesSound
<1>6. KeepsLocked
  BY <1>0, <1>2, <1>3, <1>4, LockedExists DEF KeepsLocked
<1> QED BY <1>3, <1>5, <1>6 DEF MetaInv

LEMMA MetadataStep ==
    ASSUME MetaInv, MetadataNext \/ UNCHANGED metadataVars
    PROVE  MetaInv' /\ KeepsLocked
<1>0. NamesSound /\ ValuesSound
  BY DEF MetaInv
<1>1. CASE MetaTick \/ UNCHANGED metadataVars
  <2>1. UNCHANGED <<localKey, localName, globalKey, globalName, nextKey, metaValue, metaLock, collectionKeys>>
    BY <1>1 DEF MetaTick, metadataVars
  <2> QED BY <1>0, <2>1, NamesStay, ValuesStay DEF MetaInv
<1>2. ASSUME NEW ks \in SUBSET MetaKeys, SetCollectionKeys(ks) PROVE MetaInv' /\ KeepsLocked
  <2>1. /\ UNCHANGED <<localKey, localName, globalKey, globalName, nextKey, metaValue, metaLock>>
        /\ collectionKeys' = ks /\ \A k \in ks : KeyExists(k)
    BY <1>2 DEF SetCollectionKeys
  <2>2. NamesSound' /\ \A k \in MetaKeys : KeyExists(k)' <=> KeyExists(k)
    BY <1>0, <2>1, NamesStay
  <2>3. ValuesSound'
    BY <1>0, <2>1, <2>2 DEF ValuesSound
  <2>4. KeepsLocked
    BY <1>0, <2>1, <2>2, LockedExists DEF KeepsLocked
  <2> QED BY <2>2, <2>3, <2>4 DEF MetaInv
<1> QED BY <1>1, <1>2, RegistersSound, ValueCallsSound, RemoveLocalKeySound DEF MetadataNext

LEMMA MetaInvExact == ASSUME MetaInv PROVE MetadataExact
<1>0. NamesSound /\ ValuesSound
  BY DEF MetaInv
<1>1. ASSUME NEW k \in MetaKeys, KeyExists(k) PROVE k[2] <= nextKey[k[1]]
  BY <1>0, <1>1, MetaKeyForms, SMTT(60) DEF NamesSound
<1> QED BY <1>0, <1>1 DEF MetadataExact, NamesSound, ValuesSound

\* How subsets of S are counted, as far as limits on them need it.
Limited(S) ==
    /\ Cardinality({}) = 0
    /\ \A Q \in SUBSET S : \A T \in SUBSET Q : Cardinality(Q) \in Nat /\ Cardinality(T) <= Cardinality(Q)

\* Documents have ids that were given out.
DocumentsSound ==
    /\ documents = [i \in 0..(MaxDocs - 1) |-> documents[i]] /\ nextDoc \in Nat
    /\ \A i \in 0..(MaxDocs - 1) : documents[i] # "none" => i < nextDoc

\* Custom types and their ids, and the type of the asset.
TypesSound ==
    /\ customTypes \in Seq(TypeNames) /\ customIds \in [TypeNames -> Int]
    /\ \A n \in TypeNames : customIds[n] = NotRegistered \/ customIds[n] \in 0..(Len(customTypes) - 1)
    /\ \A n \in TypeNames, i \in 1..Len(customTypes) : customTypes[i] = n <=> customIds[n] = i - 1
    /\ profile = [type |-> profile.type, name |-> profile.name, idents |-> profile.idents]
    /\ profile.type[2] \in Int /\ EnsureAssetTypeValid(profile.type)

MediatorsSound == mediators \subseteq Mediators /\ Cardinality(mediators) <= MaxAssetMediators

ListsInv == DocumentsSound /\ TypesSound /\ MediatorsSound

LEMMA ListsInitially == ASSUME ListsInit, Limited(Mediators) PROVE ListsInv
<1>1. DocumentsSound
  BY DEF ListsInit, DocumentsSound
<1>2. TypesSound
  <2>1. customTypes = <<>> /\ Len(customTypes) = 0 /\ customTypes \in Seq(TypeNames)
    BY SMTT(60) DEF ListsInit
  <2>2. customIds \in [TypeNames -> Int] /\ \A n \in TypeNames : customIds[n] = NotRegistered
    BY SMTT(60) DEF ListsInit, NotRegistered
  <2>3. /\ profile = [type |-> profile.type, name |-> profile.name, idents |-> profile.idents]
        /\ profile.type[2] = BuiltIn
    BY SMTT(60) DEF ListsInit
  <2> QED BY <2>1, <2>2, <2>3, SMTT(60) DEF TypesSound, EnsureAssetTypeValid, BuiltIn
<1>3. MediatorsSound
  BY RecordsAssumption, SMTT(60) DEF ListsInit, MediatorsSound, Limited
<1> QED BY <1>1, <1>2, <1>3 DEF ListsInv

LEMMA DocumentsStep ==
    ASSUME DocumentsSound, \/ \E ds \in Seq(Docs) : AddDocuments(ds)
                           \/ \E ids : RemoveDocuments(ids)
                           \/ UNCHANGED <<documents, nextDoc>>
    PROVE  DocumentsSound'
<1>1. DOMAIN documents = 0..(MaxDocs - 1)
  BY DEF DocumentsSound
<1>2. ASSUME NEW ds \in Seq(Docs), AddDocuments(ds) PROVE DocumentsSound'
  <2>1. Len(ds) \in Nat /\ nextDoc \in Nat /\ nextDoc' = nextDoc + Len(ds) /\ MaxDocs \in Nat
    BY <1>2, RecordsAssumption, SMTT(60) DEF AddDocuments, DocumentsSound
  <2>2. documents' = [i \in 0..(MaxDocs - 1) |->
                        IF i \in nextDoc..(nextDoc + Len(ds) - 1) THEN ds[i - nextDoc + 1] ELSE documents[i]]
    BY <1>1, <1>2 DEF AddDocuments
  <2>3. ASSUME NEW i \in 0..(MaxDocs - 1), documents'[i] # "none" PROVE i < nextDoc'
    BY <2>1, <2>2, <2>3, SMTT(60) DEF DocumentsSound
  <2> QED BY <2>1, <2>2, <2>3, SMTT(60) DEF DocumentsSound
<1>3. ASSUME NEW ids, RemoveDocuments(ids) PROVE DocumentsSound'
  BY <1>1, <1>3 DEF RemoveDocuments, DocumentsSound
<1>4. CASE UNCHANGED <<documents, nextDoc>>
  BY <1>4 DEF DocumentsSound
<1> QED BY <1>2, <1>3, <1>4

\* register_custom_asset_type
LEMMA RegisterTypeSound ==
    ASSUME TypesSound, NEW n \in TypeNames, RegisterCustomAssetType(n)
    PROVE  TypesSound'
<1>1. CASE customIds[n] # NotRegistered
  BY <1>1, SMTT(60) DEF RegisterCustomAssetType, TypesSound, EnsureAssetTypeValid
<1>2. CASE customIds[n] = NotRegistered
  <2>1. customTypes' = Append(customTypes, n) /\ customIds' = [customIds EXCEPT ![n] = Len(customTypes)]
        /\ profile' = profile
    BY <1>2 DEF RegisterCustomAssetType
  <2>2. PICK len \in Nat : len = Len(customTypes)
    BY SMTT(60) DEF TypesSound
  <2>0. /\ \A m \in TypeNames : customIds[m] = NotRegistered \/ customIds[m] \in 0..(len - 1)
        /\ \A m \in TypeNames, i \in 1..len : customTypes[i] = m <=> customIds[m] = i - 1
    BY <2>2 DEF TypesSound
  <2>3. /\ customTypes' \in Seq(TypeNames) /\ Len(customTypes') = len + 1 /\ customTypes'[len + 1] = n
        /\ \A i \in 1..len : customTypes'[i] = customTypes[i]
    BY <2>1, <2>2, SMTT(60) DEF TypesSound
  <2>4. /\ customIds' \in [TypeNames -> Int] /\ customIds'[n] = len
        /\ \A m \in TypeNames \ {n} : customIds'[m] = customIds[m]
    BY <2>1, <2>2, SMTT(60) DEF TypesSound
  <2>5. \A m \in TypeNames : customIds'[m] = NotRegistered \/ customIds'[m] \in 0..(Len(customTypes') - 1)
    BY <2>0, <2>3, <2>4, SMTT(60)
  <2>6. ASSUME NEW m \in TypeNames, NEW i \in 1..Len(customTypes')
        PROVE  customTypes'[i] = m <=> customIds'[m] = i - 1
    <3>1. CASE i \in 1..len
      <4>1. customTypes'[i] = customTypes[i] /\ (customTypes[i] = m <=> customIds[m] = i - 1)
        BY <2>0, <2>3, <3>1
      <4> QED BY <1>2, <2>4, <3>1, <4>1, SMTT(60) DEF NotRegistered
    <3>2. CASE i = len + 1
      BY <2>0, <2>3, <2>4, <3>2, SMTT(60) DEF NotRegistered
    <3> QED BY <2>3, <3>1, <3>2, SMTT(60)
  <2>7. EnsureAssetTypeValid(profile.type)'
    <3>1. profile.type[2] \in Int /\ EnsureAssetTypeValid(profile.type)
      BY DEF TypesSound
    <3> QED BY <2>1, <2>2, <2>3, <3>1, SMTT(60) DEF EnsureAssetTypeValid
  <2> QED BY <2>1, <2>3, <2>4, <2>5, <2>6, <2>7 DEF TypesSound
<1> QED BY <1>1, <1>2

\* update_asset_type, rename_asset, update_identifiers
LEMMA ProfileSound ==
    ASSUME TypesSound, \/ \E t \in AssetTypes : UpdateAssetType(t)
                       \/ \E n : RenameAsset(n) \/ UpdateIdentifiers(n)
                       \/ UNCHANGED <<customTypes, customIds, profile>>
    PROVE  TypesSound'
<1>1. UNCHANGED <<customTypes, customIds>>
  BY DEF UpdateAssetType, RenameAsset, UpdateIdentifiers
<1> DEFINE Sound(p) == /\ p = [type |-> p.type, name |-> p.name, idents |-> p.idents]
                       /\ p.type[2] \in Int /\ EnsureAssetTypeValid(p.type)
<1>2. ASSUME NEW t \in AssetTypes, UpdateAssetType(t) PROVE Sound(profile')
  <2>1. profile' = [type |-> t, name |-> profile.name, idents |-> profile.idents] /\ EnsureAssetTypeValid(t)
    BY <1>2 DEF UpdateAssetType, TypesSound
  <2> QED BY <2>1, SMTT(60) DEF AssetTypes
<1>3. ASSUME NEW n, RenameAsset(n) \/ UpdateIdentifiers(n) PROVE Sound(profile')
  BY <1>3 DEF RenameAsset, UpdateIdentifiers, TypesSound
<1>4. Sound(profile)
  BY DEF TypesSound
<1> HIDE DEF Sound
<1>5. Sound(profile')
  BY <1>2, <1>3, <1>4
<1> USE DEF Sound
<1> QED BY <1>1, <1>5 DEF TypesSound, EnsureAssetTypeValid

LEMMA MediatorsStep ==
    ASSUME Limited(Mediators), MediatorsSound,
           \/ \E ms \in SUBSET Mediators : AddMandatoryMediators(ms) \/ RemoveMandatoryMediators(ms)
           \/ UNCHANGED mediators
    PROVE  MediatorsSound'
<1>1. ASSUME NEW ms \in SUBSET Mediators, AddMandatoryMediators(ms) PROVE MediatorsSound'
  BY <1>1 DEF AddMandatoryMediators, MediatorsSound
<1>2. ASSUME NEW ms \in SUBSET Mediators, RemoveMandatoryMediators(ms) PROVE MediatorsSound'
  <2>1. PICK rest : rest = mediators \ ms
    OBVIOUS
  <2>2. /\ mediators \in SUBSET Mediators /\ rest \in SUBSET mediators /\ mediators' = rest
        /\ Cardinality(mediators) <= MaxAssetMediators
    BY <1>2, <2>1 DEF RemoveMandatoryMediators, MediatorsSound
  <2>3. /\ Cardinality(mediators) \in Nat /\ Cardinality(rest) <= Cardinality(mediators)
        /\ Cardinality(rest) \in Nat
    BY <2>2 DEF Limited
  <2>4. Cardinality(rest) <= MaxAssetMediators
    BY <2>2, <2>3, RecordsAssumption, SMTT(60)
  <2> QED BY <2>2, <2>4 DEF MediatorsSound
<1>3. CASE UNCHANGED mediators
  BY <1>3 DEF MediatorsSound
<1> QED BY <1>1, <1>2, <1>3

LEMMA ListsStep ==
    ASSUME Limited(Mediators), ListsInv, ListsNext \/ UNCHANGED listVars
    PROVE  ListsInv'
<1>0. DocumentsSound /\ TypesSound /\ MediatorsSound
  BY DEF ListsInv
<1>1. CASE DocumentStep
  <2>1. (\E ds \in Seq(Docs) : AddDocuments(ds)) \/ (\E ids : RemoveDocuments(ids))
    <3>1. \A d \in Docs : <<d>> \in Seq(Docs) /\ <<d, d>> \in Seq(Docs)
      BY SMTT(60)
    <3> QED BY <1>1, <3>1 DEF DocumentStep
  <2>2. UNCHANGED <<customTypes, customIds, mediators, profile>>
    BY <1>1 DEF DocumentStep, AddDocuments, RemoveDocuments
  <2> QED BY <1>0, <2>1, <2>2, DocumentsStep, ProfileSound, MediatorsStep DEF ListsInv
<1>2. CASE ProfileStep
  <2>1. UNCHANGED <<documents, nextDoc, mediators>>
    BY <1>2 DEF ProfileStep, RegisterCustomAssetType, UpdateAssetType, RenameAsset, UpdateIdentifiers
  <2>2. DocumentsSound' /\ MediatorsSound'
    BY <1>0, <2>1, DocumentsStep, MediatorsStep
  <2>3. TypesSound'
    BY <1>0, <1>2, RegisterTypeSound, ProfileSound DEF ProfileStep
  <2> QED BY <2>2, <2>3 DEF ListsInv
<1>3. ASSUME NEW ms \in SUBSET Mediators, AddMandatoryMediators(ms) \/ RemoveMandatoryMediators(ms)
      PROVE  ListsInv'
  <2>1. UNCHANGED <<documents, nextDoc, customTypes, customIds, profile>>
    BY <1>3 DEF AddMandatoryMediators, RemoveMandatoryMediators
  <2> QED BY <1>0, <1>3, <2>1, DocumentsStep, ProfileSound, MediatorsStep DEF ListsInv
<1>4. CASE UNCHANGED <<documents, nextDoc, customTypes, customIds, mediators, profile>>
  BY <1>0, <1>4, DocumentsStep, ProfileSound, MediatorsStep DEF ListsInv
<1>5. ASSUME (\E e : SetExemption(e)) \/ (\E d, a : SetPreApproval(d, a)) \/ UNCHANGED listVars
      PROVE  UNCHANGED <<documents, nextDoc, customTypes, customIds, mediators, profile>>
  BY <1>5 DEF SetExemption, SetPreApproval, listVars
<1> QED BY <1>1, <1>2, <1>3, <1>4, <1>5 DEF ListsNext

LEMMA ListsInvExact == ASSUME ListsInv PROVE ListsExact
<1>1. DOMAIN documents = 0..(MaxDocs - 1)
  BY DEF ListsInv, DocumentsSound
<1> QED BY <1>1 DEF ListsInv, DocumentsSound, TypesSound, MediatorsSound, ListsExact

-----------------------------------------------------------------------------
(* Tickers, assets and agents. *)

\* How the subsets of S are counted.
Counted(S) ==
    /\ Cardinality({}) = 0
    /\ \A Q \in SUBSET S : Cardinality(Q) \in Nat /\ (Cardinality(Q) = 0 => Q = {})
    /\ \A Q \in SUBSET S : \A x \in S \ Q : Cardinality(Q \cup {x}) = Cardinality(Q) + 1

AgentsCounted == Counted(Dids)

LEMMA CountSteps ==
    ASSUME NEW S, Counted(S), NEW Q \in SUBSET S
    PROVE  /\ Cardinality(Q) \in Nat
           /\ \A x \in S \ Q : Cardinality(Q \cup {x}) = Cardinality(Q) + 1
           /\ \A x \in Q : Cardinality(Q \ {x}) = Cardinality(Q) - 1
<1>1. ASSUME NEW x \in Q PROVE Cardinality(Q \ {x}) = Cardinality(Q) - 1
  <2>1. Q \ {x} \in SUBSET S /\ x \in S \ (Q \ {x}) /\ (Q \ {x}) \cup {x} = Q
    BY <1>1
  <2>2. Cardinality(Q) = Cardinality(Q \ {x}) + 1 /\ Cardinality(Q \ {x}) \in Nat
    BY <2>1 DEF Counted
  <2> QED BY <2>2, SMTT(60)
<1> QED BY <1>1 DEF Counted

Owners == Dids \cup {Reserve}
FullGroup == <<"Full">>
FixedGroups == {<<"Full">>, <<"ExceptMeta">>, <<"CAA">>, <<"PIA">>}
AnyGroup == FixedGroups \cup {<<"Custom", i>> : i \in Nat} \cup {NotAnAgent}
FullAgents(f) == {d \in Dids : f[d] = FullGroup}

RegistrationSound(t) ==
    /\ registered[t] \in [owner : Owners \cup {"nobody"}, expiry : Int]
    /\ registered[t].owner = "nobody" => registered[t] = NoRegistration
    /\ tokens[t] \in [owner : Owners \cup {"nobody"}, nft : BOOLEAN]
    /\ tokens[t] # NoToken => /\ tokens[t].owner \in Owners
                              /\ tokens[t].owner = registered[t].owner
                              /\ registered[t].expiry = Forever
    /\ t \in collections => tokens[t].nft

\* What AssetOwnershipRelations says about a ticker.
RelationSound(t) ==
    \A d \in Owners : relation[d][t] =
        IF registered[t].owner # d THEN "NotOwned"
        ELSE IF tokens[t] = NoToken THEN "TickerOwned" ELSE "AssetOwned"

AgentsSound(t) ==
    /\ numFull[t] = Cardinality(FullAgents(groupOf[t]))
    /\ IF tokens[t] = NoToken THEN \A d \in Dids : groupOf[t][d] = NotAnAgent
       ELSE numFull[t] > 0
    /\ \A d \in Dids : /\ t \in agentOf[d] <=> groupOf[t][d] # NotAnAgent
                       /\ groupOf[t][d] \in Groups(t) \cup {NotAnAgent}

RelationMaps == [Owners -> [Tickers -> {"NotOwned", "TickerOwned", "AssetOwned"}]]

MapsTyped ==
    /\ registered = [t \in Tickers |-> registered[t]]
    /\ tokens = [t \in Tickers |-> tokens[t]]
    /\ relation \in RelationMaps
    /\ groupOf \in [Tickers -> [Dids -> AnyGroup]]
    /\ agentOf \in [Dids -> SUBSET Tickers]
    /\ numFull \in [Tickers -> Nat]
    /\ groups \in [Tickers -> Seq(CustomPerms)]
    /\ assetTime \in Nat
    /\ \A a \in auths : a.ticker \in Tickers /\ a.from \in Dids /\ a.to \in Dids

AdminInv ==
    /\ MapsTyped
    /\ \A t \in Tickers : RegistrationSound(t) /\ RelationSound(t) /\ AgentsSound(t)

(***************************************************************************)
(* Groups and the number of full agents.                                   *)
(***************************************************************************)
\* Groups are told apart.
LEMMA GroupsDiffer ==
    /\ FullGroup # NotAnAgent /\ FullGroup \in FixedGroups
    /\ NotAnAgent \notin FixedGroups
    /\ \A i : <<"Custom", i>> # FullGroup /\ <<"Custom", i>> # NotAnAgent
<1>1. \A i : <<"Custom", i>>[1] = "Custom"
  OBVIOUS
<1>2. FullGroup[1] = "Full" /\ NotAnAgent[1] = "none"
  BY DEF FullGroup, NotAnAgent
<1> QED BY <1>1, <1>2 DEF FullGroup, NotAnAgent, FixedGroups

\* The groups of an asset are groups.
LEMMA GroupsTyped ==
    ASSUME NEW t \in Tickers, groups \in [Tickers -> Seq(CustomPerms)]
    PROVE  /\ Groups(t) = FixedGroups \cup {<<"Custom", i>> : i \in 1..Len(groups[t])}
           /\ Groups(t) \subseteq AnyGroup /\ NotAnAgent \notin Groups(t)
<1>1. DOMAIN groups[t] = 1..Len(groups[t]) /\ Len(groups[t]) \in Nat
  BY SMTT(60)
<1>2. Groups(t) = FixedGroups \cup {<<"Custom", i>> : i \in 1..Len(groups[t])}
  BY <1>1 DEF Groups, FixedGroups
<1> QED BY <1>1, <1>2, GroupsDiffer, SMTT(60) DEF AnyGroup

\* How the number of full agents changes when one identity changes groups.
LEMMA FullCount ==
    ASSUME AgentsCounted, NEW f \in [Dids -> AnyGroup], NEW d \in Dids, NEW g \in AnyGroup
    PROVE  /\ Cardinality(FullAgents(f)) \in Nat
           /\ Cardinality(FullAgents([f EXCEPT ![d] = g])) =
                CASE f[d] = FullGroup /\ g # FullGroup -> Cardinality(FullAgents(f)) - 1
                  [] f[d] # FullGroup /\ g = FullGroup -> Cardinality(FullAgents(f)) + 1
                  [] OTHER -> Cardinality(FullAgents(f))
<1> DEFINE h == [f EXCEPT ![d] = g]
<1>1. FullAgents(f) \in SUBSET Dids
  BY DEF FullAgents
<1>2. /\ Cardinality(FullAgents(f)) \in Nat
      /\ \A x \in Dids \ FullAgents(f) : Cardinality(FullAgents(f) \cup {x}) = Cardinality(FullAgents(f)) + 1
      /\ \A x \in FullAgents(f) : Cardinality(FullAgents(f) \ {x}) = Cardinality(FullAgents(f)) - 1
  BY <1>1, CountSteps DEF AgentsCounted
<1>3. CASE f[d] = FullGroup /\ g # FullGroup
  <2>1. FullAgents(h) = FullAgents(f) \ {d} /\ d \in FullAgents(f)
    BY <1>3 DEF FullAgents
  <2>2. Cardinality(FullAgents(h)) = Cardinality(FullAgents(f)) - 1
    BY <1>2, <2>1
  <2> QED BY <1>2, <1>3, <2>2
<1>4. CASE f[d] # FullGroup /\ g = FullGroup
  <2>1. FullAgents(h) = FullAgents(f) \cup {d} /\ d \in Dids \ FullAgents(f)
    BY <1>4 DEF FullAgents
  <2>2. Cardinality(FullAgents(h)) = Cardinality(FullAgents(f)) + 1
    BY <1>2, <2>1
  <2> QED BY <1>2, <1>4, <2>2
<1>5. CASE (f[d] = FullGroup) <=> (g = FullGroup)
  <2>1. FullAgents(h) = FullAgents(f)
    BY <1>5 DEF FullAgents
  <2> QED BY <1>2, <1>5, <2>1
<1> QED BY <1>3, <1>4, <1>5

(***************************************************************************)
(* Changing the group of an agent.                                         *)
(***************************************************************************)
\* Groups are never taken away.
GroupsGrow ==
    /\ groups' \in [Tickers -> Seq(CustomPerms)]
    /\ \A t \in Tickers : Groups(t) \subseteq Groups(t)'

LEMMA SameGroups ==
    ASSUME AdminInv, UNCHANGED groups
    PROVE  GroupsGrow
BY DEF AdminInv, MapsTyped, GroupsGrow, Groups

\* The agents of an asset that a call does not touch.
LEMMA AgentsKeep ==
    ASSUME AdminInv, NEW t \in Tickers, GroupsGrow,
           groupOf'[t] = groupOf[t], numFull'[t] = numFull[t],
           tokens'[t] = NoToken <=> tokens[t] = NoToken,
           \A d \in Dids : t \in agentOf'[d] <=> t \in agentOf[d]
    PROVE  AgentsSound(t)'
BY DEF AdminInv, AgentsSound, GroupsGrow

\* g is NotAnAgent when d stops being an agent.
LEMMA Regroup ==
    ASSUME AgentsCounted, AdminInv, GroupsGrow, NEW t \in Tickers, NEW d \in Dids,
           NEW g, g \in Groups(t)' \cup {NotAnAgent},
           groupOf' = [groupOf EXCEPT ![t][d] = g],
           agentOf' = [agentOf EXCEPT ![d] = IF g = NotAnAgent THEN agentOf[d] \ {t}
                                             ELSE agentOf[d] \cup {t}],
           numFull' = [numFull EXCEPT ![t] = FullAfter(t, groupOf[t][d], g)],
           FullAfter(t, groupOf[t][d], g) > 0, tokens'[t] # NoToken,
           \A u \in Tickers \ {t} : tokens'[u] = tokens[u]
    PROVE  /\ groupOf' \in [Tickers -> [Dids -> AnyGroup]]
           /\ agentOf' \in [Dids -> SUBSET Tickers]
           /\ numFull' \in [Tickers -> Nat]
           /\ \A u \in Tickers : AgentsSound(u)'
<1>1. g \in AnyGroup
  <2>1. Groups(t)' \subseteq AnyGroup
    <3>1. DOMAIN groups'[t] \subseteq Nat
      BY SMTT(60) DEF GroupsGrow
    <3> QED BY <3>1 DEF Groups, AnyGroup, FixedGroups
  <2> QED BY <2>1 DEF AnyGroup
<1>2. groupOf[t] \in [Dids -> AnyGroup] /\ groupOf'[t] = [groupOf[t] EXCEPT ![d] = g]
  BY DEF AdminInv, MapsTyped
<1>3. groupOf' \in [Tickers -> [Dids -> AnyGroup]]
  BY <1>1, <1>2 DEF AdminInv, MapsTyped
<1>4. agentOf' \in [Dids -> SUBSET Tickers]
  BY SMTT(60) DEF AdminInv, MapsTyped
<1>5. /\ Cardinality(FullAgents(groupOf[t])) \in Nat
      /\ Cardinality(FullAgents(groupOf'[t])) = FullAfter(t, groupOf[t][d], g)
  <2>1. numFull[t] = Cardinality(FullAgents(groupOf[t]))
    BY DEF AdminInv, AgentsSound
  <2> QED BY <1>1, <1>2, <2>1, FullCount, SMTT(60) DEF FullAfter, FullGroup
<1>6. numFull'[t] = FullAfter(t, groupOf[t][d], g) /\ FullAfter(t, groupOf[t][d], g) \in Nat
  <2>1. numFull[t] \in Nat /\ numFull'[t] = FullAfter(t, groupOf[t][d], g)
    BY DEF AdminInv, MapsTyped
  <2>2. FullAfter(t, groupOf[t][d], g) \in Int
    BY <2>1, SMTT(60) DEF FullAfter
  <2> QED BY <2>1, <2>2, SMTT(60)
<1>7. numFull' \in [Tickers -> Nat]
  BY <1>6 DEF AdminInv, MapsTyped
<1>8. AgentsSound(t)'
  <2>1. \A e \in Dids : groupOf'[t][e] = IF e = d THEN g ELSE groupOf[t][e]
    BY <1>2, SMTT(60)
  <2>2. \A e \in Dids : agentOf'[e] = IF e # d THEN agentOf[e]
                                      ELSE IF g = NotAnAgent THEN agentOf[d] \ {t}
                                      ELSE agentOf[d] \cup {t}
    BY DEF AdminInv, MapsTyped
  <2>3. \A e \in Dids : /\ t \in agentOf'[e] <=> groupOf'[t][e] # NotAnAgent
                        /\ groupOf'[t][e] \in Groups(t)' \cup {NotAnAgent}
    BY <2>1, <2>2, SMTT(60) DEF AdminInv, AgentsSound, GroupsGrow
  <2> QED BY <1>5, <1>6, <2>3 DEF AgentsSound
<1>9. ASSUME NEW u \in Tickers, u # t PROVE AgentsSound(u)'
  <2>1. groupOf'[u] = groupOf[u] /\ numFull'[u] = numFull[u]
    BY <1>9 DEF AdminInv, MapsTyped
  <2>2. \A e \in Dids : u \in agentOf'[e] <=> u \in agentOf[e]
    BY <1>9 DEF AdminInv, MapsTyped
  <2> QED BY <1>9, <2>1, <2>2, AgentsKeep
<1> QED BY <1>3, <1>4, <1>7, <1>8, <1>9

\* An agent that is permitted anything is an agent, of an asset that exists.
LEMMA PermittedExists ==
    ASSUME AdminInv, NEW t \in Tickers, NEW d \in Dids, NEW call, AgentPermitted(t, d, call)
    PROVE  tokens[t] # NoToken
<1>1. groupOf[t][d] # NotAnAgent
  <2> SUFFICES ASSUME groupOf[t][d] = NotAnAgent PROVE FALSE
    OBVIOUS
  <2>1. NotAnAgent[1] = "none"
    BY DEF NotAnAgent
  <2>2. NotAnAgent \notin {<<"Full">>, <<"ExceptMeta">>, <<"CAA">>, <<"PIA">>}
    BY GroupsDiffer DEF FixedGroups
  <2> QED BY <2>1, <2>2 DEF AgentPermitted
<1> QED BY <1>1 DEF AdminInv, AgentsSound

\* Tickers and assets that a call does not touch.
LEMMA OtherTickersKeep ==
    ASSUME AdminInv, NEW t \in Tickers,
           registered'[t] = registered[t], tokens'[t] = tokens[t],
           t \in collections' => t \in collections,
           \A d \in Owners : relation'[d][t] = relation[d][t]
    PROVE  RegistrationSound(t)' /\ RelationSound(t)'
<1>1. RegistrationSound(t) /\ RelationSound(t)
  BY DEF AdminInv
<1>2. RegistrationSound(t)'
  BY <1>1, SMTT(60) DEF RegistrationSound
<1>3. RelationSound(t)'
  BY <1>1, SMTT(60) DEF RelationSound
<1> QED BY <1>2, <1>3

\* Calls on agents leave tickers and assets alone.
LEMMA OwnersKeep ==
    ASSUME AdminInv, UNCHANGED <<registered, tokens, collections, relation>>, NEW t \in Tickers
    PROVE  RegistrationSound(t)' /\ RelationSound(t)'
BY OtherTickersKeep

\* A count that grows is not 0.
LEMMA OneMore ==
    ASSUME NEW n \in Nat
    PROVE  n + 1 > 0
BY SMTT(60)

\* unchecked_add_agent, of an identity that is not one.
LEMMA AddAgentSound ==
    ASSUME AgentsCounted, AdminInv, GroupsGrow, NEW t \in Tickers, NEW d \in Dids, NEW g,
           g \in Groups(t)', groupOf[t][d] = NotAnAgent,
           g = FullGroup \/ tokens[t] # NoToken, tokens'[t] # NoToken,
           \A u \in Tickers \ {t} : tokens'[u] = tokens[u], AddAgent(t, d, g)
    PROVE  /\ groupOf' \in [Tickers -> [Dids -> AnyGroup]]
           /\ agentOf' \in [Dids -> SUBSET Tickers]
           /\ numFull' \in [Tickers -> Nat]
           /\ \A u \in Tickers : AgentsSound(u)'
<1>1. numFull[t] \in Nat /\ (tokens[t] # NoToken => numFull[t] > 0)
  BY DEF AdminInv, MapsTyped, AgentsSound
<1>2. FullAfter(t, groupOf[t][d], g) = IF g = FullGroup THEN numFull[t] + 1 ELSE numFull[t]
  BY GroupsDiffer DEF FullAfter, FullGroup
<1>3. FullAfter(t, groupOf[t][d], g) > 0
  BY <1>1, <1>2, OneMore
<1>4. g # NotAnAgent
  BY GroupsDiffer DEF Groups, FixedGroups
<1>5. /\ numFull' = [numFull EXCEPT ![t] = FullAfter(t, groupOf[t][d], g)]
      /\ groupOf' = [groupOf EXCEPT ![t][d] = g]
      /\ agentOf' = [agentOf EXCEPT ![d] = IF g = NotAnAgent THEN agentOf[d] \ {t}
                                           ELSE agentOf[d] \cup {t}]
  BY <1>2, <1>4 DEF AddAgent, FullGroup
<1> QED BY <1>3, <1>5, Regroup

\* try_mutate_agents_group, of an asset that exists.
LEMMA TryMutateSound ==
    ASSUME AgentsCounted, AdminInv, GroupsGrow, NEW t \in Tickers, NEW d \in Dids, NEW g,
           g \in Groups(t)' \cup {NotAnAgent}, UNCHANGED tokens, TryMutateAgentsGroup(t, d, g)
    PROVE  /\ groupOf' \in [Tickers -> [Dids -> AnyGroup]]
           /\ agentOf' \in [Dids -> SUBSET Tickers]
           /\ numFull' \in [Tickers -> Nat]
           /\ \A u \in Tickers : AgentsSound(u)'
<1>1. groupOf[t][d] # NotAnAgent /\ t \in agentOf[d]
  BY DEF AdminInv, AgentsSound, TryMutateAgentsGroup
<1>2. tokens[t] # NoToken /\ numFull[t] > 0 /\ numFull[t] \in Nat
  BY <1>1 DEF AdminInv, AgentsSound, MapsTyped
<1>3. FullAfter(t, groupOf[t][d], g) > 0
  BY <1>2, SMTT(60) DEF FullAfter, TryMutateAgentsGroup
<1>4. agentOf' = [agentOf EXCEPT ![d] = IF g = NotAnAgent THEN agentOf[d] \ {t}
                                        ELSE agentOf[d] \cup {t}]
  <2>1. agentOf[d] = agentOf[d] \cup {t}
    BY <1>1
  <2> QED BY <2>1 DEF TryMutateAgentsGroup
<1> QED BY <1>2, <1>3, <1>4, Regroup DEF TryMutateAgentsGroup

(***************************************************************************)
(* Owners.                                                                 *)
(***************************************************************************)
\* unverified_register_ticker takes the ticker from whoever had it.
LEMMA RegisterRelationIs ==
    ASSUME AdminInv, NEW t \in Tickers, NEW d \in Dids
    PROVE  /\ RegisterRelation(t, d) \in RelationMaps
           /\ \A e \in Owners, u \in Tickers :
                 RegisterRelation(t, d)[e][u] =
                    IF u # t THEN relation[e][u]
                    ELSE IF e = d THEN "TickerOwned" ELSE "NotOwned"
<1>1. relation \in RelationMaps /\ d \in Owners
  BY DEF AdminInv, MapsTyped, Owners
<1>2. \A e \in Owners : relation[e][t] # "NotOwned" => registered[t].owner = e
  BY DEF AdminInv, RelationSound
<1>3. CASE registered[t] = NoRegistration
  <2>1. RegisterRelation(t, d) = [relation EXCEPT ![d][t] = "TickerOwned"]
    BY <1>3 DEF RegisterRelation
  <2>2. \A e \in Owners : relation[e][t] = "NotOwned"
    BY <1>2, <1>3, AssetAdminAssumption, SMTT(60) DEF NoRegistration, Owners
  <2> QED BY <1>1, <2>1, <2>2, SMTT(60) DEF RelationMaps
<1>4. CASE registered[t] # NoRegistration
  <2>1. PICK old : old = registered[t].owner
    OBVIOUS
  <2>2. old \in Owners
    BY <1>4, <2>1 DEF AdminInv, RegistrationSound
  <2>3. PICK R : R = [relation EXCEPT ![old][t] = "NotOwned"]
    OBVIOUS
  <2>4. RegisterRelation(t, d) = [R EXCEPT ![d][t] = "TickerOwned"]
    BY <1>4, <2>1, <2>3 DEF RegisterRelation
  <2>5. /\ R \in RelationMaps
        /\ \A e \in Owners, u \in Tickers :
              R[e][u] = IF e = old /\ u = t THEN "NotOwned" ELSE relation[e][u]
    BY <1>1, <2>2, <2>3 DEF RelationMaps
  <2>6. \A e \in Owners : R[e][t] = "NotOwned"
    BY <1>2, <2>1, <2>5
  <2> HIDE <2>3
  <2>7. /\ RegisterRelation(t, d) \in RelationMaps
        /\ \A e \in Owners, u \in Tickers :
              RegisterRelation(t, d)[e][u] = IF e = d /\ u = t THEN "TickerOwned" ELSE R[e][u]
    BY <1>1, <2>4, <2>5, SMTT(60) DEF RelationMaps
  <2> QED BY <2>5, <2>6, <2>7, SMTT(60)
<1> QED BY <1>3, <1>4

\* Tickers whose assets do not change keep their agents.
LEMMA OtherAgentsKeep ==
    ASSUME AdminInv, UNCHANGED <<groupOf, agentOf, numFull, groups>>, NEW t \in Tickers,
           tokens'[t] = NoToken <=> tokens[t] = NoToken
    PROVE  AgentsSound(t)'
BY SameGroups, AgentsKeep

LEMMA RegisterTickerSound ==
    ASSUME AdminInv, NEW t \in Tickers, NEW d \in Dids, RegisterTicker(d, t)
    PROVE  AdminInv'
<1>1. tokens[t] = NoToken /\ UNCHANGED <<tokens, collections, groupOf, agentOf, numFull, groups, auths, assetTime>>
  BY DEF RegisterTicker, RegistrationChecks, EnsureAssetFresh
<1> DEFINE x == IF RegistrationLength = Forever THEN Forever ELSE assetTime + RegistrationLength
<1>0. x \in Int
  BY AssetAdminAssumption, SMTT(60) DEF AdminInv, MapsTyped, Forever
<1>2. registered' = [registered EXCEPT ![t] = [owner |-> d, expiry |-> x]]
  BY DEF RegisterTicker
<1> HIDE DEF x
<1>3. /\ relation' \in RelationMaps
      /\ \A e \in Owners, u \in Tickers :
            relation'[e][u] = IF u # t THEN relation[e][u]
                              ELSE IF e = d THEN "TickerOwned" ELSE "NotOwned"
  <2>1. relation' = RegisterRelation(t, d)
    BY DEF RegisterTicker
  <2> QED BY <2>1, RegisterRelationIs, SMTT(60)
<1>4. registered'[t] = [owner |-> d, expiry |-> x] /\ registered' = [u \in Tickers |-> registered'[u]]
  BY <1>2 DEF AdminInv, MapsTyped
<1>5. \A u \in Tickers \ {t} : registered'[u] = registered[u]
  BY <1>2 DEF AdminInv, MapsTyped
<1>6. MapsTyped'
  BY <1>1, <1>3, <1>4 DEF AdminInv, MapsTyped
<1>7. RegistrationSound(t)' /\ RelationSound(t)'
  <2>1. d # "nobody" /\ d \in Owners
    BY AssetAdminAssumption DEF Owners
  <2>2. RegistrationSound(t)'
    BY <1>0, <1>1, <1>4, <2>1, SMTT(60) DEF AdminInv, RegistrationSound
  <2>3. RelationSound(t)'
    BY <1>1, <1>3, <1>4, SMTT(60) DEF RelationSound
  <2> QED BY <2>2, <2>3
<1>8. \A u \in Tickers \ {t} : RegistrationSound(u)' /\ RelationSound(u)'
  BY <1>1, <1>3, <1>5, OtherTickersKeep
<1>9. \A u \in Tickers : AgentsSound(u)'
  BY <1>1, OtherAgentsKeep
<1> QED BY <1>6, <1>7, <1>8, <1>9 DEF AdminInv

\* The part of create_asset that its two callers share.
LEMMA CreateAssetSound ==
    ASSUME AgentsCounted, AdminInv, NEW t \in Tickers, NEW d \in Dids, NEW nft \in BOOLEAN,
           CreateAsset(d, t, nft), UNCHANGED <<groups, auths, assetTime>>,
           collections' \subseteq collections \cup {t}, t \in collections' => nft \/ t \in collections
    PROVE  AdminInv'
<1>1. tokens[t] = NoToken /\ \A e \in Dids : groupOf[t][e] = NotAnAgent
  BY DEF CreateAsset, EnsureAssetFresh, AdminInv, AgentsSound
<1>2. t \notin collections
  <2>1. t \in collections => tokens[t].nft
    BY DEF AdminInv, RegistrationSound
  <2>2. ~NoToken.nft
    BY DEF NoToken
  <2> QED BY <1>1, <2>1, <2>2
<1>3. /\ registered' = [registered EXCEPT ![t] = [owner |-> d, expiry |-> Forever]]
      /\ tokens' = [tokens EXCEPT ![t] = [owner |-> d, nft |-> nft]]
  BY DEF CreateAsset
<1>4. /\ registered'[t] = [owner |-> d, expiry |-> Forever]
      /\ registered' = [u \in Tickers |-> registered'[u]]
      /\ tokens'[t] = [owner |-> d, nft |-> nft]
      /\ tokens' = [u \in Tickers |-> tokens'[u]]
  BY <1>3 DEF AdminInv, MapsTyped
<1>5. \A u \in Tickers \ {t} : registered'[u] = registered[u] /\ tokens'[u] = tokens[u]
  BY <1>3 DEF AdminInv, MapsTyped
<1>6. d # "nobody" /\ d \in Owners
  BY AssetAdminAssumption DEF Owners
<1>7. tokens'[t] # NoToken
  BY <1>4, <1>6, SMTT(60) DEF NoToken
<1>8. PICK R : R = RegisterRelation(t, d)
  OBVIOUS
<1>9. /\ R \in RelationMaps
      /\ \A e \in Owners, u \in Tickers :
            R[e][u] = IF u # t THEN relation[e][u] ELSE IF e = d THEN "TickerOwned" ELSE "NotOwned"
  BY <1>8, RegisterRelationIs, SMTT(60)
<1>10. /\ relation' \in RelationMaps
       /\ \A e \in Owners, u \in Tickers :
            relation'[e][u] = IF u # t THEN relation[e][u]
                              ELSE IF e = d THEN "AssetOwned" ELSE "NotOwned"
  <2>1. relation' = [R EXCEPT ![d][t] = "AssetOwned"]
    BY <1>8 DEF CreateAsset
  <2> QED BY <1>6, <1>9, <2>1, SMTT(60) DEF RelationMaps
<1>11. GroupsGrow
  BY SameGroups
<1>12. <<"Full">> \in Groups(t)'
  BY DEF Groups
<1>13. /\ groupOf' \in [Tickers -> [Dids -> AnyGroup]]
       /\ agentOf' \in [Dids -> SUBSET Tickers]
       /\ numFull' \in [Tickers -> Nat]
       /\ \A u \in Tickers : AgentsSound(u)'
  BY <1>1, <1>5, <1>7, <1>11, <1>12, AddAgentSound DEF CreateAsset, FullGroup
<1>14. MapsTyped'
  BY <1>4, <1>10, <1>13 DEF AdminInv, MapsTyped
<1>15. RegistrationSound(t)'
  BY <1>2, <1>4, <1>6, SMTT(60) DEF RegistrationSound, Forever
<1>16. RelationSound(t)'
  BY <1>4, <1>7, <1>10, SMTT(60) DEF RelationSound
<1>17. \A u \in Tickers \ {t} : RegistrationSound(u)' /\ RelationSound(u)'
  BY <1>5, <1>10, OtherTickersKeep
<1> QED BY <1>13, <1>14, <1>15, <1>16, <1>17 DEF AdminInv

LEMMA NewAssetSound ==
    ASSUME AgentsCounted, AdminInv, NEW t \in Tickers, NEW d \in Dids, NEW nft \in BOOLEAN, NewAsset(d, t, nft)
    PROVE  AdminInv'
BY CreateAssetSound DEF NewAsset

LEMMA CreateNftCollectionSound ==
    ASSUME AgentsCounted, AdminInv, NEW t \in Tickers, NEW d \in Dids, CreateNftCollection(d, t)
    PROVE  AdminInv'
<1>1. CASE tokens[t] = NoToken
  <2>1. CreateAsset(d, t, TRUE) /\ collections' = collections \cup {t} /\ UNCHANGED <<groups, auths, assetTime>>
    BY <1>1 DEF CreateNftCollection
  <2> QED BY <2>1, CreateAssetSound
<1>2. CASE tokens[t] # NoToken
  <2>1. /\ tokens[t].nft /\ collections' = collections \cup {t}
        /\ UNCHANGED <<registered, relation, tokens, groupOf, agentOf, numFull, groups, auths, assetTime>>
    BY <1>2 DEF CreateNftCollection
  <2>2. MapsTyped'
    BY <2>1 DEF AdminInv, MapsTyped
  <2>3. ASSUME NEW u \in Tickers PROVE RegistrationSound(u)' /\ RelationSound(u)'
    <3>1. RegistrationSound(u) /\ RelationSound(u)
      BY DEF AdminInv
    <3>2. u \in collections' => tokens[u].nft
      BY <2>1, <3>1 DEF RegistrationSound
    <3>3. RegistrationSound(u)'
      BY <2>1, <3>1, <3>2 DEF RegistrationSound
    <3>4. RelationSound(u)'
      BY <2>1, <3>1 DEF RelationSound
    <3> QED BY <3>3, <3>4
  <2>4. \A u \in Tickers : AgentsSound(u)'
    BY <2>1, OtherAgentsKeep
  <2> QED BY <2>2, <2>3, <2>4 DEF AdminInv
<1> QED BY <1>1, <1>2

\* What accepting either transfer does: the owner of a ticker is another one, and so is that
\* of its asset if there is one.
Handover(t, to, mark) ==
    /\ registered'[t] = [owner |-> to, expiry |-> registered[t].expiry]
    /\ registered' = [u \in Tickers |-> registered'[u]]
    /\ \A u \in Tickers \ {t} : registered'[u] = registered[u]
    /\ \/ tokens[t] = NoToken /\ mark = "TickerOwned" /\ tokens'[t] = NoToken
       \/ /\ tokens[t] # NoToken /\ mark = "AssetOwned"
          /\ tokens'[t] = [owner |-> to, nft |-> tokens[t].nft]
    /\ tokens' = [u \in Tickers |-> tokens'[u]]
    /\ \A u \in Tickers \ {t} : tokens'[u] = tokens[u]
    /\ relation' \in RelationMaps
    /\ \A e \in Owners, u \in Tickers :
         relation'[e][u] = IF u # t THEN relation[e][u] ELSE IF e # to THEN "NotOwned" ELSE mark
    /\ auths' \subseteq auths
    /\ UNCHANGED <<collections, groups, groupOf, agentOf, numFull, assetTime>>

LEMMA TransferSound ==
    ASSUME AdminInv, NEW t \in Tickers, NEW to \in Dids, NEW mark, Handover(t, to, mark)
    PROVE  AdminInv'
<1> USE DEF Handover
<1>1. to # "nobody" /\ to \in Owners
  BY AssetAdminAssumption DEF Owners
<1>2. tokens[t] = NoToken <=> tokens'[t] = NoToken
  BY <1>1, SMTT(60) DEF NoToken
<1>3. MapsTyped'
  BY DEF AdminInv, MapsTyped
<1>4. RegistrationSound(t)
  BY DEF AdminInv
<1>5. registered'[t] \in [owner : Owners \cup {"nobody"}, expiry : Int] /\ registered'[t].owner = to
  BY <1>1, <1>4, SMTT(60) DEF RegistrationSound
<1>6. RegistrationSound(t)'
  <2>1. CASE tokens[t] = NoToken
    BY <1>1, <1>2, <1>4, <1>5, <2>1 DEF RegistrationSound
  <2>2. CASE tokens[t] # NoToken
    <3>1. tokens'[t] = [owner |-> to, nft |-> tokens[t].nft] /\ tokens[t].nft \in BOOLEAN
      BY <1>4, <2>2 DEF RegistrationSound
    <3>2. /\ tokens'[t] \in [owner : Owners \cup {"nobody"}, nft : BOOLEAN]
          /\ tokens'[t].owner = to /\ tokens'[t].nft = tokens[t].nft
      BY <1>1, <3>1, SMTT(60)
    <3>3. registered'[t].expiry = Forever
      BY <1>4, <2>2, SMTT(60) DEF RegistrationSound
    <3> QED BY <1>1, <1>4, <1>5, <3>2, <3>3 DEF RegistrationSound
  <2> QED BY <2>1, <2>2
<1>7. RelationSound(t)'
  BY <1>2, <1>5 DEF RelationSound
<1>8. \A u \in Tickers \ {t} : RegistrationSound(u)' /\ RelationSound(u)'
  BY OtherTickersKeep
<1>9. \A u \in Tickers : AgentsSound(u)'
  BY <1>2, OtherAgentsKeep
<1> QED BY <1>3, <1>6, <1>7, <1>8, <1>9 DEF AdminInv

LEMMA AcceptTickerTransferSound ==
    ASSUME AdminInv, NEW a \in auths, AcceptTickerTransfer(a)
    PROVE  AdminInv'
<1>1. PICK t \in Tickers : t = a.ticker
  BY DEF AdminInv, MapsTyped
<1>2. PICK from \in Dids : from = a.from
  BY DEF AdminInv, MapsTyped
<1>3. PICK to \in Dids : to = a.to
  BY DEF AdminInv, MapsTyped
<1>4. tokens[t] = NoToken /\ registered[t] # NoRegistration /\ registered[t].owner = from
  BY <1>1, <1>2 DEF AcceptTickerTransfer, EnsureAssetFresh
<1>5. relation' = [relation EXCEPT ![from][t] = "NotOwned", ![to][t] = "TickerOwned"]
  BY <1>1, <1>2, <1>3 DEF AcceptTickerTransfer
<1>6. \A e \in Owners : e # from => relation[e][t] = "NotOwned"
  BY <1>4 DEF AdminInv, RelationSound
<1>7. relation \in RelationMaps /\ from \in Owners /\ to \in Owners
  BY DEF AdminInv, MapsTyped, Owners
<1>8. /\ relation' \in RelationMaps
      /\ \A e \in Owners, u \in Tickers :
            relation'[e][u] = IF u # t THEN relation[e][u]
                              ELSE IF e # to THEN "NotOwned" ELSE "TickerOwned"
  BY <1>5, <1>6, <1>7 DEF RelationMaps
<1>9. /\ registered' = [registered EXCEPT ![t] = [owner |-> to, expiry |-> registered[t].expiry]]
      /\ auths' \subseteq auths
      /\ UNCHANGED <<tokens, collections, groups, groupOf, agentOf, numFull, assetTime>>
  BY <1>1, <1>3 DEF AcceptTickerTransfer
<1>10. tokens' = [u \in Tickers |-> tokens'[u]] /\ \A u \in Tickers : tokens'[u] = tokens[u]
  BY <1>9 DEF AdminInv, MapsTyped
<1>11. /\ registered'[t] = [owner |-> to, expiry |-> registered[t].expiry]
       /\ registered' = [u \in Tickers |-> registered'[u]]
       /\ \A u \in Tickers \ {t} : registered'[u] = registered[u]
  BY <1>9 DEF AdminInv, MapsTyped
<1>14. PICK mark : mark = "TickerOwned"
  OBVIOUS
<1>15. tokens[t] = NoToken /\ mark = "TickerOwned" /\ tokens'[t] = NoToken
  BY <1>4, <1>10, <1>14
<1>16. \A e \in Owners, u \in Tickers :
          relation'[e][u] = IF u # t THEN relation[e][u] ELSE IF e # to THEN "NotOwned" ELSE mark
  BY <1>8, <1>14
<1>17. \A u \in Tickers \ {t} : tokens'[u] = tokens[u]
  BY <1>10
<1>18. auths' \subseteq auths /\ UNCHANGED <<collections, groups, groupOf, agentOf, numFull, assetTime>>
  BY <1>9
<1>19. tokens' = [u \in Tickers |-> tokens'[u]] /\ relation' \in RelationMaps
  BY <1>8, <1>10
<1>20. Handover(t, to, mark)
  BY <1>11, <1>15, <1>16, <1>17, <1>18, <1>19 DEF Handover
<1> QED BY <1>20, TransferSound

LEMMA AcceptAssetOwnershipTransferSound ==
    ASSUME AdminInv, NEW a \in auths, AcceptAssetOwnershipTransfer(a)
    PROVE  AdminInv'
<1>1. PICK t \in Tickers : t = a.ticker
  BY DEF AdminInv, MapsTyped
<1>2. PICK old : old = registered[t].owner
  OBVIOUS
<1>3. PICK to \in Dids : to = a.to
  BY DEF AdminInv, MapsTyped
<1>4. tokens[t] # NoToken /\ old \in Owners /\ registered[t] # NoRegistration
  <2>1. tokens[t] # NoToken
    BY <1>1 DEF AcceptAssetOwnershipTransfer, EnsureAssetFresh
  <2>2. old \in Owners
    BY <1>2, <2>1 DEF AdminInv, RegistrationSound
  <2> QED BY <1>2, <2>1, <2>2, AssetAdminAssumption, SMTT(60) DEF Owners, NoRegistration
<1>5. PICK R : R = [relation EXCEPT ![old][t] = "NotOwned"]
  OBVIOUS
<1>6. relation' = [R EXCEPT ![to][t] = "AssetOwned"]
  BY <1>1, <1>2, <1>3, <1>5 DEF AcceptAssetOwnershipTransfer
<1>7. \A e \in Owners : e # old => relation[e][t] = "NotOwned"
  BY <1>2 DEF AdminInv, RelationSound
<1>8. relation \in RelationMaps /\ to \in Owners
  BY DEF AdminInv, MapsTyped, Owners
<1>9. /\ R \in RelationMaps
      /\ \A e \in Owners, u \in Tickers :
            R[e][u] = IF u # t THEN relation[e][u] ELSE "NotOwned"
  BY <1>4, <1>5, <1>7, <1>8 DEF RelationMaps
<1> HIDE <1>5
<1>10. /\ relation' \in RelationMaps
       /\ \A e \in Owners, u \in Tickers :
            relation'[e][u] = IF u # t THEN relation[e][u]
                              ELSE IF e # to THEN "NotOwned" ELSE "AssetOwned"
  BY <1>6, <1>8, <1>9 DEF RelationMaps
<1>11. /\ registered' = [registered EXCEPT ![t] = [owner |-> to, expiry |-> registered[t].expiry]]
       /\ tokens' = [tokens EXCEPT ![t] = [owner |-> to, nft |-> tokens[t].nft]]
       /\ auths' \subseteq auths
       /\ UNCHANGED <<collections, groups, groupOf, agentOf, numFull, assetTime>>
  BY <1>1, <1>3 DEF AcceptAssetOwnershipTransfer
<1>12. /\ tokens' = [u \in Tickers |-> tokens'[u]]
       /\ tokens'[t] = [owner |-> to, nft |-> tokens[t].nft]
       /\ \A u \in Tickers \ {t} : tokens'[u] = tokens[u]
  BY <1>11 DEF AdminInv, MapsTyped
<1>13. /\ registered'[t] = [owner |-> to, expiry |-> registered[t].expiry]
       /\ registered' = [u \in Tickers |-> registered'[u]]
       /\ \A u \in Tickers \ {t} : registered'[u] = registered[u]
  BY <1>11 DEF AdminInv, MapsTyped
<1>14. PICK mark : mark = "AssetOwned"
  OBVIOUS
<1>15. tokens[t] # NoToken /\ mark = "AssetOwned" /\ tokens'[t] = [owner |-> to, nft |-> tokens[t].nft]
  BY <1>4, <1>12, <1>14
<1>16. \A e \in Owners, u \in Tickers :
          relation'[e][u] = IF u # t THEN relation[e][u] ELSE IF e # to THEN "NotOwned" ELSE mark
  BY <1>10, <1>14
<1>17. \A u \in Tickers \ {t} : tokens'[u] = tokens[u]
  BY <1>12
<1>18. auths' \subseteq auths /\ UNCHANGED <<collections, groups, groupOf, agentOf, numFull, assetTime>>
  BY <1>11
<1>19. tokens' = [u \in Tickers |-> tokens'[u]] /\ relation' \in RelationMaps
  BY <1>10, <1>12
<1>20. Handover(t, to, mark)
  BY <1>13, <1>15, <1>16, <1>17, <1>18, <1>19 DEF Handover
<1> QED BY <1>20, TransferSound

(***************************************************************************)
(* Calls on agents and authorizations.                                     *)
(***************************************************************************)
AuthsTyped == \A a \in auths : a.ticker \in Tickers /\ a.from \in Dids /\ a.to \in Dids

\* A call that leaves tickers and assets alone, in terms of what it does to the agents.
LEMMA AgentCallSound ==
    ASSUME AdminInv, UNCHANGED NotOfAgents, GroupsGrow, AuthsTyped',
           /\ groupOf' \in [Tickers -> [Dids -> AnyGroup]]
           /\ agentOf' \in [Dids -> SUBSET Tickers]
           /\ numFull' \in [Tickers -> Nat]
           /\ \A u \in Tickers : AgentsSound(u)'
    PROVE  AdminInv'
<1>1. MapsTyped'
  BY DEF AdminInv, MapsTyped, NotOfAgents, GroupsGrow, AuthsTyped
<1>2. \A u \in Tickers : RegistrationSound(u)' /\ RelationSound(u)'
  BY OwnersKeep DEF NotOfAgents
<1> QED BY <1>1, <1>2 DEF AdminInv

\* The same, when it leaves the agents alone too.
LEMMA GroupCallSound ==
    ASSUME AdminInv, UNCHANGED <<NotOfAgents, groupOf, agentOf, numFull>>, GroupsGrow, AuthsTyped'
    PROVE  AdminInv'
<1>1. \A u \in Tickers : AgentsSound(u)'
  BY AgentsKeep DEF NotOfAgents
<1>2. /\ groupOf' \in [Tickers -> [Dids -> AnyGroup]]
      /\ agentOf' \in [Dids -> SUBSET Tickers]
      /\ numFull' \in [Tickers -> Nat]
  BY DEF AdminInv, MapsTyped
<1> QED BY <1>1, <1>2, AgentCallSound

LEMMA AuthsKeep ==
    ASSUME AdminInv, auths' \subseteq auths
    PROVE  AuthsTyped'
BY DEF AdminInv, MapsTyped, AuthsTyped

\* A new group comes after the ones there are.
LEMMA AppendGrows ==
    ASSUME AdminInv, NEW t \in Tickers, NEW p \in CustomPerms,
           groups' = [groups EXCEPT ![t] = Append(@, p)]
    PROVE  GroupsGrow /\ <<"Custom", Len(groups[t]) + 1>> \in Groups(t)'
<1>1. groups \in [Tickers -> Seq(CustomPerms)]
  BY DEF AdminInv, MapsTyped
<1>2. groups' \in [Tickers -> Seq(CustomPerms)] /\ groups'[t] = Append(groups[t], p)
  BY <1>1, SMTT(60)
<1>3. DOMAIN groups[t] = 1..Len(groups[t]) /\ Len(groups[t]) \in Nat
  BY <1>1, SMTT(60)
<1>4. DOMAIN groups'[t] = 1..(Len(groups[t]) + 1)
  BY <1>1, <1>2, SMTT(60)
<1>5. \A u \in Tickers : DOMAIN groups[u] \subseteq DOMAIN groups'[u]
  BY <1>1, <1>3, <1>4, SMTT(60)
<1>6. Len(groups[t]) + 1 \in DOMAIN groups'[t]
  BY <1>3, <1>4, SMTT(60)
<1> QED BY <1>2, <1>5, <1>6 DEF GroupsGrow, Groups

\* A group that changes stays.
LEMMA SetGroupGrows ==
    ASSUME AdminInv, NEW t \in Tickers, NEW i \in 1..Len(groups[t]), NEW p \in CustomPerms,
           groups' = [groups EXCEPT ![t][i] = p]
    PROVE  GroupsGrow
<1>1. groups \in [Tickers -> Seq(CustomPerms)]
  BY DEF AdminInv, MapsTyped
<1>2. groups[t] \in Seq(CustomPerms) /\ [groups[t] EXCEPT ![i] = p] \in Seq(CustomPerms)
  BY <1>1, SMTT(60)
<1>3. groups' = [groups EXCEPT ![t] = [groups[t] EXCEPT ![i] = p]]
  BY <1>1
<1>4. groups' \in [Tickers -> Seq(CustomPerms)]
  BY <1>1, <1>2, <1>3
<1>5. \A u \in Tickers : DOMAIN groups[u] \subseteq DOMAIN groups'[u]
  BY <1>1, <1>2, <1>3
<1> QED BY <1>4, <1>5 DEF GroupsGrow, Groups

LEMMA CreateGroupSound ==
    ASSUME AdminInv, NEW t \in Tickers, NEW d \in Dids, NEW p \in CustomPerms, CreateGroup(d, t, p)
    PROVE  AdminInv'
BY AppendGrows, AuthsKeep, GroupCallSound DEF CreateGroup

LEMMA CreateGroupAndAddAuthSound ==
    ASSUME AdminInv, NEW t \in Tickers, NEW d \in Dids, NEW p \in CustomPerms, NEW to \in Dids,
           CreateGroupAndAddAuth(d, t, p, to)
    PROVE  AdminInv'
<1>1. AuthsTyped'
  BY SMTT(60) DEF CreateGroupAndAddAuth, AdminInv, MapsTyped, AuthsTyped
<1> QED BY <1>1, AppendGrows, GroupCallSound DEF CreateGroupAndAddAuth

LEMMA SetGroupPermissionsSound ==
    ASSUME AdminInv, NEW t \in Tickers, NEW d \in Dids, NEW i, NEW p \in CustomPerms,
           SetGroupPermissions(d, t, i, p)
    PROVE  AdminInv'
BY SetGroupGrows, AuthsKeep, GroupCallSound DEF SetGroupPermissions

\* remove_agent and abdicate
LEMMA LeaveSound ==
    ASSUME AgentsCounted, AdminInv, NEW t \in Tickers, NEW d \in Dids, TryMutateAgentsGroup(t, d, NotAnAgent),
           UNCHANGED <<groups, auths, NotOfAgents>>
    PROVE  AdminInv'
<1>1. GroupsGrow /\ AuthsTyped' /\ UNCHANGED tokens
  BY SameGroups, AuthsKeep DEF NotOfAgents
<1> QED BY <1>1, TryMutateSound, AgentCallSound

LEMMA ChangeGroupSound ==
    ASSUME AgentsCounted, AdminInv, NEW t \in Tickers, NEW d \in Dids, NEW agent \in Dids, NEW g,
           ChangeGroup(d, t, agent, g)
    PROVE  AdminInv'
<1>1. TryMutateAgentsGroup(t, agent, g) /\ UNCHANGED <<groups, auths, NotOfAgents>> /\ g \in Groups(t)
  BY DEF ChangeGroup
<1>2. GroupsGrow /\ AuthsTyped' /\ UNCHANGED tokens
  BY <1>1, SameGroups, AuthsKeep DEF NotOfAgents
<1>3. g \in Groups(t)' \cup {NotAnAgent}
  BY <1>1, <1>2 DEF GroupsGrow
<1> QED BY <1>1, <1>2, <1>3, TryMutateSound, AgentCallSound

LEMMA CreateAndChangeCustomGroupSound ==
    ASSUME AgentsCounted, AdminInv, NEW t \in Tickers, NEW d \in Dids, NEW p \in CustomPerms, NEW agent \in Dids,
           CreateAndChangeCustomGroup(d, t, p, agent)
    PROVE  AdminInv'
<1>1. PICK g : g = <<"Custom", Len(groups[t]) + 1>>
  OBVIOUS
<1>2. TryMutateAgentsGroup(t, agent, g) /\ UNCHANGED <<auths, NotOfAgents>>
  BY <1>1 DEF CreateAndChangeCustomGroup
<1>3. GroupsGrow /\ g \in Groups(t)' \cup {NotAnAgent}
  BY <1>1, AppendGrows DEF CreateAndChangeCustomGroup
<1>4. AuthsTyped' /\ UNCHANGED tokens
  BY <1>2, AuthsKeep DEF NotOfAgents
<1> QED BY <1>2, <1>3, <1>4, TryMutateSound, AgentCallSound

LEMMA AcceptBecomeAgentSound ==
    ASSUME AgentsCounted, AdminInv, NEW a \in auths, AcceptBecomeAgent(a)
    PROVE  AdminInv'
<1>1. PICK t \in Tickers : t = a.ticker
  BY DEF AdminInv, MapsTyped
<1>2. PICK from \in Dids : from = a.from
  BY DEF AdminInv, MapsTyped
<1>3. PICK to \in Dids : to = a.to
  BY DEF AdminInv, MapsTyped
<1>4. PICK g : g = a.group
  OBVIOUS
<1>5. /\ AgentPermitted(t, from, "agents") /\ g \in Groups(t) /\ groupOf[t][to] = NotAnAgent
      /\ AddAgent(t, to, g) /\ auths' \subseteq auths /\ UNCHANGED <<groups, NotOfAgents>>
  BY <1>1, <1>2, <1>3, <1>4 DEF AcceptBecomeAgent
<1>6. tokens[t] # NoToken
  BY <1>5, PermittedExists
<1>7. GroupsGrow /\ AuthsTyped' /\ UNCHANGED tokens
  BY <1>5, SameGroups, AuthsKeep DEF NotOfAgents
<1>8. g \in Groups(t)'
  BY <1>5, <1>7 DEF GroupsGrow
<1>9. /\ groupOf' \in [Tickers -> [Dids -> AnyGroup]]
      /\ agentOf' \in [Dids -> SUBSET Tickers]
      /\ numFull' \in [Tickers -> Nat]
      /\ \A u \in Tickers : AgentsSound(u)'
  BY <1>5, <1>6, <1>7, <1>8, AddAgentSound
<1> QED BY <1>5, <1>7, <1>9, AgentCallSound

LEMMA AddAuthSound ==
    ASSUME AdminInv, NEW t \in Tickers, NEW a \in AuthKinds(t), AddAuth(a)
    PROVE  AdminInv'
<1>1. a.ticker \in Tickers /\ a.from \in Dids /\ a.to \in Dids
  BY SMTT(60) DEF AuthKinds
<1>2. AuthsTyped'
  BY <1>1 DEF AddAuth, AdminInv, MapsTyped, AuthsTyped
<1> QED BY <1>2, SameGroups, GroupCallSound DEF AddAuth

LEMMA RemoveAuthSound ==
    ASSUME AdminInv, NEW a \in auths, RemoveAuth(a)
    PROVE  AdminInv'
<1>1. AuthsTyped'
  BY AuthsKeep DEF RemoveAuth
<1> QED BY <1>1, SameGroups, GroupCallSound DEF RemoveAuth

LEMMA AssetTickSound ==
    ASSUME AdminInv, AssetTick
    PROVE  AdminInv'
<1>1. MapsTyped'
  BY SMTT(60) DEF AssetTick, AdminInv, MapsTyped
<1>2. \A u \in Tickers : AgentsSound(u)' /\ RegistrationSound(u)' /\ RelationSound(u)'
  BY OtherAgentsKeep, OwnersKeep DEF AssetTick
<1> QED BY <1>1, <1>2 DEF AdminInv

(***************************************************************************)
(* The theorem.                                                            *)
(***************************************************************************)
LEMMA AdminInitially ==
    ASSUME AgentsCounted, AssetAdminInit
    PROVE  AdminInv
<1> USE DEF AssetAdminInit
<1>1. MapsTyped
  <2>1. <<>> \in Seq(CustomPerms)
    BY SMTT(60)
  <2> QED BY <2>1 DEF MapsTyped, Owners, AnyGroup, RelationMaps
<1>2. ASSUME NEW t \in Tickers PROVE RegistrationSound(t)
  <2>1. tokens[t] = NoToken /\ t \notin collections
    OBVIOUS
  <2>2. registered[t] = NoRegistration \/ registered[t] = [owner |-> Reserve, expiry |-> Forever]
    OBVIOUS
  <2>3. Reserve \in Owners /\ Reserve # "nobody"
    BY AssetAdminAssumption DEF Owners
  <2>4. Forever \in Int
    BY SMTT(60) DEF Forever
  <2> HIDE DEF AssetAdminInit
  <2> QED BY <2>1, <2>2, <2>3, <2>4, SMTT(60) DEF RegistrationSound, NoRegistration, NoToken
<1>3. \A t \in Tickers : RelationSound(t)
  BY AssetAdminAssumption DEF RelationSound, Owners, NoRegistration
<1>4. ASSUME NEW t \in Tickers PROVE AgentsSound(t)
  <2>1. FullAgents(groupOf[t]) = {}
    BY GroupsDiffer DEF FullAgents
  <2> QED BY <2>1 DEF AgentsSound, AgentsCounted, Counted
<1> QED BY <1>1, <1>2, <1>3, <1>4 DEF AdminInv

LEMMA AdminStep ==
    ASSUME AgentsCounted, AdminInv, [AssetAdminNext]_assetAdminVars
    PROVE  AdminInv'
<1>1. CASE UNCHANGED assetAdminVars
  <2>1. /\ UNCHANGED <<registered, tokens, collections, relation, auths, assetTime>>
        /\ UNCHANGED <<groupOf, agentOf, numFull, groups>>
    BY <1>1 DEF assetAdminVars
  <2>2. MapsTyped'
    BY <2>1 DEF AdminInv, MapsTyped
  <2>3. \A t \in Tickers : RegistrationSound(t)' /\ RelationSound(t)'
    BY <2>1, OwnersKeep
  <2>4. \A t \in Tickers : AgentsSound(t)'
    BY <2>1, OtherAgentsKeep
  <2> QED BY <2>2, <2>3, <2>4 DEF AdminInv
<1>2. ASSUME NEW t \in Tickers, NEW d \in Dids,
             RegisterTicker(d, t) \/ CreateNftCollection(d, t) \/ \E nft \in BOOLEAN : NewAsset(d, t, nft)
      PROVE  AdminInv'
  BY <1>2, RegisterTickerSound, CreateNftCollectionSound, NewAssetSound
<1>3. ASSUME NEW t \in Tickers, NEW d \in Dids, NEW e \in Dids, Abdicate(d, t) \/ RemoveAgent(d, t, e)
      PROVE  AdminInv'
  BY <1>3, LeaveSound DEF Abdicate, RemoveAgent
<1>4. ASSUME NEW t \in Tickers, NEW d \in Dids, NEW e \in Dids, NEW g, ChangeGroup(d, t, e, g)
      PROVE  AdminInv'
  BY <1>4, ChangeGroupSound
<1>5. ASSUME NEW t \in Tickers, NEW d \in Dids, NEW p \in CustomPerms,
             \/ CreateGroup(d, t, p)
             \/ \E i \in 1..MaxGroups : SetGroupPermissions(d, t, i, p)
             \/ \E e \in Dids : CreateGroupAndAddAuth(d, t, p, e) \/ CreateAndChangeCustomGroup(d, t, p, e)
      PROVE  AdminInv'
  BY <1>5, CreateGroupSound, SetGroupPermissionsSound, CreateGroupAndAddAuthSound,
     CreateAndChangeCustomGroupSound
<1>6. ASSUME NEW t \in Tickers, NEW a \in AuthKinds(t), AddAuth(a)
      PROVE  AdminInv'
  BY <1>6, AddAuthSound
<1>7. ASSUME NEW a \in auths,
             \/ RemoveAuth(a) \/ AcceptTickerTransfer(a)
             \/ AcceptAssetOwnershipTransfer(a) \/ AcceptBecomeAgent(a)
      PROVE  AdminInv'
  BY <1>7, RemoveAuthSound, AcceptTickerTransferSound, AcceptAssetOwnershipTransferSound,
     AcceptBecomeAgentSound
<1>8. CASE AssetTick
  BY <1>8, AssetTickSound
<1> QED BY <1>1, <1>2, <1>3, <1>4, <1>5, <1>6, <1>7, <1>8 DEF AssetAdminNext

LEMMA AdminInvExact == AdminInv => AdminExact
<1> SUFFICES ASSUME AdminInv PROVE OwnershipAgrees /\ AgentsExact
  BY DEF AdminExact
<1>1. ASSUME NEW t \in Tickers, NEW d \in Owners
      PROVE  relation[d][t] =
              IF registered[t] = NoRegistration \/ registered[t].owner # d THEN "NotOwned"
              ELSE IF tokens[t] = NoToken THEN "TickerOwned" ELSE "AssetOwned"
  <2>1. registered[t] = NoRegistration => registered[t].owner # d
    BY AssetAdminAssumption, SMTT(60) DEF NoRegistration, Owners
  <2> QED BY <2>1 DEF AdminInv, RelationSound
<1>2. OwnershipAgrees
  BY <1>1 DEF OwnershipAgrees, AdminInv, RegistrationSound, Owners
<1>3. AgentsExact
  BY DEF AgentsExact, AdminInv, AgentsSound, FullAgents, FullGroup
<1> QED BY <1>2, <1>3

-----------------------------------------------------------------------------
(* How finite sets are counted, and the theorem. *)

INSTANCE FiniteSetTheorems

LEMMA FiniteCounted ==
    ASSUME NEW S, IsFiniteSet(S)
    PROVE  Counted(S)
<1>1. ASSUME NEW Q \in SUBSET S
      PROVE  /\ IsFiniteSet(Q) /\ Cardinality(Q) \in Nat /\ (Cardinality(Q) = 0 => Q = {})
             /\ \A x \in S \ Q : Cardinality(Q \cup {x}) = Cardinality(Q) + 1
  <2>1. IsFiniteSet(Q)
    BY FS_Subset
  <2>2. Cardinality(Q) \in Nat
    BY <2>1, FS_CardinalityType
  <2>3. Cardinality(Q) = 0 => Q = {}
    BY <2>1, FS_EmptySet
  <2>4. \A x \in S \ Q : Cardinality(Q \cup {x}) = Cardinality(Q) + 1
    BY <2>1, FS_AddElement
  <2> QED BY <2>1, <2>2, <2>3, <2>4
<1>2. Cardinality({}) = 0
  BY FS_EmptySet
<1> QED BY <1>1, <1>2 DEF Counted

\* However registrations of tickers run out and are renewed, tickers and assets are handed
\* over and agents come and go, Tickers, Tokens and AssetOwnershipRelations agree on the
\* owner, NumFullAgents counts the full agents and an asset always has one (pallets/asset,
\* pallets/nft, pallets/external-agents).
THEOREM AdminAlwaysExact == AssetAdminSpec => []AdminExact
<1>1. AssetAdminInit => AdminInv
  BY AdminInitially, FiniteCounted, AssetAdminAssumption DEF AgentsCounted
<1>2. AdminInv /\ [AssetAdminNext]_assetAdminVars => AdminInv'
  BY AdminStep, FiniteCounted, AssetAdminAssumption DEF AgentsCounted
<1> QED BY <1>1, <1>2, AdminInvExact, PTL DEF AssetAdminSpec

LEMMA MediatorsLimited == Limited(Mediators)
<1>1. Cardinality({}) = 0
  BY FS_EmptySet
<1>2. ASSUME NEW Q \in SUBSET Mediators, NEW T \in SUBSET Q
      PROVE  Cardinality(Q) \in Nat /\ Cardinality(T) <= Cardinality(Q)
  <2>1. IsFiniteSet(Q)
    BY FS_Subset, RecordsAssumption
  <2> QED BY <2>1, FS_Subset, FS_CardinalityType
<1> QED BY <1>1, <1>2 DEF Limited

\* However metadata keys are registered, locked and removed, documents, custom types and
\* mediators added and removed and the asset's type changed, names and keys map to each other,
\* no number is given out twice, an NFT collection's keys exist, and a locked value stays as it
\* is (pallets/asset, pallets/nft).
THEOREM RecordsAlwaysExact == RecordsSpec => RecordsExact
<1> DEFINE Step == \/ MetadataNext /\ UNCHANGED listVars
                   \/ ListsNext /\ UNCHANGED metadataVars
           Inv == MetaInv /\ ListsInv
           Kept == metadataVars' # metadataVars => KeepsLocked
<1>1. MetadataInit /\ ListsInit => Inv
  BY MetadataInitially, ListsInitially, MediatorsLimited
<1>2. Inv /\ [Step]_<<metadataVars, listVars>> => Inv' /\ [Kept]_metadataVars
  <2> SUFFICES ASSUME Inv, [Step]_<<metadataVars, listVars>> PROVE Inv' /\ Kept
    OBVIOUS
  <2>1. (MetadataNext \/ UNCHANGED metadataVars) /\ (ListsNext \/ UNCHANGED listVars)
    OBVIOUS
  <2> QED BY <2>1, MetadataStep, ListsStep, MediatorsLimited
<1>3. Inv => MetadataExact /\ ListsExact
  BY MetaInvExact, ListsInvExact
<1> HIDE DEF Inv, Step, Kept
<1>4. RecordsSpec => []Inv /\ [][Kept]_metadataVars
  <2>1. RecordsSpec <=> (MetadataInit /\ ListsInit) /\ [][Step]_<<metadataVars, listVars>>
    BY DEF RecordsSpec, Step
  <2> QED BY <1>1, <1>2, <2>1, PTL
<1>5. RecordsSpec => [](MetadataExact /\ ListsExact)
  BY <1>3, <1>4, PTL
<1> QED BY <1>4, <1>5 DEF RecordsExact, LockedValueKept, Kept, KeepsLocked

=============================================================================
