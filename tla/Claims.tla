-------------------------------- MODULE Claims ------------------------------
(***************************************************************************)
(* Claims about identities, the group of customer-due-diligence (CDD)        *)
(* providers, and who has a valid CDD claim (pallets/identity/src/claims.rs, *)
(* the provider instance of pallets/group).  All claims share one scope.     *)
(* Calls by root, a committee or an issuer are made by whom may make them.   *)
(***************************************************************************)
EXTENDS Integers, FiniteSets

CONSTANTS
    Persons,                \* identities
    Providers,              \* identities that may be CDD providers
    CustomKinds,            \* names of custom claim types
    ClaimValues,            \* what a claim of a type may say, without CDD
    Expiries,               \* expiries given to claims and memberships
    Leeways,                \* leeways asked for
    MaxMoment               \* largest moment: the width of Moment, and the end of time here

Never == -1                 \* no expiry
Orphan == "no parent"
Systematic == "cdd provider"    \* SystematicIssuers::CDDProvider
Committee == "committee"        \* SystematicIssuers::Committee, GC_DID

ASSUME ClaimsAssumption ==
    /\ Providers \subseteq Persons /\ Leeways \subseteq Nat /\ Expiries \subseteq Int /\ MaxMoment \in Nat
    /\ {Orphan, Systematic, Committee} \cap Persons = {}

VARIABLES
    claims,                 \* Claims: at most one for a target, type and issuer
    known,                  \* identities with a DidRecord
    parentDid,              \* ParentDid
    active, inactive,       \* ActiveMembers and InactiveMembers of the providers
    customClaimTypes,            \* CustomClaims and CustomClaimsInverse
    moment                  \* the timestamp

claimsVars == <<claims, known, parentDid, active, inactive, customClaimTypes, moment>>

\* IdentityClaim, with its keys.
ClaimOf(who, kind, issuer, value, since, updated, expiry) ==
    [target |-> who, kind |-> kind, issuer |-> issuer, value |-> value,
     since |-> since, updated |-> updated, expiry |-> expiry]

\* Some identities exist at genesis; the members of the provider group have their systematic
\* claims.
ClaimsInit ==
    /\ active \in {s \in SUBSET Providers : Cardinality(s) = 1}
    /\ claims = {ClaimOf(p, "cdd", Systematic, "blank", 0, 0, Never) : p \in active}
    /\ known \in {k \in SUBSET Persons : Providers \subseteq k}
    /\ parentDid = [d \in Persons |-> Orphan]
    /\ inactive = {} /\ customClaimTypes = {} /\ moment = 0

-----------------------------------------------------------------------------
(* Reading claims. *)

\* Mutant: the comparison the wrong way round.
MutNotExpiredAt(c, t) == c.expiry = Never \/ c.expiry <= t

\* is_identity_claim_not_expired_at
NotExpiredAt(c, t) == c.expiry = Never \/ c.expiry > t

\* fetch_base_claim_with_issuer: the claim, if there is one, expired or not.
BaseClaim(who, kind, issuer) == {c \in claims : c.target = who /\ c.kind = kind /\ c.issuer = issuer}

\* fetch_claim
FetchClaim(who, kind, issuer) == {c \in BaseClaim(who, kind, issuer) : NotExpiredAt(c, moment)}

MemberExpired(m, t) == m.expiry # Never /\ m.expiry <= t

\* is_active, is_systematic_cdd_provider, is_inactive
IsActive(c) == c.issuer \in active
IsSystematic(c) == c.issuer \in {Systematic, Committee}
IsInactive(c, t) ==
    \E m \in inactive :
        /\ ~ MemberExpired(m, moment) /\ ~ MemberExpired(m, t)
        /\ m.id = c.issuer /\ c.updated < m.at

\* is_cdd_claim_valid
CddClaimValid(c, t) == NotExpiredAt(c, t) /\ (IsActive(c) \/ IsSystematic(c) \/ IsInactive(c, t))

\* CddClaimChecker::new: the moment claims must reach; a sum that does not fit is moment 0.
WithLeeway(leeway) == IF moment + leeway > MaxMoment THEN 0 ELSE moment + leeway

\* base_fetch_valid_cdd_claims: of the identity and of its parent.
ValidCddClaims(who, leeway) ==
    {c \in claims : c.kind = "cdd" /\ c.target \in {who, parentDid[who]} /\ CddClaimValid(c, WithLeeway(leeway))}

\* has_valid_cdd, fetch_cdd
FetchCdd(who, leeway) == ValidCddClaims(who, leeway) # {}
ValidCdd(who) == FetchCdd(who, 0)

\* get_did_status
DidStatus(who) ==
    IF who \notin known THEN "unknown" ELSE IF ValidCdd(who) THEN "verified" ELSE "exists"

-----------------------------------------------------------------------------
(* Writing claims. *)

\* unverified_add_claim_with_scope: replaces a claim of the same keys; the date of issuance
\* survives if the claim had not expired.
WithClaim(cs, who, kind, issuer, value, expiry) ==
    LET old   == {c \in cs : c.target = who /\ c.kind = kind /\ c.issuer = issuer}
        live  == {c \in old : NotExpiredAt(c, moment)}
        since == IF live = {} THEN moment ELSE (CHOOSE c \in live : TRUE).since
    IN  (cs \ old) \cup {ClaimOf(who, kind, issuer, value, since, moment, expiry)}

\* add_claim: of CDD by active providers only, of a custom type only if it is registered.
AddClaim(issuer, who, kind, value, expiry) ==
    /\ issuer \in known /\ who \in known
    /\ kind = "cdd" => issuer \in active
    /\ kind \in CustomKinds => kind \in customClaimTypes
    /\ claims' = WithClaim(claims, who, kind, issuer, value, expiry)
    /\ UNCHANGED <<known, parentDid, active, inactive, customClaimTypes, moment>>

\* revoke_claim, revoke_claim_by_index, and gc_revoke_cdd_claim with the committee as issuer:
\* also of claims that have expired, and of issuers that are no longer providers.
RevokeClaim(issuer, who, kind) ==
    /\ BaseClaim(who, kind, issuer) # {}
    /\ claims' = claims \ BaseClaim(who, kind, issuer)
    /\ UNCHANGED <<known, parentDid, active, inactive, customClaimTypes, moment>>

\* gc_add_cdd_claim: also for identities that do not exist.
GcAddCddClaim(who) ==
    /\ claims' = WithClaim(claims, who, "cdd", Committee, "blank", Never)
    /\ UNCHANGED <<known, parentDid, active, inactive, customClaimTypes, moment>>

\* register_custom_claim_type
RegisterCustomClaimType(kind) ==
    /\ kind \notin customClaimTypes
    /\ customClaimTypes' = customClaimTypes \cup {kind}
    /\ UNCHANGED <<claims, known, parentDid, active, inactive, moment>>

\* cdd_register_did_with_cdd, and cdd_register_did, which makes no claim.
RegisterDid(provider, who, withClaim, expiry) ==
    /\ provider \in active /\ who \notin known
    /\ known' = known \cup {who}
    /\ claims' = IF withClaim THEN WithClaim(claims, who, "cdd", provider, "blank", expiry) ELSE claims
    /\ UNCHANGED <<parentDid, active, inactive, customClaimTypes, moment>>

\* create_child_identity, by the primary key of an identity that is nobody's child.
CreateChild(parent, who) ==
    /\ parent \in known /\ who \notin known /\ parentDid[parent] = Orphan
    /\ known' = known \cup {who}
    /\ parentDid' = [parentDid EXCEPT ![who] = parent]
    /\ UNCHANGED <<claims, active, inactive, customClaimTypes, moment>>

\* unlink_child_identity
UnlinkChild(who) ==
    /\ parentDid[who] # Orphan
    /\ parentDid' = [parentDid EXCEPT ![who] = Orphan]
    /\ UNCHANGED <<claims, known, active, inactive, customClaimTypes, moment>>

-----------------------------------------------------------------------------
(* The group of providers.  Its MembershipChanged is the identity pallet. *)

\* add_systematic_cdd_claims; who comes does not have the claim yet.
WithSystematic(cs, in) == cs \cup {ClaimOf(p, "cdd", Systematic, "blank", moment, moment, Never) : p \in in}

\* revoke_systematic_cdd_claims
WithoutSystematic(cs, out) == {c \in cs : ~ (c.kind = "cdd" /\ c.issuer = Systematic /\ c.target \in out)}

\* change_members_sorted
ChangeMembers(incoming, outgoing) == claims' = WithoutSystematic(WithSystematic(claims, incoming), outgoing)

\* add_member
AddProvider(p) ==
    /\ p \notin active
    /\ active' = active \cup {p}
    /\ ChangeMembers({p}, {})
    /\ UNCHANGED <<known, parentDid, inactive, customClaimTypes, moment>>

\* remove_member, and abdicate_membership, which the last member cannot do: an active member,
\* else an inactive one.
RemoveProvider(p) ==
    /\ \/ p \in active /\ active' = active \ {p} /\ ChangeMembers({}, {p}) /\ UNCHANGED inactive
       \/ /\ p \notin active /\ \E m \in inactive : m.id = p
          /\ inactive' = {m \in inactive : m.id # p}
          /\ UNCHANGED <<claims, active>>
    /\ UNCHANGED <<known, parentDid, customClaimTypes, moment>>

\* disable_member, and invalidate_cdd_claims.
DisableProvider(p, at, expiry) ==
    /\ p \in active
    /\ active' = active \ {p}
    /\ ChangeMembers({}, {p})
    /\ inactive' = {m \in inactive : ~ MemberExpired(m, moment) /\ m.id # p}
                   \cup {[id |-> p, at |-> at, expiry |-> expiry]}
    /\ UNCHANGED <<known, parentDid, customClaimTypes, moment>>

\* swap_member, reset_members
ResetProviders(new) ==
    /\ active' = new
    /\ ChangeMembers(new \ active, active \ new)
    /\ UNCHANGED <<known, parentDid, inactive, customClaimTypes, moment>>

Tick ==
    /\ moment < MaxMoment
    /\ moment' = moment + 1
    /\ UNCHANGED <<claims, known, parentDid, active, inactive, customClaimTypes>>

\* Claims of everyday use: those that transfer rules look at.
ClaimStep(issuers) ==
    \/ \E i \in issuers, d \in Persons, k \in DOMAIN ClaimValues :
         \/ \E v \in ClaimValues[k], x \in Expiries : AddClaim(i, d, k, v, x)
         \/ RevokeClaim(i, d, k)
    \/ \E k \in CustomKinds : RegisterCustomClaimType(k)
    \/ Tick

CddStep ==
    \/ \E p \in Providers, d \in Persons, x \in Expiries :
         \/ AddClaim(p, d, "cdd", "blank", x)
         \/ \E w \in BOOLEAN : RegisterDid(p, d, w, x)
    \/ \E d \in Persons : \/ \E i \in Providers \cup {Committee} : RevokeClaim(i, d, "cdd")
                          \/ GcAddCddClaim(d) \/ UnlinkChild(d)
                          \/ \E q \in Persons : CreateChild(q, d)
    \/ \E p \in Providers : \/ AddProvider(p) \/ RemoveProvider(p)
                            \/ \E at \in {0, moment, moment + 1}, x \in Expiries : DisableProvider(p, at, x)
    \/ \E new \in SUBSET Providers : ResetProviders(new)
    \/ Tick

ClaimsSpec == ClaimsInit /\ [][CddStep \/ ClaimStep(Persons)]_claimsVars

-----------------------------------------------------------------------------
(* Properties. *)

\* The providers, and nobody else, have the systematic claim of providers, however they
\* came and went (change_members_sorted, called by every operation of the group).
SystematicClaimsExact ==
    {c.target : c \in {e \in claims : e.issuer = Systematic}} = active

\* Time alone and the departure of a provider never verify anyone: an identity becomes
\* verified only in a step that writes a CDD claim for it or for its parent, makes somebody
\* a provider, or makes it a child.  And when a leeway is asked for and granted, the claim
\* holds now as well, unless the sum of moment and leeway overflowed (CddClaimChecker).
CddOnlyGranted ==
    [][claimsVars' # claimsVars =>
       /\ \A d \in Persons :
            ValidCdd(d)' /\ ~ ValidCdd(d) =>
                \/ \E c \in claims' \ claims : c.kind = "cdd" /\ c.target \in {d, parentDid'[d]}
                \/ active' \ active # {}
                \/ d \in known' \ known
       /\ \A d \in Persons, l \in Leeways :
            moment' + l <= MaxMoment /\ FetchCdd(d, l)' => ValidCdd(d)']_claimsVars

\* Due diligence is what the providers of now stand for: the systematic claims are exact,
\* and nobody is verified without a grant (identity claims, the provider group).
CddExact == []SystematicClaimsExact /\ CddOnlyGranted
=============================================================================
