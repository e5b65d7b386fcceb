---------------------------- MODULE KeysProofs -----------------------------
(***************************************************************************)
(* Theorems about Keys, for any sets of keys and identities.  The          *)
(* inductive invariant is KeysInv: KeyMapsAgree, and what it needs to be   *)
(* inductive about authorizations: the ones still to come are blank, the   *)
(* issuer of one exists, and the permissions one carries are permissions.  *)
(***************************************************************************)
EXTENDS Keys, TLAPS

\* Steps are Zenon's unless they cite the SMT solver.
USE ZenonT(60)

LinkedIn(L, k, d) == L.key[k].kind \in {"Primary", "Secondary"} /\ L.key[k].of = d

\* DidKeysAgree and OnePrimaryKey, of any links.
LinksAgree(L) ==
    /\ L \in Links
    /\ \A d \in Dids : L.didKeys[d] = {k \in KeySet : LinkedIn(L, k, d)}
    /\ \A d \in Dids : IF L.primary[d] # NoDid
                       THEN {k \in KeySet : L.key[k] = PrimaryKey(d)} = {L.primary[d]}
                       ELSE \A k \in KeySet : ~ LinkedIn(L, k, d)

\* What the calls rely on about the authorizations they find.
AuthSound(a) ==
    auths[a] # NoAuth =>
      /\ a < nextAuth
      /\ auths[a].target \in KeySet /\ auths[a].by \in Dids /\ Exists(auths[a].by)
      /\ auths[a].data[1] \in {"JoinIdentity", "RotatePrimaryKeyToSecondary"}
            => auths[a].data[2] \in Perms

AuthsSound ==
    /\ auths = [a \in AuthIds |-> auths[a]]
    /\ nextAuth \in Nat \ {0} /\ nextAuth <= MaxAuths + 1
    /\ \A a \in AuthIds : AuthSound(a)
    /\ GivenAgrees

ChildrenSound ==
    /\ parentDid \in [Dids -> Dids \cup {NoDid}]
    /\ childDid \in [Dids -> SUBSET Dids]
    /\ NoGrandChildren

RestTyped ==
    /\ frozenDids \subseteq Dids
    /\ refCount \in [KeySet -> Nat]
    /\ consents \subseteq KeySet \X Dids
    /\ cdd \subseteq Dids
    /\ cddRotation \in BOOLEAN

KeysInv == LinksAgree(links) /\ AuthsSound /\ ChildrenSound /\ RestTyped

(***************************************************************************)
(* Key records.                                                            *)
(***************************************************************************)
\* The record of a key says by its kind which of the four it is.
LEMMA RecordKinds ==
    ASSUME NEW r \in KeyRecord
    PROVE  /\ r.kind \in {"Unlinked", "Primary", "Secondary", "Signer"}
           /\ r.kind = "Unlinked" <=> r = Unlinked
           /\ r.kind = "Primary" => r.of \in Dids /\ r = PrimaryKey(r.of)
           /\ r.kind = "Secondary" => /\ r.of \in Dids /\ r.perms \in Perms
                                      /\ r = SecondaryKey(r.of, r.perms)
<1>1. CASE r = Unlinked
  BY <1>1 DEF Unlinked
<1>2. CASE r \in {PrimaryKey(d) : d \in Dids}
  BY <1>2, SMTT(60) DEF PrimaryKey, Unlinked
<1>3. CASE r \in {SecondaryKey(d, p) : d \in Dids, p \in Perms}
  BY <1>3, SMTT(60) DEF SecondaryKey, Unlinked
<1>4. CASE r \in {MultiSigSignerKey(m) : m \in KeySet}
  BY <1>4, SMTT(60) DEF MultiSigSignerKey, Unlinked
<1> QED BY <1>1, <1>2, <1>3, <1>4, SMTT(60) DEF KeyRecord

\* The fields of links that agree.
LEMMA LinksFields ==
    ASSUME NEW L, LinksAgree(L)
    PROVE  /\ L.key \in [KeySet -> KeyRecord]
           /\ L.didKeys \in [Dids -> SUBSET KeySet]
           /\ L.primary \in [Dids -> KeySet \cup {NoKey, NoDid}]
           /\ L = [key |-> L.key, didKeys |-> L.didKeys, primary |-> L.primary]
BY DEF LinksAgree, Links

\* A key without a record becomes a secondary key of an identity that exists.
LEMMA AddSecondary ==
    ASSUME NEW L, LinksAgree(L), NEW k \in KeySet, L.key[k] = Unlinked,
           NEW d \in Dids, L.primary[d] # NoDid, NEW p \in Perms
    PROVE  LET M == AddKeyRecord(L, k, SecondaryKey(d, p))
           IN  /\ LinksAgree(M)
               /\ M.primary = L.primary
               /\ M.key = [L.key EXCEPT ![k] = SecondaryKey(d, p)]
<1> DEFINE M == AddKeyRecord(L, k, SecondaryKey(d, p))
<1>1. /\ M.key = [L.key EXCEPT ![k] = SecondaryKey(d, p)]
      /\ M.didKeys = [L.didKeys EXCEPT ![d] = @ \cup {k}]
      /\ M.primary = L.primary
      /\ M = [key |-> M.key, didKeys |-> M.didKeys, primary |-> M.primary]
  BY DEF AddKeyRecord, SecondaryKey
<1>2. SecondaryKey(d, p) \in KeyRecord
  BY SMTT(60) DEF KeyRecord
<1>3. M \in Links
  BY <1>1, <1>2, LinksFields, SMTT(60) DEF Links
<1>4. \A e \in Dids, x \in KeySet :
         LinkedIn(M, x, e) <=> (x = k /\ e = d) \/ LinkedIn(L, x, e)
  BY <1>1, LinksFields, SMTT(60) DEF LinkedIn, SecondaryKey, Unlinked
<1>5. \A e \in Dids : M.didKeys[e] = {x \in KeySet : LinkedIn(M, x, e)}
  BY <1>1, <1>4, LinksFields, SMTT(60) DEF LinksAgree
<1>6. \A e \in Dids, x \in KeySet : M.key[x] = PrimaryKey(e) <=> L.key[x] = PrimaryKey(e)
  BY <1>1, LinksFields, SMTT(60) DEF PrimaryKey, SecondaryKey, Unlinked
<1>7. \A e \in Dids : IF M.primary[e] # NoDid
                      THEN {x \in KeySet : M.key[x] = PrimaryKey(e)} = {M.primary[e]}
                      ELSE \A x \in KeySet : ~ LinkedIn(M, x, e)
  BY <1>1, <1>4, <1>6, SMTT(60) DEF LinksAgree
<1> QED BY <1>1, <1>3, <1>5, <1>7 DEF LinksAgree

\* A key without a record becomes the primary key of an identity that is new.
LEMMA AddPrimary ==
    ASSUME NEW L, LinksAgree(L), NEW k \in KeySet, L.key[k] = Unlinked,
           NEW d \in Dids, L.primary[d] = NoDid
    PROVE  LET M == AddKeyRecord(L, k, PrimaryKey(d))
           IN  /\ LinksAgree(M)
               /\ M.primary = [L.primary EXCEPT ![d] = k]
               /\ M.key = [L.key EXCEPT ![k] = PrimaryKey(d)]
<1> DEFINE M == AddKeyRecord(L, k, PrimaryKey(d))
<1>1. /\ M.key = [L.key EXCEPT ![k] = PrimaryKey(d)]
      /\ M.didKeys = [L.didKeys EXCEPT ![d] = @ \cup {k}]
      /\ M.primary = [L.primary EXCEPT ![d] = k]
      /\ M = [key |-> M.key, didKeys |-> M.didKeys, primary |-> M.primary]
  BY DEF AddKeyRecord, PrimaryKey
<1>2. PrimaryKey(d) \in KeyRecord
  BY SMTT(60) DEF KeyRecord
<1>3. M \in Links
  BY <1>1, <1>2, LinksFields, SMTT(60) DEF Links
<1>4. \A e \in Dids, x \in KeySet :
         LinkedIn(M, x, e) <=> (x = k /\ e = d) \/ LinkedIn(L, x, e)
  BY <1>1, LinksFields, SMTT(60) DEF LinkedIn, PrimaryKey, Unlinked
<1>5. \A e \in Dids : M.didKeys[e] = {x \in KeySet : LinkedIn(M, x, e)}
  BY <1>1, <1>4, LinksFields, SMTT(60) DEF LinksAgree
<1>6. \A e \in Dids, x \in KeySet :
         M.key[x] = PrimaryKey(e) <=> (x = k /\ e = d) \/ L.key[x] = PrimaryKey(e)
  BY <1>1, LinksFields, SMTT(60) DEF PrimaryKey, Unlinked
<1>7. \A x \in KeySet : L.key[x] # PrimaryKey(d)
  BY SMTT(60) DEF LinksAgree, LinkedIn, PrimaryKey
<1>8. \A e \in Dids : IF M.primary[e] # NoDid
                      THEN {x \in KeySet : M.key[x] = PrimaryKey(e)} = {M.primary[e]}
                      ELSE \A x \in KeySet : ~ LinkedIn(M, x, e)
  BY <1>1, <1>4, <1>6, <1>7, LinksFields, KeysAssumption, SMTT(60) DEF LinksAgree
<1> QED BY <1>1, <1>3, <1>5, <1>8 DEF LinksAgree

\* A secondary key leaves its identity.
LEMMA RemoveSecondary ==
    ASSUME NEW L, LinksAgree(L), NEW k \in KeySet, NEW d \in Dids,
           L.key[k].kind = "Secondary", L.key[k].of = d
    PROVE  LET M == RemoveKeyRecord(L, k, d)
           IN  /\ LinksAgree(M)
               /\ M.primary = L.primary
               /\ M.key = [L.key EXCEPT ![k] = Unlinked]
<1> DEFINE M == RemoveKeyRecord(L, k, d)
<1>1. /\ M.key = [L.key EXCEPT ![k] = Unlinked]
      /\ M.didKeys = [L.didKeys EXCEPT ![d] = @ \ {k}]
      /\ M.primary = L.primary
      /\ M = [key |-> M.key, didKeys |-> M.didKeys, primary |-> M.primary]
  BY DEF RemoveKeyRecord
<1>2. Unlinked \in KeyRecord
  BY SMTT(60) DEF KeyRecord
<1>3. M \in Links
  BY <1>1, <1>2, LinksFields, SMTT(60) DEF Links
<1>4. \A e \in Dids, x \in KeySet : LinkedIn(M, x, e) <=> x # k /\ LinkedIn(L, x, e)
  BY <1>1, LinksFields, SMTT(60) DEF LinkedIn, Unlinked
<1>5. \A e \in Dids : M.didKeys[e] = {x \in KeySet : LinkedIn(M, x, e)}
  BY <1>1, <1>4, LinksFields, SMTT(60) DEF LinksAgree, LinkedIn
<1>6. \A e \in Dids, x \in KeySet : M.key[x] = PrimaryKey(e) <=> L.key[x] = PrimaryKey(e)
  BY <1>1, LinksFields, SMTT(60) DEF PrimaryKey, Unlinked
<1>7. \A e \in Dids : IF M.primary[e] # NoDid
                      THEN {x \in KeySet : M.key[x] = PrimaryKey(e)} = {M.primary[e]}
                      ELSE \A x \in KeySet : ~ LinkedIn(M, x, e)
  BY <1>1, <1>4, <1>6, SMTT(60) DEF LinksAgree
<1> QED BY <1>1, <1>3, <1>5, <1>7 DEF LinksAgree

\* A secondary key gets other permissions.
LEMMA PermitSecondary ==
    ASSUME NEW L, LinksAgree(L), NEW k \in KeySet, NEW d \in Dids, NEW p \in Perms,
           L.key[k].kind = "Secondary", L.key[k].of = d
    PROVE  LET M == [L EXCEPT !.key = [@ EXCEPT ![k] = SecondaryKey(d, p)]]
           IN  /\ LinksAgree(M)
               /\ M.primary = L.primary
               /\ M.key = [L.key EXCEPT ![k] = SecondaryKey(d, p)]
<1> DEFINE M == [L EXCEPT !.key = [@ EXCEPT ![k] = SecondaryKey(d, p)]]
<1>1. /\ M.key = [L.key EXCEPT ![k] = SecondaryKey(d, p)]
      /\ M.didKeys = L.didKeys
      /\ M.primary = L.primary
      /\ M = [key |-> M.key, didKeys |-> M.didKeys, primary |-> M.primary]
  BY LinksFields, SMTT(60)
<1>2. SecondaryKey(d, p) \in KeyRecord
  BY SMTT(60) DEF KeyRecord
<1>3. M \in Links
  BY <1>1, <1>2, LinksFields DEF Links
<1>4. \A e \in Dids, x \in KeySet : LinkedIn(M, x, e) <=> LinkedIn(L, x, e)
  BY <1>1, LinksFields DEF LinkedIn, SecondaryKey
<1>5. \A e \in Dids, x \in KeySet : M.key[x] = PrimaryKey(e) <=> L.key[x] = PrimaryKey(e)
  BY <1>1, LinksFields, SMTT(60) DEF PrimaryKey, SecondaryKey
<1>6. \A e \in Dids : IF M.primary[e] # NoDid
                      THEN {x \in KeySet : M.key[x] = PrimaryKey(e)} = {M.primary[e]}
                      ELSE \A x \in KeySet : ~ LinkedIn(M, x, e)
  BY <1>1, <1>4, <1>5, SMTT(60) DEF LinksAgree
<1> QED BY <1>1, <1>3, <1>4, <1>6, SMTT(60) DEF LinksAgree

\* The first half of a rotation: the new key becomes primary while the old one still is.
LEMMA NewPrimary ==
    ASSUME LinksAgree(links), NEW d \in Dids, NEW new \in KeySet,
           links.primary[d] \in KeySet,
           links.key[new] = Unlinked \/ IsSecondaryKey(new, d)
    PROVE  LET L == IF IsSecondaryKey(new, d)
                    THEN [key |-> [links.key EXCEPT ![new] = PrimaryKey(d)],
                          didKeys |-> links.didKeys,
                          primary |-> [links.primary EXCEPT ![d] = new]]
                    ELSE AddKeyRecord(links, new, PrimaryKey(d))
           IN  /\ L = [key |-> [links.key EXCEPT ![new] = PrimaryKey(d)],
                       didKeys |-> [links.didKeys EXCEPT ![d] = @ \cup {new}],
                       primary |-> [links.primary EXCEPT ![d] = new]]
<1>1. CASE links.key[new] = Unlinked
  <2>1. ~ IsSecondaryKey(new, d)
    BY <1>1, SMTT(60) DEF IsSecondaryKey, Unlinked
  <2> QED BY <1>1, <2>1 DEF AddKeyRecord, PrimaryKey
<1>2. CASE IsSecondaryKey(new, d)
  <2>1. new \in links.didKeys[d]
    BY <1>2, SMTT(60) DEF LinksAgree, LinkedIn, IsSecondaryKey
  <2>2. links.didKeys = [links.didKeys EXCEPT ![d] = @ \cup {new}]
    BY <2>1, LinksFields
  <2> QED BY <1>2, <2>2
<1> QED BY <1>1, <1>2

\* A rotation, whatever becomes of the old key.
LEMMA Rotation ==
    ASSUME LinksAgree(links), NEW d \in Dids, NEW new \in KeySet, NEW p \in Perms \cup {"none"},
           links.primary[d] \in KeySet,
           links.key[new] = Unlinked \/ IsSecondaryKey(new, d)
    PROVE  LET M == RotatedLinks(d, new, p)
               old == links.primary[d]
           IN  /\ LinksAgree(M)
               /\ M.primary = [links.primary EXCEPT ![d] = new]
               /\ M.key = [links.key EXCEPT ![new] = PrimaryKey(d),
                              ![old] = IF p = "none" THEN Unlinked ELSE SecondaryKey(d, p)]
               /\ links.key[old] = PrimaryKey(d)
<1> DEFINE M == RotatedLinks(d, new, p)
           old == links.primary[d]
           left == IF p = "none" THEN Unlinked ELSE SecondaryKey(d, p)
           L == [key |-> [links.key EXCEPT ![new] = PrimaryKey(d)],
                 didKeys |-> [links.didKeys EXCEPT ![d] = @ \cup {new}],
                 primary |-> [links.primary EXCEPT ![d] = new]]
<1>1. links.primary[d] # NoDid
  BY KeysAssumption
<1>2. links.key[old] = PrimaryKey(d)
  BY <1>1 DEF LinksAgree
<1>3. old # new
  BY <1>2, SMTT(60) DEF PrimaryKey, Unlinked, IsSecondaryKey
<1>4. L.key[old] = PrimaryKey(d) /\ L.primary[d] = new
  BY <1>2, <1>3, LinksFields
<1>5. M = IF p = "none" THEN RemoveKeyRecord(L, old, d)
          ELSE [L EXCEPT !.key = [@ EXCEPT ![old] = SecondaryKey(d, p)]]
  BY NewPrimary DEF RotatedLinks
<1>6. M = [key |-> [L.key EXCEPT ![old] = left],
           didKeys |-> [links.didKeys EXCEPT ![d] = IF p = "none" THEN (@ \cup {new}) \ {old}
                                                    ELSE @ \cup {new}],
           primary |-> [links.primary EXCEPT ![d] = new]]
  <2>1. CASE p = "none"
    BY <2>1, <1>3, <1>4, <1>5, LinksFields, SMTT(60) DEF RemoveKeyRecord, PrimaryKey
  <2>2. CASE p # "none"
    BY <2>2, <1>5, LinksFields
  <2> QED BY <2>1, <2>2
<1>7. left \in KeyRecord /\ PrimaryKey(d) \in KeyRecord
  BY SMTT(60) DEF KeyRecord, Perms
<1>8. M \in Links
  BY <1>6, <1>7, LinksFields, SMTT(60) DEF Links
<1>9. \A x \in KeySet : M.key[x] = IF x = old THEN left ELSE IF x = new THEN PrimaryKey(d) ELSE links.key[x]
  BY <1>6, LinksFields, SMTT(60)
<1>10. \A e \in Dids, x \in KeySet :
         LinkedIn(M, x, e) <=> \/ x = old /\ e = d /\ p # "none"
                               \/ x = new /\ e = d
                               \/ x # old /\ x # new /\ LinkedIn(links, x, e)
  BY <1>3, <1>9, SMTT(60) DEF LinkedIn, PrimaryKey, SecondaryKey, Unlinked
<1>11. \A e \in Dids, x \in KeySet : LinkedIn(links, x, e) /\ x \in {old, new} => e = d
  BY <1>2, SMTT(60) DEF LinkedIn, PrimaryKey, Unlinked, IsSecondaryKey
<1>12. /\ old \in links.didKeys[d]
       /\ \A e \in Dids : links.didKeys[e] = {x \in KeySet : LinkedIn(links, x, e)}
  BY <1>2, SMTT(60) DEF LinksAgree, LinkedIn, PrimaryKey
<1>13. \A e \in Dids : M.didKeys[e] = {x \in KeySet : LinkedIn(M, x, e)}
  <2>1. /\ \A e \in Dids : e # d => M.didKeys[e] = links.didKeys[e]
        /\ M.didKeys[d] = IF p = "none" THEN (links.didKeys[d] \cup {new}) \ {old}
                          ELSE links.didKeys[d] \cup {new}
    BY <1>6, LinksFields, SMTT(60)
  <2> HIDE DEF M, left, L, old
  <2>2. \A e \in Dids : e # d => M.didKeys[e] = {x \in KeySet : LinkedIn(M, x, e)}
    BY <1>10, <1>11, <1>12, <2>1
  <2>3. M.didKeys[d] = {x \in KeySet : LinkedIn(M, x, d)}
    BY <1>3, <1>10, <1>12, <2>1, SMTT(60)
  <2> QED BY <2>2, <2>3
<1>14. \A e \in Dids, x \in KeySet :
         M.key[x] = PrimaryKey(e) <=> \/ x = new /\ e = d
                                      \/ x # old /\ x # new /\ links.key[x] = PrimaryKey(e)
  BY <1>3, <1>9, SMTT(60) DEF PrimaryKey, SecondaryKey, Unlinked
<1>15. \A e \in Dids : IF M.primary[e] # NoDid
                       THEN {x \in KeySet : M.key[x] = PrimaryKey(e)} = {M.primary[e]}
                       ELSE \A x \in KeySet : ~ LinkedIn(M, x, e)
  <2>1. /\ \A e \in Dids : e # d => M.primary[e] = links.primary[e]
        /\ M.primary[d] = new
        /\ new # NoDid
    BY <1>6, LinksFields, KeysAssumption, SMTT(60)
  <2>2. \A e \in Dids, x \in KeySet : x \in {old, new} /\ links.key[x] = PrimaryKey(e) => e = d /\ x = old
    BY <1>2, SMTT(60) DEF PrimaryKey, Unlinked, IsSecondaryKey
  <2>3. \A x \in KeySet : links.key[x] = PrimaryKey(d) <=> x = old
    BY <1>1, <1>2 DEF LinksAgree
  <2> HIDE DEF M, left, L, old
  <2>4. \A e \in Dids, x \in KeySet : e # d => /\ M.key[x] = PrimaryKey(e) <=> links.key[x] = PrimaryKey(e)
                                               /\ LinkedIn(M, x, e) => LinkedIn(links, x, e)
    BY <1>10, <1>14, <2>2
  <2>5. {x \in KeySet : M.key[x] = PrimaryKey(d)} = {new}
    BY <1>14, <2>3
  <2> QED BY <2>1, <2>4, <2>5, SMTT(60) DEF LinksAgree
<1>16. LinksAgree(M)
  BY <1>8, <1>13, <1>15 DEF LinksAgree
<1>17. M.key = [links.key EXCEPT ![new] = PrimaryKey(d), ![old] = left]
  BY <1>6, SMTT(60)
<1> QED BY <1>2, <1>6, <1>16, <1>17, SMTT(60)

(***************************************************************************)
(* What the calls share.                                                   *)
(***************************************************************************)
\* No identity is ever forgotten.
Grows == \A d \in Dids : Exists(d) => Exists(d)'

\* Who signs a call is a key of an identity that exists.
LEMMA SignerLinked ==
    ASSUME LinksAgree(links), NEW k \in KeySet, NEW d \in Dids, SignedBy(k, d)
    PROVE  LinkedIn(links, k, d) /\ Exists(d)
<1>1. LinkedIn(links, k, d)
  BY KeysAssumption DEF SignedBy, GetIdentity, LinkedIn
<1> QED BY <1>1 DEF LinksAgree, Exists

\* A new authorization has a number that no other one has.
LEMMA AddAuthSound ==
    ASSUME AuthsSound, Grows, NEW from \in Dids, NEW target \in KeySet, NEW data,
           AddAuth(from, target, data), Exists(from)',
           data[1] \in {"JoinIdentity", "RotatePrimaryKeyToSecondary"} => data[2] \in Perms
    PROVE  AuthsSound'
<1> DEFINE new == [target |-> target, by |-> from, data |-> data]
<1>1. nextAuth \in AuthIds
  BY KeysAssumption, SMTT(60) DEF AuthsSound, AddAuth, AuthIds
<1>2. auths[nextAuth] = NoAuth
  BY <1>1, SMTT(60) DEF AuthsSound, AuthSound, AuthIds
<1>3. \A a \in AuthIds : auths'[a] = IF a = nextAuth THEN new ELSE auths[a]
  BY DEF AddAuth, AuthsSound
<1>4. auths' = [a \in AuthIds |-> auths'[a]]
  BY DEF AddAuth, AuthsSound
<1>5. nextAuth' \in Nat \ {0} /\ nextAuth' <= MaxAuths + 1 /\ nextAuth' = nextAuth + 1
  BY KeysAssumption, SMTT(60) DEF AddAuth, AuthsSound
<1>6. new # NoAuth /\ new.target = target /\ new.by = from /\ new.data = data
  BY KeysAssumption DEF NoAuth
<1>7. ASSUME NEW a \in AuthIds
      PROVE  AuthSound(a)'
  <2>1. CASE a = nextAuth
    <3>1. auths'[a] = new
      BY <2>1, <1>3
    <3>2. a < nextAuth'
      BY <2>1, <1>5, SMTT(60) DEF AuthsSound
    <3>3. links'.primary[from] # NoDid
      BY DEF Exists
    <3> HIDE DEF new
    <3> QED BY <3>1, <3>2, <3>3, <1>6 DEF AuthSound, Exists
  <2>2. CASE a # nextAuth
    <3>1. auths'[a] = auths[a]
      BY <2>2, <1>3
    <3>2. a < nextAuth => a < nextAuth'
      BY <1>5, SMTT(60) DEF AuthsSound, AuthIds
    <3> QED BY <3>1, <3>2 DEF AuthsSound, AuthSound, Grows, Exists
  <2> QED BY <2>1, <2>2
<1>8. GivenAgrees'
  <2> DEFINE Old == {b \in AuthIds : auths[b] # NoAuth}
             New == {b \in AuthIds : auths'[b] # NoAuth}
  <2>1. given' = {<<auths[a].by, a, auths[a].target>> : a \in Old} \cup {<<from, nextAuth, target>>}
    BY DEF AddAuth, AuthsSound, GivenAgrees
  <2>2. New = Old \cup {nextAuth} /\ nextAuth \notin Old
    BY <1>1, <1>2, <1>3, <1>6
  <2>3. auths'[nextAuth].by = from /\ auths'[nextAuth].target = target
    BY <1>1, <1>3, <1>6
  <2>4. \A a \in Old : auths'[a] = auths[a]
    BY <1>3, <2>2
  <2> HIDE DEF Old
  <2>5. given' = {<<auths'[a].by, a, auths'[a].target>> : a \in Old \cup {nextAuth}}
    BY <2>1, <2>3, <2>4
  <2> QED BY <2>2, <2>5 DEF GivenAgrees
<1> QED BY <1>4, <1>5, <1>7, <1>8 DEF AuthsSound

\* Authorizations that are used up, revoked or rejected are gone from both maps.
LEMMA RemoveAuthsSound ==
    ASSUME AuthsSound, Grows, NEW ids \in SUBSET AuthIds, RemoveAuths(ids),
           \A a \in ids : auths[a] # NoAuth
    PROVE  /\ AuthsSound'
           /\ \A a \in ids : auths'[a] = NoAuth
<1>1. \A a \in AuthIds : auths'[a] = IF a \in ids THEN NoAuth ELSE auths[a]
  BY DEF RemoveAuths
<1>2. auths' = [a \in AuthIds |-> auths'[a]] /\ nextAuth' = nextAuth
  BY DEF RemoveAuths
<1>3. ASSUME NEW a \in AuthIds
      PROVE  AuthSound(a)'
  BY <1>1, <1>2 DEF AuthsSound, AuthSound, Grows, Exists
<1>4. GivenAgrees'
  <2> DEFINE Old == {b \in AuthIds : auths[b] # NoAuth}
             New == {b \in AuthIds : auths'[b] # NoAuth}
  <2>1. given' = {<<auths[a].by, a, auths[a].target>> : a \in Old}
                   \ {<<auths[a].by, a, auths[a].target>> : a \in ids}
    BY DEF RemoveAuths, AuthsSound, GivenAgrees
  <2>2. New = Old \ ids /\ ids \subseteq Old
    BY <1>1
  <2>3. \A a \in Old \ ids : auths'[a] = auths[a]
    BY <1>1
  <2> HIDE DEF Old
  <2>4. given' = {<<auths'[a].by, a, auths'[a].target>> : a \in Old \ ids}
    BY <2>1, <2>2, <2>3, SMTT(60)
  <2> QED BY <2>2, <2>4 DEF GivenAgrees
<1> QED BY <1>1, <1>2, <1>3, <1>4 DEF AuthsSound

\* Calls that touch no authorization.
LEMMA KeepAuths ==
    ASSUME AuthsSound, Grows, UNCHANGED <<auths, given, nextAuth>>
    PROVE  AuthsSound'
BY DEF AuthsSound, AuthSound, Grows, Exists, GivenAgrees

\* Calls that leave the tree of identities alone.
LEMMA KeepChildren ==
    ASSUME ChildrenSound, Grows, UNCHANGED <<parentDid, childDid>>
    PROVE  ChildrenSound'
BY DEF ChildrenSound, Grows, NoGrandChildren

\* A new identity becomes the child of one that is nobody's child.
LEMMA LinkChildSound ==
    ASSUME ChildrenSound, Grows, NEW d \in Dids, NEW p \in Dids, ~ Exists(d), Exists(p), Exists(d)',
           parentDid[p] = NoDid, LinkChild(d, p)
    PROVE  ChildrenSound'
<1>1. parentDid[d] = NoDid /\ d # p
  BY SMTT(60) DEF ChildrenSound, NoGrandChildren
<1>2. \A c \in Dids : parentDid[c] # d
  BY DEF ChildrenSound, NoGrandChildren
<1>3. /\ parentDid' \in [Dids -> Dids \cup {NoDid}]
      /\ childDid' \in [Dids -> SUBSET Dids]
      /\ \A c \in Dids : parentDid'[c] = IF c = d THEN p ELSE parentDid[c]
      /\ \A q \in Dids : childDid'[q] = IF q = p THEN childDid[q] \cup {d} ELSE childDid[q]
  BY DEF LinkChild, ChildrenSound
<1>4. NoGrandChildren'
  BY <1>1, <1>2, <1>3, KeysAssumption, SMTT(60) DEF ChildrenSound, NoGrandChildren, Grows
<1> QED BY <1>3, <1>4 DEF ChildrenSound

(***************************************************************************)
(* The bodies of the action properties.                                    *)
(***************************************************************************)
LinkStep ==
    \A k \in KeySet, d \in Dids :
      (links.key[k] = Unlinked /\ Linked(k)' /\ links'.key[k].of = d /\ Exists(d)) =>
        \/ <<k, d>> \in consents \ consents'
        \/ \E a \in AuthIds : /\ auths[a] # NoAuth /\ auths'[a] = NoAuth
                              /\ auths[a].target = k /\ auths[a].by = d

RotateStep ==
    \A d \in Dids :
      (Exists(d) /\ links'.primary[d] # links.primary[d]) =>
        LET new == links'.primary[d]
            Used(b) == auths[b] # NoAuth /\ auths'[b] = NoAuth /\ auths[b].target = new
        IN  /\ \E a \in AuthIds : /\ Used(a) /\ auths[a].by = d
                                  /\ auths[a].data[1] \in {"RotatePrimaryKey",
                                                           "RotatePrimaryKeyToSecondary"}
            /\ cddRotation =>
                 \E c \in AuthIds : /\ Used(c) /\ auths[c].by \in CddProviders
                                    /\ auths[c].data = <<"AttestPrimaryKeyRotation", d>>

StayStep ==
    \A k \in KeySet :
      (refCount[k] > 0 /\ Linked(k)) => Linked(k)' /\ links'.key[k].of = links.key[k].of

\* The calls of the identity pallet leave the signers of multisigs alone.
SignersStay ==
    \A k \in KeySet :
      (links.key[k].kind = "Signer" \/ links'.key[k].kind = "Signer") => links'.key[k] = links.key[k]

StepAllowed == LinkStep /\ RotateStep /\ StayStep /\ SignersStay

\* A call that leaves the records alone.
LEMMA KeepLinks ==
    ASSUME LinksAgree(links), UNCHANGED links
    PROVE  LinksAgree(links') /\ Grows /\ StepAllowed
BY SMTT(60) DEF Grows, Exists, StepAllowed, LinkStep, RotateStep, StayStep, SignersStay, Linked, Unlinked

\* A key without an identity, or one that nothing refers to, becomes the
\* primary key of a new identity: nobody else's consent is needed.
LEMMA FreshPrimary ==
    ASSUME LinksAgree(links), NEW k \in KeySet, NEW d \in Dids, ~ Exists(d),
           links.key[k] = Unlinked \/ (links.key[k].kind = "Secondary" /\ refCount[k] = 0),
           links'.primary = [links.primary EXCEPT ![d] = k],
           links'.key = [links.key EXCEPT ![k] = PrimaryKey(d)]
    PROVE  Grows /\ Exists(d)' /\ StepAllowed
<1>1. \A e \in Dids : links'.primary[e] = IF e = d THEN k ELSE links.primary[e]
  BY LinksFields
<1>2. \A j \in KeySet : links'.key[j] = IF j = k THEN PrimaryKey(d) ELSE links.key[j]
  BY LinksFields
<1>3. k # NoDid /\ PrimaryKey(d).of = d /\ Unlinked.kind = "Unlinked"
  BY KeysAssumption DEF PrimaryKey, Unlinked
<1>4. Grows /\ Exists(d)'
  BY <1>1, <1>3 DEF Grows, Exists
<1>5. LinkStep
  BY <1>2, <1>3 DEF LinkStep, Linked, Exists
<1>6. RotateStep
  BY <1>1 DEF RotateStep, Exists
<1>7. StayStep
  BY <1>2, <1>3, SMTT(60) DEF StayStep, Linked
<1>8. SignersStay
  BY <1>2, <1>3, SMTT(60) DEF SignersStay, PrimaryKey
<1> QED BY <1>4, <1>5, <1>6, <1>7, <1>8 DEF StepAllowed

(***************************************************************************)
(* Every call keeps the invariant, and does to keys only what the action   *)
(* properties allow.                                                       *)
(***************************************************************************)
LEMMA AddAuthorizationSafe ==
    ASSUME KeysInv, NEW k \in KeySet, NEW o \in Offers, AddAuthorization(k, o[1], o[2])
    PROVE  KeysInv' /\ StepAllowed
<1>1. PICK d \in Dids :
         /\ EnsurePerms(k, d)
         /\ AddAuth(d, o[1], o[2])
         /\ UNCHANGED <<links, parentDid, childDid, frozenDids, refCount, consents, cdd, cddRotation>>
  BY DEF AddAuthorization
<1>2. LinksAgree(links') /\ Grows /\ StepAllowed
  BY <1>1, KeepLinks DEF KeysInv
<1>3. Exists(d)'
  BY <1>1, <1>2, SignerLinked DEF KeysInv, EnsurePerms, Grows
<1>4. AuthsSound'
  BY <1>1, <1>2, <1>3, AddAuthSound, KeysAssumption DEF KeysInv
<1>5. ChildrenSound'
  BY <1>1, <1>2, KeepChildren DEF KeysInv
<1> QED BY <1>1, <1>2, <1>4, <1>5 DEF KeysInv, RestTyped

LEMMA RemoveAuthorizationSafe ==
    ASSUME KeysInv, NEW k \in KeySet, NEW a \in AuthIds, RemoveAuthorization(k, a)
    PROVE  KeysInv' /\ StepAllowed
<1>1. /\ auths[a] # NoAuth /\ RemoveAuths({a})
      /\ UNCHANGED <<links, parentDid, childDid, frozenDids, refCount, consents, cdd, cddRotation>>
  BY DEF RemoveAuthorization
<1>2. LinksAgree(links') /\ Grows /\ StepAllowed
  BY <1>1, KeepLinks DEF KeysInv
<1>3. AuthsSound'
  BY <1>1, <1>2, RemoveAuthsSound DEF KeysInv
<1>4. ChildrenSound'
  BY <1>1, <1>2, KeepChildren DEF KeysInv
<1> QED BY <1>1, <1>2, <1>3, <1>4 DEF KeysInv, RestTyped

LEMMA CddRegisterDidSafe ==
    ASSUME KeysInv, NEW k \in KeySet, NEW t \in KeySet, NEW i \in KeySet \cup {NoKey},
           NEW v \in BOOLEAN, CddRegisterDid(k, t, i, v)
    PROVE  KeysInv' /\ StepAllowed
<1>1. PICK d \in Dids :
         /\ ~ Exists(d)
         /\ links.key[t] = Unlinked
         /\ links' = AddKeyRecord(links, t, PrimaryKey(d))
         /\ IF i = NoKey THEN UNCHANGED <<auths, given, nextAuth>>
            ELSE AddAuth(d, i, <<"JoinIdentity", "whole">>)
         /\ cdd' = IF v THEN cdd \cup {d} ELSE cdd
         /\ UNCHANGED <<parentDid, childDid, frozenDids, refCount, consents, cddRotation>>
  BY DEF CddRegisterDid, FreshDids
<1>2. /\ LinksAgree(links')
      /\ links'.primary = [links.primary EXCEPT ![d] = t]
      /\ links'.key = [links.key EXCEPT ![t] = PrimaryKey(d)]
  BY <1>1, AddPrimary, SMTT(60) DEF KeysInv, Exists
<1>3. Grows /\ Exists(d)' /\ StepAllowed
  BY <1>1, <1>2, FreshPrimary DEF KeysInv
<1>4. AuthsSound'
  <2>1. CASE i = NoKey
    BY <2>1, <1>1, <1>3, KeepAuths DEF KeysInv
  <2>2. CASE i # NoKey
    <3>1. i \in KeySet /\ AddAuth(d, i, <<"JoinIdentity", "whole">>)
      BY <2>2, <1>1
    <3>2. <<"JoinIdentity", "whole">>[2] \in Perms
      BY DEF Perms
    <3> QED BY <3>1, <3>2, <1>3, AddAuthSound DEF KeysInv
  <2> QED BY <2>1, <2>2
<1>5. ChildrenSound'
  BY <1>1, <1>3, KeepChildren DEF KeysInv
<1> QED BY <1>1, <1>2, <1>3, <1>4, <1>5 DEF KeysInv, RestTyped

LEMMA CreateChildIdentitySafe ==
    ASSUME KeysInv, NEW k \in KeySet, NEW sk \in KeySet, CreateChildIdentity(k, sk)
    PROVE  KeysInv' /\ StepAllowed
<1>1. PICK p \in Dids, d \in Dids :
         /\ ~ Exists(d)
         /\ EnsurePrimaryKey(k, p)
         /\ parentDid[p] = NoDid
         /\ IsSecondaryKey(sk, p)
         /\ UnlinkableFromDid(sk)
         /\ links' = AddKeyRecord(RemoveKeyRecord(links, sk, p), sk, PrimaryKey(d))
         /\ LinkChild(d, p)
         /\ UNCHANGED <<frozenDids, auths, given, nextAuth, refCount, consents, cdd, cddRotation>>
  BY DEF CreateChildIdentity, FreshDids
<1>2. PICK gone : gone = RemoveKeyRecord(links, sk, p)
  OBVIOUS
<1>3. /\ LinksAgree(gone) /\ gone.primary = links.primary
      /\ gone.key = [links.key EXCEPT ![sk] = Unlinked]
  BY <1>1, <1>2, RemoveSecondary, SMTT(60) DEF KeysInv, IsSecondaryKey
<1>4. gone.key[sk] = Unlinked /\ gone.primary[d] = NoDid
  BY <1>1, <1>3, LinksFields DEF KeysInv, Exists
<1>5. /\ LinksAgree(links')
      /\ links'.primary = [links.primary EXCEPT ![d] = sk]
      /\ links'.key = [links.key EXCEPT ![sk] = PrimaryKey(d)]
  <2>1. links' = AddKeyRecord(gone, sk, PrimaryKey(d))
    BY <1>1, <1>2
  <2>2. /\ LinksAgree(links')
        /\ links'.primary = [gone.primary EXCEPT ![d] = sk]
        /\ links'.key = [gone.key EXCEPT ![sk] = PrimaryKey(d)]
    <3>1. LinksAgree(gone)
      BY <1>3
    <3> HIDE <1>3
    <3> QED BY <2>1, <3>1, <1>4, AddPrimary, SMTT(60)
  <2> QED BY <2>2, <1>3, LinksFields DEF KeysInv
<1>6. Grows /\ Exists(d)' /\ StepAllowed
  BY <1>1, <1>5, FreshPrimary DEF KeysInv, UnlinkableFromDid, IsSecondaryKey
<1>7. AuthsSound'
  BY <1>1, <1>6, KeepAuths DEF KeysInv
<1>8. ChildrenSound'
  BY <1>1, <1>6, SignerLinked, LinkChildSound DEF KeysInv, EnsurePrimaryKey
<1> QED BY <1>1, <1>5, <1>6, <1>7, <1>8 DEF KeysInv, RestTyped

LEMMA CreateChildIdentitiesSafe ==
    ASSUME KeysInv, NEW k \in KeySet, NEW c \in KeySet, CreateChildIdentities(k, c)
    PROVE  KeysInv' /\ StepAllowed
<1>1. PICK p \in Dids, d \in Dids :
         /\ ~ Exists(d)
         /\ EnsurePrimaryKey(k, p)
         /\ parentDid[p] = NoDid
         /\ links.key[c] = Unlinked
         /\ consents' = {e \in consents : e[2] # p}
         /\ links' = AddKeyRecord(links, c, PrimaryKey(d))
         /\ LinkChild(d, p)
         /\ UNCHANGED <<frozenDids, auths, given, nextAuth, refCount, cdd, cddRotation>>
  BY DEF CreateChildIdentities, FreshDids
<1>2. /\ LinksAgree(links')
      /\ links'.primary = [links.primary EXCEPT ![d] = c]
      /\ links'.key = [links.key EXCEPT ![c] = PrimaryKey(d)]
  BY <1>1, AddPrimary, SMTT(60) DEF KeysInv, Exists
<1>3. Grows /\ Exists(d)' /\ StepAllowed
  BY <1>1, <1>2, FreshPrimary DEF KeysInv
<1>4. AuthsSound'
  BY <1>1, <1>3, KeepAuths DEF KeysInv
<1>5. ChildrenSound'
  BY <1>1, <1>3, SignerLinked, LinkChildSound DEF KeysInv, EnsurePrimaryKey
<1> QED BY <1>1, <1>2, <1>3, <1>4, <1>5 DEF KeysInv, RestTyped

LEMMA UnlinkChildIdentitySafe ==
    ASSUME KeysInv, NEW k \in KeySet, NEW c \in Dids, UnlinkChildIdentity(k, c)
    PROVE  KeysInv' /\ StepAllowed
<1>1. /\ parentDid[c] # NoDid
      /\ parentDid' = [parentDid EXCEPT ![c] = NoDid]
      /\ childDid' = [childDid EXCEPT ![parentDid[c]] = @ \ {c}]
      /\ UNCHANGED <<links, frozenDids, auths, given, nextAuth, refCount, consents, cdd, cddRotation>>
  BY DEF UnlinkChildIdentity
<1>2. LinksAgree(links') /\ Grows /\ StepAllowed
  BY <1>1, KeepLinks DEF KeysInv
<1>3. AuthsSound'
  BY <1>1, <1>2, KeepAuths DEF KeysInv
<1>4. ChildrenSound'
  <2>1. parentDid[c] \in Dids
    BY <1>1 DEF KeysInv, ChildrenSound
  <2>2. /\ parentDid' \in [Dids -> Dids \cup {NoDid}]
        /\ childDid' \in [Dids -> SUBSET Dids]
        /\ \A e \in Dids : parentDid'[e] = IF e = c THEN NoDid ELSE parentDid[e]
        /\ \A q \in Dids : childDid'[q] = IF q = parentDid[c] THEN childDid[q] \ {c} ELSE childDid[q]
    BY <1>1, <2>1 DEF KeysInv, ChildrenSound
  <2>3. NoGrandChildren'
    BY <1>1, <1>2, <2>1, <2>2, KeysAssumption, SMTT(60) DEF KeysInv, ChildrenSound, NoGrandChildren, Grows
  <2> QED BY <2>2, <2>3 DEF ChildrenSound
<1> QED BY <1>1, <1>2, <1>3, <1>4 DEF KeysInv, RestTyped

\* Calls that change neither the records nor authorizations nor the tree.
LEMMA OtherwiseSafe ==
    ASSUME KeysInv, UNCHANGED <<links, parentDid, childDid, auths, given, nextAuth>>, RestTyped'
    PROVE  KeysInv' /\ StepAllowed
<1>1. LinksAgree(links') /\ Grows /\ StepAllowed
  BY KeepLinks DEF KeysInv
<1>2. AuthsSound' /\ ChildrenSound'
  BY <1>1, KeepAuths, KeepChildren DEF KeysInv
<1> QED BY <1>1, <1>2 DEF KeysInv

LEMMA SignConsentSafe ==
    ASSUME KeysInv, NEW k \in KeySet, NEW d \in Dids, SignConsent(k, d)
    PROVE  KeysInv' /\ StepAllowed
<1>1. RestTyped'
  BY SMTT(60) DEF KeysInv, RestTyped, SignConsent
<1> QED BY <1>1, OtherwiseSafe DEF SignConsent

LEMMA SetFrozenSecondaryKeyFlagsSafe ==
    ASSUME KeysInv, NEW k \in KeySet, NEW f \in BOOLEAN, SetFrozenSecondaryKeyFlags(k, f)
    PROVE  KeysInv' /\ StepAllowed
<1>1. RestTyped'
  BY DEF KeysInv, RestTyped, SetFrozenSecondaryKeyFlags
<1> QED BY <1>1, OtherwiseSafe DEF SetFrozenSecondaryKeyFlags

LEMMA KeysEnvironmentSafe ==
    ASSUME KeysInv, KeysEnvironment
    PROVE  KeysInv' /\ StepAllowed
<1>1. CASE \E b \in RotationRules : ChangeCddRequirementForMkRotation(b)
  <2>1. RestTyped'
    BY <1>1, KeysAssumption DEF KeysInv, RestTyped, ChangeCddRequirementForMkRotation
  <2> QED BY <1>1, <2>1, OtherwiseSafe DEF ChangeCddRequirementForMkRotation
<1>2. CASE \E d \in VolatileCdd, v \in BOOLEAN : ChangeCdd(d, v)
  <2>1. RestTyped'
    BY <1>2, KeysAssumption DEF KeysInv, RestTyped, ChangeCdd
  <2> QED BY <1>2, <2>1, OtherwiseSafe DEF ChangeCdd
<1> QED BY <1>1, <1>2 DEF KeysEnvironment

LEMMA AddSecondaryKeysSafe ==
    ASSUME KeysInv, NEW k \in KeySet, NEW sk \in KeySet, NEW p \in Perms,
           AddSecondaryKeysWithAuthorization(k, sk, p)
    PROVE  KeysInv' /\ StepAllowed
<1>1. PICK d \in Dids :
         /\ EnsurePrimaryKey(k, d)
         /\ links.key[sk] = Unlinked
         /\ <<sk, d>> \in consents
         /\ consents' = {c \in consents : c[2] # d}
         /\ links' = AddKeyRecord(links, sk, SecondaryKey(d, p))
         /\ UNCHANGED <<parentDid, childDid, frozenDids, auths, given, nextAuth, refCount,
                        cdd, cddRotation>>
  BY DEF AddSecondaryKeysWithAuthorization
<1>2. /\ LinksAgree(links') /\ links'.primary = links.primary
      /\ links'.key = [links.key EXCEPT ![sk] = SecondaryKey(d, p)]
  BY <1>1, SignerLinked, AddSecondary, SMTT(60) DEF KeysInv, Exists, EnsurePrimaryKey
<1>3. Grows /\ RotateStep
  BY <1>2 DEF Grows, Exists, RotateStep
<1>4. \A j \in KeySet : links'.key[j] = IF j = sk THEN SecondaryKey(d, p) ELSE links.key[j]
  BY <1>2, LinksFields DEF KeysInv
<1>5. <<sk, d>> \in consents \ consents'
  BY <1>1
<1>6. SecondaryKey(d, p).of = d /\ Unlinked.kind = "Unlinked"
  BY DEF SecondaryKey, Unlinked
<1>7. LinkStep
  BY <1>4, <1>5, <1>6 DEF LinkStep, Linked
<1>8. StayStep
  BY <1>1, <1>4, <1>6 DEF StayStep, Linked
<1>9. AuthsSound' /\ ChildrenSound'
  BY <1>1, <1>3, KeepAuths, KeepChildren DEF KeysInv
<1>10. SignersStay
  BY <1>1, <1>4, <1>6, SMTT(60) DEF SignersStay, SecondaryKey
<1> QED BY <1>1, <1>2, <1>3, <1>7, <1>8, <1>9, <1>10 DEF KeysInv, RestTyped, StepAllowed

\* A secondary key that nothing refers to is removed, by the identity or by itself.
LEMMA RemovedKeySafe ==
    ASSUME KeysInv, NEW sk \in KeySet, NEW d \in Dids,
           IsSecondaryKey(sk, d), UnlinkableFromDid(sk), links' = RemoveKeyRecord(links, sk, d),
           UNCHANGED <<parentDid, childDid, frozenDids, auths, given, nextAuth, refCount,
                       consents, cdd, cddRotation>>
    PROVE  KeysInv' /\ StepAllowed
<1>1. /\ LinksAgree(links') /\ links'.primary = links.primary
      /\ links'.key = [links.key EXCEPT ![sk] = Unlinked]
  BY RemoveSecondary DEF KeysInv, IsSecondaryKey
<1>2. Grows /\ RotateStep
  BY <1>1 DEF Grows, Exists, RotateStep
<1>3. \A j \in KeySet : links'.key[j] = IF j = sk THEN Unlinked ELSE links.key[j]
  BY <1>1, LinksFields DEF KeysInv
<1>4. Unlinked.kind = "Unlinked"
  BY DEF Unlinked
<1>5. LinkStep
  BY <1>3, <1>4 DEF LinkStep, Linked
<1>6. StayStep
  BY <1>3, <1>4, SMTT(60) DEF StayStep, Linked, UnlinkableFromDid
<1>7. AuthsSound' /\ ChildrenSound'
  BY <1>2, KeepAuths, KeepChildren DEF KeysInv
<1>8. SignersStay
  BY <1>3, <1>4 DEF SignersStay, IsSecondaryKey
<1> QED BY <1>1, <1>2, <1>5, <1>6, <1>7, <1>8 DEF KeysInv, RestTyped, StepAllowed

LEMMA SetSecondaryKeyPermissionsSafe ==
    ASSUME KeysInv, NEW k \in KeySet, NEW sk \in KeySet, NEW p \in Perms,
           SetSecondaryKeyPermissions(k, sk, p)
    PROVE  KeysInv' /\ StepAllowed
<1>1. PICK d \in Dids :
         /\ IsSecondaryKey(sk, d)
         /\ links' = [links EXCEPT !.key = [@ EXCEPT ![sk] = SecondaryKey(d, p)]]
         /\ UNCHANGED <<parentDid, childDid, frozenDids, auths, given, nextAuth, refCount,
                        consents, cdd, cddRotation>>
  BY DEF SetSecondaryKeyPermissions
<1>2. /\ LinksAgree(links') /\ links'.primary = links.primary
      /\ links'.key = [links.key EXCEPT ![sk] = SecondaryKey(d, p)]
  BY <1>1, PermitSecondary, SMTT(60) DEF KeysInv, IsSecondaryKey
<1>3. Grows /\ RotateStep
  BY <1>2 DEF Grows, Exists, RotateStep
<1>4. \A j \in KeySet : links'.key[j] = IF j = sk THEN SecondaryKey(d, p) ELSE links.key[j]
  BY <1>2, LinksFields DEF KeysInv
<1>5. SecondaryKey(d, p).of = d /\ SecondaryKey(d, p).kind = "Secondary" /\ Unlinked.kind = "Unlinked"
  BY DEF SecondaryKey, Unlinked
<1>6. LinkStep
  BY <1>1, <1>4, <1>5 DEF LinkStep, Linked, IsSecondaryKey
<1>7. StayStep
  BY <1>1, <1>4, <1>5 DEF StayStep, Linked, IsSecondaryKey
<1>8. AuthsSound' /\ ChildrenSound'
  BY <1>1, <1>3, KeepAuths, KeepChildren DEF KeysInv
<1>9. SignersStay
  BY <1>1, <1>4, <1>5 DEF SignersStay, IsSecondaryKey
<1> QED BY <1>1, <1>2, <1>3, <1>6, <1>7, <1>8, <1>9 DEF KeysInv, RestTyped, StepAllowed

LEMMA JoinIdentitySafe ==
    ASSUME KeysInv, NEW k \in KeySet, NEW a \in AuthIds, JoinIdentity(k, a)
    PROVE  KeysInv' /\ StepAllowed
<1> DEFINE d == auths[a].by
           p == auths[a].data[2]
<1>1. /\ auths[a] # NoAuth /\ auths[a].target = k /\ auths[a].data[1] = "JoinIdentity"
      /\ links.key[k] = Unlinked
      /\ links' = AddKeyRecord(links, k, SecondaryKey(d, p))
      /\ RemoveAuths({a})
      /\ UNCHANGED <<parentDid, childDid, frozenDids, refCount, consents, cdd, cddRotation>>
  BY DEF JoinIdentity, CanAccept
<1>2. d \in Dids /\ p \in Perms /\ links.primary[d] # NoDid
  BY <1>1 DEF KeysInv, AuthsSound, AuthSound, Exists
<1> HIDE DEF d, p
<1>3. /\ LinksAgree(links') /\ links'.primary = links.primary
      /\ links'.key = [links.key EXCEPT ![k] = SecondaryKey(d, p)]
  BY <1>1, <1>2, AddSecondary, SMTT(60) DEF KeysInv
<1>4. Grows /\ RotateStep
  BY <1>3 DEF Grows, Exists, RotateStep
<1>5. \A j \in KeySet : links'.key[j] = IF j = k THEN SecondaryKey(d, p) ELSE links.key[j]
  BY <1>3, LinksFields DEF KeysInv
<1>6. AuthsSound' /\ auths'[a] = NoAuth
  BY <1>1, <1>4, RemoveAuthsSound DEF KeysInv
<1>7. SecondaryKey(d, p).of = d /\ Unlinked.kind = "Unlinked"
  BY DEF SecondaryKey, Unlinked
<1>8. LinkStep
  BY <1>1, <1>5, <1>6, <1>7, SMTT(60) DEF LinkStep, Linked, d
<1>9. StayStep
  BY <1>1, <1>5, <1>7 DEF StayStep, Linked
<1>10. ChildrenSound'
  BY <1>1, <1>4, KeepChildren DEF KeysInv
<1>11. SignersStay
  BY <1>1, <1>5, <1>7, SMTT(60) DEF SignersStay, SecondaryKey
<1> QED BY <1>1, <1>3, <1>4, <1>6, <1>8, <1>9, <1>10, <1>11 DEF KeysInv, RestTyped, StepAllowed

\* What a rotation leaves in the records, key by key.
RecordsRotated(d, k, p) ==
    /\ LinksAgree(links') /\ links.key[links.primary[d]] = PrimaryKey(d)
    /\ \A j \in KeySet :
         links'.key[j] = IF j = links.primary[d]
                         THEN IF p = "none" THEN Unlinked ELSE SecondaryKey(d, p)
                         ELSE IF j = k THEN PrimaryKey(d) ELSE links.key[j]
    /\ \A e \in Dids : links'.primary[e] = IF e = d THEN k ELSE links.primary[e]

LEMMA RotatedRecords ==
    ASSUME LinksAgree(links), NEW d \in Dids, NEW k \in KeySet, NEW p \in Perms \cup {"none"},
           links.primary[d] \in KeySet, links.key[k] = Unlinked \/ IsSecondaryKey(k, d),
           links' = RotatedLinks(d, k, p)
    PROVE  RecordsRotated(d, k, p)
<1> DEFINE old == links.primary[d]
           left == IF p = "none" THEN Unlinked ELSE SecondaryKey(d, p)
<1>1. /\ LinksAgree(links')
      /\ links'.primary = [links.primary EXCEPT ![d] = k]
      /\ links'.key = [links.key EXCEPT ![k] = PrimaryKey(d), ![old] = left]
      /\ links.key[old] = PrimaryKey(d)
  BY Rotation, SMTT(60)
<1> HIDE DEF old, left
<1>2. k # old
  <2>1. PrimaryKey(d).kind = "Primary" /\ Unlinked.kind = "Unlinked"
    BY DEF PrimaryKey, Unlinked
  <2> QED BY <1>1, <2>1, SMTT(60) DEF IsSecondaryKey
<1>3. links.key \in [KeySet -> KeyRecord] /\ old \in KeySet /\ links.primary \in [Dids -> KeySet \cup {NoKey, NoDid}]
  BY LinksFields DEF old
<1>4. \A j \in KeySet : links'.key[j] = IF j = old THEN left
                                        ELSE IF j = k THEN PrimaryKey(d) ELSE links.key[j]
  BY <1>1, <1>2, <1>3, SMTT(60)
<1>5. \A e \in Dids : links'.primary[e] = IF e = d THEN k ELSE links.primary[e]
  BY <1>1, <1>3, SMTT(60)
<1> QED BY <1>1, <1>4, <1>5 DEF RecordsRotated, old, left

\* Both ways to take over as the primary key: the old one is dropped (p is
\* "none") or becomes a secondary key with permissions p.
LEMMA RotationSafe ==
    ASSUME KeysInv, NEW k \in KeySet, NEW a \in AuthIds, NEW c \in AuthIds \cup {0},
           NEW p \in Perms \cup {"none"}, auths[a] # NoAuth, auths[a].target = k,
           auths[a].data[1] \in {"RotatePrimaryKey", "RotatePrimaryKeyToSecondary"},
           CanRotate(auths[a].by, k, p, c),
           links' = RotatedLinks(auths[a].by, k, p),
           RemoveAuths(UsedAuths(a, c)),
           UNCHANGED <<parentDid, childDid, frozenDids, refCount, consents, cdd, cddRotation>>
    PROVE  KeysInv' /\ StepAllowed
<1> DEFINE d == auths[a].by
           old == links.primary[d]
           left == IF p = "none" THEN Unlinked ELSE SecondaryKey(d, p)
<1>1. d \in Dids /\ Exists(d)
  BY DEF KeysInv, AuthsSound, AuthSound
<1>2. /\ old \in KeySet
      /\ links.key[k] = Unlinked \/ IsSecondaryKey(k, d)
      /\ p = "none" => refCount[old] = 0
      /\ cddRotation => /\ c \in AuthIds /\ auths[c] # NoAuth /\ auths[c].target = k
                        /\ auths[c].data = <<"AttestPrimaryKeyRotation", d>>
                        /\ auths[c].by \in CddProviders
  BY DEF CanRotate, UnlinkableFromDid
<1>3. /\ LinksAgree(links') /\ links.key[old] = PrimaryKey(d)
      /\ \A j \in KeySet : links'.key[j] = IF j = old THEN left
                                            ELSE IF j = k THEN PrimaryKey(d) ELSE links.key[j]
      /\ \A e \in Dids : links'.primary[e] = IF e = d THEN k ELSE links.primary[e]
  <2>1. LinksAgree(links)
    BY DEF KeysInv
  <2>2. RecordsRotated(d, k, p)
    BY <1>1, <1>2, <2>1, RotatedRecords
  <2> QED BY <2>2 DEF RecordsRotated
<1>4. UsedAuths(a, c) \in SUBSET AuthIds /\ \A b \in UsedAuths(a, c) : auths[b] # NoAuth
  BY <1>2 DEF UsedAuths
<1>5. a \in UsedAuths(a, c) /\ (cddRotation => c \in UsedAuths(a, c))
  BY DEF UsedAuths
<1>6. PrimaryKey(d).of = d /\ PrimaryKey(d).kind = "Primary" /\ Unlinked.kind = "Unlinked"
  BY DEF PrimaryKey, Unlinked
<1>7. SecondaryKey(d, p).of = d /\ SecondaryKey(d, p).kind = "Secondary"
  BY DEF SecondaryKey
<1>8. (p = "none" => left = Unlinked) /\ (p # "none" => left = SecondaryKey(d, p))
  OBVIOUS
<1> HIDE DEF left
<1>9. Grows
  <2>1. k # NoDid
    BY KeysAssumption
  <2> QED BY <1>3, <2>1 DEF Grows, Exists
<1>10. AuthsSound' /\ \A b \in UsedAuths(a, c) : auths'[b] = NoAuth
  BY <1>4, <1>9, RemoveAuthsSound DEF KeysInv
<1>11. LinkStep
  <2>1. SUFFICES ASSUME NEW j \in KeySet, NEW e \in Dids, links.key[j] = Unlinked, Linked(j)',
                        links'.key[j].of = e
                 PROVE  \E b \in AuthIds : /\ auths[b] # NoAuth /\ auths'[b] = NoAuth
                                           /\ auths[b].target = j /\ auths[b].by = e
    BY DEF LinkStep
  <2>2. links'.key[j] # links.key[j]
    BY <2>1, <1>6 DEF Linked
  <2>3. j # old
    BY <2>1, <1>3, <1>6
  <2>4. j = k /\ links'.key[j] = PrimaryKey(d)
    BY <2>2, <2>3, <1>3
  <2>5. e = d
    BY <2>1, <2>4, <1>6
  <2> QED BY <2>4, <2>5, <1>5, <1>10
<1>12. RotateStep
  <2>1. SUFFICES ASSUME NEW e \in Dids, Exists(e), links'.primary[e] # links.primary[e]
                 PROVE  LET new == links'.primary[e]
                            Used(b) == auths[b] # NoAuth /\ auths'[b] = NoAuth /\ auths[b].target = new
                        IN  /\ \E b \in AuthIds : /\ Used(b) /\ auths[b].by = e
                                                  /\ auths[b].data[1] \in {"RotatePrimaryKey",
                                                                  "RotatePrimaryKeyToSecondary"}
                            /\ cddRotation =>
                                 \E b \in AuthIds : /\ Used(b) /\ auths[b].by \in CddProviders
                                                    /\ auths[b].data = <<"AttestPrimaryKeyRotation", e>>
    BY DEF RotateStep
  <2>2. e = d /\ links'.primary[e] = k
    BY <2>1, <1>3
  <2> QED BY <2>2, <1>2, <1>5, <1>10
<1>13. StayStep
  <2>1. SUFFICES ASSUME NEW j \in KeySet, refCount[j] > 0, Linked(j)
                 PROVE  Linked(j)' /\ links'.key[j].of = links.key[j].of
    BY DEF StayStep
  <2>2. CASE j = old
    <3>1. p # "none"
      <4>1. SUFFICES ASSUME p = "none" PROVE FALSE
        OBVIOUS
      <4>2. refCount[j] = 0
        BY <4>1, <2>2, <1>2
      <4> QED BY <4>2, <2>1, SMTT(60)
    <3>2. links'.key[j] = SecondaryKey(d, p)
      BY <3>1, <2>2, <1>8, <1>3
    <3>3. links'.key[j].kind = "Secondary" /\ links'.key[j].of = d
      BY <3>2, <1>7
    <3>4. links.key[j].of = d
      BY <2>2, <1>3, <1>6
    <3> QED BY <3>3, <3>4 DEF Linked
  <2>3. CASE j # old /\ j = k
    BY <2>1, <2>3, <1>2, <1>6, <1>3 DEF Linked, IsSecondaryKey
  <2>4. CASE j # old /\ j # k
    BY <2>1, <2>4, <1>3 DEF Linked
  <2> QED BY <2>2, <2>3, <2>4
<1>14. ChildrenSound'
  BY <1>9, KeepChildren DEF KeysInv
<1>15. SignersStay
  <2>1. SUFFICES ASSUME NEW j \in KeySet,
                        links.key[j].kind = "Signer" \/ links'.key[j].kind = "Signer"
                 PROVE  links'.key[j] = links.key[j]
    BY DEF SignersStay
  <2>2. CASE j = old
    <3>1. links.key[j].kind = "Primary"
      BY <2>2, <1>3, <1>6
    <3>2. links'.key[j] = left
      BY <2>2, <1>3
    <3>3. left.kind \in {"Unlinked", "Secondary"}
      BY <1>6, <1>7, <1>8
    <3> QED BY <2>1, <3>1, <3>2, <3>3
  <2>3. CASE j # old /\ j = k
    <3>1. links.key[j].kind \in {"Unlinked", "Secondary"}
      BY <2>3, <1>2, <1>6 DEF IsSecondaryKey
    <3>2. links'.key[j].kind = "Primary"
      BY <2>3, <1>6, <1>3
    <3> QED BY <2>1, <3>1, <3>2
  <2>4. CASE j # old /\ j # k
    BY <2>4, <1>3
  <2> QED BY <2>2, <2>3, <2>4
<1> QED BY <1>3, <1>10, <1>11, <1>12, <1>13, <1>14, <1>15 DEF KeysInv, RestTyped, StepAllowed

(***************************************************************************)
(* The invariant.                                                          *)
(***************************************************************************)
\* The identities of genesis have one primary key each.
LEMMA GenesisAgrees == LinksAgree(GenesisLinks)
<1> DEFINE G == GenesisLinks
           Of(k) == CHOOSE d \in DOMAIN GenesisKey : GenesisKey[d] = k
<1>1. \A d \in DOMAIN GenesisKey : Of(GenesisKey[d]) = d /\ GenesisKey[d] \in KeySet
  BY KeysAssumption
<1>2. \A k \in KeySet : (\E d \in DOMAIN GenesisKey : GenesisKey[d] = k)
                           => Of(k) \in DOMAIN GenesisKey /\ GenesisKey[Of(k)] = k
  OBVIOUS
<1> HIDE DEF Of
<1>3. /\ G.key = [k \in KeySet |-> IF \E d \in DOMAIN GenesisKey : GenesisKey[d] = k
                                   THEN PrimaryKey(Of(k)) ELSE Unlinked]
      /\ G.didKeys = [d \in Dids |-> IF d \in DOMAIN GenesisKey THEN {GenesisKey[d]} ELSE {}]
      /\ G.primary = [d \in Dids |-> IF d \in DOMAIN GenesisKey THEN GenesisKey[d] ELSE NoDid]
      /\ G = [key |-> G.key, didKeys |-> G.didKeys, primary |-> G.primary]
  BY DEF GenesisLinks, Of
<1> HIDE DEF G
<1>4. G.key \in [KeySet -> KeyRecord]
  BY <1>2, <1>3, KeysAssumption, SMTT(60) DEF KeyRecord
<1>5. G \in Links
  BY <1>3, <1>4, KeysAssumption, SMTT(60) DEF Links
<1>6. \A k \in KeySet, d \in Dids :
         LinkedIn(G, k, d) <=> d \in DOMAIN GenesisKey /\ GenesisKey[d] = k
  BY <1>1, <1>2, <1>3, SMTT(60) DEF LinkedIn, PrimaryKey, Unlinked
<1>7. \A k \in KeySet, d \in Dids : G.key[k] = PrimaryKey(d) <=> LinkedIn(G, k, d)
  BY <1>2, <1>3, SMTT(60) DEF LinkedIn, PrimaryKey, Unlinked
<1>8. \A d \in Dids : G.primary[d] # NoDid <=> d \in DOMAIN GenesisKey
  BY <1>1, <1>3, KeysAssumption, SMTT(60)
<1>9. \A d \in Dids : G.didKeys[d] = {k \in KeySet : LinkedIn(G, k, d)}
  BY <1>1, <1>3, <1>6, SMTT(60)
<1>10. ASSUME NEW d \in Dids
       PROVE  IF G.primary[d] # NoDid
              THEN {k \in KeySet : G.key[k] = PrimaryKey(d)} = {G.primary[d]}
              ELSE \A k \in KeySet : ~ LinkedIn(G, k, d)
  BY <1>1, <1>3, <1>6, <1>7, <1>8, SMTT(60)
<1> QED BY <1>5, <1>9, <1>10 DEF LinksAgree, G

LEMMA KeysInvHoldsInitially == KeysInit => KeysInv
<1> SUFFICES ASSUME KeysInit PROVE KeysInv
  OBVIOUS
<1>1. LinksAgree(links)
  BY GenesisAgrees DEF KeysInit
<1>2. AuthsSound
  BY KeysAssumption, SMTT(60) DEF KeysInit, AuthsSound, AuthSound, GivenAgrees
<1>3. ChildrenSound
  BY KeysAssumption DEF KeysInit, ChildrenSound, NoGrandChildren
<1>4. RestTyped
  BY KeysAssumption DEF KeysInit, RestTyped
<1> QED BY <1>1, <1>2, <1>3, <1>4 DEF KeysInv

\* One step per call of the identity pallet.
LEMMA KeyCallSafe ==
    ASSUME KeysInv, NEW k \in KeySet, KeyCall(k)
    PROVE  KeysInv' /\ StepAllowed
<1>1. CASE \E o \in Offers : AddAuthorization(k, o[1], o[2])
  BY <1>1, AddAuthorizationSafe
<1>2. CASE \E a \in AuthIds : RemoveAuthorization(k, a)
  BY <1>2, RemoveAuthorizationSafe
<1>3. CASE \E a \in AuthIds : JoinIdentity(k, a)
  BY <1>3, JoinIdentitySafe
<1>4. CASE \E a \in AuthIds, c \in AuthIds \cup {0} : AcceptPrimaryKey(k, a, c)
  BY <1>4, RotationSafe DEF AcceptPrimaryKey, CanAccept
<1>5. CASE \E a \in AuthIds, c \in AuthIds \cup {0} : RotatePrimaryKeyToSecondary(k, a, c)
  <2>1. PICK a \in AuthIds, c \in AuthIds \cup {0} : RotatePrimaryKeyToSecondary(k, a, c)
    BY <1>5
  <2>2. auths[a].data[2] \in Perms
    BY <2>1 DEF KeysInv, AuthsSound, AuthSound, RotatePrimaryKeyToSecondary, CanAccept
  <2> QED BY <2>1, <2>2, RotationSafe DEF RotatePrimaryKeyToSecondary, CanAccept
<1>6. CASE \E t \in KeySet, i \in KeySet \cup {NoKey}, v \in BOOLEAN : CddRegisterDid(k, t, i, v)
  BY <1>6, CddRegisterDidSafe
<1>7. CASE \E c \in KeySet : CreateChildIdentity(k, c)
  BY <1>7, CreateChildIdentitySafe
<1>8. CASE \E c \in KeySet : CreateChildIdentities(k, c)
  BY <1>8, CreateChildIdentitiesSafe
<1>9. CASE \E d \in Dids : UnlinkChildIdentity(k, d)
  BY <1>9, UnlinkChildIdentitySafe
<1>10. CASE \E d \in Dids : SignConsent(k, d)
  BY <1>10, SignConsentSafe
<1>11. CASE \E s \in KeySet, p \in Perms : AddSecondaryKeysWithAuthorization(k, s, p)
  BY <1>11, AddSecondaryKeysSafe
<1>12. CASE \E s \in KeySet, p \in Perms : SetSecondaryKeyPermissions(k, s, p)
  BY <1>12, SetSecondaryKeyPermissionsSafe
<1>13. CASE \E s \in KeySet : RemoveSecondaryKeys(k, s)
  BY <1>13, RemovedKeySafe DEF RemoveSecondaryKeys
<1>14. CASE LeaveIdentity(k)
  BY <1>14, RemovedKeySafe DEF LeaveIdentity
<1>15. CASE \E f \in BOOLEAN : SetFrozenSecondaryKeyFlags(k, f)
  BY <1>15, SetFrozenSecondaryKeyFlagsSafe
<1> QED BY <1>1, <1>2, <1>3, <1>4, <1>5, <1>6, <1>7, <1>8, <1>9, <1>10, <1>11, <1>12, <1>13,
           <1>14, <1>15 DEF KeyCall

LEMMA KeysStepSafe == KeysInv /\ [KeysNext]_keyVars => KeysInv' /\ [StepAllowed]_keyVars
<1> SUFFICES ASSUME KeysInv, [KeysNext]_keyVars PROVE KeysInv' /\ [StepAllowed]_keyVars
  OBVIOUS
<1>1. CASE KeysNext
  BY <1>1, KeyCallSafe, KeysEnvironmentSafe DEF KeysNext
<1>2. CASE UNCHANGED keyVars
  <2>1. RestTyped'
    BY <1>2 DEF KeysInv, RestTyped, keyVars
  <2> QED BY <1>2, <2>1, OtherwiseSafe DEF keyVars
<1> QED BY <1>1, <1>2

\* What the identity pallet's own calls leave to other pallets: the references to keys, and
\* authorizations other than the ones it makes.
AuthOrigin ==
    \A a \in AuthIds : \/ auths'[a] \in {auths[a], NoAuth}
                       \/ auths'[a].data[1] = "JoinIdentity"
                       \/ \E o \in Offers : auths'[a].data = o[2]

LEMMA AddAuthOrigin ==
    ASSUME AuthsSound, NEW from, NEW target, NEW data, AddAuth(from, target, data),
           data[1] = "JoinIdentity" \/ \E o \in Offers : data = o[2]
    PROVE  AuthOrigin
BY DEF AddAuth, AuthsSound, AuthOrigin

LEMMA RemoveAuthsOrigin ==
    ASSUME NEW ids, RemoveAuths(ids)
    PROVE  AuthOrigin
BY DEF RemoveAuths, AuthOrigin

LEMMA KeepAuthsOrigin ==
    ASSUME UNCHANGED auths
    PROVE  AuthOrigin
BY DEF AuthOrigin

LEMMA KeysLeaveToOthers ==
    ASSUME KeysInv, KeysNext
    PROVE  UNCHANGED refCount /\ AuthOrigin
<1>0. AuthsSound
  BY DEF KeysInv
<1>1. CASE KeysEnvironment
  BY <1>1, KeepAuthsOrigin DEF KeysEnvironment, ChangeCddRequirementForMkRotation, ChangeCdd
<1>2. ASSUME NEW k \in KeySet, KeyCall(k)
      PROVE  UNCHANGED refCount /\ AuthOrigin
  <2>1. CASE \E o \in Offers : AddAuthorization(k, o[1], o[2])
    BY <1>0, <2>1, AddAuthOrigin DEF AddAuthorization
  <2>2. CASE \E a \in AuthIds : RemoveAuthorization(k, a) \/ JoinIdentity(k, a)
    BY <2>2, RemoveAuthsOrigin DEF RemoveAuthorization, JoinIdentity
  <2>3. CASE \E a \in AuthIds, c \in AuthIds \cup {0} :
               AcceptPrimaryKey(k, a, c) \/ RotatePrimaryKeyToSecondary(k, a, c)
    BY <2>3, RemoveAuthsOrigin DEF AcceptPrimaryKey, RotatePrimaryKeyToSecondary
  <2>4. CASE \E t \in KeySet, i \in KeySet \cup {NoKey}, v \in BOOLEAN : CddRegisterDid(k, t, i, v)
    <3>1. PICK t \in KeySet, i \in KeySet \cup {NoKey}, v \in BOOLEAN : CddRegisterDid(k, t, i, v)
      BY <2>4
    <3>2. UNCHANGED refCount
      BY <3>1 DEF CddRegisterDid
    <3>3. CASE UNCHANGED auths
      BY <3>2, <3>3, KeepAuthsOrigin
    <3>4. CASE \E d : AddAuth(d, i, <<"JoinIdentity", "whole">>)
      BY <1>0, <3>2, <3>4, AddAuthOrigin
    <3> QED BY <3>1, <3>3, <3>4 DEF CddRegisterDid
  <2>5. CASE \E c \in KeySet : CreateChildIdentity(k, c) \/ CreateChildIdentities(k, c)
    BY <2>5, KeepAuthsOrigin DEF CreateChildIdentity, CreateChildIdentities
  <2>6. CASE \E d \in Dids : UnlinkChildIdentity(k, d) \/ SignConsent(k, d)
    BY <2>6, KeepAuthsOrigin DEF UnlinkChildIdentity, SignConsent
  <2>7. CASE \E s \in KeySet, p \in Perms :
               AddSecondaryKeysWithAuthorization(k, s, p) \/ SetSecondaryKeyPermissions(k, s, p)
    BY <2>7, KeepAuthsOrigin DEF AddSecondaryKeysWithAuthorization, SetSecondaryKeyPermissions
  <2>8. CASE \E s \in KeySet : RemoveSecondaryKeys(k, s)
    BY <2>8, KeepAuthsOrigin DEF RemoveSecondaryKeys
  <2>9. CASE LeaveIdentity(k) \/ \E f \in BOOLEAN : SetFrozenSecondaryKeyFlags(k, f)
    BY <2>9, KeepAuthsOrigin DEF LeaveIdentity, SetFrozenSecondaryKeyFlags
  <2> QED BY <1>2, <2>1, <2>2, <2>3, <2>4, <2>5, <2>6, <2>7, <2>8, <2>9 DEF KeyCall
<1> QED BY <1>1, <1>2 DEF KeysNext

LEMMA KeysInvHolds == KeysSpec => []KeysInv
BY KeysInvHoldsInitially, KeysStepSafe, PTL DEF KeysSpec

LEMMA KeysInvImpliesAgree == KeysInv => KeyMapsAgree
<1> SUFFICES ASSUME KeysInv PROVE KeyMapsAgree
  OBVIOUS
<1>1. DidKeysAgree /\ OnePrimaryKey
  BY DEF KeysInv, LinksAgree, LinkedIn, DidKeysAgree, OnePrimaryKey, Linked, Exists
<1>2. NoGrandChildren /\ GivenAgrees
  BY DEF KeysInv, ChildrenSound, AuthsSound
<1>3. given \subseteq Dids \X AuthIds \X KeySet
  <2>1. \A a \in {b \in AuthIds : auths[b] # NoAuth} :
           <<auths[a].by, a, auths[a].target>> \in Dids \X AuthIds \X KeySet
    BY DEF KeysInv, AuthsSound, AuthSound
  <2> QED BY <2>1, <1>2 DEF GivenAgrees
<1>4. nextAuth \in 1..(MaxAuths + 1)
  BY KeysAssumption, SMTT(60) DEF KeysInv, AuthsSound
<1>5. KeysTypeOK
  BY <1>3, <1>4 DEF KeysInv, LinksAgree, AuthsSound, AuthSound, ChildrenSound, RestTyped, KeysTypeOK
<1> QED BY <1>1, <1>2, <1>5 DEF KeyMapsAgree

(***************************************************************************)
(* The maps the identity pallet keeps about keys, identities, children and *)
(* authorizations agree after any sequence of its calls: each call writes  *)
(* several of them one by one (keys.rs, auth.rs).                          *)
(***************************************************************************)
THEOREM KeyMapsAlwaysAgree == KeysSpec => []KeyMapsAgree
BY KeysInvHolds, KeysInvImpliesAgree, PTL

(***************************************************************************)
(* No call links a key to an identity that exists, or makes it its primary *)
(* key, without using up that identity's consent to it (and, where the     *)
(* chain asks for one, the attestation of a CDD provider for the same      *)
(* identity), whatever was rotated, revoked or removed before.             *)
(***************************************************************************)
THEOREM KeysAlwaysNeedConsent == KeysSpec => KeysNeedConsent
<1>1. KeysInv /\ [KeysNext]_keyVars => [LinkStep]_keyVars
  BY KeysStepSafe DEF StepAllowed
<1>2. KeysInv /\ [KeysNext]_keyVars => [RotateStep]_keyVars
  BY KeysStepSafe DEF StepAllowed
<1>3. LinkUsesUpConsent <=> [][LinkStep]_keyVars
  BY PTL DEF LinkUsesUpConsent, LinkStep
<1>4. RotationAuthorized <=> [][RotateStep]_keyVars
  BY PTL DEF RotationAuthorized, RotateStep
<1> QED BY <1>1, <1>2, <1>3, <1>4, KeysInvHolds, PTL DEF KeysSpec, KeysNeedConsent

(***************************************************************************)
(* A key that other pallets hold a strong reference to (AccountKeyRefCount *)
(* of the account of a multisig, of a key that pays for others) stays with *)
(* its identity in every call, rotation included, whichever references     *)
(* there are: Keys itself takes none, so this is said of its steps.        *)
(***************************************************************************)
THEOREM ReferencedKeysStay == KeysInv /\ KeysNext => StayStep
BY KeyCallSafe, KeysEnvironmentSafe DEF KeysNext, StepAllowed
=============================================================================
