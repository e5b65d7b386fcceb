---------------------------- MODULE RelayerProofs ---------------------------
(***************************************************************************)
(* Theorems about Relayer, for any keys, identities and limits, on top of  *)
(* the ones about Keys.  The inductive invariant is RelayerInv: KeysInv,   *)
(* SubsidyBooksExact, that an offer to pay is well formed, and that the    *)
(* subsidy of the transaction being applied is still there.                *)
(***************************************************************************)
EXTENDS Relayer, KeysProofs, FiniteSetTheorems

\* Steps are Zenon's unless they cite the SMT solver.
USE ZenonT(60)

\* The users a key pays for.
PaidBy(S, k) == {u \in KeySet : S[u].payingKey = k}

OffersSound == \A a \in AuthIds : auths[a].data[1] = "AddRelayerPayingKey" => auths[a].data \in SubsidyOffers

References == \A k \in KeySet : refCount[k] = Cardinality(PaidBy(subsidies, k)) + (IF IsSubsidised(k) THEN 1 ELSE 0)

RelayerInv ==
    /\ KeysInv
    /\ RelayerTypeOK
    /\ References
    /\ SubsidyKeysLinked
    /\ OffersSound
    /\ tx # NoTx => IsSubsidised(tx.payer)

(***************************************************************************)
(* Subsidies.                                                              *)
(***************************************************************************)
Subsidised == [KeySet -> Subsidy \cup {NoSubsidy}]

\* A key is subsidised when a key pays for it.
LEMMA SubsidyKinds ==
    ASSUME NEW s \in Subsidy \cup {NoSubsidy}
    PROVE  /\ s # NoSubsidy <=> s \in Subsidy
           /\ s # NoSubsidy <=> s.payingKey \in KeySet
           /\ s.payingKey \in KeySet \cup {NoKey} /\ s.remaining \in 0..MaxLimit
           /\ s = [payingKey |-> s.payingKey, remaining |-> s.remaining]
<1>1. NoKey \notin KeySet /\ Payers \subseteq KeySet /\ MaxLimit \in Nat
  BY KeysAssumption, RelayerAssumption
<1>2. NoSubsidy.payingKey = NoKey /\ NoSubsidy.remaining = 0
  BY DEF NoSubsidy
<1>3. CASE s = NoSubsidy
  BY <1>1, <1>2, <1>3, SMTT(60) DEF Subsidy, NoSubsidy
<1>4. CASE s \in Subsidy
  <2>1. s.payingKey \in KeySet /\ s.remaining \in 0..MaxLimit
    BY <1>1, <1>4 DEF Subsidy
  <2>2. s = [payingKey |-> s.payingKey, remaining |-> s.remaining]
    BY <1>4 DEF Subsidy
  <2>3. s # NoSubsidy
    BY <1>1, <1>2, <2>1
  <2> QED BY <1>4, <2>1, <2>2, <2>3
<1> QED BY <1>3, <1>4

\* How the number of users a key pays for changes when one user's payer does.
LEMMA PaidCount ==
    ASSUME NEW S \in Subsidised, NEW T \in Subsidised, NEW u \in KeySet,
           \A v \in KeySet \ {u} : T[v] = S[v], NEW k \in KeySet
    PROVE  /\ Cardinality(PaidBy(S, k)) \in Nat
           /\ S[u].payingKey = k => Cardinality(PaidBy(S, k)) > 0
           /\ Cardinality(PaidBy(T, k)) =
                Cardinality(PaidBy(S, k)) + (IF T[u].payingKey = k THEN 1 ELSE 0)
                                          - (IF S[u].payingKey = k THEN 1 ELSE 0)
<1>1. IsFiniteSet(PaidBy(S, k)) /\ IsFiniteSet(PaidBy(T, k))
  BY RelayerAssumption, FS_Subset DEF PaidBy
<1>2. Cardinality(PaidBy(S, k)) \in Nat
  BY <1>1, FS_CardinalityType
<1>3. S[u].payingKey = k => Cardinality(PaidBy(S, k)) > 0
  <2>1. S[u].payingKey = k => PaidBy(S, k) # {}
    BY DEF PaidBy
  <2> QED BY <1>1, <1>2, <2>1, FS_EmptySet, SMTT(60)
<1>4. CASE S[u].payingKey = k /\ T[u].payingKey # k
  <2>1. PaidBy(T, k) = PaidBy(S, k) \ {u} /\ u \in PaidBy(S, k)
    BY <1>4, SMTT(60) DEF PaidBy
  <2>2. Cardinality(PaidBy(T, k)) = Cardinality(PaidBy(S, k)) - 1
    BY <1>1, <2>1, FS_RemoveElement
  <2> QED BY <1>2, <1>3, <1>4, <2>2, SMTT(60)
<1>5. CASE S[u].payingKey # k /\ T[u].payingKey = k
  <2>1. PaidBy(T, k) = PaidBy(S, k) \cup {u} /\ u \notin PaidBy(S, k)
    BY <1>5, SMTT(60) DEF PaidBy
  <2>2. Cardinality(PaidBy(T, k)) = Cardinality(PaidBy(S, k)) + 1
    BY <1>1, <2>1, FS_AddElement
  <2> QED BY <1>2, <1>3, <1>5, <2>2, SMTT(60)
<1>6. CASE S[u].payingKey = k <=> T[u].payingKey = k
  <2>1. PaidBy(T, k) = PaidBy(S, k)
    BY <1>6 DEF PaidBy
  <2> QED BY <1>2, <1>3, <1>6, <2>1, SMTT(60)
<1> QED BY <1>4, <1>5, <1>6

(***************************************************************************)
(* What a step may do: a new subsidy needs consent, and the keys of a      *)
(* subsidy stay.                                                           *)
(***************************************************************************)
AuthorizedStep ==
    \A u \in KeySet :
      (subsidies'[u] # NoSubsidy /\ subsidies'[u].payingKey # subsidies[u].payingKey) =>
        \E a \in AuthIds :
          /\ auths[a] # NoAuth /\ auths'[a] = NoAuth
          /\ auths[a].data = AddRelayerPayingKey(u, subsidies'[u].payingKey, subsidies'[u].remaining)
          /\ links.key[subsidies'[u].payingKey].of = auths[a].by

Allowed == RelayerInv' /\ AuthorizedStep /\ StayStep

\* The rest of the invariant follows from the keys' part and from what subsidies refer to.
LEMMA SamePayers ==
    ASSUME RelayerInv, subsidies' \in Subsidised,
           \A u \in KeySet : subsidies'[u].payingKey = subsidies[u].payingKey, UNCHANGED refCount
    PROVE  /\ References' /\ AuthorizedStep
           /\ \A u \in KeySet : IsSubsidised(u)' <=> IsSubsidised(u)
<1>1. subsidies \in Subsidised
  BY DEF RelayerInv, RelayerTypeOK, Subsidised
<1>2. \A u \in KeySet : IsSubsidised(u)' <=> IsSubsidised(u)
  <2>1. ASSUME NEW u \in KeySet PROVE subsidies'[u] # NoSubsidy <=> subsidies[u] # NoSubsidy
    <3>1. subsidies[u] \in Subsidy \cup {NoSubsidy} /\ subsidies'[u] \in Subsidy \cup {NoSubsidy}
      BY <1>1 DEF Subsidised
    <3>2. subsidies[u] # NoSubsidy <=> subsidies[u].payingKey \in KeySet
      BY <3>1, SubsidyKinds
    <3>3. subsidies'[u] # NoSubsidy <=> subsidies'[u].payingKey \in KeySet
      BY <3>1, SubsidyKinds
    <3> QED BY <3>2, <3>3
  <2> QED BY <2>1 DEF IsSubsidised
<1>3. \A k \in KeySet : PaidBy(subsidies, k)' = PaidBy(subsidies, k)
  BY DEF PaidBy
<1>4. References'
  BY <1>2, <1>3 DEF RelayerInv, References
<1> QED BY <1>2, <1>4 DEF AuthorizedStep

\* Only the amount of a subsidy changes, and no key or authorization.
LEMMA AmountSafe ==
    ASSUME RelayerInv, UNCHANGED keyVars, NEW u \in KeySet, IsSubsidised(u), NEW x \in 0..MaxLimit,
           subsidies' = [subsidies EXCEPT ![u].remaining = x],
           tx' = NoTx \/ /\ tx'.payer \in KeySet /\ tx'.fee \in Fees /\ tx'.before \in 0..MaxLimit
                         /\ tx'.stage \in {"call", "post"} /\ IsSubsidised(tx'.payer)
    PROVE  Allowed
<1>1. subsidies \in Subsidised
  BY DEF RelayerInv, RelayerTypeOK, Subsidised
<1>2. subsidies[u] \in Subsidy
  BY <1>1, SubsidyKinds DEF Subsidised, IsSubsidised
<1>3. subsidies'[u] \in Subsidy /\ subsidies'[u].payingKey = subsidies[u].payingKey
  BY <1>1, <1>2 DEF Subsidised, Subsidy
<1>4. subsidies' \in Subsidised /\ \A v \in KeySet \ {u} : subsidies'[v] = subsidies[v]
  BY <1>1, <1>3 DEF Subsidised
<1>5. \A v \in KeySet : subsidies'[v].payingKey = subsidies[v].payingKey
  BY <1>3, <1>4
<1>6. /\ References' /\ AuthorizedStep
      /\ \A v \in KeySet : IsSubsidised(v)' <=> IsSubsidised(v)
  BY <1>4, <1>5, SamePayers DEF keyVars
<1>7. KeysInv' /\ StayStep
  BY OtherwiseSafe DEF RelayerInv, KeysInv, RestTyped, keyVars, StepAllowed
<1>8. SubsidyKeysLinked'
  BY <1>5, <1>6 DEF RelayerInv, SubsidyKeysLinked, Linked, keyVars
<1>9. OffersSound'
  BY DEF RelayerInv, OffersSound, keyVars
<1>10. RelayerTypeOK'
  BY <1>4 DEF RelayerTypeOK, Subsidised
<1>11. (tx # NoTx => IsSubsidised(tx.payer))'
  BY <1>6
<1> QED BY <1>6, <1>7, <1>8, <1>9, <1>10, <1>11 DEF Allowed, RelayerInv

\* The calls of the identity pallet: a reference holds the keys of every subsidy.
LEMMA KeysNextSafe ==
    ASSUME RelayerInv, KeysNext, UNCHANGED <<subsidies, tx>>
    PROVE  Allowed
<1>1. KeysInv' /\ StayStep /\ UNCHANGED refCount /\ AuthOrigin
  BY KeysStepSafe, KeysLeaveToOthers, ReferencedKeysStay DEF RelayerInv
<1>2. subsidies \in Subsidised
  BY DEF RelayerInv, RelayerTypeOK, Subsidised
<1>3. /\ References' /\ AuthorizedStep
      /\ \A u \in KeySet : IsSubsidised(u)' <=> IsSubsidised(u)
  BY <1>1, <1>2, SamePayers
<1>4. ASSUME NEW u \in KeySet, IsSubsidised(u)
      PROVE  Linked(u)' /\ Linked(subsidies[u].payingKey)'
  <2>1. PICK p : p = subsidies[u].payingKey
    OBVIOUS
  <2>2. p \in KeySet
    BY <1>2, <1>4, <2>1, SubsidyKinds DEF Subsidised, IsSubsidised
  <2>3. /\ Cardinality(PaidBy(subsidies, p)) > 0
        /\ \A k \in KeySet : Cardinality(PaidBy(subsidies, k)) \in Nat
    BY <1>2, <2>1, <2>2, PaidCount
  <2>4. refCount[u] > 0 /\ refCount[p] > 0
    BY <1>4, <2>2, <2>3, SMTT(60) DEF RelayerInv, References
  <2>5. Linked(u) /\ Linked(p)
    BY <1>4, <2>1 DEF RelayerInv, SubsidyKeysLinked
  <2> QED BY <1>1, <2>1, <2>2, <2>4, <2>5 DEF StayStep, Linked
<1>5. SubsidyKeysLinked'
  BY <1>3, <1>4 DEF SubsidyKeysLinked, Linked
<1>6. OffersSound'
  <2>1. NoAuth.data[1] = "None"
    BY DEF NoAuth
  <2> QED BY <1>1, <2>1, RelayerAssumption DEF AuthOrigin, RelayerInv, OffersSound
<1>7. RelayerTypeOK' /\ (tx # NoTx => IsSubsidised(tx.payer))'
  BY DEF RelayerInv, RelayerTypeOK, IsSubsidised
<1> QED BY <1>1, <1>3, <1>5, <1>6, <1>7 DEF Allowed, RelayerInv

LEMMA SetPayingKeySafe ==
    ASSUME RelayerInv, NEW k \in Payers, NEW user \in Users, NEW limit \in 0..MaxLimit,
           SetPayingKey(k, user, limit)
    PROVE  Allowed
<1>1. PICK data : data = AddRelayerPayingKey(user, k, limit)
  OBVIOUS
<1>2. PICK d \in Dids :
         /\ EnsurePerms(k, d)
         /\ AddAuth(d, user, data)
         /\ UNCHANGED <<links, parentDid, childDid, frozenDids, refCount, consents, cdd,
                        cddRotation, subsidies, tx>>
  BY <1>1 DEF SetPayingKey
<1>3. k \in KeySet /\ user \in KeySet
  BY RelayerAssumption
<1>4. data \in SubsidyOffers
  BY <1>1, <1>3, SMTT(60) DEF SubsidyOffers
<1>5. data[1] = "AddRelayerPayingKey"
  BY <1>1 DEF AddRelayerPayingKey
<1>6. LinksAgree(links') /\ Grows /\ StepAllowed
  BY <1>2, KeepLinks DEF RelayerInv, KeysInv
<1>7. Exists(d)'
  BY <1>2, <1>3, <1>6, SignerLinked DEF RelayerInv, KeysInv, EnsurePerms, Grows
<1>8. AuthsSound'
  BY <1>2, <1>3, <1>5, <1>6, <1>7, AddAuthSound DEF RelayerInv, KeysInv
<1>9. ChildrenSound'
  BY <1>2, <1>6, KeepChildren DEF RelayerInv, KeysInv
<1>10. KeysInv'
  BY <1>2, <1>6, <1>8, <1>9 DEF RelayerInv, KeysInv, RestTyped
<1>11. OffersSound'
  <2>1. \A a \in AuthIds : auths'[a].data = data \/ auths'[a] = auths[a]
    BY <1>2 DEF AddAuth, RelayerInv, KeysInv, AuthsSound
  <2> QED BY <1>4, <2>1 DEF RelayerInv, OffersSound
<1>12. subsidies \in Subsidised
  BY DEF RelayerInv, RelayerTypeOK, Subsidised
<1>13. References' /\ AuthorizedStep
  BY <1>2, <1>12, SamePayers
<1>14. SubsidyKeysLinked' /\ RelayerTypeOK' /\ (tx # NoTx => IsSubsidised(tx.payer))'
  BY <1>2 DEF RelayerInv, SubsidyKeysLinked, RelayerTypeOK, IsSubsidised, Linked
<1> QED BY <1>6, <1>10, <1>11, <1>13, <1>14 DEF Allowed, RelayerInv, StepAllowed

\* Another key, or none, pays for u, and the references follow.
LEMMA PayerSafe ==
    ASSUME RelayerInv, tx = NoTx, NEW u \in KeySet, NEW s \in Subsidy \cup {NoSubsidy},
           subsidies' \in Subsidised, subsidies'[u] = s,
           \A v \in KeySet \ {u} : subsidies'[v] = subsidies[v],
           \A k \in KeySet :
              refCount'[k] = refCount[k]
                 + (IF s.payingKey = k THEN 1 ELSE 0) - (IF subsidies[u].payingKey = k THEN 1 ELSE 0)
                 + (IF k # u \/ (IsSubsidised(u) <=> s # NoSubsidy) THEN 0
                    ELSE IF s # NoSubsidy THEN 1 ELSE -1)
    PROVE  References'
<1>1. subsidies \in Subsidised
  BY DEF RelayerInv, RelayerTypeOK, Subsidised
<1>2. ASSUME NEW k \in KeySet
      PROVE  refCount'[k] = Cardinality(PaidBy(subsidies', k)) + (IF IsSubsidised(k)' THEN 1 ELSE 0)
  <2>1. PICK T : T = subsidies'
    OBVIOUS
  <2>2. /\ Cardinality(PaidBy(subsidies, k)) \in Nat
        /\ Cardinality(PaidBy(T, k)) =
             Cardinality(PaidBy(subsidies, k)) + (IF s.payingKey = k THEN 1 ELSE 0)
                                               - (IF subsidies[u].payingKey = k THEN 1 ELSE 0)
    <3>1. T \in Subsidised /\ T[u] = s /\ \A v \in KeySet \ {u} : T[v] = subsidies[v]
      BY <2>1
    <3> HIDE <2>1
    <3> QED BY <1>1, <3>1, PaidCount, SMTT(60)
  <2>3. Cardinality(PaidBy(T, k)) \in Nat
    BY <1>1, <2>1, PaidCount
  <2>4. refCount[k] = Cardinality(PaidBy(subsidies, k)) + (IF IsSubsidised(k) THEN 1 ELSE 0)
    BY DEF RelayerInv, References
  <2>5. IsSubsidised(k)' <=> IF k = u THEN s # NoSubsidy ELSE IsSubsidised(k)
    BY DEF IsSubsidised
  <2> QED BY <2>1, <2>2, <2>3, <2>4, <2>5, SMTT(60)
<1> QED BY <1>2 DEF References

\* Accepting and removing: keys and identities stay as they are.
LEMMA KeysKeep ==
    ASSUME RelayerInv, AuthsSound', refCount' \in [KeySet -> Nat], AuthOrigin,
           UNCHANGED <<links, parentDid, childDid, frozenDids, consents, cdd, cddRotation>>
    PROVE  KeysInv' /\ StayStep /\ OffersSound'
<1>1. LinksAgree(links') /\ Grows /\ StepAllowed
  BY KeepLinks DEF RelayerInv, KeysInv
<1>2. ChildrenSound'
  BY <1>1, KeepChildren DEF RelayerInv, KeysInv
<1>3. RestTyped'
  BY DEF RelayerInv, KeysInv, RestTyped
<1>4. NoAuth.data[1] = "None"
  BY DEF NoAuth
<1>5. OffersSound'
  BY <1>4, RelayerAssumption DEF AuthOrigin, RelayerInv, OffersSound
<1> QED BY <1>1, <1>2, <1>3, <1>5 DEF KeysInv, StepAllowed

\* The keys of a subsidy have references: the payer one for it, and the user one more.
LEMMA SubsidyReferences ==
    ASSUME RelayerInv, NEW u \in KeySet, IsSubsidised(u)
    PROVE  /\ subsidies[u].payingKey \in KeySet
           /\ refCount[subsidies[u].payingKey] > 0 /\ refCount[u] > 0
           /\ subsidies[u].payingKey = u => refCount[u] > 1
<1>1. subsidies \in Subsidised
  BY DEF RelayerInv, RelayerTypeOK, Subsidised
<1>2. PICK p : p = subsidies[u].payingKey
  OBVIOUS
<1>3. p \in KeySet
  BY <1>1, <1>2, SubsidyKinds DEF Subsidised, IsSubsidised
<1>4. /\ Cardinality(PaidBy(subsidies, p)) > 0
      /\ \A k \in KeySet : Cardinality(PaidBy(subsidies, k)) \in Nat
  BY <1>1, <1>2, <1>3, PaidCount
<1>5. \A k \in KeySet : refCount[k] = Cardinality(PaidBy(subsidies, k)) + (IF IsSubsidised(k) THEN 1 ELSE 0)
  BY DEF RelayerInv, References
<1>6. refCount[p] > 0 /\ refCount[u] > 0 /\ (p = u => refCount[u] > 1)
  BY <1>3, <1>4, <1>5, SMTT(60)
<1> QED BY <1>2, <1>3, <1>6

LEMMA AcceptPayingKeySafe ==
    ASSUME RelayerInv, tx = NoTx, UNCHANGED tx, NEW k \in KeySet, NEW a \in AuthIds, AcceptPayingKey(k, a)
    PROVE  Allowed
<1>1. auths[a] # NoAuth /\ auths[a].data[1] = "AddRelayerPayingKey" /\ auths[a].data[2] = k
  BY DEF AcceptPayingKey, CanAccept
<1>2. PICK u \in KeySet, p \in Payers, l \in 0..MaxLimit : auths[a].data = AddRelayerPayingKey(u, p, l)
  BY <1>1, SMTT(60) DEF RelayerInv, OffersSound, SubsidyOffers
<1>3. auths[a].data[2] = u /\ auths[a].data[3] = p /\ auths[a].data[4] = l
  BY <1>2, SMTT(60) DEF AddRelayerPayingKey
<1>4. u = k /\ p \in KeySet
  BY <1>1, <1>3, RelayerAssumption
<1>5. PICK s : s = [payingKey |-> p, remaining |-> l]
  OBVIOUS
<1>6. s \in Subsidy /\ s # NoSubsidy /\ s.payingKey = p /\ s.remaining = l
  BY <1>4, <1>5, KeysAssumption DEF Subsidy, NoSubsidy
<1>7. subsidies' = [subsidies EXCEPT ![k] = s]
  BY <1>3, <1>5 DEF AcceptPayingKey
<1>8. refCount \in [KeySet -> Nat]
  BY DEF RelayerInv, KeysInv, RestTyped
<1>9. /\ refCount' \in [KeySet -> Nat]
      /\ \A x \in KeySet : refCount'[x] = refCount[x] + (IF p = x THEN 1 ELSE 0)
            - (IF subsidies[k].payingKey = x THEN 1 ELSE 0)
            + (IF x # k \/ IsSubsidised(k) THEN 0 ELSE 1)
  <2>1. CASE IsSubsidised(k)
    <3>1. PICK old : old = subsidies[k].payingKey
      OBVIOUS
    <3>2. old \in KeySet /\ refCount[old] > 0
      BY <2>1, <3>1, SubsidyReferences
    <3>3. PICK c : c = [refCount EXCEPT ![old] = IF @ = 0 THEN 0 ELSE @ - 1]
      OBVIOUS
    <3>4. c \in [KeySet -> Nat] /\ \A x \in KeySet : c[x] = refCount[x] - (IF old = x THEN 1 ELSE 0)
      BY <1>8, <3>2, <3>3, SMTT(60)
    <3>5. refCount' = [c EXCEPT ![p] = @ + 1]
      BY <1>3, <2>1, <3>1, <3>3 DEF AcceptPayingKey
    <3> HIDE <3>3
    <3>6. /\ refCount' \in [KeySet -> Nat]
          /\ \A x \in KeySet : refCount'[x] = c[x] + (IF p = x THEN 1 ELSE 0)
      BY <1>4, <3>4, <3>5, SMTT(60)
    <3>7. \A x \in KeySet : refCount[x] \in Nat
      BY <1>8
    <3> QED BY <2>1, <3>1, <3>4, <3>6, <3>7, SMTT(60)
  <2>2. CASE ~ IsSubsidised(k)
    <3>1. subsidies[k].payingKey \notin KeySet
      BY <2>2, KeysAssumption, SMTT(60) DEF IsSubsidised, NoSubsidy
    <3>2. PICK c : c = [refCount EXCEPT ![k] = @ + 1]
      OBVIOUS
    <3>3. c \in [KeySet -> Nat] /\ \A x \in KeySet : c[x] = refCount[x] + (IF x = k THEN 1 ELSE 0)
      BY <1>8, <3>2, SMTT(60)
    <3>4. refCount' = [c EXCEPT ![p] = @ + 1]
      BY <1>3, <2>2, <3>2 DEF AcceptPayingKey
    <3> HIDE <3>2
    <3>5. /\ refCount' \in [KeySet -> Nat]
          /\ \A x \in KeySet : refCount'[x] = c[x] + (IF p = x THEN 1 ELSE 0)
      BY <1>4, <3>3, <3>4, SMTT(60)
    <3>6. \A x \in KeySet : refCount[x] \in Nat
      BY <1>8
    <3> QED BY <2>2, <3>1, <3>3, <3>5, <3>6, SMTT(60)
  <2> QED BY <2>1, <2>2
<1>10. /\ subsidies' \in Subsidised
       /\ \A v \in KeySet \ {k} : subsidies'[v] = subsidies[v]
       /\ subsidies'[k] = s
  BY <1>6, <1>7 DEF RelayerInv, RelayerTypeOK, Subsidised
<1>20. References'
  <2>1. \A x \in KeySet : refCount'[x] = refCount[x] + (IF s.payingKey = x THEN 1 ELSE 0)
            - (IF subsidies[k].payingKey = x THEN 1 ELSE 0)
            + (IF x # k \/ (IsSubsidised(k) <=> s # NoSubsidy) THEN 0
               ELSE IF s # NoSubsidy THEN 1 ELSE -1)
    BY <1>6, <1>9
  <2> HIDE <1>5
  <2> QED BY <1>6, <1>10, <2>1, PayerSafe, SMTT(60)
<1>11. RemoveAuths({a}) /\ UNCHANGED <<links, parentDid, childDid, frozenDids, consents, cdd, cddRotation>>
  BY DEF AcceptPayingKey
<1>12. Grows
  BY <1>11 DEF Grows, Exists
<1>13. AuthsSound' /\ auths'[a] = NoAuth
  BY <1>1, <1>11, <1>12, RemoveAuthsSound DEF RelayerInv, KeysInv
<1>14. KeysInv' /\ StayStep /\ OffersSound'
  BY <1>9, <1>11, <1>13, RemoveAuthsOrigin, KeysKeep
<1>15. GetIdentity(k) # NoDid /\ GetIdentity(p) = auths[a].by /\ auths[a].by \in Dids
  BY <1>1, <1>3 DEF AcceptPayingKey, RelayerInv, KeysInv, AuthsSound, AuthSound
<1>16. Linked(k) /\ Linked(p) /\ links.key[p].of = auths[a].by
  BY <1>15, KeysAssumption DEF GetIdentity, Linked
<1>17. SubsidyKeysLinked'
  BY <1>6, <1>10, <1>11, <1>16 DEF RelayerInv, SubsidyKeysLinked, Linked, IsSubsidised
<1>18. AuthorizedStep
  BY <1>1, <1>2, <1>4, <1>6, <1>10, <1>13, <1>16 DEF AuthorizedStep
<1>19. RelayerTypeOK' /\ (tx # NoTx => IsSubsidised(tx.payer))'
  BY <1>10 DEF RelayerTypeOK, Subsidised
<1> QED BY <1>14, <1>17, <1>18, <1>19, <1>20 DEF Allowed, RelayerInv

LEMMA RemovePayingKeySafe ==
    ASSUME RelayerInv, tx = NoTx, UNCHANGED tx, NEW k \in KeySet, NEW user \in KeySet, RemovePayingKey(k, user)
    PROVE  Allowed
<1>1. IsSubsidised(user)
  BY DEF RemovePayingKey
<1>2. PICK old : old = subsidies[user].payingKey
  OBVIOUS
<1>3. old \in KeySet /\ refCount[old] > 0 /\ refCount[user] > 0 /\ (old = user => refCount[user] > 1)
  BY <1>1, <1>2, SubsidyReferences
<1>4. refCount \in [KeySet -> Nat]
  BY DEF RelayerInv, KeysInv, RestTyped
<1>5. PICK c : c = [refCount EXCEPT ![old] = IF @ = 0 THEN 0 ELSE @ - 1]
  OBVIOUS
<1>6. c \in [KeySet -> Nat] /\ \A x \in KeySet : c[x] = refCount[x] - (IF old = x THEN 1 ELSE 0)
  BY <1>3, <1>4, <1>5, SMTT(60)
<1>7. refCount' = [c EXCEPT ![user] = IF @ = 0 THEN 0 ELSE @ - 1]
  BY <1>2, <1>5 DEF RemovePayingKey
<1> HIDE <1>5
<1>8. c[user] > 0
  BY <1>3, <1>4, <1>6, SMTT(60)
<1>9. refCount' \in [KeySet -> Nat] /\ \A x \in KeySet : refCount'[x] = c[x] - (IF user = x THEN 1 ELSE 0)
  BY <1>6, <1>7, <1>8, SMTT(60)
<1>10. NoSubsidy.payingKey \notin KeySet
  BY KeysAssumption DEF NoSubsidy
<1>11. subsidies' = [subsidies EXCEPT ![user] = NoSubsidy]
  BY DEF RemovePayingKey
<1>13. /\ subsidies' \in Subsidised
       /\ \A v \in KeySet \ {user} : subsidies'[v] = subsidies[v]
       /\ subsidies'[user] = NoSubsidy
  BY <1>11 DEF RelayerInv, RelayerTypeOK, Subsidised
<1>12. References'
  <2>1. PICK s : s = NoSubsidy
    OBVIOUS
  <2>2. \A x \in KeySet : refCount'[x] = refCount[x] + (IF s.payingKey = x THEN 1 ELSE 0)
            - (IF subsidies[user].payingKey = x THEN 1 ELSE 0)
            + (IF x # user \/ (IsSubsidised(user) <=> s # NoSubsidy) THEN 0
               ELSE IF s # NoSubsidy THEN 1 ELSE -1)
    BY <1>1, <1>2, <1>4, <1>6, <1>9, <1>10, <2>1, SMTT(60)
  <2> QED BY <1>13, <2>1, <2>2, PayerSafe, SMTT(60)
<1>14. UNCHANGED <<links, parentDid, childDid, frozenDids, auths, given, nextAuth, consents, cdd, cddRotation>>
  BY DEF RemovePayingKey
<1>15. Grows
  BY <1>14 DEF Grows, Exists
<1>16. KeysInv' /\ StayStep /\ OffersSound'
  BY <1>9, <1>14, <1>15, KeepAuths, KeepAuthsOrigin, KeysKeep DEF RelayerInv, KeysInv
<1>17. SubsidyKeysLinked' /\ AuthorizedStep
  BY <1>13, <1>14 DEF RelayerInv, SubsidyKeysLinked, AuthorizedStep, Linked, IsSubsidised
<1>18. RelayerTypeOK' /\ (tx # NoTx => IsSubsidised(tx.payer))'
  BY <1>13 DEF RelayerTypeOK, Subsidised
<1> QED BY <1>12, <1>16, <1>17, <1>18 DEF Allowed, RelayerInv

LEMMA UpdatePolyxLimitSafe ==
    ASSUME RelayerInv, tx = NoTx, NEW k \in Payers, NEW user \in Users,
           NEW op \in {"Set", "Add", "Sub"}, NEW amount \in 0..MaxLimit, UpdatePolyxLimit(k, user, op, amount)
    PROVE  Allowed
<1>1. PICK x \in 0..MaxLimit : subsidies' = [subsidies EXCEPT ![user].remaining = x]
  BY DEF UpdatePolyxLimit
<1>2. IsSubsidised(user) /\ user \in KeySet /\ UNCHANGED <<keyVars, tx>>
  BY RelayerAssumption DEF UpdatePolyxLimit
<1> QED BY <1>1, <1>2, AmountSafe

\* The parts of a subsidised transaction.
LEMMA FeeStepSafe ==
    ASSUME RelayerInv, FeeStep
    PROVE  Allowed
<1>1. tx # NoTx => /\ tx.payer \in KeySet /\ tx.fee \in Fees /\ tx.before \in 0..MaxLimit
                   /\ tx.stage \in {"call", "post"} /\ IsSubsidised(tx.payer)
  BY DEF RelayerInv, RelayerTypeOK
<1>2. NoTx.stage = "none"
  BY DEF NoTx
<1>3. ASSUME NEW u \in KeySet PROVE subsidies[u].remaining \in 0..MaxLimit
  BY SubsidyKinds DEF RelayerInv, RelayerTypeOK
<1>4. MaxLimit \in Nat /\ \A f \in Fees : f \in Nat
  <2>1. MaxLimit \in Nat /\ Fees \subseteq Nat \ {0}
    BY RelayerAssumption
  <2> QED BY <2>1
<1>5. subsidies \in Subsidised
  BY DEF RelayerInv, RelayerTypeOK, Subsidised
<1>6. ASSUME NEW u \in Users, NEW f \in Fees, SubsidyPreDispatch(u, f) PROVE Allowed
  <2>1. /\ u \in KeySet /\ IsSubsidised(u) /\ UNCHANGED <<keyVars, subsidies>>
        /\ tx' = [payer |-> u, fee |-> f, before |-> subsidies[u].remaining, stage |-> "call"]
    BY <1>6, RelayerAssumption DEF SubsidyPreDispatch
  <2>2. PICK x \in 0..MaxLimit : x = subsidies[u].remaining
    BY <1>3, <2>1
  <2>3. subsidies' = [subsidies EXCEPT ![u].remaining = x]
    <3>1. subsidies[u] = [subsidies[u] EXCEPT !.remaining = x]
      BY <1>5, <2>1, <2>2, SubsidyKinds, SMTT(60) DEF Subsidised
    <3> QED BY <1>5, <2>1, <3>1 DEF Subsidised
  <2>4. /\ tx'.payer = u /\ tx'.fee = f /\ tx'.before = x /\ tx'.stage = "call"
    BY <2>1, <2>2
  <2> QED BY <2>1, <2>3, <2>4, AmountSafe
<1>7. ASSUME NEW f \in Fees, ProtocolFee(f) PROVE Allowed
  <2>1. tx # NoTx /\ tx.stage = "call" /\ subsidies[tx.payer].remaining >= f /\ UNCHANGED keyVars
    BY <1>2, <1>7 DEF ProtocolFee
  <2>2. PICK u \in KeySet : u = tx.payer
    BY <1>1, <2>1
  <2>3. PICK x \in 0..MaxLimit : x = subsidies[u].remaining - f
    BY <1>3, <1>4, <2>1, <2>2, SMTT(60)
  <2>4. subsidies' = [subsidies EXCEPT ![u].remaining = x]
    BY <1>7, <2>2, <2>3 DEF ProtocolFee
  <2>5. tx'.payer = tx.payer /\ tx'.fee = tx.fee /\ tx'.before = tx.before /\ tx'.stage = "post"
    BY <1>7, <2>1, SMTT(60) DEF ProtocolFee, RelayerInv, RelayerTypeOK
  <2> QED BY <1>1, <2>1, <2>2, <2>4, <2>5, AmountSafe
<1>8. ASSUME NoProtocolFee PROVE Allowed
  <2>1. tx # NoTx /\ UNCHANGED <<keyVars, subsidies>>
    BY <1>2, <1>8 DEF NoProtocolFee
  <2>2. PICK u \in KeySet : u = tx.payer
    BY <1>1, <2>1
  <2>3. PICK x \in 0..MaxLimit : x = subsidies[u].remaining
    BY <1>3
  <2>4. subsidies' = [subsidies EXCEPT ![u].remaining = x]
    <3>1. subsidies[u] = [subsidies[u] EXCEPT !.remaining = x]
      BY <1>5, <2>3, SubsidyKinds, SMTT(60) DEF Subsidised
    <3> QED BY <1>5, <2>1, <3>1 DEF Subsidised
  <2>5. tx'.payer = tx.payer /\ tx'.fee = tx.fee /\ tx'.before = tx.before /\ tx'.stage = "post"
    BY <1>8, <2>1, SMTT(60) DEF NoProtocolFee, RelayerInv, RelayerTypeOK
  <2> QED BY <1>1, <2>1, <2>2, <2>4, <2>5, AmountSafe
<1>9. ASSUME NEW f \in Fees, SubsidyPostDispatch(f) \/ SubsidyPostDispatchFails(f) PROVE Allowed
  <2>1. tx # NoTx /\ UNCHANGED keyVars /\ tx' = NoTx
    BY <1>2, <1>9 DEF SubsidyPostDispatch, SubsidyPostDispatchFails
  <2>2. PICK u \in KeySet : u = tx.payer
    BY <1>1, <2>1
  <2>3. subsidies[u].remaining >= f => subsidies[u].remaining - f \in 0..MaxLimit
    BY <1>3, <1>4, SMTT(60)
  <2>4. PICK x \in 0..MaxLimit : subsidies' = [subsidies EXCEPT ![u].remaining = x]
    BY <1>1, <1>9, <2>1, <2>2, <2>3 DEF SubsidyPostDispatch, SubsidyPostDispatchFails
  <2> QED BY <1>1, <2>1, <2>2, <2>4, AmountSafe
<1> QED BY <1>6, <1>7, <1>8, <1>9 DEF FeeStep

(***************************************************************************)
(* The theorems.                                                           *)
(***************************************************************************)
LEMMA RelayerInitially == RelayerInit => RelayerInv
<1> SUFFICES ASSUME RelayerInit PROVE RelayerInv
  OBVIOUS
<1>1. KeysInv /\ refCount = [k \in KeySet |-> 0] /\ auths = [a \in AuthIds |-> NoAuth]
  BY KeysInvHoldsInitially DEF RelayerInit, KeysInit
<1>2. subsidies = [u \in KeySet |-> NoSubsidy] /\ tx = NoTx
  BY DEF RelayerInit
<1>3. RelayerTypeOK /\ SubsidyKeysLinked
  BY <1>2 DEF RelayerTypeOK, SubsidyKeysLinked, IsSubsidised
<1>4. References
  <2>1. \A k \in KeySet : PaidBy(subsidies, k) = {}
    BY <1>2, KeysAssumption DEF PaidBy, NoSubsidy
  <2> QED BY <1>1, <1>2, <2>1, FS_EmptySet, SMTT(60) DEF References, IsSubsidised
<1>5. OffersSound
  <2>1. NoAuth.data[1] = "None"
    BY DEF NoAuth
  <2> QED BY <1>1, <2>1 DEF OffersSound
<1> QED BY <1>1, <1>2, <1>3, <1>4, <1>5 DEF RelayerInv

\* One step per call of the pallet, and one for the calls of the identity pallet.
LEMMA RelayerNextSafe ==
    ASSUME RelayerInv, RelayerNext
    PROVE  Allowed
<1>1. CASE FeeStep
  BY <1>1, FeeStepSafe
<1>2. CASE KeysNext /\ UNCHANGED <<subsidies, tx>>
  BY <1>2, KeysNextSafe
<1>3. CASE tx = NoTx /\ RelayerCall
  <2>1. CASE \E k \in Payers, u \in Users, l \in 0..MaxLimit : SetPayingKey(k, u, l)
    BY <2>1, SetPayingKeySafe
  <2>2. CASE \E k \in KeySet, a \in AuthIds : AcceptPayingKey(k, a)
    BY <1>3, <2>2, AcceptPayingKeySafe DEF AcceptPayingKey
  <2>3. CASE \E k \in KeySet, u \in KeySet : RemovePayingKey(k, u)
    BY <1>3, <2>3, RemovePayingKeySafe DEF RemovePayingKey
  <2>4. CASE \E k \in Payers, u \in Users, op \in {"Set", "Add", "Sub"}, x \in 0..MaxLimit :
               UpdatePolyxLimit(k, u, op, x)
    BY <1>3, <2>4, UpdatePolyxLimitSafe
  <2> QED BY <1>3, <2>1, <2>2, <2>3, <2>4 DEF RelayerCall
<1> QED BY <1>1, <1>2, <1>3 DEF RelayerNext

LEMMA RelayerStepSafe ==
    RelayerInv /\ [RelayerNext]_relayerVars => RelayerInv' /\ [AuthorizedStep]_relayerVars /\ [StayStep]_keyVars
<1> SUFFICES ASSUME RelayerInv, [RelayerNext]_relayerVars
             PROVE  RelayerInv' /\ [AuthorizedStep]_relayerVars /\ [StayStep]_keyVars
  OBVIOUS
<1>1. CASE RelayerNext
  BY <1>1, RelayerNextSafe DEF Allowed
<1>2. CASE UNCHANGED relayerVars
  <2>1. KeysInv'
    BY <1>2, KeysStepSafe DEF RelayerInv, relayerVars
  <2>2. subsidies \in Subsidised
    BY DEF RelayerInv, RelayerTypeOK, Subsidised
  <2>3. References'
    BY <1>2, <2>2, SamePayers DEF relayerVars, keyVars
  <2>4. RelayerTypeOK' /\ SubsidyKeysLinked' /\ OffersSound' /\ (tx # NoTx => IsSubsidised(tx.payer))'
    BY <1>2 DEF RelayerInv, RelayerTypeOK, SubsidyKeysLinked, OffersSound, IsSubsidised, Linked,
                relayerVars, keyVars
  <2>5. RelayerInv'
    BY <2>1, <2>3, <2>4 DEF RelayerInv
  <2> QED BY <1>2, <2>5 DEF relayerVars
<1> QED BY <1>1, <1>2

LEMMA RelayerInvHolds == RelayerSpec => []RelayerInv
BY RelayerInitially, RelayerStepSafe, PTL DEF RelayerSpec

LEMMA RelayerInvExact == RelayerInv => SubsidyBooksExact
<1> SUFFICES ASSUME RelayerInv PROVE RefCountExact
  BY DEF SubsidyBooksExact, RelayerInv
<1>1. subsidies \in Subsidised
  BY DEF RelayerInv, RelayerTypeOK, Subsidised
<1>2. ASSUME NEW k \in KeySet
      PROVE  PaidBy(subsidies, k) = {u \in KeySet : subsidies[u] # NoSubsidy /\ subsidies[u].payingKey = k}
  BY <1>1, SubsidyKinds DEF PaidBy, Subsidised
<1> QED BY <1>2 DEF RelayerInv, References, RefCountExact

(***************************************************************************)
(* Whatever subsidies are offered, accepted, replaced, spent and removed   *)
(* while keys are rotated and leave, AccountKeyRefCount counts the uses of *)
(* a key and both keys of a subsidy belong to identities (relayer).        *)
(***************************************************************************)
THEOREM SubsidyBooksAlwaysExact == RelayerSpec => []SubsidyBooksExact
BY RelayerInvHolds, RelayerInvExact, PTL

(***************************************************************************)
(* Nobody pays for a key without the consent of the identity of the paying *)
(* key, for that user, key and amount, which accepting uses up; and no key *)
(* of a subsidy leaves its identity while the subsidy lasts.               *)
(***************************************************************************)
THEOREM SubsidiesAlwaysBind == RelayerSpec => SubsidyBinds
<1>1. SubsidyAuthorized <=> [][AuthorizedStep]_relayerVars
  BY PTL DEF SubsidyAuthorized, AuthorizedStep
<1>2. ReferencedKeyStays <=> [][StayStep]_keyVars
  BY PTL DEF ReferencedKeyStays, StayStep
<1> QED BY <1>1, <1>2, RelayerInvHolds, RelayerStepSafe, PTL DEF RelayerSpec, SubsidyBinds
=============================================================================
