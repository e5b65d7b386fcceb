---------------------------- MODULE SignerProofs ----------------------------
(***************************************************************************)
(* Who signs for a multisig: what every call that writes the accounts does *)
(* to the signers, their number and their records.  MultiSigProofs adds    *)
(* the proposals and draws the theorems.                                   *)
(*                                                                         *)
(* AccountInv needs, next to what is to be shown, the invariant of the     *)
(* keys (a multisig that is a primary key is found by its record), that    *)
(* authorizations to sign name a multisig, and that the identity of a      *)
(* multisig exists, for the authorizations it gives.                       *)
(*                                                                         *)
(* The lemmas on steps take how sets of keys are counted as a hypothesis   *)
(* (KeysCounted).  MultiSigProofs proves it, from the theorems on finite   *)
(* sets, which only that proof needs.                                      *)
(***************************************************************************)
EXTENDS MultiSig, KeysProofs, Integers

\* Steps are Zenon's unless they cite the SMT solver.
USE ZenonT(60)

InvitesSound ==
    \A a \in AuthIds :
      auths[a] # NoAuth /\ auths[a].data[1] = "AddMultiSigSigner" =>
        \E m \in MultiSigs : auths[a].data = <<"AddMultiSigSigner", m>>

CreatorsExist ==
    \A m \in MultiSigs : IF Creator(m) = NoDid THEN Signers(m) = {} ELSE Exists(Creator(m))

AccountInv ==
    /\ KeysInv /\ accounts \in Accounts
    /\ SignersHaveRecords /\ SignerCountExact /\ InvitesSound /\ CreatorsExist

\* The bodies of the action properties.
QuorumStep ==
    \A m \in MultiSigs :
      Cardinality(Signers(m)) >= accounts.required[m] =>
        Cardinality(Signers(m))' >= accounts'.required[m] \/ Creator(m) = NoDid

SignerStep ==
    \A m \in MultiSigs, k \in KeySet :
      (k \notin Signers(m) /\ k \in Signers(m)') =>
        \E a \in AuthIds :
          /\ auths[a] # NoAuth /\ auths'[a] = NoAuth
          /\ auths[a].target = k /\ auths[a].by = Creator(m)
          /\ auths[a].data = <<"AddMultiSigSigner", m>>

FixedStep ==
    \A m \in MultiSigs, d \in Dids :
      (cddRotation /\ Creator(m) # NoDid /\ links.primary[d] = m) =>
        Signers(m)' = Signers(m) /\ accounts'.required[m] = accounts.required[m]

\* Multisigs stay with the identity that created them.
CreatorStep == \A m \in MultiSigs : Creator(m) # NoDid => Creator(m)' = Creator(m)

SafeStep == AccountInv' /\ CreatorStep /\ QuorumStep /\ SignerStep /\ FixedStep

\* How sets and lists of keys are counted.
KeysCounted ==
    /\ Cardinality({}) = 0
    /\ \A ks \in SUBSET KeySet : Cardinality(ks) \in Nat
    /\ \A ks \in SUBSET KeySet, k \in KeySet :
         k \notin ks => Cardinality(ks \cup {k}) = Cardinality(ks) + 1
    /\ \A ks \in SUBSET KeySet : \A js \in SUBSET ks :
         /\ Cardinality(js) <= Cardinality(ks)
         /\ Cardinality(ks \ js) = Cardinality(ks) - Cardinality(js)
    /\ \A list \in RemovalLists :
         Cardinality({list[i] : i \in DOMAIN list}) = Len(list) /\ Len(list) \in Nat

-----------------------------------------------------------------------------
(* The shapes of constants and of calls. *)

\* Which sets the constants are of, and what calls multisigs may propose.
LEMMA ConstantSorts ==
    /\ IsFiniteSet(KeySet) /\ MultiSigs \subseteq KeySet /\ Invitees \subseteq KeySet
    /\ MaxProposals \in Nat /\ SigsRequired \subseteq Nat
BY MultiSigAssumption

LEMMA CallShapes ==
    ASSUME NEW call \in Calls \cup {<<"None">>}
    PROVE  /\ call[1] \in {"AddSigner", "RemoveSigner"} => call[2] \in KeySet
           /\ call[1] = "ChangeSigs" => call[2] \in Nat
<1>1. \/ call = <<"None">> \/ call = <<"Act">>
      \/ call \in {"AddSigner", "RemoveSigner"} \X KeySet
      \/ call \in {"ChangeSigs"} \X Nat
  BY MultiSigAssumption
<1> QED BY <1>1, SMTT(60)

LEMMA AccountFields ==
    ASSUME accounts \in Accounts
    PROVE  /\ accounts.creator \in [MultiSigs -> Dids \cup {NoDid}]
           /\ accounts.signers \in [MultiSigs -> SUBSET KeySet]
           /\ accounts.number \in [MultiSigs -> Nat] /\ accounts.required \in [MultiSigs -> Nat]
BY DEF Accounts

LEMMA SignersCounted ==
    ASSUME KeysCounted, accounts \in Accounts, NEW m \in MultiSigs
    PROVE  Signers(m) \in SUBSET KeySet /\ Cardinality(Signers(m)) \in Nat
<1>1. Signers(m) \in SUBSET KeySet
  BY AccountFields DEF Signers
<1> QED BY <1>1 DEF KeysCounted

\* Only a key that may not be changed is the primary key of an identity.
LEMMA PrimaryFixed ==
    ASSUME KeysInv, NEW m \in MultiSigs, NEW d \in Dids, cddRotation, links.primary[d] = m
    PROVE  ~ IsChangingSignersAllowed(m)
<1>1. m \in KeySet /\ m # NoDid
  BY ConstantSorts, KeysAssumption
<1>2. links.key[m] = PrimaryKey(d)
  BY <1>1 DEF KeysInv, LinksAgree
<1>3. GetIdentity(m) = d
  BY <1>2, SMTT(60) DEF GetIdentity, PrimaryKey
<1> QED BY <1>3 DEF IsChangingSignersAllowed

\* The record of a signer is no other record.
LEMMA SignerRecords ==
    /\ \A m \in KeySet : MultiSigSignerKey(m) \in KeyRecord /\ MultiSigSignerKey(m) # Unlinked
                         /\ MultiSigSignerKey(m).kind = "Signer"
    /\ \A m, n \in KeySet : MultiSigSignerKey(m) = MultiSigSignerKey(n) => m = n
    /\ \A d, p : SecondaryKey(d, p).kind # "Signer" /\ PrimaryKey(d).kind # "Signer"
    /\ Unlinked.kind # "Signer"
<1>1. \A m \in KeySet : MultiSigSignerKey(m) \in KeyRecord
  BY SMTT(60) DEF KeyRecord
<1>2. \A m : MultiSigSignerKey(m).kind = "Signer" /\ MultiSigSignerKey(m).of = m
  BY DEF MultiSigSignerKey
<1>3. Unlinked.kind # "Signer" /\ \A d, p : SecondaryKey(d, p).kind # "Signer" /\ PrimaryKey(d).kind # "Signer"
  BY DEF Unlinked, SecondaryKey, PrimaryKey
<1> QED BY <1>1, <1>2, <1>3, SMTT(60)

\* A step that leaves the multisigs alone and what records say of signers.
LEMMA KeepAccounts ==
    ASSUME AccountInv, UNCHANGED accounts, KeysInv', Grows, SignersStay, InvitesSound'
    PROVE  SafeStep
<1>1. \A m \in MultiSigs : Signers(m)' = Signers(m) /\ Creator(m)' = Creator(m)
  BY DEF Signers, Creator
<1>2. CreatorsExist'
  BY <1>1, AccountFields, KeysAssumption DEF AccountInv, CreatorsExist, Grows, Creator
<1>3. SignersHaveRecords'
  <2>1. SUFFICES ASSUME NEW k \in KeySet, NEW m \in MultiSigs
                 PROVE  links'.key[k] = MultiSigSignerKey(m) <=> links.key[k] = MultiSigSignerKey(m)
    BY <1>1 DEF AccountInv, SignersHaveRecords
  <2> QED BY ConstantSorts, SignerRecords DEF SignersStay
<1>4. SignerCountExact'
  BY <1>1 DEF AccountInv, SignerCountExact
<1>5. CreatorStep /\ QuorumStep /\ SignerStep /\ FixedStep
  BY <1>1 DEF CreatorStep, QuorumStep, SignerStep, FixedStep
<1> QED BY <1>2, <1>3, <1>4, <1>5 DEF AccountInv, SafeStep

\* The calls of the identity pallet.
LEMMA KeysNextSafe ==
    ASSUME AccountInv, UNCHANGED accounts, KeysNext \/ UNCHANGED keyVars
    PROVE  SafeStep
<1>1. KeysInv' /\ [StepAllowed]_keyVars
  BY KeysStepSafe DEF AccountInv
<1>2. CASE UNCHANGED keyVars
  <2>1. Grows /\ SignersStay
    BY <1>2 DEF Grows, Exists, SignersStay, keyVars
  <2>2. InvitesSound'
    BY <1>2 DEF AccountInv, InvitesSound, keyVars
  <2> QED BY <1>1, <2>1, <2>2, KeepAccounts
<1>3. CASE KeysNext
  <2>1. StepAllowed
    BY <1>3, KeyCallSafe, KeysEnvironmentSafe DEF AccountInv, KeysNext
  <2>2. AuthOrigin
    BY <1>3, KeysLeaveToOthers DEF AccountInv
  <2>3. Grows
    <3>1. SUFFICES ASSUME NEW d \in Dids, Exists(d), links'.primary[d] = NoDid PROVE FALSE
      BY DEF Grows, Exists
    <3>2. links'.primary[d] # links.primary[d]
      BY <3>1 DEF Exists
    <3>3. PICK a \in AuthIds : auths[a] # NoAuth /\ auths[a].target = links'.primary[d]
      BY <2>1, <3>1, <3>2 DEF StepAllowed, RotateStep
    <3>4. auths[a].target \in KeySet
      BY <3>3 DEF AccountInv, KeysInv, AuthsSound, AuthSound
    <3> QED BY <3>1, <3>3, <3>4, KeysAssumption
  <2>4. InvitesSound'
    BY <2>2, MultiSigAssumption DEF AccountInv, InvitesSound, AuthOrigin
  <2> QED BY <1>1, <2>1, <2>3, <2>4, KeepAccounts DEF StepAllowed
<1> QED BY <1>2, <1>3

\* An identity invites a key to sign for a multisig.
LEMMA InviteSafe ==
    ASSUME AccountInv, NEW d \in Dids, Exists(d), NEW s \in KeySet, NEW m \in MultiSigs,
           AddAuth(d, s, <<"AddMultiSigSigner", m>>),
           UNCHANGED <<links, parentDid, childDid, frozenDids, refCount, consents, cdd, cddRotation>>
    PROVE  KeysInv' /\ Grows /\ SignersStay /\ InvitesSound'
<1>1. LinksAgree(links') /\ Grows /\ SignersStay
  BY KeepLinks DEF AccountInv, KeysInv, StepAllowed
<1>2. PICK data : data = <<"AddMultiSigSigner", m>>
  OBVIOUS
<1>3. AddAuth(d, s, data) /\ data[1] = "AddMultiSigSigner" /\ Exists(d)'
  BY <1>1, <1>2 DEF Grows
<1>4. AuthsSound'
  BY <1>1, <1>3, AddAuthSound DEF AccountInv, KeysInv
<1>5. KeysInv'
  BY <1>1, <1>4, KeepChildren DEF AccountInv, KeysInv, RestTyped
<1>6. \A a \in AuthIds : auths'[a] = auths[a] \/ auths'[a].data = data
  BY <1>3, SMTT(60) DEF AddAuth, AccountInv, KeysInv, AuthsSound
<1>7. InvitesSound'
  BY <1>2, <1>6 DEF AccountInv, InvitesSound
<1> QED BY <1>1, <1>5, <1>7

LEMMA CreateMultisigSafe ==
    ASSUME AccountInv, NEW k \in KeySet, NEW m \in MultiSigs, NEW s \in Invitees, CreateMultisig(k, m, s)
    PROVE  SafeStep
<1>1. PICK d \in Dids :
         /\ EnsurePerms(k, d) /\ Creator(m) = NoDid /\ AddAuth(d, s, <<"AddMultiSigSigner", m>>)
         /\ accounts' = [creator |-> [accounts.creator EXCEPT ![m] = d], signers |-> accounts.signers,
                         number |-> accounts.number, required |-> [accounts.required EXCEPT ![m] = 1]]
         /\ UNCHANGED <<links, parentDid, childDid, frozenDids, refCount, consents, cdd, cddRotation>>
  BY DEF CreateMultisig
<1>2. Exists(d) /\ s \in KeySet
  BY <1>1, SignerLinked, ConstantSorts DEF AccountInv, KeysInv, EnsurePerms
<1>3. KeysInv' /\ Grows /\ SignersStay /\ InvitesSound'
  BY <1>1, <1>2, InviteSafe
<1>4. accounts' \in Accounts
  BY <1>1 DEF AccountInv, Accounts
<1>5. \A n \in MultiSigs : /\ Signers(n)' = Signers(n) /\ accounts'.number[n] = accounts.number[n]
                           /\ n # m => Creator(n)' = Creator(n) /\ accounts'.required[n] = accounts.required[n]
                           /\ n = m => Creator(n)' = d
  BY <1>1, AccountFields DEF AccountInv, Signers, Creator
<1>6. CreatorsExist'
  BY <1>2, <1>3, <1>5, AccountFields, KeysAssumption, SMTT(60) DEF AccountInv, CreatorsExist, Grows, Creator
<1>7. SignersHaveRecords' /\ SignerCountExact'
  BY <1>1, <1>5, SMTT(60) DEF AccountInv, SignersHaveRecords, SignerCountExact
<1>8. CreatorStep /\ QuorumStep /\ SignerStep /\ FixedStep
  BY <1>1, <1>5 DEF CreatorStep, QuorumStep, SignerStep, FixedStep
<1> QED BY <1>3, <1>4, <1>6, <1>7, <1>8 DEF AccountInv, SafeStep

\* The record of a signer says nothing about the keys of identities.
LEMMA SignerLinks ==
    ASSUME LinksAgree(links), links'.didKeys = links.didKeys, links'.primary = links.primary,
           links' = [key |-> links'.key, didKeys |-> links'.didKeys, primary |-> links'.primary],
           links'.key \in [KeySet -> KeyRecord],
           \A k \in KeySet : \/ links'.key[k] = links.key[k]
                             \/ /\ links.key[k].kind \in {"Unlinked", "Signer"}
                                /\ links'.key[k].kind \in {"Unlinked", "Signer"}
    PROVE  LinksAgree(links') /\ Grows
<1>1. links' \in Links
  BY LinksFields DEF Links
<1>2. \A k \in KeySet, d \in Dids : LinkedIn(links', k, d) <=> LinkedIn(links, k, d)
  BY DEF LinkedIn
<1>3. \A k \in KeySet, d \in Dids : links'.key[k] = PrimaryKey(d) <=> links.key[k] = PrimaryKey(d)
  BY SMTT(60) DEF PrimaryKey
<1>4. LinksAgree(links')
  BY <1>1, <1>2, <1>3, SMTT(60) DEF LinksAgree
<1> QED BY <1>4 DEF Grows, Exists

LEMMA AcceptMultisigSignerSafe ==
    ASSUME KeysCounted, AccountInv, NEW k \in KeySet, NEW a \in AuthIds, AcceptMultisigSigner(k, a)
    PROVE  SafeStep
<1>1. PICK m \in MultiSigs : auths[a].data = <<"AddMultiSigSigner", m>>
  BY DEF AcceptMultisigSigner, CanAccept, AccountInv, InvitesSound
<1>2. /\ auths[a] # NoAuth /\ auths[a].target = k /\ auths[a].by = Creator(m) /\ Creator(m) # NoDid
      /\ IsChangingSignersAllowed(m) /\ k \notin Signers(m) /\ links.key[k] = Unlinked
      /\ accounts' = WithSigners(m, Signers(m) \cup {k}, accounts.number[m] + 1)
      /\ links' = AddKeyRecord(links, k, MultiSigSignerKey(m)) /\ RemoveAuths({a})
      /\ UNCHANGED <<parentDid, childDid, frozenDids, refCount, consents, cdd, cddRotation>>
  BY <1>1, SMTT(60) DEF AcceptMultisigSigner, CanAccept
<1>3. m \in KeySet
  BY ConstantSorts
<1>4. /\ links' = [key |-> [links.key EXCEPT ![k] = MultiSigSignerKey(m)], didKeys |-> links.didKeys,
                   primary |-> links.primary]
  BY <1>2, <1>3, SignerRecords DEF AddKeyRecord
<1>5. /\ links'.key \in [KeySet -> KeyRecord] /\ links'.didKeys = links.didKeys /\ links'.primary = links.primary
      /\ links' = [key |-> links'.key, didKeys |-> links'.didKeys, primary |-> links'.primary]
      /\ links'.key[k] = MultiSigSignerKey(m) /\ \A j \in KeySet \ {k} : links'.key[j] = links.key[j]
  BY <1>3, <1>4, LinksFields, SignerRecords DEF AccountInv, KeysInv
<1>6. links.key[k].kind = "Unlinked" /\ links'.key[k].kind = "Signer"
  BY <1>2, <1>3, <1>5, SignerRecords, SMTT(60) DEF Unlinked
<1>7. LinksAgree(links') /\ Grows
  BY <1>5, <1>6, SignerLinks DEF AccountInv, KeysInv
<1>8. AuthsSound' /\ auths'[a] = NoAuth
  BY <1>2, <1>7, RemoveAuthsSound DEF AccountInv, KeysInv
<1>9. KeysInv'
  BY <1>2, <1>7, <1>8, KeepChildren DEF AccountInv, KeysInv, RestTyped
<1>10. InvitesSound'
  BY <1>2 DEF AccountInv, InvitesSound, RemoveAuths
<1>11. accounts.number[m] = Cardinality(Signers(m)) /\ Signers(m) \in SUBSET KeySet
  BY AccountFields DEF AccountInv, SignerCountExact, Signers
<1>12. /\ Cardinality(Signers(m)) \in Nat
       /\ Cardinality(Signers(m) \cup {k}) = Cardinality(Signers(m)) + 1
  BY <1>2, <1>11 DEF KeysCounted
<1>13. accounts' \in Accounts
  BY <1>2, <1>11, <1>12, AccountFields, SMTT(60) DEF AccountInv, WithSigners, Accounts
<1>14. \A n \in MultiSigs :
          /\ Creator(n)' = Creator(n) /\ accounts'.required[n] = accounts.required[n]
          /\ n # m => Signers(n)' = Signers(n) /\ accounts'.number[n] = accounts.number[n]
          /\ n = m => Signers(n)' = Signers(n) \cup {k} /\ accounts'.number[n] = accounts.number[n] + 1
  BY <1>2, AccountFields DEF AccountInv, Signers, Creator, WithSigners
<1>15. CreatorsExist'
  <2>1. SUFFICES ASSUME NEW n \in MultiSigs
                 PROVE  IF Creator(n)' = NoDid THEN Signers(n)' = {} ELSE links'.primary[Creator(n)'] # NoDid
    BY DEF CreatorsExist, Exists
  <2>2. IF Creator(n) = NoDid THEN Signers(n) = {} ELSE links.primary[Creator(n)] # NoDid
    BY DEF AccountInv, CreatorsExist, Exists
  <2> QED BY <1>2, <1>5, <1>14, <2>2
<1>16. SignersHaveRecords'
  <2>1. SUFFICES ASSUME NEW j \in KeySet, NEW n \in MultiSigs
                 PROVE  j \in Signers(n)' <=> links'.key[j] = MultiSigSignerKey(n)
    BY DEF SignersHaveRecords
  <2>2. j \in Signers(n) <=> links.key[j] = MultiSigSignerKey(n)
    BY DEF AccountInv, SignersHaveRecords
  <2>3. n \in KeySet
    BY ConstantSorts
  <2>4. CASE j = k
    BY <1>2, <1>3, <1>5, <1>14, <2>2, <2>3, <2>4, SignerRecords, SMTT(60)
  <2>5. CASE j # k
    BY <1>5, <1>14, <2>2, <2>5, SMTT(60)
  <2> QED BY <2>4, <2>5
<1>17. SignerCountExact'
  BY <1>11, <1>12, <1>14 DEF AccountInv, SignerCountExact
<1>18. QuorumStep
  <2>1. \A n \in MultiSigs : n # m => Cardinality(Signers(n)') = Cardinality(Signers(n))
    BY <1>14
  <2>2. Cardinality(Signers(m)') = Cardinality(Signers(m)) + 1 /\ accounts.required[m] \in Nat
    BY <1>12, <1>14, AccountFields DEF AccountInv
  <2> QED BY <1>12, <1>14, <2>1, <2>2, SMTT(60) DEF QuorumStep
<1>19. CreatorStep /\ SignerStep
  BY <1>1, <1>2, <1>8, <1>14 DEF CreatorStep, SignerStep
<1>20. FixedStep
  BY <1>2, <1>14, PrimaryFixed DEF AccountInv, FixedStep
<1> QED BY <1>9, <1>10, <1>13, <1>15, <1>16, <1>17, <1>18, <1>19, <1>20 DEF AccountInv, SafeStep

\* Removing signers that leave enough for a quorum.
LEMMA RemoveSignersSafe ==
    ASSUME KeysCounted, AccountInv, NEW m \in MultiSigs, NEW ks \in SUBSET Signers(m), IsChangingSignersAllowed(m),
           accounts.number[m] >= Cardinality(ks) + accounts.required[m],
           RemoveSigners(m, ks, accounts.number[m] - Cardinality(ks))
    PROVE  SafeStep
<1>1. PICK left : left = accounts.number[m] - Cardinality(ks)
  OBVIOUS
<1>2. /\ accounts' = WithSigners(m, Signers(m) \ ks, left)
      /\ links' = [links EXCEPT !.key = [k \in KeySet |->
                     IF k \in ks THEN RemoveKeyRecord(links, k, NoDid).key[k] ELSE @[k]]]
      /\ UNCHANGED <<parentDid, childDid, frozenDids, auths, given, nextAuth, refCount, consents,
                     cdd, cddRotation>>
  BY <1>1 DEF RemoveSigners
<1>3. /\ Cardinality(Signers(m)) \in Nat
      /\ Signers(m) \in SUBSET KeySet /\ accounts.number[m] = Cardinality(Signers(m))
  BY SignersCounted DEF AccountInv, SignerCountExact
<1>4. Cardinality(ks) \in Nat /\ Cardinality(ks) <= Cardinality(Signers(m))
  BY <1>3 DEF KeysCounted
<1>5. left \in Nat /\ left = Cardinality(Signers(m) \ ks)
  <2>3. Cardinality(Signers(m) \ ks) = Cardinality(Signers(m)) - Cardinality(ks)
    BY <1>3 DEF KeysCounted
  <2> QED BY <1>1, <1>3, <1>4, <2>3, SMTT(60)
<1>6. left >= accounts.required[m] /\ accounts.required[m] \in Nat
  BY <1>1, <1>3, <1>4, AccountFields, SMTT(60) DEF AccountInv
<1>7. links \in Links
  BY DEF AccountInv, KeysInv, LinksAgree
<1>8. ASSUME NEW k \in ks
      PROVE  links.key[k] = MultiSigSignerKey(m) /\ RemoveKeyRecord(links, k, NoDid).key[k] = Unlinked
  <2>1. k \in KeySet /\ links.key[k] = MultiSigSignerKey(m) /\ links.key[k].kind = "Signer"
    BY <1>3, SignerRecords, ConstantSorts DEF AccountInv, SignersHaveRecords
  <2>2. RemoveKeyRecord(links, k, NoDid) = [links EXCEPT !.key = [@ EXCEPT ![k] = Unlinked]]
    BY <2>1 DEF RemoveKeyRecord
  <2> QED BY <1>7, <2>1, <2>2 DEF Links
<1>9. /\ links'.didKeys = links.didKeys /\ links'.primary = links.primary
      /\ links' = [key |-> links'.key, didKeys |-> links'.didKeys, primary |-> links'.primary]
      /\ links'.key = [k \in KeySet |-> IF k \in ks THEN RemoveKeyRecord(links, k, NoDid).key[k] ELSE links.key[k]]
  BY <1>2, <1>7 DEF Links
<1>10. \A k \in KeySet : links'.key[k] = IF k \in ks THEN Unlinked ELSE links.key[k]
  BY <1>8, <1>9
<1>11. links'.key \in [KeySet -> KeyRecord]
  BY <1>7, <1>8, <1>9, SMTT(60) DEF Links, KeyRecord
<1>12. \A k \in KeySet : \/ links'.key[k] = links.key[k]
                         \/ /\ links.key[k].kind \in {"Unlinked", "Signer"}
                            /\ links'.key[k].kind \in {"Unlinked", "Signer"}
  <2>1. Unlinked.kind = "Unlinked" /\ MultiSigSignerKey(m).kind = "Signer"
    BY DEF Unlinked, MultiSigSignerKey
  <2> QED BY <1>8, <1>10, <2>1
<1>13. LinksAgree(links') /\ Grows
  BY <1>9, <1>11, <1>12, SignerLinks DEF AccountInv, KeysInv
<1>14. KeysInv'
  BY <1>2, <1>13, KeepAuths, KeepChildren DEF AccountInv, KeysInv, RestTyped
<1>15. InvitesSound'
  BY <1>2 DEF AccountInv, InvitesSound
<1>16. accounts' \in Accounts
  BY <1>2, <1>3, <1>5, AccountFields DEF AccountInv, WithSigners, Accounts
<1>17. \A n \in MultiSigs :
          /\ Creator(n)' = Creator(n) /\ accounts'.required[n] = accounts.required[n]
          /\ n # m => Signers(n)' = Signers(n) /\ accounts'.number[n] = accounts.number[n]
          /\ n = m => Signers(n)' = Signers(n) \ ks /\ accounts'.number[n] = left
  BY <1>2, AccountFields DEF AccountInv, Signers, Creator, WithSigners
<1>18. CreatorsExist'
  BY <1>13, <1>17, AccountFields, KeysAssumption, SMTT(60) DEF AccountInv, CreatorsExist, Grows, Creator
<1>19. SignersHaveRecords'
  <2>1. SUFFICES ASSUME NEW j \in KeySet, NEW n \in MultiSigs
                 PROVE  j \in Signers(n)' <=> links'.key[j] = MultiSigSignerKey(n)
    BY DEF SignersHaveRecords
  <2>2. j \in Signers(n) <=> links.key[j] = MultiSigSignerKey(n)
    BY DEF AccountInv, SignersHaveRecords
  <2>3. n \in KeySet /\ m \in KeySet
    BY ConstantSorts
  <2>4. CASE j \in ks
    <3>1. links'.key[j] # MultiSigSignerKey(n)
      BY <1>10, <2>3, <2>4, SignerRecords
    <3>2. n # m => j \notin Signers(n)
      BY <1>8, <2>2, <2>3, <2>4, SignerRecords
    <3> QED BY <1>17, <2>4, <3>1, <3>2
  <2>5. CASE j \notin ks
    BY <1>10, <1>17, <2>2, <2>5
  <2> QED BY <2>4, <2>5
<1>20. SignerCountExact'
  BY <1>5, <1>17 DEF AccountInv, SignerCountExact
<1>21. QuorumStep
  <2>1. \A n \in MultiSigs : n # m => Cardinality(Signers(n)') = Cardinality(Signers(n))
    BY <1>17
  <2>2. Cardinality(Signers(m)') = left
    BY <1>5, <1>17
  <2> QED BY <1>5, <1>6, <1>17, <2>1, <2>2 DEF QuorumStep
<1>22. CreatorStep /\ SignerStep
  BY <1>17 DEF CreatorStep, SignerStep
<1>23. FixedStep
  BY <1>17, PrimaryFixed DEF AccountInv, FixedStep
<1> QED BY <1>14, <1>15, <1>16, <1>18, <1>19, <1>20, <1>21, <1>22, <1>23 DEF AccountInv, SafeStep

LEMMA ChangedSigsSafe ==
    ASSUME AccountInv, NEW m \in MultiSigs, NEW n \in Nat, CanChangeSigs(m, n),
           accounts' = ChangedSigs(m, n), UNCHANGED keyVars
    PROVE  SafeStep
<1>1. accounts' \in Accounts
  BY DEF AccountInv, Accounts, ChangedSigs
<1>2. \A q \in MultiSigs : /\ Creator(q)' = Creator(q) /\ Signers(q)' = Signers(q)
                           /\ accounts'.number[q] = accounts.number[q]
                           /\ accounts'.required[q] = IF q = m THEN n ELSE accounts.required[q]
  BY AccountFields DEF AccountInv, Accounts, ChangedSigs, Signers, Creator
<1>3. KeysInv' /\ InvitesSound'
  BY KeysStepSafe DEF AccountInv, InvitesSound, keyVars
<1>4. CreatorsExist' /\ SignersHaveRecords' /\ SignerCountExact'
  BY <1>2, SMTT(60) DEF AccountInv, CreatorsExist, Exists, SignersHaveRecords, SignerCountExact, keyVars
<1>5. n <= Cardinality(Signers(m))
  BY AccountFields DEF AccountInv, SignerCountExact, CanChangeSigs
<1>6. CreatorStep /\ QuorumStep /\ SignerStep
  BY <1>2, <1>5 DEF CreatorStep, QuorumStep, SignerStep
<1>7. FixedStep
  BY <1>2, PrimaryFixed DEF AccountInv, FixedStep, CanChangeSigs
<1> QED BY <1>1, <1>3, <1>4, <1>6, <1>7 DEF AccountInv, SafeStep

LEMMA MakeMultisigSecondarySafe ==
    ASSUME AccountInv, NEW k \in KeySet, NEW m \in MultiSigs, MakeMultisigSecondary(k, m)
    PROVE  SafeStep
<1>1. PICK d : d = Creator(m)
  OBVIOUS
<1>2. /\ d # NoDid /\ links.key[m] = Unlinked /\ UNCHANGED accounts
      /\ links' = AddKeyRecord(links, m, SecondaryKey(d, "empty"))
      /\ UNCHANGED <<parentDid, childDid, frozenDids, auths, given, nextAuth, refCount, consents,
                     cdd, cddRotation>>
  BY <1>1 DEF MakeMultisigSecondary, msVars
<1>3. m \in KeySet /\ d \in Dids /\ links.primary[d] # NoDid /\ "empty" \in Perms
  BY <1>1, <1>2, AccountFields, ConstantSorts DEF AccountInv, CreatorsExist, Exists, Creator, Perms
<1>4. /\ LinksAgree(links') /\ links'.primary = links.primary
      /\ links'.key = [links.key EXCEPT ![m] = SecondaryKey(d, "empty")]
  BY <1>2, <1>3, AddSecondary, SMTT(60) DEF AccountInv, KeysInv
<1>5. Grows
  BY <1>4 DEF Grows, Exists
<1>6. \A j \in KeySet : links'.key[j] = IF j = m THEN SecondaryKey(d, "empty") ELSE links.key[j]
  BY <1>3, <1>4, LinksFields DEF AccountInv, KeysInv
<1>7. SignersStay
  BY <1>2, <1>6, SignerRecords, SMTT(60) DEF SignersStay
<1>8. KeysInv'
  BY <1>2, <1>4, <1>5, KeepAuths, KeepChildren DEF AccountInv, KeysInv, RestTyped
<1>9. InvitesSound'
  BY <1>2 DEF AccountInv, InvitesSound
<1> QED BY <1>2, <1>5, <1>7, <1>8, <1>9, KeepAccounts

LEMMA MakeMultisigPrimarySafe ==
    ASSUME AccountInv, NEW k \in KeySet, NEW m \in MultiSigs, NEW c \in AuthIds \cup {0},
           MakeMultisigPrimary(k, m, c)
    PROVE  SafeStep
<1>1. PICK d : d = Creator(m)
  OBVIOUS
<1>2. PICK used : used = IF cddRotation THEN {c} ELSE {}
  OBVIOUS
<1>3. /\ d # NoDid /\ CanRotate(d, m, "none", c) /\ UNCHANGED accounts
      /\ links' = RotatedLinks(d, m, "none") /\ RemoveAuths(used)
      /\ UNCHANGED <<parentDid, childDid, frozenDids, refCount, consents, cdd, cddRotation>>
  BY <1>1, <1>2 DEF MakeMultisigPrimary, EnsureMsCreator, msVars
<1>4. m \in KeySet /\ d \in Dids /\ Exists(d)
  BY <1>1, <1>3, AccountFields, ConstantSorts DEF AccountInv, CreatorsExist, Creator
<1>5. PICK old \in KeySet : old = links.primary[d] /\ (links.key[m] = Unlinked \/ IsSecondaryKey(m, d))
  BY <1>3 DEF CanRotate
<1>6. used \in SUBSET AuthIds /\ \A b \in used : auths[b] # NoAuth
  BY <1>2, <1>3 DEF CanRotate
<1>7. /\ LinksAgree(links')
      /\ links'.primary = [links.primary EXCEPT ![d] = m]
      /\ links'.key = [links.key EXCEPT ![m] = PrimaryKey(d), ![old] = Unlinked]
      /\ links.key[old] = PrimaryKey(d)
  BY <1>3, <1>4, <1>5, Rotation DEF AccountInv, KeysInv
<1>8. Grows
  BY <1>4, <1>7, LinksFields, KeysAssumption, SMTT(60) DEF AccountInv, KeysInv, Grows, Exists
<1>9. \A j \in KeySet : links'.key[j] = IF j = old THEN Unlinked
                                        ELSE IF j = m THEN PrimaryKey(d) ELSE links.key[j]
  BY <1>4, <1>7, LinksFields DEF AccountInv, KeysInv
<1>10. SignersStay
  <2>1. links.key[m].kind # "Signer" /\ links.key[old].kind # "Signer"
    BY <1>5, <1>7, SignerRecords, SMTT(60) DEF IsSecondaryKey
  <2> QED BY <1>9, <2>1, SignerRecords DEF SignersStay
<1>11. AuthsSound'
  BY <1>3, <1>6, <1>8, RemoveAuthsSound DEF AccountInv, KeysInv
<1>12. KeysInv'
  BY <1>3, <1>7, <1>8, <1>11, KeepChildren DEF AccountInv, KeysInv, RestTyped
<1>13. InvitesSound'
  BY <1>3 DEF AccountInv, InvitesSound, RemoveAuths
<1> QED BY <1>3, <1>8, <1>10, <1>12, <1>13, KeepAccounts

=============================================================================
