-------------------------- MODULE PortfolioProofs ---------------------------
(***************************************************************************)
(* What portfolios hold (Ledger) and who acts for them (Custody), for every *)
(* value of the constants.                                                 *)
(*                                                                         *)
(* Ledger: the inductive invariant joins the types, the cover of the       *)
(* locks, the exact count of assets, and the fact that default portfolios  *)
(* are never deleted: the count is what makes the deletion of a portfolio  *)
(* safe for the locks.                                                     *)
(*                                                                         *)
(* Custody: the two pairs of maps agree by induction once the maps are     *)
(* known to be about identities, names and numbers, and every number is    *)
(* given out once (CustodyInv).  That custody only changes by consent needs *)
(* the same invariant: NewCustodyPortfolio does not look at the custodian  *)
(* it replaces, and takes nothing from anybody only because the number it  *)
(* uses is not yet the number of a portfolio.                              *)
(*                                                                         *)
(* The lemmas on steps take how sets of tokens are counted as a hypothesis *)
(* (TokensCounted), which is proved at the end from the theorems on finite *)
(* sets: only that proof needs them.                                       *)
(***************************************************************************)
EXTENDS Ledger, Custody, TLAPS

\* Steps are Zenon's unless they cite the SMT solver.
USE ZenonT(60)

-----------------------------------------------------------------------------
(* The custody of portfolios. *)

CustodyTypes ==
    /\ nextNumber \in [Holders -> 1..(MaxNumber + 1)]
    /\ DOMAIN nameOf \subseteq Holders \X (1..MaxNumber)
    /\ \A pid \in DOMAIN nameOf : nameOf[pid] \in Names
    /\ DOMAIN nameToNumber \subseteq Holders \X Names
    /\ \A k \in DOMAIN nameToNumber : nameToNumber[k] \in 1..MaxNumber
    /\ DOMAIN custodianOf \subseteq Pids
    /\ \A pid \in DOMAIN custodianOf : custodianOf[pid] \in Holders
    /\ custodyAuths \subseteq [from : Holders, to : Holders, pid : Pids]

NamesAgree ==
    /\ \A pid \in DOMAIN nameOf :
          /\ pid[2] < nextNumber[pid[1]]
          /\ <<pid[1], nameOf[pid]>> \in DOMAIN nameToNumber
          /\ nameToNumber[<<pid[1], nameOf[pid]>>] = pid[2]
    /\ \A k \in DOMAIN nameToNumber :
          /\ <<k[1], nameToNumber[k]>> \in DOMAIN nameOf
          /\ nameOf[<<k[1], nameToNumber[k]>>] = k[2]

Listed == \A pid \in DOMAIN custodianOf : <<custodianOf[pid], pid>> \in inCustody

CustodyInv == CustodyTypes /\ NamesAgree /\ Listed

ConsentStep ==
    \A pid \in DOMAIN nameOf \cup (Holders \X {0}) :
      CustodianOf(pid)' # CustodianOf(pid) =>
         \/ CustodianOf(pid)' = pid[1] /\ <<CustodianOf(pid), pid>> \notin inCustody'
         \/ [from |-> CustodianOf(pid), to |-> CustodianOf(pid)', pid |-> pid]
               \in custodyAuths \ custodyAuths'

LEMMA CustodyInvInitially == InitCustody => CustodyInv
<1> SUFFICES ASSUME InitCustody PROVE CustodyInv
  OBVIOUS
<1>1. DOMAIN nameOf = {} /\ DOMAIN nameToNumber = {} /\ DOMAIN custodianOf = {}
  BY SMTT(60) DEF InitCustody
<1> QED BY <1>1, CustodyAssumption, SMTT(60) DEF InitCustody, CustodyInv, CustodyTypes, NamesAgree, Listed

-----------------------------------------------------------------------------
(* Names and numbers. *)

\* A new portfolio has a number and a name that no portfolio of its owner has.
LEMMA CreateKeepsNames ==
    ASSUME CustodyInv, NEW owner \in Holders, NEW name \in Names, BaseCreatePortfolio(owner, name)
    PROVE  /\ NamesAgree'
           /\ nextNumber' \in [Holders -> 1..(MaxNumber + 1)]
           /\ DOMAIN nameOf' \subseteq Holders \X (1..MaxNumber)
           /\ \A pid \in DOMAIN nameOf' : nameOf'[pid] \in Names
           /\ DOMAIN nameToNumber' \subseteq Holders \X Names
           /\ \A k \in DOMAIN nameToNumber' : nameToNumber'[k] \in 1..MaxNumber
           /\ <<owner, nextNumber[owner]>> \in Pids \ (DOMAIN nameOf \cup (Holders \X {0}))
<1>1. PICK n \in 1..MaxNumber : n = nextNumber[owner]
  BY CustodyAssumption, SMTT(60) DEF CustodyInv, CustodyTypes, BaseCreatePortfolio
<1>2. PICK pid : pid = <<owner, n>>
  OBVIOUS
<1>3. PICK key : key = <<owner, name>>
  OBVIOUS
<1>4. /\ nextNumber' = [nextNumber EXCEPT ![owner] = n + 1]
      /\ nameOf' = Put(nameOf, pid, name) /\ nameToNumber' = Put(nameToNumber, key, n)
      /\ key \notin DOMAIN nameToNumber
  BY <1>1, <1>2, <1>3 DEF BaseCreatePortfolio, EnsureNameUnique
<1>5. /\ DOMAIN nameOf' = DOMAIN nameOf \cup {pid} /\ nameOf'[pid] = name
      /\ \A z \in DOMAIN nameOf \ {pid} : nameOf'[z] = nameOf[z]
  BY <1>4 DEF Put
<1>6. /\ DOMAIN nameToNumber' = DOMAIN nameToNumber \cup {key} /\ nameToNumber'[key] = n
      /\ \A z \in DOMAIN nameToNumber \ {key} : nameToNumber'[z] = nameToNumber[z]
  BY <1>4 DEF Put
<1>7. nextNumber' \in [Holders -> 1..(MaxNumber + 1)] /\ \A d \in Holders : nextNumber'[d] >= nextNumber[d]
  BY <1>1, <1>4, CustodyAssumption, SMTT(60) DEF CustodyInv, CustodyTypes
<1>8. pid \notin DOMAIN nameOf
  <2>1. pid[1] = owner /\ pid[2] = n /\ ~(n < n)
    BY <1>1, <1>2, SMTT(60)
  <2> QED BY <1>1, <2>1 DEF CustodyInv, NamesAgree
<1>9. ASSUME NEW z \in DOMAIN nameOf'
      PROVE  /\ z[2] < nextNumber'[z[1]]
             /\ <<z[1], nameOf'[z]>> \in DOMAIN nameToNumber'
             /\ nameToNumber'[<<z[1], nameOf'[z]>>] = z[2]
  <2>1. CASE z = pid
    BY <1>1, <1>2, <1>3, <1>4, <1>5, <1>6, <2>1, SMTT(60) DEF CustodyInv, CustodyTypes
  <2>2. CASE z \in DOMAIN nameOf
    <3>1. z \in Holders \X (1..MaxNumber) /\ z[2] < nextNumber[z[1]]
      BY <2>2 DEF CustodyInv, CustodyTypes, NamesAgree
    <3>2. z[2] < nextNumber'[z[1]]
      BY <1>7, <3>1, CustodyAssumption, SMTT(60) DEF CustodyInv, CustodyTypes
    <3>3. nameOf'[z] = nameOf[z]
      BY <1>5, <1>8, <2>2
    <3>4. <<z[1], nameOf[z]>> \in DOMAIN nameToNumber /\ nameToNumber[<<z[1], nameOf[z]>>] = z[2]
      BY <2>2 DEF CustodyInv, NamesAgree
    <3> QED BY <1>4, <1>6, <3>2, <3>3, <3>4
  <2> QED BY <1>5, <2>1, <2>2
<1>10. ASSUME NEW k \in DOMAIN nameToNumber'
       PROVE  /\ <<k[1], nameToNumber'[k]>> \in DOMAIN nameOf'
              /\ nameOf'[<<k[1], nameToNumber'[k]>>] = k[2]
  <2>1. CASE k = key
    BY <1>2, <1>3, <1>5, <1>6, <2>1
  <2>2. CASE k \in DOMAIN nameToNumber
    <3>1. nameToNumber'[k] = nameToNumber[k]
      BY <1>4, <1>6, <2>2
    <3>2. /\ <<k[1], nameToNumber[k]>> \in DOMAIN nameOf
          /\ nameOf[<<k[1], nameToNumber[k]>>] = k[2]
      BY <2>2 DEF CustodyInv, NamesAgree
    <3> QED BY <1>5, <1>8, <3>1, <3>2
  <2> QED BY <1>6, <2>1, <2>2
<1>11. NamesAgree'
  BY <1>9, <1>10 DEF NamesAgree
<1>12. pid \in Holders \X (1..MaxNumber) /\ key \in Holders \X Names
  BY <1>2, <1>3
<1>13. pid \in Pids /\ pid \notin Holders \X {0}
  BY <1>2, CustodyAssumption, SMTT(60) DEF Pids
<1> QED BY <1>1, <1>2, <1>5, <1>6, <1>7, <1>8, <1>11, <1>12, <1>13 DEF CustodyInv, CustodyTypes

\* Deleting a portfolio frees its name, and the name of no other.
LEMMA DeleteKeepsNames ==
    ASSUME CustodyInv, NEW pid \in DOMAIN nameOf, UNCHANGED nextNumber,
           nameToNumber' = Drop(nameToNumber, <<pid[1], nameOf[pid]>>), nameOf' = Drop(nameOf, pid)
    PROVE  /\ NamesAgree'
           /\ \A z \in DOMAIN nameOf' : z \in DOMAIN nameOf /\ nameOf'[z] = nameOf[z]
           /\ \A z \in DOMAIN nameToNumber' : z \in DOMAIN nameToNumber /\ nameToNumber'[z] = nameToNumber[z]
<1>1. PICK key : key = <<pid[1], nameOf[pid]>>
  OBVIOUS
<1>2. DOMAIN nameOf' = DOMAIN nameOf \ {pid} /\ \A z \in DOMAIN nameOf \ {pid} : nameOf'[z] = nameOf[z]
  BY DEF Drop
<1>3. /\ DOMAIN nameToNumber' = DOMAIN nameToNumber \ {key}
      /\ \A z \in DOMAIN nameToNumber \ {key} : nameToNumber'[z] = nameToNumber[z]
  BY <1>1 DEF Drop
<1>4. pid \in Holders \X (1..MaxNumber) /\ pid = <<pid[1], pid[2]>>
  BY SMTT(60) DEF CustodyInv, CustodyTypes
<1>5. ASSUME NEW z \in DOMAIN nameOf'
      PROVE  /\ z[2] < nextNumber'[z[1]]
             /\ <<z[1], nameOf'[z]>> \in DOMAIN nameToNumber'
             /\ nameToNumber'[<<z[1], nameOf'[z]>>] = z[2]
  <2>1. z \in DOMAIN nameOf /\ z # pid /\ nameOf'[z] = nameOf[z]
    BY <1>2
  <2>2. /\ z[2] < nextNumber[z[1]] /\ <<z[1], nameOf[z]>> \in DOMAIN nameToNumber
        /\ nameToNumber[<<z[1], nameOf[z]>>] = z[2] /\ nameToNumber[key] = pid[2]
    BY <1>1, <2>1 DEF CustodyInv, NamesAgree
  <2>3. z = <<z[1], z[2]>>
    BY <2>1, SMTT(60) DEF CustodyInv, CustodyTypes
  <2>4. <<z[1], nameOf[z]>> # key
    BY <1>1, <1>4, <2>1, <2>2, <2>3
  <2> QED BY <1>3, <2>1, <2>2, <2>4
<1>6. ASSUME NEW k \in DOMAIN nameToNumber'
      PROVE  /\ <<k[1], nameToNumber'[k]>> \in DOMAIN nameOf'
             /\ nameOf'[<<k[1], nameToNumber'[k]>>] = k[2]
  <2>1. k \in DOMAIN nameToNumber /\ k # key /\ nameToNumber'[k] = nameToNumber[k]
    BY <1>3
  <2>2. /\ <<k[1], nameToNumber[k]>> \in DOMAIN nameOf
        /\ nameOf[<<k[1], nameToNumber[k]>>] = k[2] /\ k = <<k[1], k[2]>>
    BY <2>1, SMTT(60) DEF CustodyInv, CustodyTypes, NamesAgree
  <2>3. <<k[1], nameToNumber[k]>> # pid
    BY <1>1, <2>1, <2>2, SMTT(60)
  <2> QED BY <1>2, <2>1, <2>2, <2>3
<1> QED BY <1>2, <1>3, <1>5, <1>6 DEF NamesAgree

\* A portfolio that is renamed gives up one name for another that was free.
LEMMA RenameKeepsNames ==
    ASSUME CustodyInv, NEW did \in Holders, NEW num \in 1..MaxNumber, NEW name \in Names,
           RenamePortfolio(did, num, name)
    PROVE  CustodyInv'
<1>1. PICK pid : pid = <<did, num>> /\ pid \in DOMAIN nameOf
  BY DEF RenamePortfolio
<1>2. PICK old : old = <<did, nameOf[pid]>>
  OBVIOUS
<1>3. PICK new : new = <<did, name>> /\ new \notin DOMAIN nameToNumber
  BY DEF RenamePortfolio, EnsureNameUnique
<1>4. DOMAIN nameOf' = DOMAIN nameOf /\ nameOf'[pid] = name /\ \A z \in DOMAIN nameOf \ {pid} : nameOf'[z] = nameOf[z]
  BY <1>1 DEF RenamePortfolio
<1>5. nameToNumber' = Put(Drop(nameToNumber, old), new, num)
  BY <1>1, <1>2, <1>3 DEF RenamePortfolio
<1>6. /\ DOMAIN nameToNumber' = (DOMAIN nameToNumber \ {old}) \cup {new} /\ nameToNumber'[new] = num
      /\ \A z \in DOMAIN nameToNumber \ {old} : nameToNumber'[z] = nameToNumber[z]
  BY <1>3, <1>5 DEF Put, Drop
<1>7. UNCHANGED <<nextNumber, custodianOf, inCustody, custodyAuths>>
  BY DEF RenamePortfolio
<1>8. ASSUME NEW z \in DOMAIN nameOf'
      PROVE  /\ z[2] < nextNumber'[z[1]]
             /\ <<z[1], nameOf'[z]>> \in DOMAIN nameToNumber'
             /\ nameToNumber'[<<z[1], nameOf'[z]>>] = z[2]
  <2>1. /\ z[2] < nextNumber[z[1]] /\ <<z[1], nameOf[z]>> \in DOMAIN nameToNumber
        /\ nameToNumber[<<z[1], nameOf[z]>>] = z[2] /\ nameToNumber[old] = num /\ z = <<z[1], z[2]>>
    BY <1>1, <1>2, <1>4, SMTT(60) DEF CustodyInv, CustodyTypes, NamesAgree
  <2>2. CASE z = pid
    BY <1>1, <1>3, <1>4, <1>6, <1>7, <2>1, <2>2
  <2>3. CASE z # pid
    <3>1. <<z[1], nameOf[z]>> # old
      BY <1>1, <1>2, <2>1, <2>3
    <3> QED BY <1>4, <1>6, <1>7, <2>1, <2>3, <3>1
  <2> QED BY <2>2, <2>3
<1>9. ASSUME NEW k \in DOMAIN nameToNumber'
      PROVE  /\ <<k[1], nameToNumber'[k]>> \in DOMAIN nameOf'
             /\ nameOf'[<<k[1], nameToNumber'[k]>>] = k[2]
  <2>1. CASE k = new
    BY <1>1, <1>3, <1>4, <1>6, <2>1
  <2>2. CASE k \in DOMAIN nameToNumber \ {old}
    <3>1. /\ <<k[1], nameToNumber[k]>> \in DOMAIN nameOf
          /\ nameOf[<<k[1], nameToNumber[k]>>] = k[2] /\ k = <<k[1], k[2]>>
      BY <2>2, SMTT(60) DEF CustodyInv, CustodyTypes, NamesAgree
    <3>2. <<k[1], nameToNumber[k]>> # pid
      BY <1>1, <1>2, <2>2, <3>1
    <3> QED BY <1>4, <1>6, <2>2, <3>1, <3>2
  <2> QED BY <1>6, <2>1, <2>2
<1>10. NamesAgree'
  BY <1>8, <1>9 DEF NamesAgree
<1>11. new \in Holders \X Names
  BY <1>3
<1>12. CustodyTypes'
  BY <1>4, <1>6, <1>7, <1>11 DEF CustodyInv, CustodyTypes
<1>13. Listed'
  BY <1>7 DEF CustodyInv, Listed
<1> QED BY <1>10, <1>12, <1>13 DEF CustodyInv

-----------------------------------------------------------------------------
(* Custody. *)

CustodianTypes ==
    DOMAIN custodianOf \subseteq Pids /\ \A pid \in DOMAIN custodianOf : custodianOf[pid] \in Holders

\* A portfolio goes back to its owner: no other portfolio changes hands.
LEMMA BackToOwner ==
    ASSUME CustodyInv, NEW pid, NEW did, custodianOf' = Drop(custodianOf, pid),
           inCustody' = inCustody \ {<<did, pid>>}
    PROVE  /\ CustodianTypes' /\ Listed' /\ CustodianOf(pid)' = pid[1] /\ <<did, pid>> \notin inCustody'
           /\ \A z : z # pid => CustodianOf(z)' = CustodianOf(z)
<1>1. /\ DOMAIN custodianOf' = DOMAIN custodianOf \ {pid}
      /\ \A z \in DOMAIN custodianOf \ {pid} : custodianOf'[z] = custodianOf[z]
  BY DEF Drop
<1>2. CustodianTypes' /\ Listed'
  BY <1>1 DEF CustodyInv, CustodyTypes, CustodianTypes, Listed
<1>3. CustodianOf(pid)' = pid[1] /\ \A z : z # pid => CustodianOf(z)' = CustodianOf(z)
  BY <1>1 DEF CustodianOf
<1> QED BY <1>2, <1>3

\* A portfolio gets a custodian: no other portfolio changes hands.
LEMMA ToCustodian ==
    ASSUME CustodyInv, NEW pid \in Pids, NEW did \in Holders, NEW from,
           \/ TakePortfolioCustody(pid, did, inCustody)
           \/ TakePortfolioCustody(pid, did, inCustody \ {<<from, pid>>})
    PROVE  /\ CustodianTypes' /\ Listed' /\ CustodianOf(pid)' = did
           /\ \A z : z # pid => CustodianOf(z)' = CustodianOf(z)
<1>1. /\ DOMAIN custodianOf' = DOMAIN custodianOf \cup {pid} /\ custodianOf'[pid] = did
      /\ \A z \in DOMAIN custodianOf \ {pid} : custodianOf'[z] = custodianOf[z]
  BY DEF TakePortfolioCustody, Put
<1>2. <<did, pid>> \in inCustody' /\ \A e, z : z # pid /\ <<e, z>> \in inCustody => <<e, z>> \in inCustody'
  BY DEF TakePortfolioCustody
<1>3. CustodianTypes' /\ Listed'
  BY <1>1, <1>2 DEF CustodyInv, CustodyTypes, CustodianTypes, Listed
<1>4. CustodianOf(pid)' = did /\ \A z : z # pid => CustodianOf(z)' = CustodianOf(z)
  BY <1>1 DEF CustodianOf
<1> QED BY <1>3, <1>4

\* One step per call.
LEMMA CustodyStepSafe == CustodyInv /\ [CustodyNext]_custodyVars => CustodyInv' /\ [ConsentStep]_custodyVars
<1> SUFFICES ASSUME CustodyInv, [CustodyNext]_custodyVars
             PROVE  CustodyInv' /\ [ConsentStep]_custodyVars
  OBVIOUS
<1> DEFINE NameVars == <<nextNumber, nameOf, nameToNumber>>
           Custodians == <<custodianOf, inCustody>>
           NameTypes ==
             /\ nextNumber \in [Holders -> 1..(MaxNumber + 1)]
             /\ DOMAIN nameOf \subseteq Holders \X (1..MaxNumber)
             /\ \A pid \in DOMAIN nameOf : nameOf[pid] \in Names
             /\ DOMAIN nameToNumber \subseteq Holders \X Names
             /\ \A k \in DOMAIN nameToNumber : nameToNumber[k] \in 1..MaxNumber
           AuthTypes == custodyAuths \subseteq [from : Holders, to : Holders, pid : Pids]
<1>1. NameTypes /\ AuthTypes /\ CustodianTypes /\ NamesAgree /\ Listed
  BY DEF CustodyInv, CustodyTypes, CustodianTypes
<1>2. ASSUME NameTypes', AuthTypes', CustodianTypes', NamesAgree', Listed' PROVE CustodyInv'
  BY <1>2 DEF CustodyInv, CustodyTypes, CustodianTypes
<1>3. ASSUME UNCHANGED NameVars PROVE NameTypes' /\ NamesAgree'
  BY <1>1, <1>3 DEF NamesAgree
<1>4. ASSUME UNCHANGED Custodians
      PROVE  CustodianTypes' /\ Listed' /\ \A z : CustodianOf(z)' = CustodianOf(z)
  BY <1>1, <1>4 DEF CustodianTypes, Listed, CustodianOf
<1>5. ASSUME \A z \in DOMAIN nameOf \cup (Holders \X {0}) : CustodianOf(z)' = CustodianOf(z) PROVE ConsentStep
  BY <1>5 DEF ConsentStep
<1>6. ASSUME UNCHANGED custodyAuths PROVE AuthTypes'
  BY <1>1, <1>6
<1> HIDE DEF NameTypes, AuthTypes, NameVars, Custodians
<1>7. ASSUME NEW d \in Holders, NEW n \in Names, CreateNamedPortfolio(d, n) PROVE CustodyInv' /\ ConsentStep
  <2>1. BaseCreatePortfolio(d, n) /\ UNCHANGED Custodians /\ UNCHANGED custodyAuths
    BY <1>7 DEF CreateNamedPortfolio, Custodians
  <2>2. NameTypes' /\ NamesAgree'
    BY <2>1, CreateKeepsNames DEF NameTypes
  <2> QED BY <1>2, <1>4, <1>5, <1>6, <2>1, <2>2
<1>8. ASSUME NEW d \in Holders, NEW e \in Holders, NEW n \in Names, NewCustodyPortfolio(d, e, n)
      PROVE  CustodyInv' /\ ConsentStep
  <2>1. PICK pid : pid = <<e, nextNumber[e]>>
    OBVIOUS
  <2>2. BaseCreatePortfolio(e, n) /\ TakePortfolioCustody(pid, d, inCustody) /\ UNCHANGED custodyAuths
    BY <1>8, <2>1 DEF NewCustodyPortfolio
  <2>3. NameTypes' /\ NamesAgree' /\ pid \in Pids \ (DOMAIN nameOf \cup (Holders \X {0}))
    BY <2>1, <2>2, CreateKeepsNames DEF NameTypes
  <2>4. CustodianTypes' /\ Listed' /\ \A z : z # pid => CustodianOf(z)' = CustodianOf(z)
    BY <2>2, <2>3, ToCustodian
  <2> QED BY <1>2, <1>5, <1>6, <2>2, <2>3, <2>4
<1>9. ASSUME NEW d \in Holders, NEW num \in 1..MaxNumber, DeleteNamedPortfolio(d, num)
      PROVE  CustodyInv' /\ ConsentStep
  <2>1. PICK pid : pid = <<d, num>>
    OBVIOUS
  <2>2. /\ pid \in DOMAIN nameOf /\ CustodianOf(pid) = d /\ pid[1] = d /\ UNCHANGED <<nextNumber, custodyAuths>>
        /\ nameToNumber' = Drop(nameToNumber, <<pid[1], nameOf[pid]>>) /\ nameOf' = Drop(nameOf, pid)
        /\ inCustody' = inCustody \ {<<d, pid>>} /\ custodianOf' = Drop(custodianOf, pid)
    BY <1>9, <2>1 DEF DeleteNamedPortfolio, EnsurePortfolioCustody
  <2>3. /\ NamesAgree'
        /\ \A z \in DOMAIN nameOf' : z \in DOMAIN nameOf /\ nameOf'[z] = nameOf[z]
        /\ \A z \in DOMAIN nameToNumber' : z \in DOMAIN nameToNumber /\ nameToNumber'[z] = nameToNumber[z]
    BY <2>2, DeleteKeepsNames
  <2>4. NameTypes'
    BY <1>1, <2>2, <2>3 DEF NameTypes
  <2>5. /\ CustodianTypes' /\ Listed' /\ CustodianOf(pid)' = pid[1]
        /\ \A z : z # pid => CustodianOf(z)' = CustodianOf(z)
    BY <2>2, BackToOwner
  <2>6. \A z : CustodianOf(z)' = CustodianOf(z)
    BY <2>2, <2>5
  <2> QED BY <1>2, <1>5, <1>6, <2>2, <2>3, <2>4, <2>5, <2>6
<1>10. ASSUME NEW d \in Holders, NEW num \in 1..MaxNumber, NEW n \in Names, RenamePortfolio(d, num, n)
       PROVE  CustodyInv' /\ ConsentStep
  <2>1. UNCHANGED Custodians
    BY <1>10 DEF RenamePortfolio, Custodians
  <2> QED BY <1>4, <1>5, <1>10, <2>1, RenameKeepsNames
<1>11. ASSUME NEW d \in Holders, NEW pid \in Pids, QuitPortfolioCustody(d, pid) PROVE CustodyInv' /\ ConsentStep
  <2>1. /\ CustodianOf(pid) = d /\ UNCHANGED NameVars /\ UNCHANGED custodyAuths
        /\ inCustody' = inCustody \ {<<d, pid>>} /\ custodianOf' = Drop(custodianOf, pid)
    BY <1>11 DEF QuitPortfolioCustody, NameVars
  <2>2. /\ CustodianTypes' /\ Listed' /\ CustodianOf(pid)' = pid[1] /\ <<d, pid>> \notin inCustody'
        /\ \A z : z # pid => CustodianOf(z)' = CustodianOf(z)
    BY <2>1, BackToOwner
  <2>3. ConsentStep
    BY <2>1, <2>2 DEF ConsentStep
  <2> QED BY <1>2, <1>3, <1>6, <2>1, <2>2, <2>3
<1>12. ASSUME NEW d \in Holders, NEW e \in Holders, NEW pid \in Pids, AuthorizeCustody(d, e, pid)
       PROVE  CustodyInv' /\ ConsentStep
  <2>1. UNCHANGED NameVars /\ UNCHANGED Custodians
    BY <1>12 DEF AuthorizeCustody, NameVars, Custodians
  <2>2. AuthTypes'
    BY <1>1, <1>12, SMTT(60) DEF AuthorizeCustody, AuthTypes
  <2> QED BY <1>2, <1>3, <1>4, <1>5, <2>1, <2>2
<1>13. ASSUME NEW auth \in custodyAuths, AcceptPortfolioCustody(auth) PROVE CustodyInv' /\ ConsentStep
  <2>1. auth \in [from : Holders, to : Holders, pid : Pids]
    BY <1>1 DEF AuthTypes
  <2>2. PICK pid \in Pids, from \in Holders, to \in Holders : auth = [from |-> from, to |-> to, pid |-> pid]
    BY <2>1
  <2>3. auth.pid = pid /\ auth.from = from /\ auth.to = to
    BY <2>2
  <2>4. /\ CustodianOf(pid) = from /\ custodyAuths' = custodyAuths \ {auth} /\ UNCHANGED NameVars
        /\ IF pid[1] = to
           THEN custodianOf' = Drop(custodianOf, pid) /\ inCustody' = inCustody \ {<<from, pid>>}
           ELSE TakePortfolioCustody(pid, to, inCustody \ {<<from, pid>>})
    BY <1>13, <2>3 DEF AcceptPortfolioCustody, NameVars
  <2>5. AuthTypes'
    BY <1>1, <2>4 DEF AuthTypes
  <2>6. CASE pid[1] = to
    <3>1. /\ CustodianTypes' /\ Listed' /\ CustodianOf(pid)' = pid[1] /\ <<from, pid>> \notin inCustody'
          /\ \A z : z # pid => CustodianOf(z)' = CustodianOf(z)
      BY <2>4, <2>6, BackToOwner
    <3>2. ConsentStep
      BY <2>4, <3>1 DEF ConsentStep
    <3> QED BY <1>2, <1>3, <2>4, <2>5, <3>1, <3>2
  <2>7. CASE pid[1] # to
    <3>1. /\ CustodianTypes' /\ Listed' /\ CustodianOf(pid)' = to
          /\ \A z : z # pid => CustodianOf(z)' = CustodianOf(z)
      BY <2>4, <2>7, ToCustodian
    <3>2. ConsentStep
      BY <2>2, <2>4, <3>1 DEF ConsentStep
    <3> QED BY <1>2, <1>3, <2>4, <2>5, <3>1, <3>2
  <2> QED BY <2>6, <2>7
<1>14. ASSUME NEW d \in Holders, NEW e \in Holders,
              AllowIdentityToCreatePortfolios(d, e) \/ RevokeCreatePortfoliosPermission(d, e)
       PROVE  CustodyInv' /\ ConsentStep
  <2>1. UNCHANGED NameVars /\ UNCHANGED Custodians /\ UNCHANGED custodyAuths
    BY <1>14 DEF AllowIdentityToCreatePortfolios, RevokeCreatePortfoliosPermission, NameVars, Custodians
  <2> QED BY <1>2, <1>3, <1>4, <1>5, <1>6, <2>1
<1>15. ASSUME UNCHANGED custodyVars PROVE CustodyInv'
  <2>1. UNCHANGED NameVars /\ UNCHANGED Custodians /\ UNCHANGED custodyAuths
    BY <1>15 DEF custodyVars, NameVars, Custodians
  <2> QED BY <1>2, <1>3, <1>4, <1>6, <2>1
<1> QED
  BY <1>7, <1>8, <1>9, <1>10, <1>11, <1>12, <1>13, <1>14, <1>15 DEF CustodyNext

(***************************************************************************)
(* NameToNumber stays the inverse of Portfolios and every custodian finds  *)
(* its portfolios in PortfoliosInCustody, through any sequence of calls;   *)
(* and a portfolio only changes hands by the doing of its custodian        *)
(* (portfolio: create, delete, rename, quit, accept, create for others).   *)
(***************************************************************************)
THEOREM CustodyAlwaysSound == CustodySpec => CustodySound
<1>1. CustodyInv => CustodyMapsAgree
  BY DEF CustodyInv, NamesAgree, Listed, CustodyMapsAgree
<1>2. CustodyOnlyByConsent <=> [][ConsentStep]_custodyVars
  BY PTL DEF CustodyOnlyByConsent, ConsentStep
<1> QED BY <1>1, <1>2, CustodyInvInitially, CustodyStepSafe, PTL DEF CustodySpec, CustodySound

-----------------------------------------------------------------------------
(* The tokens of portfolios. *)

\* How the subsets of S are counted.
Counted(S) ==
    /\ Cardinality({}) = 0
    /\ \A Q \in SUBSET S : Cardinality(Q) \in Nat /\ (Cardinality(Q) = 0 => Q = {})
    /\ \A Q \in SUBSET S : \A x \in S \ Q : Cardinality(Q \cup {x}) = Cardinality(Q) + 1

TokensCounted == Counted(Fungible) /\ Counted(NFTs)

LEMMA CountSteps ==
    ASSUME NEW S, Counted(S), NEW Q \in SUBSET S
    PROVE  /\ Cardinality(Q) \in Nat
           /\ \A x \in S \ Q : Cardinality(Q \cup {x}) = Cardinality(Q) + 1
           /\ \A x \in Q : Cardinality(Q \ {x}) = Cardinality(Q) - 1
<1>1. ASSUME NEW x \in Q PROVE Cardinality(Q \ {x}) = Cardinality(Q) - 1
  <2>1. Q \ {x} \in SUBSET S /\ x \in S \ (Q \ {x}) /\ (Q \ {x}) \cup {x} = Q
    BY <1>1
  <2>2. Cardinality(Q) = Cardinality(Q \ {x}) + 1 /\ Cardinality(Q \ {x}) \in Nat
    BY <2>1 DEF Counted
  <2> QED BY <2>2, SMTT(60)
<1> QED BY <1>1 DEF Counted

DefaultsLive == \A d \in Identities : portfolioState[DefaultOf[d]] = "live"

\* The conjunction that every call preserves.
LedgerInv ==
    /\ LedgerTypeOK
    /\ LocksCovered
    /\ AssetCountExact
    /\ NftOwnersAgree
    /\ NftIdsGivenOut
    /\ DefaultsLive
    /\ NoTokensOutsideLivePortfolios

Positive(b) == {t \in Fungible : b[t] > 0}

\* saturating_sub stays in the naturals and subtracts when it can.
LEMMA SaturatingSubNat ==
    ASSUME NEW a \in Nat, NEW b \in Nat
    PROVE  SaturatingSub(a, b) \in Nat /\ SaturatingSub(a, b) <= a
BY SMTT(60) DEF SaturatingSub

\* transition_asset_count follows the number of tickers with a balance when one changes.
LEMMA TransitionCounts ==
    ASSUME TokensCounted, NEW b \in [Fungible -> Nat], NEW t \in Fungible, NEW new \in Nat
    PROVE  /\ Cardinality(Positive(b)) \in Nat
           /\ TransitionAssetCount(Cardinality(Positive(b)), b[t], new)
                = Cardinality(Positive([b EXCEPT ![t] = new]))
<1> DEFINE c == [b EXCEPT ![t] = new]
<1>1. Positive(b) \in SUBSET Fungible
  BY DEF Positive
<1>2. /\ \A x \in Fungible \ Positive(b) : Cardinality(Positive(b) \cup {x}) = Cardinality(Positive(b)) + 1
      /\ \A x \in Positive(b) : Cardinality(Positive(b) \ {x}) = Cardinality(Positive(b)) - 1
  BY <1>1, CountSteps DEF TokensCounted
<1>3. Cardinality(Positive(b)) \in Nat
  BY <1>1, CountSteps DEF TokensCounted
<1>4. CASE b[t] = 0 /\ new > 0
  <2>1. Positive(c) = Positive(b) \cup {t} /\ t \in Fungible \ Positive(b)
    BY <1>4, SMTT(60) DEF Positive
  <2>2. Cardinality(Positive(c)) = Cardinality(Positive(b)) + 1
    BY <1>2, <2>1
  <2> QED BY <1>3, <1>4, <2>2 DEF TransitionAssetCount
<1>5. CASE b[t] > 0 /\ new = 0
  <2>1. Positive(c) = Positive(b) \ {t} /\ t \in Positive(b) /\ Positive(c) \in SUBSET Fungible
    BY <1>5, SMTT(60) DEF Positive
  <2>2. Cardinality(Positive(c)) = Cardinality(Positive(b)) - 1
    BY <1>2, <2>1
  <2>3. Cardinality(Positive(c)) \in Nat
    BY <2>1, CountSteps DEF TokensCounted
  <2> QED BY <1>3, <1>5, <2>2, <2>3, SMTT(60) DEF TransitionAssetCount, SaturatingSub
<1>6. CASE ~(b[t] = 0 /\ new > 0) /\ ~(b[t] > 0 /\ new = 0)
  <2>1. Positive(c) = Positive(b)
    BY <1>6, SMTT(60) DEF Positive
  <2> QED BY <1>3, <1>6, <2>1 DEF TransitionAssetCount
<1> QED BY <1>3, <1>4, <1>5, <1>6

CountExact(h) == \A p \in Portfolios : h.count[p] = Cardinality(Positive(h.bal[p]))

\* set_portfolio_balance changes one balance, keeps the count of assets exact and leaves the
\* other maps alone.
LEMMA SetBalance ==
    ASSUME TokensCounted, NEW h \in HoldingsType, NEW p \in Portfolios, NEW t \in Fungible, NEW new \in Nat,
           CountExact(h)
    PROVE  LET g == SetPortfolioBalance(h, p, t, new) IN
           /\ g \in HoldingsType /\ CountExact(g)
           /\ g.bal = [h.bal EXCEPT ![p][t] = new]
           /\ g.nft = h.nft /\ g.owner = h.owner
<1> DEFINE g == SetPortfolioBalance(h, p, t, new)
           n == TransitionAssetCount(h.count[p], h.bal[p][t], new)
<1>0. h.bal \in [Portfolios -> [Fungible -> Nat]] /\ h.count \in [Portfolios -> Nat]
  BY DEF HoldingsType
<1>1. n = Cardinality(Positive([h.bal[p] EXCEPT ![t] = new])) /\ n \in Nat
  <2>1. h.count[p] = Cardinality(Positive(h.bal[p])) /\ h.bal[p] \in [Fungible -> Nat]
    BY <1>0 DEF CountExact
  <2>2. n = Cardinality(Positive([h.bal[p] EXCEPT ![t] = new]))
    BY <2>1, TransitionCounts, SMTT(60)
  <2>3. n \in Nat
    BY <1>0, SMTT(60) DEF TransitionAssetCount, SaturatingSub
  <2> QED
    BY <2>2, <2>3
<1>2. /\ g \in HoldingsType
      /\ g.bal = [h.bal EXCEPT ![p][t] = new]
      /\ g.count = [h.count EXCEPT ![p] = n]
      /\ g.nft = h.nft /\ g.owner = h.owner
  BY <1>0, <1>1 DEF SetPortfolioBalance, HoldingsType
<1>3. CountExact(g)
  <2> SUFFICES ASSUME NEW q \in Portfolios PROVE g.count[q] = Cardinality(Positive(g.bal[q]))
    BY DEF CountExact
  <2>1. CASE q = p
    BY <2>1, <1>0, <1>1, <1>2
  <2>2. CASE q # p
    BY <2>2, <1>0, <1>2 DEF CountExact
  <2> QED
    BY <2>1, <2>2
<1> QED
  BY <1>2, <1>3

\* The balances after v tokens moved.
Moved(b, from, to, t, v) == [b EXCEPT ![from][t] = @ - v, ![to][t] = @ + v]

\* A move between two portfolios changes their two balances and nothing else.
LEMMA MoveBalance ==
    ASSUME TokensCounted, NEW h \in HoldingsType, NEW from \in Portfolios, NEW to \in Portfolios,
           NEW t \in Fungible, NEW v \in Nat, CountExact(h), from # to, h.bal[from][t] >= v
    PROVE  LET g == MovePortfolioBalance(h, from, to, t, v) IN
           /\ g \in HoldingsType /\ CountExact(g)
           /\ g.bal = Moved(h.bal, from, to, t, v)
           /\ g.nft = h.nft /\ g.owner = h.owner
<1> DEFINE h1 == SetPortfolioBalance(h, from, t, SaturatingSub(h.bal[from][t], v))
           g == MovePortfolioBalance(h, from, to, t, v)
<1>0. h.bal \in [Portfolios -> [Fungible -> Nat]]
  BY DEF HoldingsType
<1>1. PICK left \in Nat : left = h.bal[from][t] - v /\ SaturatingSub(h.bal[from][t], v) = left
  BY <1>0, SMTT(60) DEF SaturatingSub
<1>2. /\ h1 \in HoldingsType /\ CountExact(h1)
      /\ h1.bal = [h.bal EXCEPT ![from][t] = h.bal[from][t] - v]
      /\ h1.nft = h.nft /\ h1.owner = h.owner
  <2>1. h1 = SetPortfolioBalance(h, from, t, left)
    BY <1>1
  <2>2. /\ h1 \in HoldingsType /\ CountExact(h1) /\ h1.bal = [h.bal EXCEPT ![from][t] = left]
        /\ h1.nft = h.nft /\ h1.owner = h.owner
    BY <2>1, SetBalance, SMTT(60)
  <2> QED BY <1>1, <2>2
<1>3. h1.bal[to][t] = h.bal[to][t] /\ h1.bal[to][t] + v \in Nat
  BY <1>0, <1>2, SMTT(60)
<1>4. g = SetPortfolioBalance(h1, to, t, h1.bal[to][t] + v)
  BY DEF MovePortfolioBalance
<1> HIDE DEF h1
<1>5. /\ g \in HoldingsType /\ CountExact(g)
      /\ g.bal = [h1.bal EXCEPT ![to][t] = h1.bal[to][t] + v]
      /\ g.nft = h1.nft /\ g.owner = h1.owner
  <2> DEFINE w == h1.bal[to][t] + v
  <2>1. w \in Nat /\ h1 \in HoldingsType /\ CountExact(h1)
    BY <1>2, <1>3
  <2> HIDE DEF w
  <2>2. LET f == SetPortfolioBalance(h1, to, t, w) IN
        /\ f \in HoldingsType /\ CountExact(f)
        /\ f.bal = [h1.bal EXCEPT ![to][t] = w]
        /\ f.nft = h1.nft /\ f.owner = h1.owner
    BY <2>1, SetBalance, SMTT(60)
  <2> QED
    BY <1>4, <2>2 DEF w
<1> HIDE DEF g
<1>6. g.bal = Moved(h.bal, from, to, t, v)
  BY <1>0, <1>2, <1>3, <1>5 DEF Moved
<1>7. /\ g \in HoldingsType /\ CountExact(g)
      /\ g.bal = Moved(h.bal, from, to, t, v)
      /\ g.nft = h.nft /\ g.owner = h.owner
  BY <1>2, <1>5, <1>6
<1> QED
  BY <1>7 DEF g

\* The two portfolio balances of a transfer between identities, whatever the identities hold.
LEMMA TransferBalance ==
    ASSUME TokensCounted, NEW h \in HoldingsType, NEW from \in Portfolios, NEW to \in Portfolios,
           NEW t \in Fungible, NEW v \in Nat, CountExact(h), from # to, h.bal[from][t] >= v
    PROVE  LET g == TransferTokens(h, from, to, t, v) IN
           /\ g \in HoldingsType /\ CountExact(g)
           /\ g.bal = Moved(h.bal, from, to, t, v)
           /\ g.nft = h.nft /\ g.owner = h.owner
<1> DEFINE h1 == [h EXCEPT !.did = [h.did EXCEPT ![PortfolioDid[from]][t] = @ - v,
                                                 ![PortfolioDid[to]][t] = @ + v]]
<1>1. PortfolioDid[from] \in Identities /\ PortfolioDid[to] \in Identities
  BY LedgerAssumption
<1>2. h.did \in [Identities -> [Fungible -> Int]]
  BY DEF HoldingsType
<1>3. [h.did EXCEPT ![PortfolioDid[from]][t] = @ - v, ![PortfolioDid[to]][t] = @ + v]
        \in [Identities -> [Fungible -> Int]]
  BY <1>1, <1>2, SMTT(60)
<1>4. h1 \in HoldingsType /\ h1.bal = h.bal /\ h1.count = h.count /\ h1.nft = h.nft /\ h1.owner = h.owner
  BY <1>3 DEF HoldingsType
<1>5. CountExact(h1) /\ h1.bal[from][t] >= v
  BY <1>4 DEF CountExact
<1>6. TransferTokens(h, from, to, t, v) = MovePortfolioBalance(h1, from, to, t, v)
  BY DEF TransferTokens
<1> HIDE DEF h1
<1> QED
  BY <1>4, <1>5, <1>6, MoveBalance, SMTT(60)

\* NFTs that their portfolio owns keep exactly one owner when they move.
LEMMA MoveOwners ==
    ASSUME NEW h \in HoldingsType, NEW from \in Portfolios, NEW to \in Portfolios,
           NEW ns \in SUBSET NFTs, from # to, ns \subseteq h.nft[from],
           \A n \in NFTs, p \in Portfolios : h.owner[n] = p <=> n \in h.nft[p]
    PROVE  LET g == MoveNfts(h, from, to, ns) IN
           /\ g \in HoldingsType /\ g.bal = h.bal /\ g.count = h.count
           /\ \A n \in NFTs, p \in Portfolios : g.owner[n] = p <=> n \in g.nft[p]
           /\ \A n \in NFTs : g.owner[n] # NoPortfolio => h.owner[n] # NoPortfolio
<1> DEFINE g == MoveNfts(h, from, to, ns)
<1>0. h.nft \in [Portfolios -> SUBSET NFTs] /\ h.owner \in [NFTs -> Portfolios \cup {NoPortfolio}]
  BY DEF HoldingsType
<1>1. /\ g.nft = [h.nft EXCEPT ![from] = @ \ ns, ![to] = @ \cup ns]
      /\ g.owner = [n \in NFTs |-> IF n \in ns THEN to ELSE h.owner[n]]
      /\ g.bal = h.bal /\ g.count = h.count
  BY DEF MoveNfts, HoldingsType
<1>2. g \in HoldingsType
  BY <1>0 DEF MoveNfts, HoldingsType
<1>3. ASSUME NEW n \in NFTs, NEW p \in Portfolios PROVE g.owner[n] = p <=> n \in g.nft[p]
  <2>1. h.owner[n] = p <=> n \in h.nft[p]
    OBVIOUS
  <2>2. n \in ns => h.owner[n] = from
    OBVIOUS
  <2> QED
    BY <1>0, <1>1, <2>1, <2>2, SMTT(60)
<1>4. \A n \in NFTs : g.owner[n] # NoPortfolio => h.owner[n] # NoPortfolio
  <2>1. \A n \in ns : h.owner[n] = from
    OBVIOUS
  <2> QED
    BY <1>0, <1>1, <2>1, LedgerAssumption, SMTT(60)
<1> QED
  BY <1>1, <1>2, <1>3, <1>4

\* The same when the NFTs pass from one identity to another.
LEMMA TransferOwners ==
    ASSUME TokensCounted, NEW h \in HoldingsType, NEW from \in Portfolios, NEW to \in Portfolios,
           NEW c \in Collections, NEW ns \in SUBSET NFTs, from # to, ns \subseteq h.nft[from],
           h.nftCount[PortfolioDid[from]][c] >= Cardinality(ns),
           \A n \in NFTs, p \in Portfolios : h.owner[n] = p <=> n \in h.nft[p]
    PROVE  LET g == TransferNfts(h, from, to, c, ns) IN
           /\ g \in HoldingsType /\ g.bal = h.bal /\ g.count = h.count
           /\ \A n \in NFTs, p \in Portfolios : g.owner[n] = p <=> n \in g.nft[p]
           /\ \A n \in NFTs : g.owner[n] # NoPortfolio => h.owner[n] # NoPortfolio
<1> DEFINE less == [h.nftCount EXCEPT ![PortfolioDid[from]][c] = @ - Cardinality(ns)]
           m == [less EXCEPT ![PortfolioDid[to]][c] = @ + Cardinality(ns)]
           h1 == [h EXCEPT !.nftCount = m]
<1>1. Cardinality(ns) \in Nat /\ PortfolioDid[from] \in Identities /\ PortfolioDid[to] \in Identities
  BY CountSteps, LedgerAssumption DEF TokensCounted
<1>2. h.nftCount \in [Identities -> [Collections -> Nat]]
  BY DEF HoldingsType
<1>3. m \in [Identities -> [Collections -> Nat]]
  <2>1. h.nftCount[PortfolioDid[from]][c] - Cardinality(ns) \in Nat
    BY <1>1, <1>2, SMTT(60)
  <2>2. less \in [Identities -> [Collections -> Nat]]
    BY <1>1, <1>2, <2>1
  <2> HIDE DEF less
  <2> QED
    BY <1>1, <2>2, SMTT(60)
<1> HIDE DEF m
<1>4. h1 \in HoldingsType /\ h1.bal = h.bal /\ h1.count = h.count /\ h1.nft = h.nft /\ h1.owner = h.owner
  BY <1>3 DEF HoldingsType
<1>5. TransferNfts(h, from, to, c, ns) = MoveNfts(h1, from, to, ns)
  BY DEF TransferNfts, MoveNftCount, m, less
<1> HIDE DEF h1
<1> QED
  BY <1>4, <1>5, MoveOwners, SMTT(60)

\* The parts of the invariant that speak of portfolio balances survive a move of v tokens
\* that the sender has free, into a portfolio that is in use.
LEMMA MoveKeepsCover ==
    ASSUME LedgerTypeOK, LocksCovered, NoTokensOutsideLivePortfolios,
           NEW from \in Portfolios, NEW to \in Portfolios, NEW t \in Fungible, NEW v \in Nat,
           from # to, PortfolioExists(to), FreeBalance(holdings, locked, from, t) >= v
    PROVE  LET b == Moved(holdings.bal, from, to, t, v) IN
           /\ holdings.bal[from][t] >= v
           /\ \A p \in Portfolios, s \in Fungible : locked[p][s] <= b[p][s]
           /\ \A p \in Portfolios, s \in Fungible : b[p][s] > 0 => portfolioState[p] = "live"
<1> DEFINE b == Moved(holdings.bal, from, to, t, v)
<1>1. /\ holdings.bal \in [Portfolios -> [Fungible -> Nat]]
      /\ locked \in [Portfolios -> [Fungible -> Nat]]
  BY DEF LedgerTypeOK, HoldingsType
<1>2. locked[from][t] <= holdings.bal[from][t] /\ holdings.bal[from][t] - locked[from][t] >= v
  BY <1>1 DEF FreeBalance, SaturatingSub, LocksCovered
<1>3. ASSUME NEW p \in Portfolios, NEW s \in Fungible
      PROVE  locked[p][s] <= b[p][s] /\ (b[p][s] > 0 => portfolioState[p] = "live")
  <2>1. locked[p][s] <= holdings.bal[p][s] /\ (holdings.bal[p][s] > 0 => portfolioState[p] = "live")
    BY DEF LocksCovered, NoTokensOutsideLivePortfolios
  <2>2. CASE p = from /\ s = t
    BY <1>1, <1>2, <2>1, <2>2, SMTT(60) DEF Moved
  <2>3. CASE p = to /\ s = t
    BY <1>1, <2>1, <2>3, SMTT(60) DEF Moved, PortfolioExists
  <2>4. CASE ~(p = from /\ s = t) /\ ~(p = to /\ s = t)
    BY <1>1, <2>1, <2>4 DEF Moved
  <2> QED
    BY <2>2, <2>3, <2>4
<1>4. holdings.bal[from][t] \in Nat /\ locked[from][t] \in Nat
  BY <1>1
<1>5. holdings.bal[from][t] >= v
  BY <1>2, <1>4, SMTT(60)
<1> QED
  BY <1>3, <1>5

\* AssetCountExact and the form the lemmas use are the same.
LEMMA CountExactForm == AssetCountExact <=> CountExact(holdings)
BY DEF AssetCountExact, CountExact, Positive

\* The endowment satisfies the invariant.
LEMMA LedgerInitInv ==
    ASSUME TokensCounted, LedgerInit
    PROVE  LedgerInv
<1> USE LedgerAssumption, EndowmentAssumption
<1>1. holdings \in HoldingsType
  <2>1. [p \in Portfolios |-> Cardinality({t \in Fungible : Endowment[p][t] > 0})] \in [Portfolios -> Nat]
    BY CountSteps DEF TokensCounted
  <2>2. \A d \in Identities, c \in Collections : Cardinality(NftsOf(d, c)) \in Nat
    BY CountSteps DEF NftsOf, TokensCounted
  <2>3. \A c \in Collections : Cardinality(NftsInCirculation(c)) \in Nat
    BY CountSteps DEF NftsInCirculation, TokensCounted
  <2> QED
    BY <2>1, <2>2, <2>3, SMTT(60) DEF LedgerInit, HoldingsType
<1>2. \A c \in Collections : Cardinality(NftsInCirculation(c)) \in Nat
  BY CountSteps DEF NftsInCirculation, TokensCounted
<1>3. LedgerTypeOK
  BY <1>1, <1>2 DEF LedgerInit, LedgerTypeOK
<1>4. LocksCovered
  BY SMTT(60) DEF LedgerInit, LocksCovered
<1>5. AssetCountExact
  BY DEF LedgerInit, AssetCountExact
<1>6. NftOwnersAgree /\ NftIdsGivenOut
  <2>1. NftOwnersAgree
    BY DEF LedgerInit, NftOwnersAgree
  <2>2. NftIdsGivenOut
    <3> SUFFICES ASSUME NEW n \in NFTs, holdings.owner[n] # NoPortfolio
                 PROVE  n[2] <= nextNft[n[1]]
      BY DEF NftIdsGivenOut
    <3>1. \E p \in Portfolios : n \in NftEndowment[p]
      BY DEF LedgerInit
    <3>2. n[1] \in Collections
      BY DEF NFTs
    <3> QED
      BY <3>1, <3>2 DEF LedgerInit
  <2> QED
    BY <2>1, <2>2
<1>7. DefaultsLive /\ NoTokensOutsideLivePortfolios
  BY SMTT(60) DEF LedgerInit, DefaultsLive, NoTokensOutsideLivePortfolios
<1> QED
  BY <1>3, <1>4, <1>5, <1>6, <1>7 DEF LedgerInv

\* A step that leaves portfolios and locks alone keeps the invariant when the new ownership
\* maps keep their part of it.
LEMMA HoldingsStep ==
    ASSUME LedgerInv, UNCHANGED <<locked, lockedNft, portfolioState>>,
           holdings' \in HoldingsType, CountExact(holdings'),
           supply' \in [Fungible -> Nat], nextNft' \in [Collections -> Nat],
           \A p \in Portfolios, s \in Fungible : locked[p][s] <= holdings'.bal[p][s],
           \A p \in Portfolios, s \in Fungible : holdings'.bal[p][s] > 0 => portfolioState[p] = "live",
           \A n \in NFTs, p \in Portfolios : holdings'.owner[n] = p <=> n \in holdings'.nft[p],
           \A n \in NFTs : holdings'.owner[n] # NoPortfolio => n[2] <= nextNft'[n[1]]
    PROVE  LedgerInv'
<1>1. LedgerTypeOK'
  BY DEF LedgerInv, LedgerTypeOK
<1>2. AssetCountExact'
  BY DEF AssetCountExact, CountExact, Positive
<1>3. /\ LocksCovered' /\ NftOwnersAgree' /\ NftIdsGivenOut' /\ DefaultsLive'
      /\ NoTokensOutsideLivePortfolios'
  BY DEF LedgerInv, LocksCovered, NftOwnersAgree, NftIdsGivenOut, DefaultsLive,
         NoTokensOutsideLivePortfolios
<1> QED
  BY <1>1, <1>2, <1>3 DEF LedgerInv

\* A step that changes only locks keeps the invariant when the locks stay covered.
LEMMA LockStep ==
    ASSUME LedgerInv, UNCHANGED <<holdings, supply, nextNft, portfolioState>>,
           locked' \in [Portfolios -> [Fungible -> Nat]], lockedNft' \in [Portfolios -> SUBSET NFTs],
           \A p \in Portfolios, s \in Fungible : locked'[p][s] <= holdings.bal[p][s]
    PROVE  LedgerInv'
BY SMTT(60) DEF LedgerInv, LedgerTypeOK, LocksCovered, AssetCountExact, NftOwnersAgree, NftIdsGivenOut,
       DefaultsLive, NoTokensOutsideLivePortfolios

\* Creating and deleting portfolios: an asset count of zero means that there is nothing, and
\* so nothing locked, in the portfolio that goes.
LEMMA PortfolioStep ==
    ASSUME TokensCounted, LedgerInv, NEW p \in Portfolios, CreatePortfolio(p) \/ DeletePortfolio(p)
    PROVE  LedgerInv'
<1>0. /\ holdings \in HoldingsType
      /\ holdings.bal \in [Portfolios -> [Fungible -> Nat]]
      /\ locked \in [Portfolios -> [Fungible -> Nat]]
      /\ portfolioState \in [Portfolios -> {"future", "live", "deleted"}]
  BY DEF LedgerInv, LedgerTypeOK, HoldingsType
<1>1. CASE CreatePortfolio(p)
  BY <1>0, <1>1, SMTT(60) DEF LedgerInv, CreatePortfolio, LedgerTypeOK, LocksCovered, AssetCountExact,
                    NftOwnersAgree, NftIdsGivenOut, DefaultsLive, NoTokensOutsideLivePortfolios
<1>2. CASE DeletePortfolio(p)
  <2>1. \A s \in Fungible : holdings.bal[p][s] = 0
    <3>1. Cardinality({s \in Fungible : holdings.bal[p][s] > 0}) = 0
      BY <1>2 DEF DeletePortfolio, LedgerInv, AssetCountExact
    <3>2. {s \in Fungible : holdings.bal[p][s] > 0} = {}
      BY <3>1 DEF TokensCounted, Counted
    <3> QED
      BY <1>0, <3>2, SMTT(60)
  <2>2. holdings' = holdings
    <3>1. [holdings.bal EXCEPT ![p] = [s \in Fungible |-> 0]] = holdings.bal
      BY <1>0, <2>1, SMTT(60)
    <3>2. [holdings.count EXCEPT ![p] = 0] = holdings.count
      BY <1>0, <1>2 DEF DeletePortfolio, HoldingsType
    <3>3. holdings' = [holdings EXCEPT !.bal = [holdings.bal EXCEPT ![p] = [s \in Fungible |-> 0]],
                                       !.count = [holdings.count EXCEPT ![p] = 0]]
      BY <1>0, <1>2 DEF DeletePortfolio, HoldingsType
    <3> QED
      BY <1>0, <3>1, <3>2, <3>3 DEF HoldingsType
  <2>3. locked' = locked
    <3>1. \A s \in Fungible : locked[p][s] = 0
      BY <1>0, <2>1, SMTT(60) DEF LedgerInv, LocksCovered
    <3> QED
      BY <1>0, <1>2, <3>1, SMTT(60) DEF DeletePortfolio
  <2>4. UNCHANGED <<supply, nextNft, lockedNft>>
    BY <1>2 DEF DeletePortfolio
  <2>5. portfolioState' \in [Portfolios -> {"future", "live", "deleted"}]
    BY <1>0, <1>2 DEF DeletePortfolio
  <2>6. DefaultsLive'
    BY <1>0, <1>2, LedgerAssumption DEF DeletePortfolio, DefaultsLive, LedgerInv
  <2>7. NoTokensOutsideLivePortfolios'
    BY <1>0, <1>2, <2>1, <2>2, SMTT(60) DEF DeletePortfolio, NoTokensOutsideLivePortfolios, LedgerInv
  <2> QED
    BY <2>2, <2>3, <2>4, <2>5, <2>6, <2>7, SMTT(60)
    DEF LedgerInv, LedgerTypeOK, LocksCovered, AssetCountExact, NftOwnersAgree, NftIdsGivenOut
<1> QED
  BY <1>1, <1>2

\* Locking and unlocking.
LEMMA LockNextInv == LedgerInv /\ LockNext => LedgerInv'
<1> SUFFICES ASSUME LedgerInv, LockNext PROVE LedgerInv'
  OBVIOUS
<1>0. /\ holdings.bal \in [Portfolios -> [Fungible -> Nat]]
      /\ locked \in [Portfolios -> [Fungible -> Nat]]
      /\ lockedNft \in [Portfolios -> SUBSET NFTs]
      /\ \A p \in Portfolios, s \in Fungible : locked[p][s] <= holdings.bal[p][s]
  BY DEF LedgerInv, LedgerTypeOK, HoldingsType, LocksCovered
<1>1. ASSUME NEW p \in Portfolios, NEW t \in Fungible, NEW v \in 1..MaxAmount, LockTokens(p, t, v)
      PROVE  LedgerInv'
  <2>1. locked[p][t] + v <= holdings.bal[p][t] /\ v \in Nat
    BY <1>0, <1>1, LedgerAssumption, SMTT(60) DEF LockTokens, FreeBalance, SaturatingSub
  <2>2. locked' \in [Portfolios -> [Fungible -> Nat]] /\ UNCHANGED <<holdings, supply, nextNft, lockedNft, portfolioState>>
    BY <1>0, <1>1, <2>1, SMTT(60) DEF LockTokens
  <2>3. \A q \in Portfolios, s \in Fungible : locked'[q][s] <= holdings.bal[q][s]
    BY <1>0, <1>1, <2>1 DEF LockTokens
  <2> QED
    BY <1>0, <2>2, <2>3, LockStep
<1>2. ASSUME NEW p \in Portfolios, NEW t \in Fungible, NEW v \in 1..MaxAmount, UnlockTokens(p, t, v)
      PROVE  LedgerInv'
  <2>1. locked[p][t] - v \in Nat /\ locked[p][t] - v <= holdings.bal[p][t]
    BY <1>0, <1>2, LedgerAssumption, SMTT(60) DEF UnlockTokens
  <2>2. locked' \in [Portfolios -> [Fungible -> Nat]] /\ UNCHANGED <<holdings, supply, nextNft, lockedNft, portfolioState>>
    BY <1>0, <1>2, <2>1 DEF UnlockTokens
  <2>3. \A q \in Portfolios, s \in Fungible : locked'[q][s] <= holdings.bal[q][s]
    BY <1>0, <1>2, <2>1 DEF UnlockTokens
  <2> QED
    BY <1>0, <2>2, <2>3, LockStep
<1>3. ASSUME NEW p \in Portfolios, NEW n \in NFTs, LockNft(p, n) \/ UnlockNft(p, n)
      PROVE  LedgerInv'
  <2>1. lockedNft' \in [Portfolios -> SUBSET NFTs] /\ UNCHANGED <<holdings, supply, nextNft, locked, portfolioState>>
    BY <1>0, <1>3, SMTT(60) DEF LockNft, UnlockNft
  <2> QED
    BY <1>0, <2>1, LockStep
<1> QED
  BY <1>1, <1>2, <1>3 DEF LockNext

\* What the invariant gives for the steps below.
LEMMA InvFacts ==
    ASSUME LedgerInv
    PROVE  /\ holdings \in HoldingsType /\ CountExact(holdings)
           /\ holdings.bal \in [Portfolios -> [Fungible -> Nat]]
           /\ locked \in [Portfolios -> [Fungible -> Nat]]
           /\ supply \in [Fungible -> Nat] /\ nextNft \in [Collections -> Nat]
           /\ \A p \in Portfolios, s \in Fungible : locked[p][s] <= holdings.bal[p][s]
           /\ \A p \in Portfolios, s \in Fungible : holdings.bal[p][s] > 0 => portfolioState[p] = "live"
           /\ \A n \in NFTs, p \in Portfolios : holdings.owner[n] = p <=> n \in holdings.nft[p]
           /\ \A n \in NFTs : holdings.owner[n] # NoPortfolio => n[2] <= nextNft[n[1]]
BY CountExactForm DEF LedgerInv, LedgerTypeOK, HoldingsType, LocksCovered,
                      NoTokensOutsideLivePortfolios, NftOwnersAgree, NftIdsGivenOut

\* Tokens move between portfolios, of one identity or of two.
LEMMA MoveTokensStep ==
    ASSUME TokensCounted, LedgerInv, NEW from \in Portfolios, NEW to \in Portfolios, NEW t \in Fungible,
           NEW v \in 1..MaxAmount,
           MovePortfolioFunds(from, to, t, v)
             \/ (ControllerTransfer(from, t, v) /\ to = DefaultOf[Agent[t]])
    PROVE  LedgerInv'
<1>0. v \in Nat
  BY LedgerAssumption, SMTT(60)
<1>1. /\ from # to /\ PortfolioExists(to) /\ FreeBalance(holdings, locked, from, t) >= v
      /\ UNCHANGED <<supply, nextNft, locked, lockedNft, portfolioState>>
      /\ \/ holdings' = MovePortfolioBalance(holdings, from, to, t, v)
         \/ holdings' = TransferTokens(holdings, from, to, t, v)
  <2>1. CASE MovePortfolioFunds(from, to, t, v)
    BY <2>1 DEF MovePortfolioFunds
  <2>2. CASE ControllerTransfer(from, t, v) /\ to = DefaultOf[Agent[t]]
    <3>1. Agent[t] \in Identities
      BY LedgerAssumption
    <3>2. PortfolioExists(to)
      BY <2>2, <3>1 DEF PortfolioExists, LedgerInv, DefaultsLive
    <3> QED
      BY <2>2, <3>2 DEF ControllerTransfer, CanTransferTokens
  <2> QED
    BY <2>1, <2>2
<1>2. LedgerTypeOK /\ LocksCovered /\ NoTokensOutsideLivePortfolios
  BY DEF LedgerInv
<1> DEFINE b == Moved(holdings.bal, from, to, t, v)
<1>3. /\ holdings.bal[from][t] >= v
      /\ \A p \in Portfolios, s \in Fungible : locked[p][s] <= b[p][s]
      /\ \A p \in Portfolios, s \in Fungible : b[p][s] > 0 => portfolioState[p] = "live"
  BY <1>0, <1>1, <1>2, MoveKeepsCover, SMTT(60)
<1>4. /\ holdings' \in HoldingsType /\ CountExact(holdings')
      /\ holdings'.bal = b
      /\ holdings'.nft = holdings.nft /\ holdings'.owner = holdings.owner
  <2>1. holdings \in HoldingsType /\ CountExact(holdings)
    BY InvFacts
  <2>2. CASE holdings' = MovePortfolioBalance(holdings, from, to, t, v)
    BY <1>0, <1>1, <1>3, <2>1, <2>2, MoveBalance, SMTT(60)
  <2>3. CASE holdings' = TransferTokens(holdings, from, to, t, v)
    BY <1>0, <1>1, <1>3, <2>1, <2>3, TransferBalance, SMTT(60)
  <2> QED
    BY <1>1, <2>2, <2>3
<1> HIDE DEF b
<1>5. supply' \in [Fungible -> Nat] /\ nextNft' \in [Collections -> Nat]
  BY <1>1, InvFacts
<1>6. /\ \A n \in NFTs, p \in Portfolios : holdings'.owner[n] = p <=> n \in holdings'.nft[p]
      /\ \A n \in NFTs : holdings'.owner[n] # NoPortfolio => n[2] <= nextNft'[n[1]]
  BY <1>1, <1>4, InvFacts, SMTT(60)
<1>7. /\ \A p \in Portfolios, s \in Fungible : locked[p][s] <= holdings'.bal[p][s]
      /\ \A p \in Portfolios, s \in Fungible : holdings'.bal[p][s] > 0 => portfolioState[p] = "live"
  BY <1>3, <1>4
<1> QED
  BY <1>1, <1>4, <1>5, <1>6, <1>7, HoldingsStep

\* The agent mints and burns: redeeming leaves what is locked.
LEMMA MintBurnStep ==
    ASSUME TokensCounted, LedgerInv, NEW p \in Portfolios, NEW t \in Fungible, NEW v \in 1..MaxAmount,
           Issue(p, t, v) \/ Redeem(p, t, v)
    PROVE  LedgerInv'
<1>0. v \in Nat /\ Agent[t] \in Identities
  BY LedgerAssumption, SMTT(60)
<1>1. PICK w \in Int, new \in Nat :
          /\ holdings' = SetPortfolioBalance([holdings EXCEPT !.did[Agent[t]][t] = w], p, t, new)
          /\ new >= locked[p][t]
          /\ portfolioState[p] = "live"
          /\ supply' \in [Fungible -> Nat]
          /\ UNCHANGED <<nextNft, locked, lockedNft, portfolioState>>
  <2>0. holdings.did[Agent[t]][t] \in Int /\ holdings.bal[p][t] \in Nat /\ locked[p][t] \in Nat
        /\ supply \in [Fungible -> Nat] /\ supply[t] \in Nat /\ locked[p][t] <= holdings.bal[p][t]
    BY <1>0, InvFacts, SMTT(60) DEF HoldingsType
  <2>1. CASE Issue(p, t, v)
    <3>1. holdings.did[Agent[t]][t] + v \in Int /\ holdings.bal[p][t] + v \in Nat
          /\ holdings.bal[p][t] + v >= locked[p][t]
      BY <1>0, <2>0, SMTT(60)
    <3>2. supply' \in [Fungible -> Nat]
      BY <1>0, <2>0, <2>1, SMTT(60) DEF Issue
    <3> QED
      BY <2>1, <3>1, <3>2 DEF Issue, PortfolioExists
  <2>2. CASE Redeem(p, t, v)
    <3>1. holdings.did[Agent[t]][t] - v \in Int /\ holdings.bal[p][t] - v \in Nat
          /\ holdings.bal[p][t] - v >= locked[p][t]
      BY <1>0, <2>0, <2>2, SMTT(60) DEF Redeem
    <3>2. supply' \in [Fungible -> Nat]
      BY <1>0, <2>0, <2>2, SMTT(60) DEF Redeem
    <3> QED
      BY <2>2, <3>1, <3>2 DEF Redeem, PortfolioExists
  <2> QED
    BY <2>1, <2>2
<1> DEFINE h1 == [holdings EXCEPT !.did[Agent[t]][t] = w]
<1>2. /\ h1 \in HoldingsType /\ CountExact(h1) /\ h1.bal = holdings.bal
      /\ h1.nft = holdings.nft /\ h1.owner = holdings.owner
  BY <1>0, InvFacts DEF HoldingsType, CountExact
<1>3. holdings' = SetPortfolioBalance(h1, p, t, new)
  BY <1>1
<1> HIDE DEF h1
<1>4. /\ holdings' \in HoldingsType /\ CountExact(holdings')
      /\ holdings'.bal = [holdings.bal EXCEPT ![p][t] = new]
      /\ holdings'.nft = holdings.nft /\ holdings'.owner = holdings.owner
  BY <1>2, <1>3, SetBalance, SMTT(60)
<1>5. /\ \A q \in Portfolios, s \in Fungible : locked[q][s] <= holdings'.bal[q][s]
      /\ \A q \in Portfolios, s \in Fungible : holdings'.bal[q][s] > 0 => portfolioState[q] = "live"
  <2> SUFFICES ASSUME NEW q \in Portfolios, NEW s \in Fungible
               PROVE  locked[q][s] <= holdings'.bal[q][s]
                      /\ (holdings'.bal[q][s] > 0 => portfolioState[q] = "live")
    OBVIOUS
  <2>1. locked[q][s] <= holdings.bal[q][s] /\ (holdings.bal[q][s] > 0 => portfolioState[q] = "live")
    BY InvFacts
  <2>2. holdings.bal \in [Portfolios -> [Fungible -> Nat]] /\ locked \in [Portfolios -> [Fungible -> Nat]]
    BY InvFacts
  <2>3. CASE q = p /\ s = t
    BY <1>1, <1>4, <2>2, <2>3, SMTT(60)
  <2>4. CASE ~(q = p /\ s = t)
    <3>1. holdings'.bal[q][s] = holdings.bal[q][s]
      BY <1>4, <2>2, <2>4, SMTT(60)
    <3> QED
      BY <2>1, <3>1
  <2> QED
    BY <2>3, <2>4
<1>6. /\ \A n \in NFTs, q \in Portfolios : holdings'.owner[n] = q <=> n \in holdings'.nft[q]
      /\ \A n \in NFTs : holdings'.owner[n] # NoPortfolio => n[2] <= nextNft'[n[1]]
  <2>1. nextNft' = nextNft /\ holdings'.nft = holdings.nft /\ holdings'.owner = holdings.owner
    BY <1>1, <1>4
  <2> QED
    BY <2>1, InvFacts
<1> QED
  BY <1>1, <1>4, <1>5, <1>6, InvFacts, HoldingsStep

\* NFTs that change portfolio, inside an identity or towards the agent.
LEMMA MoveNftsStep ==
    ASSUME TokensCounted, LedgerInv, NEW from \in Portfolios, NEW to \in Portfolios, NEW ns \in SUBSET NFTs,
           \/ MovePortfolioNfts(from, to, ns)
           \/ \E t \in Fungible \cup Collections, c \in Collections :
                  ControllerTransferNfts(from, to, t, c, ns)
    PROVE  LedgerInv'
<1>1. /\ from # to /\ ns \subseteq holdings.nft[from]
      /\ UNCHANGED <<supply, nextNft, locked, lockedNft, portfolioState>>
  BY DEF MovePortfolioNfts, ControllerTransferNfts, CanTransferNfts
<1>2. /\ holdings' \in HoldingsType /\ holdings'.bal = holdings.bal /\ holdings'.count = holdings.count
      /\ \A n \in NFTs, p \in Portfolios : holdings'.owner[n] = p <=> n \in holdings'.nft[p]
      /\ \A n \in NFTs : holdings'.owner[n] # NoPortfolio => holdings.owner[n] # NoPortfolio
  <2>1. /\ holdings \in HoldingsType
        /\ \A n \in NFTs, p \in Portfolios : holdings.owner[n] = p <=> n \in holdings.nft[p]
    BY InvFacts
  <2>2. CASE MovePortfolioNfts(from, to, ns)
    <3>1. holdings' = MoveNfts(holdings, from, to, ns)
      BY <2>2 DEF MovePortfolioNfts
    <3> QED
      BY <1>1, <2>1, <3>1, MoveOwners, SMTT(60)
  <2>3. ASSUME NEW t \in Fungible \cup Collections, NEW c \in Collections,
               ControllerTransferNfts(from, to, t, c, ns)
        PROVE  /\ holdings' \in HoldingsType /\ holdings'.bal = holdings.bal
               /\ holdings'.count = holdings.count
               /\ \A n \in NFTs, p \in Portfolios : holdings'.owner[n] = p <=> n \in holdings'.nft[p]
               /\ \A n \in NFTs : holdings'.owner[n] # NoPortfolio => holdings.owner[n] # NoPortfolio
    <3>1. /\ holdings' = TransferNfts(holdings, from, to, c, ns)
          /\ holdings.nftCount[PortfolioDid[from]][c] >= Cardinality(ns)
      BY <2>3 DEF ControllerTransferNfts, CanTransferNfts
    <3> QED
      BY <1>1, <2>1, <3>1, TransferOwners, SMTT(60)
  <2> QED
    BY <2>2, <2>3
<1>3. CountExact(holdings')
  BY <1>2, InvFacts DEF CountExact
<1> QED
  BY <1>1, <1>2, <1>3, InvFacts, HoldingsStep

\* An NFT that is burnt leaves its portfolio and has no owner.
LEMMA BurnNftStep ==
    ASSUME LedgerInv, NEW p \in Portfolios, NEW n \in NFTs, RedeemNft(p, n)
    PROVE  LedgerInv'
<1> DEFINE c == n[1]
           a == Agent[n[1]]
<1>0. c \in Collections /\ a \in Identities
  BY LedgerAssumption DEF NFTs
<1>1. /\ holdings \in HoldingsType /\ holdings.nft \in [Portfolios -> SUBSET NFTs]
      /\ holdings.owner \in [NFTs -> Portfolios \cup {NoPortfolio}]
      /\ holdings.nftCount \in [Identities -> [Collections -> Nat]]
      /\ holdings.minted \in [Collections -> Nat]
  BY InvFacts DEF HoldingsType
<1>2. /\ n \in holdings.nft[p]
      /\ holdings.nftCount[a][c] - 1 \in Nat /\ holdings.minted[c] - 1 \in Nat
      /\ UNCHANGED <<supply, nextNft, locked, lockedNft, portfolioState>>
  BY <1>0, <1>1, SMTT(60) DEF RedeemNft
<1>3. holdings' = [holdings EXCEPT !.nft = [holdings.nft EXCEPT ![p] = @ \ {n}],
                                   !.owner = [holdings.owner EXCEPT ![n] = NoPortfolio],
                                   !.nftCount = [holdings.nftCount EXCEPT ![a][c] = @ - 1],
                                   !.minted = [holdings.minted EXCEPT ![c] = @ - 1]]
  BY <1>1 DEF RedeemNft, HoldingsType
<1> HIDE DEF a, c
<1>4. /\ holdings' \in HoldingsType /\ holdings'.bal = holdings.bal /\ holdings'.count = holdings.count
      /\ holdings'.nft = [holdings.nft EXCEPT ![p] = @ \ {n}]
      /\ holdings'.owner = [holdings.owner EXCEPT ![n] = NoPortfolio]
  BY <1>0, <1>1, <1>2, <1>3 DEF HoldingsType
<1>5. \A m \in NFTs, q \in Portfolios : holdings'.owner[m] = q <=> m \in holdings'.nft[q]
  <2> SUFFICES ASSUME NEW m \in NFTs, NEW q \in Portfolios
               PROVE  holdings'.owner[m] = q <=> m \in holdings'.nft[q]
    OBVIOUS
  <2>1. (holdings.owner[m] = q <=> m \in holdings.nft[q]) /\ holdings.owner[n] = p
    BY <1>2, InvFacts
  <2> QED
    BY <1>1, <1>4, <2>1, LedgerAssumption, SMTT(60)
<1>6. CountExact(holdings')
  BY <1>4, InvFacts DEF CountExact
<1>7. \A m \in NFTs : holdings'.owner[m] # NoPortfolio => m[2] <= nextNft'[m[1]]
  BY <1>1, <1>2, <1>4, InvFacts, SMTT(60)
<1> QED
  BY <1>2, <1>4, <1>5, <1>6, <1>7, InvFacts, HoldingsStep

\* A minted NFT has an id above all those that were given out, so no portfolio has it yet.
LEMMA MintNftStep ==
    ASSUME LedgerInv, NEW p \in Portfolios, NEW c \in Collections, IssueNft(p, c)
    PROVE  LedgerInv'
<1> DEFINE k == nextNft[c] + 1
           n == <<c, k>>
           a == Agent[c]
<1>0. /\ n \in NFTs /\ a \in Identities /\ nextNft \in [Collections -> Nat] /\ k \in Nat
      /\ n[1] = c /\ n[2] = k
  BY LedgerAssumption, InvFacts, SMTT(60) DEF IssueNft
<1>1. /\ holdings \in HoldingsType /\ holdings.nft \in [Portfolios -> SUBSET NFTs]
      /\ holdings.owner \in [NFTs -> Portfolios \cup {NoPortfolio}]
      /\ holdings.nftCount \in [Identities -> [Collections -> Nat]]
      /\ holdings.minted \in [Collections -> Nat]
  BY InvFacts DEF HoldingsType
<1>2. /\ nextNft' = [nextNft EXCEPT ![c] = k]
      /\ UNCHANGED <<supply, locked, lockedNft, portfolioState>>
  BY <1>0 DEF IssueNft
<1>3. holdings' = [holdings EXCEPT !.nft = [holdings.nft EXCEPT ![p] = @ \cup {n}],
                                   !.owner = [holdings.owner EXCEPT ![n] = p],
                                   !.nftCount = [holdings.nftCount EXCEPT ![a][c] = @ + 1],
                                   !.minted = [holdings.minted EXCEPT ![c] = @ + 1]]
  BY <1>1 DEF IssueNft, HoldingsType
<1>4. holdings.owner[n] = NoPortfolio
  <2>1. ~(n[2] <= nextNft[n[1]])
    BY <1>0, SMTT(60)
  <2> QED
    BY <1>0, <2>1, InvFacts
<1> HIDE DEF a, n, k
<1>5. /\ holdings' \in HoldingsType /\ holdings'.bal = holdings.bal /\ holdings'.count = holdings.count
      /\ holdings'.nft = [holdings.nft EXCEPT ![p] = @ \cup {n}]
      /\ holdings'.owner = [holdings.owner EXCEPT ![n] = p]
  <2> DEFINE N == [holdings.nft EXCEPT ![p] = @ \cup {n}]
             O == [holdings.owner EXCEPT ![n] = p]
             C == [holdings.nftCount EXCEPT ![a][c] = @ + 1]
             M == [holdings.minted EXCEPT ![c] = @ + 1]
  <2>1. /\ N \in [Portfolios -> SUBSET NFTs] /\ O \in [NFTs -> Portfolios \cup {NoPortfolio}]
        /\ C \in [Identities -> [Collections -> Nat]] /\ M \in [Collections -> Nat]
    BY <1>0, <1>1, SMTT(60)
  <2>2. holdings' = [holdings EXCEPT !.nft = N, !.owner = O, !.nftCount = C, !.minted = M]
    BY <1>3
  <2> HIDE DEF N, O, C, M
  <2>3. /\ holdings' \in HoldingsType /\ holdings'.bal = holdings.bal
        /\ holdings'.count = holdings.count /\ holdings'.nft = N /\ holdings'.owner = O
    BY <1>1, <2>1, <2>2 DEF HoldingsType
  <2> QED
    BY <2>3 DEF N, O
<1>6. \A m \in NFTs, q \in Portfolios : holdings'.owner[m] = q <=> m \in holdings'.nft[q]
  <2> SUFFICES ASSUME NEW m \in NFTs, NEW q \in Portfolios
               PROVE  holdings'.owner[m] = q <=> m \in holdings'.nft[q]
    OBVIOUS
  <2>1. (holdings.owner[m] = q <=> m \in holdings.nft[q]) /\ n \notin holdings.nft[q]
    BY <1>0, <1>4, InvFacts, LedgerAssumption, SMTT(60)
  <2> QED
    BY <1>0, <1>1, <1>5, <2>1, LedgerAssumption, SMTT(60)
<1>7. CountExact(holdings')
  BY <1>5, InvFacts DEF CountExact
<1>8. nextNft' \in [Collections -> Nat]
  BY <1>0, <1>2
<1>9. \A m \in NFTs : holdings'.owner[m] # NoPortfolio => m[2] <= nextNft'[m[1]]
  <2> SUFFICES ASSUME NEW m \in NFTs, holdings'.owner[m] # NoPortfolio
               PROVE  m[2] <= nextNft'[m[1]]
    OBVIOUS
  <2>1. m[1] \in Collections /\ m[2] \in Nat
    BY LedgerAssumption DEF NFTs
  <2>2. CASE m = n
    BY <1>0, <1>2, <2>2, SMTT(60)
  <2>3. CASE m # n
    <3>1. m[2] <= nextNft[m[1]]
      BY <1>0, <1>1, <1>5, <2>3, InvFacts, SMTT(60)
    <3>2. nextNft[c] <= k
      BY <1>0, SMTT(60) DEF k
    <3> QED
      BY <1>0, <1>2, <2>1, <3>1, <3>2, SMTT(60)
  <2> QED
    BY <2>2, <2>3
<1> QED
  BY <1>2, <1>5, <1>6, <1>7, <1>8, <1>9, InvFacts, HoldingsStep

\* Every call of the ledger preserves the invariant.
LEMMA LedgerNextInv ==
    ASSUME TokensCounted, LedgerInv, LedgerNext
    PROVE  LedgerInv'
<1>1. CASE \E p \in Portfolios : CreatePortfolio(p) \/ DeletePortfolio(p)
  BY <1>1, PortfolioStep
<1>2. CASE \E p, q \in Portfolios, t \in Fungible, v \in 1..MaxAmount : MovePortfolioFunds(p, q, t, v)
  BY <1>2, MoveTokensStep
<1>3. CASE \E p, q \in Portfolios, ns \in SUBSET NFTs : MovePortfolioNfts(p, q, ns)
  BY <1>3, MoveNftsStep
<1>4. ASSUME NEW p \in Portfolios, NEW t \in Fungible, NEW v \in 1..MaxAmount,
             Issue(p, t, v) \/ Redeem(p, t, v) \/ ControllerTransfer(p, t, v)
      PROVE  LedgerInv'
  <2>1. DefaultOf[Agent[t]] \in Portfolios
    BY LedgerAssumption
  <2> QED
    BY <1>4, <2>1, MoveTokensStep, MintBurnStep
<1>5. CASE \E p \in Portfolios, c \in Collections : IssueNft(p, c)
  BY <1>5, MintNftStep
<1>6. CASE \E p \in Portfolios, n \in NFTs : RedeemNft(p, n)
  BY <1>6, BurnNftStep
<1>7. ASSUME NEW p \in Portfolios, NEW q \in Portfolios, NEW t \in Fungible \cup Collections,
             NEW c \in Collections, NEW ns \in SUBSET ({c} \X NftIds),
             ControllerTransferNfts(p, q, t, c, ns)
      PROVE  LedgerInv'
  <2>1. ns \in SUBSET NFTs
    BY DEF NFTs
  <2> QED
    BY <1>7, <2>1, MoveNftsStep
<1> QED
  BY <1>1, <1>2, <1>3, <1>4, <1>5, <1>6, <1>7 DEF LedgerNext, NftNext

-----------------------------------------------------------------------------
(* How finite sets are counted, and the theorems. *)

INSTANCE FiniteSetTheorems

LEMMA FiniteCounted ==
    ASSUME NEW S, IsFiniteSet(S)
    PROVE  Counted(S)
<1>1. ASSUME NEW Q \in SUBSET S
      PROVE  /\ IsFiniteSet(Q) /\ Cardinality(Q) \in Nat /\ (Cardinality(Q) = 0 => Q = {})
             /\ \A x \in S \ Q : Cardinality(Q \cup {x}) = Cardinality(Q) + 1
  <2>1. IsFiniteSet(Q)
    BY FS_Subset
  <2>2. Cardinality(Q) \in Nat
    BY <2>1, FS_CardinalityType
  <2>3. Cardinality(Q) = 0 => Q = {}
    BY <2>1, FS_EmptySet
  <2>4. \A x \in S \ Q : Cardinality(Q \cup {x}) = Cardinality(Q) + 1
    BY <2>1, FS_AddElement
  <2> QED BY <2>1, <2>2, <2>3, <2>4
<1>2. Cardinality({}) = 0
  BY FS_EmptySet
<1> QED BY <1>1, <1>2 DEF Counted

LEMMA TokensAreCounted == TokensCounted
<1>1. IsFiniteSet(NFTs)
  BY FS_Product, LedgerAssumption DEF NFTs
<1> QED BY <1>1, FiniteCounted, LedgerAssumption DEF TokensCounted

\* The invariant holds in every state of every behaviour.
LEMMA LedgerInvariance == LedgerSpec => []LedgerInv
<1>1. TokensCounted
  BY TokensAreCounted
<1>2. LedgerInit => LedgerInv
  BY <1>1, LedgerInitInv
<1>3. LedgerInv /\ [LedgerNext \/ LockNext]_ledgerVars => LedgerInv'
  <2>1. LedgerInv /\ UNCHANGED ledgerVars => LedgerInv'
    BY SMTT(60) DEF LedgerInv, ledgerVars, LedgerTypeOK, LocksCovered, AssetCountExact, NftOwnersAgree,
           NftIdsGivenOut, DefaultsLive, NoTokensOutsideLivePortfolios
  <2> QED
    BY <1>1, <2>1, LedgerNextInv, LockNextInv
<1> QED
  BY <1>2, <1>3, PTL DEF LedgerSpec

\* No call takes a balance, a count or a lock out of its storage type, whatever the endowment
\* and the number of identities, portfolios and tickers.
THEOREM LedgerTypes == LedgerSpec => []LedgerTypeOK
BY LedgerInvariance, PTL DEF LedgerInv

\* Tokens that are locked for a settlement stay in their portfolio until they are unlocked:
\* moves, redemptions, controller transfers and the deletion of portfolios all respect them.
THEOREM LocksAlwaysCovered == LedgerSpec => []LocksCovered
BY LedgerInvariance, PTL DEF LedgerInv

\* The count that delete_portfolio consults is the number of tickers the portfolio has.
THEOREM AssetCountAlwaysExact == LedgerSpec => []AssetCountExact
BY LedgerInvariance, PTL DEF LedgerInv

\* The fungible calls of the ledger leave no balance in a portfolio that is not in use.
THEOREM TokensOnlyInLivePortfolios == LedgerSpec => []NoTokensOutsideLivePortfolios
BY LedgerInvariance, PTL DEF LedgerInv

\* NFTOwner and PortfolioNFT name the same portfolio for every NFT, and an id that is minted
\* has no owner before.
THEOREM NftOwnersAlwaysAgree == LedgerSpec => [](NftOwnersAgree /\ NftIdsGivenOut)
BY LedgerInvariance, PTL DEF LedgerInv

\* All that the ledger promises the pallets that settle, in one invariant.
THEOREM LedgerAlwaysSafe == LedgerSpec => []LedgerSafe
<1>1. LedgerInv => LedgerSafe
  BY DEF LedgerInv, LedgerSafe
<1> QED
  BY <1>1, LedgerInvariance, PTL

=============================================================================
