------------------------------ MODULE Custody ------------------------------
(***************************************************************************)
(* Who may act on a portfolio: the names and numbers of the portfolios of  *)
(* an identity, their custodians, and the identities that may create       *)
(* portfolios for others.  What a portfolio holds is module Ledger's; here *)
(* every portfolio is empty.  The caller is the primary key of an identity.*)
(*                                                                         *)
(* Several maps record the same thing twice: Portfolios and NameToNumber,  *)
(* PortfolioCustodian and PortfoliosInCustody.                             *)
(***************************************************************************)
EXTENDS Integers, FiniteSets

CONSTANTS
    Holders,          \* identities
    Names,            \* portfolio names
    MaxNumber,        \* bounds the numbers given out to an identity
    MaxCustodyAuths   \* bounds the pending authorizations

ASSUME CustodyAssumption == MaxNumber \in Nat

VARIABLES
    nextNumber,       \* NextPortfolioNumber
    nameOf,           \* Portfolios: <<did, number>> -> name
    nameToNumber,     \* NameToNumber: <<did, name>> -> number
    custodianOf,      \* PortfolioCustodian: portfolio -> did, absent for the owner
    inCustody,        \* PortfoliosInCustody
    allowedCustodians,
    custodyAuths      \* pending authorizations with PortfolioCustody data

custodyVars == <<nextNumber, nameOf, nameToNumber, custodianOf, inCustody, allowedCustodians, custodyAuths>>

\* Number 0 stands for the default portfolio.
Pids == Holders \X (0..MaxNumber)

Put(f, x, y) == [z \in DOMAIN f \cup {x} |-> IF z = x THEN y ELSE f[z]]
Drop(f, x) == [z \in DOMAIN f \ {x} |-> f[z]]

InitCustody ==
    /\ nextNumber = [d \in Holders |-> 1]
    /\ nameOf = <<>> /\ nameToNumber = <<>> /\ custodianOf = <<>>
    /\ inCustody = {} /\ allowedCustodians = {} /\ custodyAuths = {}

CustodianOf(pid) == IF pid \in DOMAIN custodianOf THEN custodianOf[pid] ELSE pid[1]
EnsurePortfolioCustody(pid, did) == CustodianOf(pid) = did
EnsureNameUnique(did, name) == <<did, name>> \notin DOMAIN nameToNumber

----------------------------------------------------------------------------
\* base_create_portfolio
BaseCreatePortfolio(owner, name) ==
    /\ EnsureNameUnique(owner, name)
    /\ nextNumber[owner] <= MaxNumber
    /\ nextNumber' = [nextNumber EXCEPT ![owner] = @ + 1]
    /\ nameToNumber' = Put(nameToNumber, <<owner, name>>, nextNumber[owner])
    /\ nameOf' = Put(nameOf, <<owner, nextNumber[owner]>>, name)

CreateNamedPortfolio(did, name) ==
    /\ BaseCreatePortfolio(did, name)
    /\ UNCHANGED <<custodianOf, inCustody, allowedCustodians, custodyAuths>>

\* delete_portfolio, by the owner, who must be the custodian.  Pre-approvals and
\* authorizations that name the portfolio stay.
DeleteNamedPortfolio(did, num) ==
    /\ <<did, num>> \in DOMAIN nameOf
    /\ EnsurePortfolioCustody(<<did, num>>, did)
    /\ nameToNumber' = Drop(nameToNumber, <<did, nameOf[<<did, num>>]>>)
    /\ nameOf' = Drop(nameOf, <<did, num>>)
    /\ inCustody' = inCustody \ {<<CustodianOf(<<did, num>>), <<did, num>>>>}
    /\ custodianOf' = Drop(custodianOf, <<did, num>>)
    /\ UNCHANGED <<nextNumber, allowedCustodians, custodyAuths>>

\* rename_portfolio: the owner may rename what is in somebody else's custody.
RenamePortfolio(did, num, name) ==
    /\ <<did, num>> \in DOMAIN nameOf
    /\ EnsureNameUnique(did, name)
    /\ nameToNumber' = Put(Drop(nameToNumber, <<did, nameOf[<<did, num>>]>>), <<did, name>>, num)
    /\ nameOf' = [nameOf EXCEPT ![<<did, num>>] = name]
    /\ UNCHANGED <<nextNumber, custodianOf, inCustody, allowedCustodians, custodyAuths>>

QuitPortfolioCustody(did, pid) ==
    /\ did = CustodianOf(pid)
    /\ custodianOf' = Drop(custodianOf, pid)
    /\ inCustody' = inCustody \ {<<did, pid>>}
    /\ UNCHANGED <<nextNumber, nameOf, nameToNumber, allowedCustodians, custodyAuths>>

\* add_authorization with PortfolioCustody(pid): nothing is checked, not even that
\* pid exists.
AuthorizeCustody(from, to, pid) ==
    /\ Cardinality(custodyAuths) < MaxCustodyAuths
    /\ custodyAuths' = custodyAuths \cup {[from |-> from, to |-> to, pid |-> pid]}
    /\ UNCHANGED <<nextNumber, nameOf, nameToNumber, custodianOf, inCustody, allowedCustodians>>

TakePortfolioCustody(pid, did, listed) ==
    /\ custodianOf' = Put(custodianOf, pid, did)
    /\ inCustody' = listed \cup {<<did, pid>>}

\* Mutant: whoever wrote the authorization is believed.
MutAcceptPortfolioCustody(auth) ==
    /\ auth \in custodyAuths
    /\ custodyAuths' = custodyAuths \ {auth}
    /\ IF auth.pid[1] = auth.to
       THEN /\ custodianOf' = Drop(custodianOf, auth.pid)
            /\ inCustody' = inCustody \ {<<auth.from, auth.pid>>}
       ELSE TakePortfolioCustody(auth.pid, auth.to, inCustody \ {<<auth.from, auth.pid>>})
    /\ UNCHANGED <<nextNumber, nameOf, nameToNumber, allowedCustodians>>

\* base_accept_portfolio_custody: the authorization must be the current custodian's,
\* which need not be who it was when it was written.
AcceptPortfolioCustody(auth) ==
    /\ auth \in custodyAuths
    /\ auth.from = CustodianOf(auth.pid)
    /\ custodyAuths' = custodyAuths \ {auth}
    /\ IF auth.pid[1] = auth.to
       THEN /\ custodianOf' = Drop(custodianOf, auth.pid)
            /\ inCustody' = inCustody \ {<<auth.from, auth.pid>>}
       ELSE TakePortfolioCustody(auth.pid, auth.to, inCustody \ {<<auth.from, auth.pid>>})
    /\ UNCHANGED <<nextNumber, nameOf, nameToNumber, allowedCustodians>>

AllowIdentityToCreatePortfolios(did, trusted) ==
    /\ allowedCustodians' = allowedCustodians \cup {<<did, trusted>>}
    /\ UNCHANGED <<nextNumber, nameOf, nameToNumber, custodianOf, inCustody, custodyAuths>>

RevokeCreatePortfoliosPermission(did, other) ==
    /\ allowedCustodians' = allowedCustodians \ {<<did, other>>}
    /\ UNCHANGED <<nextNumber, nameOf, nameToNumber, custodianOf, inCustody, custodyAuths>>

\* base_create_custody_portfolio: the number it takes custody of is the next one,
\* and the identity that may already be recorded as its custodian is not looked up.
NewCustodyPortfolio(did, owner, name) ==
    /\ <<owner, did>> \in allowedCustodians
    /\ BaseCreatePortfolio(owner, name)
    /\ TakePortfolioCustody(<<owner, nextNumber[owner]>>, did, inCustody)
    /\ UNCHANGED <<allowedCustodians,
                   custodyAuths>>

CustodyNext ==
    \/ \E d, e \in Holders :
          \/ \E n \in Names : CreateNamedPortfolio(d, n) \/ NewCustodyPortfolio(d, e, n)
          \/ AllowIdentityToCreatePortfolios(d, e) \/ RevokeCreatePortfoliosPermission(d, e)
          \/ \E pid \in Pids : AuthorizeCustody(d, e, pid)
    \/ \E d \in Holders, num \in 1..MaxNumber :
          DeleteNamedPortfolio(d, num) \/ \E n \in Names : RenamePortfolio(d, num, n)
    \/ \E d \in Holders, pid \in Pids :
          QuitPortfolioCustody(d, pid)
    \/ \E auth \in custodyAuths : AcceptPortfolioCustody(auth)

CustodySpec == InitCustody /\ [][CustodyNext]_custodyVars
----------------------------------------------------------------------------
(* Properties.                                                             *)

\* NameToNumber is the "inverse map of `Portfolios` used to ensure bijectivity", through
\* every order of creations, renames and deletions: a name that cannot be found or
\* cannot be used again would show here.  And who is recorded as custodian of a
\* portfolio has it in its list, so the UIs show it.
CustodyMapsAgree ==
    /\ \A pid \in DOMAIN nameOf :
          /\ pid[2] < nextNumber[pid[1]]
          /\ <<pid[1], nameOf[pid]>> \in DOMAIN nameToNumber
          /\ nameToNumber[<<pid[1], nameOf[pid]>>] = pid[2]
    /\ \A k \in DOMAIN nameToNumber :
          /\ <<k[1], nameToNumber[k]>> \in DOMAIN nameOf
          /\ nameOf[<<k[1], nameToNumber[k]>>] = k[2]
    /\ \A pid \in DOMAIN custodianOf : <<custodianOf[pid], pid>> \in inCustody

\* Custody of a portfolio that exists changes hands only by the doing of its custodian:
\* it quit, wrote the authorization that is accepted, or deletes the portfolio it owns.
CustodyOnlyByConsent ==
    [][\A pid \in DOMAIN nameOf \cup (Holders \X {0}) :
          CustodianOf(pid)' # CustodianOf(pid) =>
             \/ CustodianOf(pid)' = pid[1] /\ <<CustodianOf(pid), pid>> \notin inCustody'
             \/ [from |-> CustodianOf(pid), to |-> CustodianOf(pid)', pid |-> pid]
                   \in custodyAuths \ custodyAuths']_custodyVars

\* Both together, for every order of the calls of create, rename, delete, quit and accept.
CustodySound == []CustodyMapsAgree /\ CustodyOnlyByConsent
=============================================================================
