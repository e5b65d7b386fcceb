---------------------------- MODULE Permissions ----------------------------
(***************************************************************************)
(* What a secondary key may do: primitives/src/subset.rs and                *)
(* secondary_key.rs, the checks of pallets/identity/src/keys.rs, and the    *)
(* call metadata of pallets/permissions by which a check knows the call it  *)
(* is made for.  Calls nest: batches, multisig proposals, relayed calls and *)
(* contracts dispatch a call inside a call, for another signer perhaps, and *)
(* swap the metadata around it.  One identity has a primary key, with full  *)
(* permissions, and one secondary key.                                      *)
(*                                                                         *)
(* A SubsetRestriction is [kind, set].  The names of pallets, functions and *)
(* portfolios are open: Other stands for all the ones nobody listed.        *)
(***************************************************************************)
EXTENDS Naturals, Sequences, FiniteSets

CONSTANTS
    PalletNames, FunctionNames, PortfolioIds,
    Other,                     \* a name that is none of the listed ones
    MaxPallets, MaxPortfolios, \* MAX_PALLETS, MAX_PORTFOLIOS
    MaxDepth                   \* how deep calls nest here

ASSUME PermissionsAssumption ==
    /\ Other \notin PalletNames \cup FunctionNames \cup PortfolioIds
    /\ MaxPallets \in Nat /\ MaxPortfolios \in Nat /\ MaxDepth \in Nat

VARIABLES
    perms,     \* the permissions in the KeyRecord of the secondary key
    frozen,    \* IsDidFrozen
    metadata,  \* CurrentPalletName and CurrentDispatchableName
    running,   \* the calls in progress, outermost first, with their signers
    saved,     \* the metadata the dispatchers in progress will put back
    admitted   \* whether the innermost call passed its check

permVars == <<perms, frozen, metadata, running, saved, admitted>>

----------------------------------------------------------------------------
(* SubsetRestriction.                                                      *)
Whole == [kind |-> "Whole", set |-> {}]
These(s) == [kind |-> "These", set |-> s]
Except(s) == [kind |-> "Except", set |-> s]
Restrictions(A) ==
    {Whole} \cup {These(s) : s \in SUBSET A} \cup {Except(s) : s \in SUBSET A}

\* U \ {} is U.
Normalize(r) == IF r.kind = "Except" /\ r.set = {} THEN Whole ELSE r

CmpSame(a, b) ==
    CASE a \subseteq b /\ b \subseteq a -> "Equal"
      [] a \subseteq b /\ ~(b \subseteq a) -> "Less"
      [] ~(a \subseteq b) /\ b \subseteq a -> "Greater"
      [] OTHER -> "Incomparable"
CmpDiff(a, b, n) == IF a \cap b # {} THEN "Incomparable" ELSE n

\* Mutant: with an exception, the listed elements are compared the wrong way.
MutLatticeCmp(self, other) ==
    LET l == Normalize(self)
        r == Normalize(other)
    IN  CASE l.kind = "Whole" /\ r.kind = "Whole" -> "Equal"
          [] l.kind # "Whole" /\ r.kind = "Whole" -> "Less"
          [] l.kind = "Whole" /\ r.kind # "Whole" -> "Greater"
          [] l.kind = "Except" /\ r.kind = "These" ->
                IF r.set \subseteq l.set THEN "Incomparable" ELSE "Greater"
          [] l.kind = "These" /\ r.kind = "Except" -> CmpDiff(l.set, r.set, "Less")
          [] OTHER -> CmpSame(l.set, r.set)

LatticeCmp(self, other) ==
    LET l == Normalize(self)
        r == Normalize(other)
    IN  CASE l.kind = "Whole" /\ r.kind = "Whole" -> "Equal"
          [] l.kind # "Whole" /\ r.kind = "Whole" -> "Less"
          [] l.kind = "Whole" /\ r.kind # "Whole" -> "Greater"
          [] l.kind = "These" /\ r.kind = "These" -> CmpSame(l.set, r.set)
          [] l.kind = "Except" /\ r.kind = "Except" -> CmpSame(r.set, l.set)
          [] l.kind = "These" /\ r.kind = "Except" -> CmpDiff(l.set, r.set, "Less")
          [] l.kind = "Except" /\ r.kind = "These" -> CmpDiff(l.set, r.set, "Greater")

Ge(self, other) == LatticeCmp(self, other) \in {"Greater", "Equal"}

\* What a restriction stands for in an open universe: the reference.
Members(r, A) ==
    LET universe == A \cup {Other}
    IN  IF r.kind = "Whole" THEN universe
        ELSE IF r.kind = "These" THEN r.set ELSE universe \ r.set

----------------------------------------------------------------------------
(* Permissions.                                                            *)
PalletPermissions == [pallet : PalletNames, functions : Restrictions(FunctionNames)]

MatchesAny(ps, pallet, function) ==
    \E p \in ps :
        /\ p.pallet = pallet
        /\ \/ p.functions.kind = "Whole"
           \/ p.functions.kind = "These" /\ function \in p.functions.set
           \/ p.functions.kind = "Except" /\ function \notin p.functions.set

SufficientFor(extrinsic, pallet, function) ==
    \/ extrinsic.kind = "Whole"
    \/ extrinsic.kind = "These" /\ MatchesAny(extrinsic.set, pallet, function)
    \/ extrinsic.kind = "Except" /\ ~MatchesAny(extrinsic.set, pallet, function)

HasPortfolioPermission(portfolios) == Ge(perms.portfolio, These(portfolios))

\* ensure_perms_length_limited, ensure_no_except_perms.
EnsurePermsLengthLimited(new) ==
    /\ Cardinality(new.portfolio.set) <= MaxPortfolios
    /\ Cardinality(new.extrinsic.set) <= MaxPallets
EnsureNoExceptPerms(extrinsic) ==
    extrinsic.kind # "Except" /\ \A p \in extrinsic.set : p.functions.kind # "Except"

Calls == [pallet : PalletNames \cup {Other}, function : FunctionNames \cup {Other}]
NoCall == [pallet |-> Other, function |-> Other]
Signers == {"primary", "secondary"}
Frames == [who : Signers, call : Calls]
Running == running[Len(running)]

\* check_account_call_permissions, for the call the metadata names.
CheckAccountCallPermissions(who) ==
    \/ who = "primary"
    \/ /\ who = "secondary" /\ ~frozen
       /\ SufficientFor(perms.extrinsic, metadata.pallet, metadata.function)

----------------------------------------------------------------------------
(* Calls.                                                                  *)
PermissionsInit ==
    /\ perms = [portfolio |-> These({}), extrinsic |-> These({})]
    /\ frozen = FALSE
    /\ metadata = NoCall /\ running = <<>> /\ saved = <<>> /\ admitted = FALSE

\* StoreCallMetadata::pre_dispatch and post_dispatch.
PreDispatchCall(who, call) ==
    /\ running = <<>>
    /\ metadata' = call
    /\ running' = <<[who |-> who, call |-> call]>>
    /\ admitted' = FALSE
    /\ UNCHANGED <<perms, frozen, saved>>

PostDispatchCall ==
    /\ Len(running) = 1
    /\ metadata' = NoCall
    /\ running' = <<>>
    /\ admitted' = FALSE
    /\ UNCHANGED <<perms, frozen, saved>>

\* with_call_metadata, before and after the nested call.
EnterCall(who, call) ==
    /\ running # <<>> /\ Len(running) < MaxDepth
    /\ saved' = Append(saved, metadata)
    /\ metadata' = call
    /\ running' = Append(running, [who |-> who, call |-> call])
    /\ admitted' = FALSE
    /\ UNCHANGED <<perms, frozen>>

\* Mutant: the outer call's names are not put back.
MutLeaveCall ==
    /\ Len(running) > 1
    /\ saved' = SubSeq(saved, 1, Len(saved) - 1)
    /\ running' = SubSeq(running, 1, Len(running) - 1)
    /\ admitted' = FALSE
    /\ UNCHANGED <<metadata, perms, frozen>>

LeaveCall ==
    /\ Len(running) > 1
    /\ metadata' = saved[Len(saved)]
    /\ saved' = SubSeq(saved, 1, Len(saved) - 1)
    /\ running' = SubSeq(running, 1, Len(running) - 1)
    /\ admitted' = FALSE
    /\ UNCHANGED <<perms, frozen>>

\* ensure_call_permissions, by the body of the innermost call.
EnsureCallPermissions ==
    /\ running # <<>> /\ ~admitted
    /\ CheckAccountCallPermissions(Running.who)
    /\ admitted' = TRUE
    /\ UNCHANGED <<perms, frozen, metadata, running, saved>>

\* set_secondary_key_permissions and the freezing of the secondary keys, by a
\* call of the primary key.
SetPermissions(new) ==
    /\ running # <<>> /\ Running.who = "primary"
    /\ EnsurePermsLengthLimited(new)
    /\ EnsureNoExceptPerms(new.extrinsic)
    /\ perms' = new
    /\ UNCHANGED <<frozen, metadata, running, saved, admitted>>

SetFrozen(flag) ==
    /\ running # <<>> /\ Running.who = "primary"
    /\ frozen' = flag
    /\ UNCHANGED <<perms, metadata, running, saved, admitted>>

PermissionsNext ==
    \/ \E who \in Signers, call \in Calls : PreDispatchCall(who, call) \/ EnterCall(who, call)
    \/ LeaveCall \/ PostDispatchCall \/ EnsureCallPermissions
    \/ \E p \in Restrictions(PortfolioIds), e \in Restrictions(PalletPermissions) :
          SetPermissions([portfolio |-> p, extrinsic |-> e])
    \/ \E flag \in BOOLEAN : SetFrozen(flag)

PermissionsSpec == PermissionsInit /\ [][PermissionsNext]_permVars

----------------------------------------------------------------------------
(* Properties.                                                             *)

\* The calls some permissions stand for: the reference.
Permitted(extrinsic) ==
    LET pairs == {c \in Calls : \E p \in extrinsic.set :
                    c.pallet = p.pallet /\ c.function \in Members(p.functions, FunctionNames)}
    IN  IF extrinsic.kind = "Whole" THEN Calls
        ELSE IF extrinsic.kind = "These" THEN pairs ELSE Calls \ pairs

\* A call signed by the secondary key passes its check only if the key's
\* permissions at that moment allow this very call and the identity is not
\* frozen, however the calls around it are nested and whatever they did before:
\* the names the check reads (permissions/src/lib.rs, with_call_metadata) are
\* the names of the call that asks.
ActsWithinPermissions ==
    [][admitted' /\ ~admitted /\ Running.who = "secondary" =>
          ~frozen /\ Running.call \in Permitted(perms.extrinsic)]_permVars

\* The comparison of restrictions (lattice_cmp, ge) is inclusion of what they
\* stand for: a key may use a set of portfolios exactly if its restriction
\* covers them, and two restrictions are equal, smaller or greater exactly as
\* their sets are, none of them listed in full.
PermissionChecksExact ==
    \A r \in Restrictions(PortfolioIds) :
        LET mine == Members(perms.portfolio, PortfolioIds)
            its == Members(r, PortfolioIds)
            cmp == LatticeCmp(perms.portfolio, r)
        IN  /\ cmp = "Equal" <=> mine = its
            /\ cmp = "Less" <=> mine \subseteq its /\ mine # its
            /\ cmp = "Greater" <=> its \subseteq mine /\ mine # its
            /\ Ge(perms.portfolio, r) <=> its \subseteq mine
=============================================================================
