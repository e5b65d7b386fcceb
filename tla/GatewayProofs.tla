--------------------------- MODULE GatewayProofs ----------------------------
(***************************************************************************)
(* Calls and money that come in from outside: a key signs a call with its  *)
(* permissions (Permissions), contracts call the runtime (Extension), and  *)
(* another chain has POLYX minted (Bridge), for every value of the constants. *)
(*                                                                         *)
(* The comparison of restrictions is inclusion, for any set of names, and  *)
(* calls act within the permissions of their signer at any depth.          *)
(*                                                                         *)
(* The context that calls run in is exact at any depth of nesting, because *)
(* the frames of the stack alternate and each dispatch frame saves the     *)
(* context of the dispatch frame two below it.  Code hashes never go back, *)
(* because not only what is stored but also every snapshot that a failure  *)
(* would restore keeps the hashes in order (ExtensionInv).                 *)
(*                                                                         *)
(* The bridge implements LockAndMint, step by step, nothing that waits is  *)
(* forgotten and the limit of an interval is kept.                         *)
(***************************************************************************)
EXTENDS Permissions, Extension, Bridge, TLAPS

\* Steps are Zenon's unless they cite the SMT solver.
USE ZenonT(60)

-----------------------------------------------------------------------------
(* Sequences. *)

LEMMA ElementOfSeq ==
    ASSUME NEW S, NEW seq \in Seq(S), NEW i \in 1..Len(seq)
    PROVE  seq[i] \in S
BY SMTT(60)

LEMMA EmptySeq ==
    ASSUME NEW S
    PROVE  <<>> \in Seq(S) /\ Len(<<>>) = 0
BY SMTT(60)

LEMMA NonEmptySeq ==
    ASSUME NEW S, NEW seq \in Seq(S)
    PROVE  Len(seq) \in Nat /\ (Len(seq) > 0 <=> seq # <<>>)
BY SMTT(60)

LEMMA InitialPart ==
    ASSUME NEW S, NEW seq \in Seq(S), NEW n \in Nat, n <= Len(seq)
    PROVE  /\ SubSeq(seq, 1, n) \in Seq(S) /\ Len(SubSeq(seq, 1, n)) = n
           /\ \A i \in 1..n : SubSeq(seq, 1, n)[i] = seq[i]
BY SMTT(60)

\* All but the last element of a sequence.
LEMMA FrontFacts ==
    ASSUME NEW S, NEW seq \in Seq(S), Len(seq) >= 1
    PROVE  /\ SubSeq(seq, 1, Len(seq) - 1) \in Seq(S)
           /\ Len(SubSeq(seq, 1, Len(seq) - 1)) = Len(seq) - 1
           /\ \A i \in 1..(Len(seq) - 1) : SubSeq(seq, 1, Len(seq) - 1)[i] = seq[i]
<1>1. PICK n : n = Len(seq) - 1
  OBVIOUS
<1>2. n \in Nat /\ n <= Len(seq)
  BY <1>1, SMTT(60)
<1>3. /\ SubSeq(seq, 1, n) \in Seq(S) /\ Len(SubSeq(seq, 1, n)) = n
      /\ \A i \in 1..n : SubSeq(seq, 1, n)[i] = seq[i]
  BY <1>2, InitialPart
<1> QED BY <1>1, <1>3

-----------------------------------------------------------------------------
(* The permissions of keys. *)

\* A restriction lists names of A and has one of the three kinds.
LEMMA RestrictionShape ==
    ASSUME NEW A, NEW r \in Restrictions(A)
    PROVE  /\ r.kind \in {"Whole", "These", "Except"}
           /\ r.set \subseteq A
           /\ r.kind = "Whole" => r.set = {}
           /\ r = [kind |-> r.kind, set |-> r.set]
  BY SMTT(60) DEF Restrictions, Whole, These, Except

\* Normalizing changes the form of a restriction and not what it stands for.
LEMMA NormalizeKeepsMembers ==
    ASSUME NEW A, NEW r \in Restrictions(A)
    PROVE  /\ Normalize(r) \in Restrictions(A)
           /\ Members(Normalize(r), A) = Members(r, A)
           /\ Normalize(r).kind = "Except" => Normalize(r).set # {}
  <1>1. CASE r.kind = "Except" /\ r.set = {}
    BY <1>1 DEF Normalize, Members, Whole, Restrictions
  <1>2. CASE ~(r.kind = "Except" /\ r.set = {})
    BY <1>2 DEF Normalize
  <1> QED
    BY <1>1, <1>2

\* lattice_cmp compares restrictions as the sets they stand for, because some
\* name is always unlisted.
LEMMA LatticeCmpExact ==
    ASSUME NEW A, Other \notin A, NEW r \in Restrictions(A), NEW s \in Restrictions(A)
    PROVE  /\ LatticeCmp(r, s) = "Equal" <=> Members(r, A) = Members(s, A)
           /\ LatticeCmp(r, s) = "Less"
                <=> Members(r, A) \subseteq Members(s, A) /\ Members(r, A) # Members(s, A)
           /\ LatticeCmp(r, s) = "Greater"
                <=> Members(s, A) \subseteq Members(r, A) /\ Members(r, A) # Members(s, A)
  <1> DEFINE x == Normalize(r)
             y == Normalize(s)
  <1>1. /\ x \in Restrictions(A) /\ y \in Restrictions(A)
        /\ Members(x, A) = Members(r, A) /\ Members(y, A) = Members(s, A)
        /\ x.kind = "Except" => x.set # {}
        /\ y.kind = "Except" => y.set # {}
    BY NormalizeKeepsMembers
  <1>2. /\ x.kind \in {"Whole", "These", "Except"} /\ x.set \subseteq A
        /\ y.kind \in {"Whole", "These", "Except"} /\ y.set \subseteq A
    BY <1>1, RestrictionShape
  <1>3. LatticeCmp(r, s) =
          CASE x.kind = "Whole" /\ y.kind = "Whole" -> "Equal"
            [] x.kind # "Whole" /\ y.kind = "Whole" -> "Less"
            [] x.kind = "Whole" /\ y.kind # "Whole" -> "Greater"
            [] x.kind = "These" /\ y.kind = "These" -> CmpSame(x.set, y.set)
            [] x.kind = "Except" /\ y.kind = "Except" -> CmpSame(y.set, x.set)
            [] x.kind = "These" /\ y.kind = "Except" -> CmpDiff(x.set, y.set, "Less")
            [] x.kind = "Except" /\ y.kind = "These" -> CmpDiff(x.set, y.set, "Greater")
    BY DEF LatticeCmp
  <1> DEFINE mx == Members(x, A)
             my == Members(y, A)
             Goal == /\ LatticeCmp(r, s) = "Equal" <=> mx = my
                     /\ LatticeCmp(r, s) = "Less" <=> mx \subseteq my /\ mx # my
                     /\ LatticeCmp(r, s) = "Greater" <=> my \subseteq mx /\ mx # my
  <1>4. ASSUME x.kind = "Whole" PROVE mx = A \cup {Other}
    BY <1>4 DEF Members
  <1>5. ASSUME x.kind = "These" PROVE mx = x.set
    BY <1>5 DEF Members
  <1>6. ASSUME x.kind = "Except" PROVE mx = (A \cup {Other}) \ x.set
    BY <1>6 DEF Members
  <1>7. ASSUME y.kind = "Whole" PROVE my = A \cup {Other}
    BY <1>7 DEF Members
  <1>8. ASSUME y.kind = "These" PROVE my = y.set
    BY <1>8 DEF Members
  <1>9. ASSUME y.kind = "Except" PROVE my = (A \cup {Other}) \ y.set
    BY <1>9 DEF Members
  <1> HIDE DEF x, y, mx, my
  <1>a. ASSUME x.kind = "Whole" /\ y.kind = "Whole" PROVE Goal
    BY <1>a, <1>3, <1>4, <1>7
  <1>b. ASSUME x.kind # "Whole" /\ y.kind = "Whole" PROVE Goal
    <2>1. LatticeCmp(r, s) = "Less"
      BY <1>b, <1>3
    <2>2. mx \subseteq my /\ mx # my
      <3>1. CASE x.kind = "These"
        BY <1>b, <1>2, <3>1, <1>5, <1>7
      <3>2. CASE x.kind = "Except"
        BY <1>b, <1>1, <1>2, <3>2, <1>6, <1>7
      <3> QED
        BY <1>2, <1>b, <3>1, <3>2
    <2> QED
      BY <2>1, <2>2
  <1>c. ASSUME x.kind = "Whole" /\ y.kind # "Whole" PROVE Goal
    <2>1. LatticeCmp(r, s) = "Greater"
      BY <1>c, <1>3
    <2>2. my \subseteq mx /\ mx # my
      <3>1. CASE y.kind = "These"
        BY <1>c, <1>2, <3>1, <1>8, <1>4
      <3>2. CASE y.kind = "Except"
        BY <1>c, <1>1, <1>2, <3>2, <1>9, <1>4
      <3> QED
        BY <1>2, <1>c, <3>1, <3>2
    <2> QED
      BY <2>1, <2>2
  <1>d. ASSUME x.kind = "These" /\ y.kind = "These" PROVE Goal
    <2>1. LatticeCmp(r, s) = CmpSame(x.set, y.set)
      BY <1>d, <1>3
    <2>2. mx = x.set /\ my = y.set
      BY <1>d, <1>5, <1>8
    <2> QED
      BY <2>1, <2>2 DEF CmpSame
  <1>e. ASSUME x.kind = "Except" /\ y.kind = "Except" PROVE Goal
    <2>1. LatticeCmp(r, s) = CmpSame(y.set, x.set)
      BY <1>e, <1>3
    <2>2. mx = (A \cup {Other}) \ x.set /\ my = (A \cup {Other}) \ y.set
      BY <1>e, <1>6, <1>9
    <2>3. (mx \subseteq my <=> y.set \subseteq x.set) /\ (my \subseteq mx <=> x.set \subseteq y.set)
      BY <2>2, <1>2
    <2>4. mx = my <=> mx \subseteq my /\ my \subseteq mx
      OBVIOUS
    <2> QED
      BY <2>1, <2>3, <2>4 DEF CmpSame
  <1>f. ASSUME x.kind = "These" /\ y.kind = "Except" PROVE Goal
    <2>1. LatticeCmp(r, s) = CmpDiff(x.set, y.set, "Less")
      BY <1>f, <1>3
    <2>2. mx = x.set /\ my = (A \cup {Other}) \ y.set
      BY <1>f, <1>5, <1>9
    <2>3. Other \in my /\ Other \notin mx
      BY <2>2, <1>2
    <2>4. mx \subseteq my <=> x.set \cap y.set = {}
      BY <2>2, <1>2
    <2> QED
      BY <2>1, <2>3, <2>4 DEF CmpDiff
  <1>g. ASSUME x.kind = "Except" /\ y.kind = "These" PROVE Goal
    <2>1. LatticeCmp(r, s) = CmpDiff(x.set, y.set, "Greater")
      BY <1>g, <1>3
    <2>2. mx = (A \cup {Other}) \ x.set /\ my = y.set
      BY <1>g, <1>6, <1>8
    <2>3. Other \in mx /\ Other \notin my
      BY <2>2, <1>2
    <2>4. my \subseteq mx <=> x.set \cap y.set = {}
      BY <2>2, <1>2
    <2> QED
      BY <2>1, <2>3, <2>4 DEF CmpDiff
  <1>h. Goal
    BY <1>2, <1>a, <1>b, <1>c, <1>d, <1>e, <1>f, <1>g
  <1> QED
    BY <1>h, <1>1 DEF mx, my

----------------------------------------------------------------------------
(* The metadata always names the innermost call, and what is saved are the  *)
(* names of the calls around it, in order.                                  *)
PermissionsInv ==
    /\ perms.portfolio \in Restrictions(PortfolioIds)
    /\ perms.extrinsic \in Restrictions(PalletPermissions)
    /\ running \in Seq(Frames)
    /\ saved \in Seq(Calls)
    /\ running = <<>> => saved = <<>>
    /\ running # <<>> =>
          /\ Len(saved) = Len(running) - 1
          /\ metadata = running[Len(running)].call
          /\ \A i \in 1..Len(saved) : saved[i] = running[i].call

\* The invariant holds in every state of every behaviour.
LEMMA PermissionsInvariance == PermissionsSpec => []PermissionsInv
  <1>1. PermissionsInit => PermissionsInv
    <2>1. ASSUME NEW A PROVE These({}) \in Restrictions(A)
      BY DEF Restrictions
    <2> QED
      BY <2>1, SMTT(60) DEF PermissionsInit, PermissionsInv
  <1>2. PermissionsInv /\ [PermissionsNext]_permVars => PermissionsInv'
    <2> SUFFICES ASSUME PermissionsInv, [PermissionsNext]_permVars PROVE PermissionsInv'
      OBVIOUS
    <2>1. ASSUME NEW who \in Signers, NEW call \in Calls, PreDispatchCall(who, call)
          PROVE  PermissionsInv'
      <3>1. saved = <<>>
        BY <2>1 DEF PreDispatchCall, PermissionsInv
      <3> DEFINE frame == [who |-> who, call |-> call]
      <3>2. frame \in Frames
        BY DEF Frames
      <3>3. running' = <<frame>> /\ saved' = <<>> /\ metadata' = frame.call
        BY <2>1, <3>1 DEF PreDispatchCall
      <3> HIDE DEF frame
      <3> QED
        BY <2>1, <3>2, <3>3, SMTT(60) DEF PreDispatchCall, PermissionsInv
    <2>2. ASSUME NEW who \in Signers, NEW call \in Calls, EnterCall(who, call)
          PROVE  PermissionsInv'
      <3> DEFINE frame == [who |-> who, call |-> call]
      <3>2. frame \in Frames /\ frame.call = call
        BY DEF Frames
      <3>3. /\ running' = Append(running, frame)
            /\ saved' = Append(saved, metadata) /\ metadata' = call
            /\ UNCHANGED perms /\ running # <<>>
        BY <2>2 DEF EnterCall
      <3> HIDE DEF frame
      <3>4. /\ running \in Seq(Frames) /\ saved \in Seq(Calls)
            /\ Len(running) \in Nat /\ Len(running) >= 1 /\ Len(saved) = Len(running) - 1
            /\ metadata = running[Len(running)].call
            /\ \A i \in 1..Len(saved) : saved[i] = running[i].call
        BY <3>3, NonEmptySeq, SMTT(60) DEF PermissionsInv
      <3>5. metadata \in Calls
        <4>1. running[Len(running)] \in Frames
          BY <3>4, ElementOfSeq, SMTT(60)
        <4> QED
          BY <4>1, <3>4 DEF Frames
      <3>6. /\ running' \in Seq(Frames) /\ Len(running') = Len(running) + 1
            /\ running'[Len(running')] = frame
            /\ \A i \in 1..Len(running) : running'[i] = running[i]
        BY <3>2, <3>3, <3>4, SMTT(60)
      <3>7. /\ saved' \in Seq(Calls) /\ Len(saved') = Len(saved) + 1
            /\ saved'[Len(saved')] = metadata
            /\ \A i \in 1..Len(saved) : saved'[i] = saved[i]
        BY <3>3, <3>4, <3>5, SMTT(60)
      <3>8. running' # <<>> /\ Len(saved') = Len(running') - 1
        BY <3>4, <3>6, <3>7, SMTT(60)
      <3>9. \A i \in 1..Len(saved') : saved'[i] = running'[i].call
        BY <3>4, <3>6, <3>7, SMTT(60)
      <3> QED
        BY <3>2, <3>3, <3>6, <3>7, <3>8, <3>9 DEF PermissionsInv
    <2>3. ASSUME LeaveCall PROVE PermissionsInv'
      <3>1. /\ Len(running) \in Nat /\ Len(running) > 1 /\ Len(saved) = Len(running) - 1
            /\ running \in Seq(Frames) /\ saved \in Seq(Calls)
            /\ \A i \in 1..Len(saved) : saved[i] = running[i].call
            /\ running' = SubSeq(running, 1, Len(running) - 1)
            /\ saved' = SubSeq(saved, 1, Len(saved) - 1)
            /\ metadata' = saved[Len(saved)] /\ UNCHANGED perms
        BY <2>3, SMTT(60) DEF LeaveCall, PermissionsInv
      <3>2. /\ running' \in Seq(Frames)
            /\ Len(running') = Len(running) - 1
            /\ \A i \in 1..(Len(running) - 1) : running'[i] = running[i]
        BY <3>1, FrontFacts, SMTT(60)
      <3>3. /\ saved' \in Seq(Calls)
            /\ Len(saved') = Len(saved) - 1
            /\ \A i \in 1..(Len(saved) - 1) : saved'[i] = saved[i]
        BY <3>1, FrontFacts, SMTT(60)
      <3>4. running' # <<>>
        <4>1. Len(running') # 0
          BY <3>1, <3>2, SMTT(60)
        <4> QED
          BY <4>1, EmptySeq
      <3>5. metadata' = running'[Len(running')].call
        BY <3>1, <3>2, SMTT(60)
      <3>6. \A i \in 1..Len(saved') : saved'[i] = running'[i].call
        BY <3>1, <3>2, <3>3, SMTT(60)
      <3> QED
        BY <3>1, <3>2, <3>3, <3>4, <3>5, <3>6 DEF PermissionsInv
    <2>4. CASE PostDispatchCall
      BY <2>4, SMTT(60) DEF PostDispatchCall, PermissionsInv
    <2>5. CASE EnsureCallPermissions
      BY <2>5 DEF EnsureCallPermissions, PermissionsInv
    <2>6. ASSUME NEW p \in Restrictions(PortfolioIds), NEW e \in Restrictions(PalletPermissions),
                 SetPermissions([portfolio |-> p, extrinsic |-> e])
          PROVE  PermissionsInv'
      BY <2>6 DEF SetPermissions, PermissionsInv
    <2>7. ASSUME NEW flag \in BOOLEAN, SetFrozen(flag) PROVE PermissionsInv'
      BY <2>7 DEF SetFrozen, PermissionsInv
    <2>8. CASE UNCHANGED permVars
      BY <2>8 DEF permVars, PermissionsInv
    <2> QED
      BY <2>1, <2>2, <2>3, <2>4, <2>5, <2>6, <2>7, <2>8 DEF PermissionsNext
  <1> QED
    BY <1>1, <1>2, PTL DEF PermissionsSpec

\* Two descriptions of the calls some permissions allow: sufficient_for and the
\* set of calls they stand for.
LEMMA SufficientForExact ==
    ASSUME NEW e \in Restrictions(PalletPermissions), NEW c \in Calls,
           SufficientFor(e, c.pallet, c.function)
    PROVE  c \in Permitted(e)
  <1>1. e.kind \in {"Whole", "These", "Except"} /\ e.set \subseteq PalletPermissions
    BY RestrictionShape
  <1>2. ASSUME NEW p \in PalletPermissions
        PROVE  (\/ p.functions.kind = "Whole"
                \/ p.functions.kind = "These" /\ c.function \in p.functions.set
                \/ p.functions.kind = "Except" /\ c.function \notin p.functions.set)
               <=> c.function \in Members(p.functions, FunctionNames)
    <2>1. p.functions \in Restrictions(FunctionNames)
      BY DEF PalletPermissions
    <2>2. p.functions.kind \in {"Whole", "These", "Except"}
      BY <2>1, RestrictionShape
    <2>3. c.function \in FunctionNames \cup {Other}
      BY DEF Calls
    <2> QED
      BY <2>2, <2>3 DEF Members
  <1>3. MatchesAny(e.set, c.pallet, c.function) <=>
            \E p \in e.set : c.pallet = p.pallet /\ c.function \in Members(p.functions, FunctionNames)
    BY <1>1, <1>2 DEF MatchesAny
  <1> QED
    BY <1>1, <1>3 DEF SufficientFor, Permitted

\* A secondary key acts within its permissions, at any depth of nesting and for
\* any names (check_account_call_permissions, with_call_metadata).
THEOREM KeysActWithinPermissions == PermissionsSpec => ActsWithinPermissions
  <1> DEFINE Step == admitted' /\ ~admitted /\ Running.who = "secondary" =>
                        ~frozen /\ Running.call \in Permitted(perms.extrinsic)
  <1>1. PermissionsInv /\ [PermissionsNext]_permVars => [Step]_permVars
    <2> SUFFICES ASSUME PermissionsInv, PermissionsNext, admitted', ~admitted,
                        Running.who = "secondary"
                 PROVE  ~frozen /\ Running.call \in Permitted(perms.extrinsic)
      OBVIOUS
    <2>1. EnsureCallPermissions
      BY DEF PermissionsNext, PreDispatchCall, EnterCall, LeaveCall, PostDispatchCall,
             SetPermissions, SetFrozen
    <2>2. /\ ~frozen
          /\ SufficientFor(perms.extrinsic, metadata.pallet, metadata.function)
      BY <2>1 DEF EnsureCallPermissions, CheckAccountCallPermissions
    <2>3. metadata = Running.call /\ Running.call \in Calls
      <3>1. running \in Seq(Frames) /\ running # <<>> /\ metadata = Running.call
        BY <2>1 DEF EnsureCallPermissions, PermissionsInv, Running
      <3>2. Len(running) \in 1..Len(running)
        BY <3>1, NonEmptySeq, SMTT(60)
      <3>3. Running \in Frames
        BY <3>1, <3>2, ElementOfSeq DEF Running
      <3> QED
        BY <3>1, <3>3 DEF Frames
    <2>4. perms.extrinsic \in Restrictions(PalletPermissions)
      BY DEF PermissionsInv
    <2> QED
      BY <2>2, <2>3, <2>4, SufficientForExact
  <1> QED
    BY <1>1, PermissionsInvariance, PTL DEF PermissionsSpec, ActsWithinPermissions

\* The checks of portfolio (and asset) permissions are exact for any set of
\* portfolios (lattice_cmp, ge).
THEOREM PermissionChecksAreExact == PermissionsSpec => []PermissionChecksExact
  <1>1. PermissionsInv => PermissionChecksExact
    <2> SUFFICES ASSUME PermissionsInv, NEW r \in Restrictions(PortfolioIds)
                 PROVE  LET mine == Members(perms.portfolio, PortfolioIds)
                            its == Members(r, PortfolioIds)
                            cmp == LatticeCmp(perms.portfolio, r)
                        IN  /\ cmp = "Equal" <=> mine = its
                            /\ cmp = "Less" <=> mine \subseteq its /\ mine # its
                            /\ cmp = "Greater" <=> its \subseteq mine /\ mine # its
                            /\ Ge(perms.portfolio, r) <=> its \subseteq mine
      BY DEF PermissionChecksExact
    <2>1. perms.portfolio \in Restrictions(PortfolioIds) /\ Other \notin PortfolioIds
      BY PermissionsAssumption DEF PermissionsInv
    <2> QED
      BY <2>1, LatticeCmpExact DEF Ge
  <1> QED
    BY <1>1, PermissionsInvariance, PTL

-----------------------------------------------------------------------------
(* Contracts and the runtime. *)

\* Dispatch and contract frames alternate from a dispatch frame at the bottom, and every
\* dispatch frame but the first saves the context of the dispatch frame two below it.
StackAlternates ==
    \A i \in 1..Len(frames) :
        /\ frames[i].kind \in {"dispatch", "contract"}
        /\ i = 1 => frames[i].kind = "dispatch"
        /\ i > 1 => frames[i - 1].kind # frames[i].kind
        /\ i > 2 /\ frames[i].kind = "dispatch" => frames[i].saved = frames[i - 2].context

\* What is stored, now or in the snapshot of a frame: contracts were last told the hash that is
\* current, a pending one is no older, and neither is what they were told in earlier extrinsics.
ApisInOrder(hashes, pending, told, trust) ==
    /\ \A api \in DOMAIN hashes : hashes[api] \in Nat
    /\ \A api \in DOMAIN pending :
          pending[api].hash \in Nat /\ (api \in DOMAIN hashes => pending[api].hash >= hashes[api])
    /\ \A api \in DOMAIN told : api \in DOMAIN hashes /\ told[api] = hashes[api]
    /\ \A api \in DOMAIN trust :
          trust[api] \in Nat /\ api \in DOMAIN told /\ told[api] >= trust[api]

SnapshotInOrder(snapshot, trust) == ApisInOrder(snapshot[4], snapshot[5], snapshot[6], trust)

ApisAlwaysInOrder ==
    /\ ApisInOrder(apiHash, nextUpgrade, sighted, trusted)
    /\ \A i \in 1..Len(frames) : SnapshotInOrder(frames[i].before, trusted)

FramesAreSeq == \E S : frames \in Seq(S)

ExtensionInv == FramesAreSeq /\ StackAlternates /\ ContextExact /\ ApisAlwaysInOrder

\* A frame that is pushed is the last one, and the others stay.
LEMMA PushedFrame ==
    ASSUME FramesAreSeq, NEW frame, frames' = Append(frames, frame)
    PROVE  /\ FramesAreSeq'
           /\ Len(frames) \in Nat /\ Len(frames') = Len(frames) + 1
           /\ \A i \in 1..Len(frames) : frames'[i] = frames[i]
           /\ frames'[Len(frames')] = frame /\ frames' # <<>>
  <1>1. PICK S : frames \in Seq(S)
    BY DEF FramesAreSeq
  <1>2. frames \in Seq(S \cup {frame})
    BY <1>1, SMTT(60)
  <1>3. frames' \in Seq(S \cup {frame})
    BY <1>2, SMTT(60)
  <1>4. Len(frames) \in Nat /\ Len(frames') = Len(frames) + 1
        /\ (\A i \in 1..Len(frames) : frames'[i] = frames[i]) /\ frames'[Len(frames')] = frame
    BY <1>2, SMTT(60)
  <1> QED
    BY <1>3, <1>4, SMTT(60) DEF FramesAreSeq

\* When the last frame leaves, the others stay.
LEMMA PoppedFrame ==
    ASSUME FramesAreSeq, frames # <<>>, frames' = SubSeq(frames, 1, Len(frames) - 1)
    PROVE  /\ FramesAreSeq'
           /\ Len(frames) \in Nat \ {0} /\ Len(frames') = Len(frames) - 1
           /\ \A i \in 1..(Len(frames) - 1) : frames'[i] = frames[i]
           /\ Len(frames) > 1 => frames' # <<>>
  <1>1. PICK S : frames \in Seq(S)
    BY DEF FramesAreSeq
  <1>2. Len(frames) \in Nat \ {0}
    BY <1>1, NonEmptySeq, SMTT(60)
  <1>3. /\ frames' \in Seq(S) /\ Len(frames') = Len(frames) - 1
        /\ \A i \in 1..(Len(frames) - 1) : frames'[i] = frames[i]
    BY <1>1, <1>2, FrontFacts, SMTT(60)
  <1>4. Len(frames') > 0 <=> frames' # <<>>
    BY <1>3, NonEmptySeq
  <1>5. FramesAreSeq'
    BY <1>3 DEF FramesAreSeq
  <1> QED
    BY <1>2, <1>3, <1>4, <1>5, SMTT(60)

\* Nothing that the invariant is about changes.
LEMMA ExtensionIdle ==
    ASSUME ExtensionInv, UNCHANGED <<frames, current, apiHash, nextUpgrade, sighted, trusted>>
    PROVE  ExtensionInv'
  BY DEF ExtensionInv, FramesAreSeq, StackAlternates, ContextExact, Top, ApisAlwaysInOrder

\* The stack is well formed and the APIs are in order when a frame ends, and when what it
\* stored is rolled back to its own snapshot.
LEMMA EndKeepsInv ==
    ASSUME ExtensionInv, frames # <<>>, NEW how, End(how)
    PROVE  ExtensionInv'
  <1>1. FramesAreSeq' /\ StackAlternates' /\ ContextExact'
    BY DEF ExtensionInv, End, FramesAreSeq, StackAlternates, ContextExact, Top
  <1>2. Len(frames) \in 1..Len(frames)
    <2>1. PICK S : frames \in Seq(S)
      BY DEF ExtensionInv, FramesAreSeq
    <2> QED
      BY <2>1, SMTT(60)
  <1>3. ApisInOrder(apiHash, nextUpgrade, sighted, trusted)'
    <2>1. CASE how = "ok"
      BY <2>1 DEF End, apiVars, ExtensionInv, ApisAlwaysInOrder
    <2>2. CASE how # "ok"
      <3>1. SnapshotInOrder(frames[Len(frames)].before, trusted)
        BY <1>2 DEF ExtensionInv, ApisAlwaysInOrder
      <3> QED
        BY <2>2, <3>1 DEF End, Top, SnapshotInOrder
    <2> QED
      BY <2>1, <2>2
  <1>4. \A i \in 1..Len(frames') : SnapshotInOrder(frames[i].before, trusted)'
    BY DEF End, ExtensionInv, ApisAlwaysInOrder
  <1> QED
    BY <1>1, <1>3, <1>4 DEF ExtensionInv, ApisAlwaysInOrder

\* An extrinsic starts, at the bottom of the stack or called by a contract.
LEMMA PushDispatchKeepsInv ==
    ASSUME ExtensionInv, frames = <<>> \/ Top.kind = "contract",
           NEW who, NEW ext, NEW writeError, NEW context,
           PushDispatch(who, ext, writeError, context),
           UNCHANGED <<apiHash, nextUpgrade, sighted, trusted>>
    PROVE  ExtensionInv'
  <1> DEFINE frame == [kind |-> "dispatch", who |-> who, ext |-> ext, saved |-> current,
                       writeError |-> writeError, context |-> context, before |-> Stored]
             n == Len(frames)
  <1>1. frames' = Append(frames, frame) /\ current' = context
    BY DEF PushDispatch
  <1>2. /\ FramesAreSeq' /\ n \in Nat /\ Len(frames') = n + 1
        /\ \A i \in 1..n : frames'[i] = frames[i]
        /\ frames'[n + 1] = frame /\ frames' # <<>>
    BY <1>1, PushedFrame DEF ExtensionInv
  <1>3. frame.kind = "dispatch" /\ frame.saved = current /\ frame.context = context
        /\ frame.before[4] = apiHash /\ frame.before[5] = nextUpgrade /\ frame.before[6] = sighted
    BY DEF Stored
  <1> HIDE DEF frame, n
  <1>4. n = 0 <=> frames = <<>>
    <2>1. PICK S : frames \in Seq(S)
      BY DEF ExtensionInv, FramesAreSeq
    <2> QED
      BY <2>1, NonEmptySeq, SMTT(60) DEF n
  <1>5. StackAlternates'
    <2> SUFFICES ASSUME NEW i \in 1..(n + 1)
                 PROVE  /\ frames'[i].kind \in {"dispatch", "contract"}
                        /\ i = 1 => frames'[i].kind = "dispatch"
                        /\ i > 1 => frames'[i - 1].kind # frames'[i].kind
                        /\ i > 2 /\ frames'[i].kind = "dispatch"
                              => frames'[i].saved = frames'[i - 2].context
      BY <1>2 DEF StackAlternates
    <2>1. CASE i <= n
      <3>1. i \in 1..n /\ (i > 1 => i - 1 \in 1..n) /\ (i > 2 => i - 2 \in 1..n)
        BY <1>2, <2>1, SMTT(60)
      <3> QED
        BY <1>2, <3>1 DEF ExtensionInv, StackAlternates, n
    <2>2. CASE i = n + 1
      BY <1>2, <1>3, <1>4, <2>2, SMTT(60) DEF ExtensionInv, StackAlternates, ContextExact, Top, n
    <2> QED
      BY <1>2, <2>1, <2>2, SMTT(60)
  <1>6. ContextExact'
    BY <1>1, <1>2, <1>3 DEF ContextExact, Top
  <1>7. ApisAlwaysInOrder'
    <2>1. ApisInOrder(apiHash, nextUpgrade, sighted, trusted)'
      BY DEF ExtensionInv, ApisAlwaysInOrder
    <2>2. ASSUME NEW i \in 1..(n + 1)
          PROVE  SnapshotInOrder(frames[i].before, trusted)'
      <3>1. CASE i <= n
        BY <1>2, <3>1, SMTT(60) DEF ExtensionInv, ApisAlwaysInOrder, n
      <3>2. CASE i = n + 1
        BY <1>2, <1>3, <2>1, <3>2 DEF SnapshotInOrder
      <3> QED
        BY <1>2, <2>2, <3>1, <3>2, SMTT(60)
    <2> QED
      BY <1>2, <2>1, <2>2 DEF ApisAlwaysInOrder
  <1> QED
    BY <1>2, <1>5, <1>6, <1>7 DEF ExtensionInv

\* A contract starts to run in the context of the extrinsic that called it.
LEMMA PushContractKeepsInv ==
    ASSUME ExtensionInv, Runs("dispatch"), NEW c, PushContract(c),
           UNCHANGED <<current, apiHash, nextUpgrade, sighted, trusted>>
    PROVE  ExtensionInv'
  <1> DEFINE frame == [kind |-> "contract", who |-> c, before |-> Stored]
             n == Len(frames)
  <1>1. frames' = Append(frames, frame)
    BY DEF PushContract
  <1>2. /\ FramesAreSeq' /\ n \in Nat /\ Len(frames') = n + 1
        /\ \A i \in 1..n : frames'[i] = frames[i]
        /\ frames'[n + 1] = frame /\ frames' # <<>>
    BY <1>1, PushedFrame DEF ExtensionInv
  <1>3. /\ frame.kind = "contract"
        /\ frame.before[4] = apiHash /\ frame.before[5] = nextUpgrade /\ frame.before[6] = sighted
    BY DEF Stored
  <1> HIDE DEF frame, n
  <1>4. n > 0 /\ frames # <<>> /\ frames[n].kind = "dispatch"
    <2>1. PICK S : frames \in Seq(S)
      BY DEF ExtensionInv, FramesAreSeq
    <2>2. n > 0
      BY <2>1, NonEmptySeq DEF n, Runs
    <2> QED
      BY <2>2 DEF n, Runs, Top
  <1>5. StackAlternates'
    <2> SUFFICES ASSUME NEW i \in 1..(n + 1)
                 PROVE  /\ frames'[i].kind \in {"dispatch", "contract"}
                        /\ i = 1 => frames'[i].kind = "dispatch"
                        /\ i > 1 => frames'[i - 1].kind # frames'[i].kind
                        /\ i > 2 /\ frames'[i].kind = "dispatch"
                              => frames'[i].saved = frames'[i - 2].context
      BY <1>2 DEF StackAlternates
    <2>1. CASE i <= n
      <3>1. i \in 1..n /\ (i > 1 => i - 1 \in 1..n) /\ (i > 2 => i - 2 \in 1..n)
        BY <1>2, <2>1, SMTT(60)
      <3> QED
        BY <1>2, <3>1 DEF ExtensionInv, StackAlternates, n
    <2>2. CASE i = n + 1
      BY <1>2, <1>3, <1>4, <2>2, SMTT(60)
    <2> QED
      BY <1>2, <2>1, <2>2, SMTT(60)
  <1>6. ContextExact'
    <2>1. current = frames[n].context
      BY <1>4 DEF ExtensionInv, ContextExact, Top, n
    <2>2. n \in 1..n /\ n + 1 - 1 = n
      BY <1>2, <1>4, SMTT(60)
    <2> QED
      BY <1>2, <1>3, <2>1, <2>2, SMTT(60) DEF ContextExact, Top
  <1>7. ApisAlwaysInOrder'
    <2>1. ApisInOrder(apiHash, nextUpgrade, sighted, trusted)'
      BY DEF ExtensionInv, ApisAlwaysInOrder
    <2>2. ASSUME NEW i \in 1..(n + 1)
          PROVE  SnapshotInOrder(frames[i].before, trusted)'
      <3>1. CASE i <= n
        BY <1>2, <3>1, SMTT(60) DEF ExtensionInv, ApisAlwaysInOrder, n
      <3>2. CASE i = n + 1
        BY <1>2, <1>3, <2>1, <3>2 DEF SnapshotInOrder
      <3> QED
        BY <1>2, <2>2, <3>1, <3>2, SMTT(60)
    <2> QED
      BY <1>2, <2>1, <2>2 DEF ApisAlwaysInOrder
  <1> QED
    BY <1>2, <1>5, <1>6, <1>7 DEF ExtensionInv

\* What a return leaves of the stack keeps the invariant, whether what was stored stays or is
\* rolled back to the snapshot of the frame below.
LEMMA PopKeepsInv ==
    ASSUME ExtensionInv, Len(frames) > 1,
           frames' = SubSeq(frames, 1, Len(frames) - 1),
           current' = IF Top.kind = "dispatch" THEN Top.saved ELSE current,
           UNCHANGED trusted,
           \/ UNCHANGED <<apiHash, nextUpgrade, sighted>>
           \/ LET below == frames[Len(frames) - 1]
              IN  /\ apiHash' = below.before[4] /\ nextUpgrade' = below.before[5]
                  /\ sighted' = below.before[6]
    PROVE  ExtensionInv'
  <1> DEFINE n == Len(frames)
  <1>1. frames # <<>>
    <2>1. PICK S : frames \in Seq(S)
      BY DEF ExtensionInv, FramesAreSeq
    <2>2. Len(frames) > 0
      BY <2>1, SMTT(60)
    <2> QED
      BY <2>1, <2>2, NonEmptySeq
  <1>2. /\ FramesAreSeq' /\ n \in Nat \ {0} /\ Len(frames') = n - 1
        /\ \A i \in 1..(n - 1) : frames'[i] = frames[i]
        /\ frames' # <<>>
    BY <1>1, PoppedFrame DEF ExtensionInv
  <1>3. n > 1 /\ n \in 1..n /\ n - 1 \in 1..(n - 1)
    BY <1>2, SMTT(60)
  <1>4. Top = frames[n]
    BY DEF Top
  <1> HIDE DEF n
  <1>5. StackAlternates'
    <2> SUFFICES ASSUME NEW i \in 1..(n - 1)
                 PROVE  /\ frames'[i].kind \in {"dispatch", "contract"}
                        /\ i = 1 => frames'[i].kind = "dispatch"
                        /\ i > 1 => frames'[i - 1].kind # frames'[i].kind
                        /\ i > 2 /\ frames'[i].kind = "dispatch"
                              => frames'[i].saved = frames'[i - 2].context
      BY <1>2 DEF StackAlternates
    <2>1. i \in 1..n /\ (i > 1 => i - 1 \in 1..(n - 1)) /\ (i > 2 => i - 2 \in 1..(n - 1))
      BY <1>2, SMTT(60)
    <2> QED
      BY <1>2, <2>1, SMTT(60) DEF ExtensionInv, StackAlternates, n
  <1>6. ContextExact'
    <2>1. frames'[n - 1] = frames[n - 1] /\ frames[n - 1].kind # frames[n].kind
          /\ frames[n].kind \in {"dispatch", "contract"}
          /\ frames[n - 1].kind \in {"dispatch", "contract"}
      BY <1>2, <1>3, SMTT(60) DEF ExtensionInv, StackAlternates, n
    <2>2. CASE frames[n].kind = "contract"
      <3>1. current' = frames[n - 1].context
        BY <1>1, <1>4, <2>2 DEF ExtensionInv, ContextExact, n
      <3> QED
        BY <1>2, <2>1, <2>2, <3>1 DEF ContextExact, Top
    <2>3. CASE frames[n].kind = "dispatch"
      <3>1. n > 2
        BY <1>2, <1>3, <2>1, <2>3, SMTT(60) DEF ExtensionInv, StackAlternates, n
      <3>2. current' = frames[n - 2].context
        BY <1>3, <1>4, <2>3, <3>1 DEF ExtensionInv, StackAlternates, n
      <3>3. frames'[n - 2] = frames[n - 2] /\ Len(frames') - 1 = n - 2
        BY <1>2, <3>1, SMTT(60)
      <3>4. frames'[Len(frames')].kind # "dispatch" /\ current' = frames'[Len(frames') - 1].context
        BY <1>2, <2>1, <2>3, <3>2, <3>3
      <3> QED
        BY <1>2, <3>4 DEF ContextExact, Top
    <2> QED
      BY <2>1, <2>2, <2>3
  <1>7. ApisAlwaysInOrder'
    <2>1. \A i \in 1..(n - 1) :
            /\ frames'[i] = frames[i]
            /\ SnapshotInOrder(frames[i].before, trusted)
      BY <1>2, SMTT(60) DEF ExtensionInv, ApisAlwaysInOrder, n
    <2>2. ApisInOrder(apiHash, nextUpgrade, sighted, trusted)'
      <3>1. CASE UNCHANGED <<apiHash, nextUpgrade, sighted>>
        BY <3>1 DEF ExtensionInv, ApisAlwaysInOrder
      <3>2. CASE /\ apiHash' = frames[n - 1].before[4] /\ nextUpgrade' = frames[n - 1].before[5]
                 /\ sighted' = frames[n - 1].before[6]
        BY <1>3, <2>1, <3>2 DEF SnapshotInOrder
      <3> QED
        BY <3>1, <3>2 DEF n
    <2> QED
      BY <1>2, <2>1, <2>2 DEF ApisAlwaysInOrder
  <1> QED
    BY <1>2, <1>5, <1>6, <1>7 DEF ExtensionInv

\* A pending upgrade that replaces the current hash is no older than it, so neither is what the
\* contract is told.
LEMMA LatestApiInOrder ==
    ASSUME ExtensionInv, NEW api, GetLatestApiUpgrade(api)
    PROVE  ExtensionInv'
  <1> DEFINE latest == LatestApi(api)
  <1>1. frames # <<>>
    BY DEF GetLatestApiUpgrade, Runs
  <1>2. CASE latest.hash = 0
    BY <1>1, <1>2, EndKeepsInv DEF GetLatestApiUpgrade
  <1>3. CASE latest.hash # 0
    <2>1. /\ apiHash' = latest.stored /\ nextUpgrade' = latest.pending
          /\ sighted' = Inserted(sighted, api, latest.hash)
          /\ UNCHANGED <<frames, current, trusted>>
      BY <1>3 DEF GetLatestApiUpgrade, stackVars
    <2>2. ApisInOrder(apiHash, nextUpgrade, sighted, trusted)
      BY DEF ExtensionInv, ApisAlwaysInOrder
    <2>3. ApisInOrder(apiHash, nextUpgrade, sighted, trusted)'
      <3>1. CASE api \in DOMAIN nextUpgrade /\ nextUpgrade[api].version <= version
        <4>1. /\ latest.hash = nextUpgrade[api].hash
              /\ apiHash' = Inserted(apiHash, api, nextUpgrade[api].hash)
              /\ nextUpgrade' = [a \in DOMAIN nextUpgrade \ {api} |-> nextUpgrade[a]]
              /\ sighted' = Inserted(sighted, api, nextUpgrade[api].hash)
          BY <2>1, <3>1 DEF LatestApi
        <4> QED
          BY <2>1, <2>2, <3>1, <4>1, SMTT(60) DEF ApisInOrder, Inserted
      <3>2. CASE ~ (api \in DOMAIN nextUpgrade /\ nextUpgrade[api].version <= version)
        <4>1. /\ api \in DOMAIN apiHash /\ UNCHANGED <<apiHash, nextUpgrade>>
              /\ sighted' = Inserted(sighted, api, apiHash[api])
          BY <1>3, <2>1, <3>2 DEF LatestApi
        <4> QED
          BY <2>1, <2>2, <4>1 DEF ApisInOrder, Inserted
      <3> QED
        BY <3>1, <3>2
    <2> QED
      BY <2>1, <2>3 DEF ExtensionInv, FramesAreSeq, StackAlternates, ContextExact, Top,
                        ApisAlwaysInOrder
  <1> QED
    BY <1>2, <1>3

\* Every step keeps the stack well formed, the context exact and the APIs in order.
LEMMA ExtensionStepInv ==
    ASSUME ExtensionInv, ExtensionStep
    PROVE  ExtensionInv'
  <1> USE DEF stackVars
  <1>1. CASE \E ext \in Extrinsics, allow \in BOOLEAN : UpdateCallRuntimeWhitelist(ext, allow)
    BY <1>1, ExtensionIdle DEF UpdateCallRuntimeWhitelist, apiVars
  <1>2. ASSUME NEW api \in Apis, NEW v \in 1..MaxVersion, NEW h \in Hashes,
               InOrder(api, h), UpgradeApi(api, v, h)
        PROVE  ExtensionInv'
    <2>1. /\ nextUpgrade' = Inserted(nextUpgrade, api, [version |-> v, hash |-> h])
          /\ UNCHANGED <<frames, current, apiHash, sighted, trusted>> /\ frames = <<>>
      BY <1>2 DEF UpgradeApi
    <2>2. h \in Nat /\ (api \in DOMAIN apiHash => h >= apiHash[api])
      BY <1>2, ExtensionAssumption DEF InOrder
    <2>3. ApisInOrder(apiHash, nextUpgrade, sighted, trusted)'
      <3>1. ApisInOrder(apiHash, nextUpgrade, sighted, trusted)
        BY DEF ExtensionInv, ApisAlwaysInOrder
      <3> QED
        BY <2>1, <2>2, <3>1 DEF ApisInOrder, Inserted
    <2> QED
      BY <2>1, <2>3 DEF ExtensionInv, FramesAreSeq, StackAlternates, ContextExact, Top,
                        ApisAlwaysInOrder
  <1>3. CASE UpgradeRuntime
    BY <1>3, ExtensionIdle DEF UpgradeRuntime, apiVars
  <1>4. CASE \E u \in Users, ext \in Extrinsics : Submit(u, ext)
    BY <1>4, PushDispatchKeepsInv DEF Submit, apiVars
  <1>5. CASE RunExtrinsic
    <2>1. CASE \E how : End(how)
      BY <1>5, <2>1, EndKeepsInv DEF RunExtrinsic, Runs
    <2>2. CASE ~ \E how : End(how)
      BY <1>5, <2>2, ExtensionIdle DEF RunExtrinsic, apiVars
    <2> QED
      BY <2>1, <2>2
  <1>6. ASSUME NEW c \in Addresses, RunContract(c)
        PROVE  ExtensionInv'
    <2>1. CASE CallPermitted(Top.who)
      BY <1>6, <2>1, PushContractKeepsInv DEF RunContract, apiVars
    <2>2. CASE ~ CallPermitted(Top.who)
      BY <1>6, <2>2, EndKeepsInv DEF RunContract, Runs
    <2> QED
      BY <2>1, <2>2
  <1>7. ASSUME NEW c \in Addresses, NEW allowed \in {{}, Extrinsics}, Instantiate(c, allowed)
        PROVE  ExtensionInv'
    BY <1>7, PushContractKeepsInv DEF Instantiate, apiVars
  <1>8. CASE InstantiateFails
    BY <1>8, EndKeepsInv DEF InstantiateFails, Runs
  <1>9. ASSUME NEW ext \in Extrinsics, NEW w \in BOOLEAN, CallRuntime(ext, w)
        PROVE  ExtensionInv'
    <2>1. CASE ext \notin whitelist \/ DidOfKey(Top.who) = None
      BY <1>9, <2>1, EndKeepsInv DEF CallRuntime, Runs
    <2>2. CASE ~ (ext \notin whitelist \/ DidOfKey(Top.who) = None)
      BY <1>9, <2>2, PushDispatchKeepsInv DEF CallRuntime, Runs, apiVars
    <2> QED
      BY <2>1, <2>2
  <1>10. CASE \E api \in Apis : GetLatestApiUpgrade(api)
    BY <1>10, LatestApiInOrder
  <1>11. ASSUME NEW k \in {MaxLen, MaxLen + 1}, NEW v \in {MaxLen, MaxLen + 1}, ReadStorage(k, v)
         PROVE  ExtensionInv'
    <2>1. CASE k > MaxLen \/ v > MaxLen
      BY <1>11, <2>1, EndKeepsInv DEF ReadStorage, Runs
    <2>2. CASE ~ (k > MaxLen \/ v > MaxLen)
      BY <1>11, <2>2, ExtensionIdle DEF ReadStorage, extensionVars, apiVars
    <2> QED
      BY <2>1, <2>2
  <1>12. CASE ReadOnly
    BY <1>12, ExtensionIdle DEF ReadOnly, extensionVars, apiVars
  <1>13. CASE ContractReturns
    BY <1>13, EndKeepsInv DEF ContractReturns, Runs
  <1>14. CASE ReturnToContract
    BY <1>14, PopKeepsInv DEF ReturnToContract, Restored, apiVars
  <1>15. CASE ReturnToDispatch
    <2>1. Len(frames) > 1
      <3>1. PICK S : frames \in Seq(S)
        BY DEF ExtensionInv, FramesAreSeq
      <3>2. Len(frames) \in Nat /\ Len(frames) > 0
        BY <1>15, <3>1, NonEmptySeq DEF ReturnToDispatch
      <3> QED
        BY <1>15, <3>2, SMTT(60) DEF ReturnToDispatch, ExtensionInv, StackAlternates, Top
    <2> QED
      BY <1>15, <2>1, PopKeepsInv DEF ReturnToDispatch, apiVars
  <1>16. CASE Finish
    <2>1. /\ frames' = <<>> /\ current' = NoContext /\ trusted' = sighted
          /\ UNCHANGED <<apiHash, nextUpgrade, sighted>>
      BY <1>16 DEF Finish, apiVars
    <2>2. FramesAreSeq' /\ StackAlternates' /\ ContextExact'
      BY <2>1, EmptySeq, SMTT(60) DEF FramesAreSeq, StackAlternates, ContextExact
    <2>3. ApisInOrder(apiHash, nextUpgrade, sighted, trusted)'
      <3>1. ApisInOrder(apiHash, nextUpgrade, sighted, trusted)
        BY DEF ExtensionInv, ApisAlwaysInOrder
      <3> QED
        BY <2>1, <3>1, SMTT(60) DEF ApisInOrder
    <2> QED
      BY <2>1, <2>2, <2>3, EmptySeq, SMTT(60) DEF ExtensionInv, ApisAlwaysInOrder
  <1> QED
    BY <1>1, <1>2, <1>3, <1>4, <1>5, <1>6, <1>7, <1>8, <1>9, <1>10, <1>11, <1>12, <1>13, <1>14,
       <1>15, <1>16 DEF ExtensionStep

\* The invariant holds in every state, for any genesis that numbers the first hashes.
LEMMA ExtensionAlways ==
    ASSUME NEW CONSTANT records, NEW CONSTANT calls, NEW CONSTANT hashes \in [Apis -> Hashes]
    PROVE  ExtensionSpec(records, calls, hashes) => []ExtensionInv
  <1>1. InitExtension(records, calls, hashes) => ExtensionInv
    <2> SUFFICES ASSUME InitExtension(records, calls, hashes)
                 PROVE  ExtensionInv
      OBVIOUS
    <2>1. FramesAreSeq /\ StackAlternates /\ ContextExact
      BY EmptySeq, SMTT(60) DEF InitExtension, FramesAreSeq, StackAlternates, ContextExact
    <2>2. ApisInOrder(apiHash, nextUpgrade, sighted, trusted)
      <3>1. DOMAIN nextUpgrade = {} /\ DOMAIN sighted = {} /\ DOMAIN trusted = {}
        BY SMTT(60) DEF InitExtension
      <3>2. \A api \in DOMAIN apiHash : apiHash[api] \in Nat
        BY ExtensionAssumption DEF InitExtension
      <3> QED
        BY <3>1, <3>2 DEF ApisInOrder
    <2> QED
      BY <2>1, <2>2, EmptySeq, SMTT(60) DEF InitExtension, ExtensionInv, ApisAlwaysInOrder
  <1>2. ExtensionInv /\ [ExtensionStep]_extensionVars => ExtensionInv'
    BY ExtensionStepInv, ExtensionIdle DEF extensionVars, stackVars, apiVars
  <1> QED
    BY <1>1, <1>2, PTL DEF ExtensionSpec

\* However deep contracts and extrinsics call each other, and however the calls end, the current
\* identity, the fee payer and the call metadata are those of the innermost extrinsic in progress,
\* and there are none between extrinsics.
THEOREM ContextAlwaysExact ==
    ASSUME NEW CONSTANT records, NEW CONSTANT calls, NEW CONSTANT hashes \in [Apis -> Hashes]
    PROVE  ExtensionSpec(records, calls, hashes) => []ContextExact
  <1>1. ExtensionInv => ContextExact
    BY DEF ExtensionInv
  <1> QED
    BY <1>1, ExtensionAlways, PTL

\* With upgrades published in order, no contract is told an older code hash of an API than one
\* was told in a finished extrinsic, although failed calls roll upgrades back.
THEOREM ApisNeverGoBack ==
    ASSUME NEW CONSTANT records, NEW CONSTANT calls, NEW CONSTANT hashes \in [Apis -> Hashes]
    PROVE  ExtensionSpec(records, calls, hashes) => []ApiNeverGoesBack
  <1>1. ExtensionInv => ApiNeverGoesBack
    BY DEF ExtensionInv, ApisAlwaysInOrder, ApisInOrder, ApiNeverGoesBack
  <1> QED
    BY <1>1, ExtensionAlways, PTL

-----------------------------------------------------------------------------
(* The bridge. *)

Statuses == {"Absent", "Timelocked", "Pending", "Frozen", "Handled"}

\* A transaction has been minted if and only if it is Handled, and what is stored for it is
\* what was named.
TxSound(t) ==
    /\ bridgeTx[t] \in [status : Statuses, tries : Nat, amount : named[t] \cup {0}]
    /\ deposits[t] = <<>> <=> bridgeTx[t].status # "Handled"
    /\ deposits[t] # <<>> => Len(deposits[t]) = 1

\* The scheduled calls carry amounts that were named.
TaskSound(k) == k.tx \in Txs /\ k.amount \in named[k.tx] \cup {0}

\* PolyxBridged of the current interval is what the interval has seen under the limit.
LimitSound ==
    /\ bridged \in [amount : Nat, interval : Nat] /\ bridgeBlock \in Nat /\ window \in Nat
    /\ bridged.interval <= CurrentInterval
    /\ window = IF bridged.interval = CurrentInterval THEN bridged.amount ELSE 0

BridgeInv ==
    /\ workload \in [Txs -> SUBSET MintAmounts]
    /\ named \in [Txs -> SUBSET MintAmounts]
    /\ bridgeTx = [t \in Txs |-> bridgeTx[t]]
    /\ deposits = [t \in Txs |-> deposits[t]]
    /\ \A t \in Txs : TxSound(t)
    /\ \A k \in bridgeTasks : TaskSound(k)
    /\ WaitingIsScheduled
    /\ bridgeConf \in [timelock : Nat, limit : Nat, exempt : BOOLEAN, frozen : BOOLEAN]
    /\ LimitSound

\* The number of the interval never goes back.
LEMMA IntervalsGrow ==
    ASSUME NEW b \in Nat, NEW i \in Nat \ {0}
    PROVE  b \div i \in Nat /\ (b + 1) \div i \in Nat /\ b \div i <= (b + 1) \div i
BY SMTT(60)

(***************************************************************************)
(* What handling a transaction does.                                       *)
(***************************************************************************)
\* The tasks that remain still try every other transaction that waits.
RestSound(rest, t) ==
    /\ \A k \in rest : TaskSound(k)
    /\ \A u \in Txs \ {t} : bridgeTx[u].status \in {"Timelocked", "Pending"}
                               => \E k \in rest : k.tx = u

\* Amounts that were named stay named.
NamedGrows ==
    /\ named' \in [Txs -> SUBSET MintAmounts]
    /\ \A t \in Txs : named[t] \subseteq named'[t]

\* A step mints for t at most, for the first time, and an amount that was named.
MintsFor(t) ==
    \/ deposits' = deposits
    \/ /\ deposits[t] = <<>>
       /\ \E m \in named'[t] \cup {0} : deposits' = [deposits EXCEPT ![t] = <<m>>]

WithinLimit == window' > window => window' <= bridgeConf.limit

\* The tasks of other transactions and what is stored for them are not affected.
LEMMA OthersSound ==
    ASSUME BridgeInv, NEW t \in Txs, NamedGrows, NEW u \in Txs, u # t,
           bridgeTx'[u] = bridgeTx[u], deposits'[u] = deposits[u]
    PROVE  TxSound(u)'
BY DEF BridgeInv, NamedGrows, TxSound

LEMMA TasksStaySound ==
    ASSUME NamedGrows, NEW k, TaskSound(k)
    PROVE  TaskSound(k)'
BY DEF NamedGrows, TaskSound

LEMMA IssueSound ==
    ASSUME BridgeInv, NEW t \in Txs, NamedGrows, NEW amount \in named'[t] \cup {0},
           NEW exempt \in BOOLEAN, bridgeTx[t].status # "Handled",
           NEW rest, RestSound(rest, t), Issue(t, amount, exempt, rest),
           UNCHANGED <<workload, bridgeConf, bridgeBlock>>
    PROVE  BridgeInv' /\ MintsFor(t) /\ WithinLimit
<1>1. amount \in Nat
  <2>1. named'[t] \subseteq MintAmounts
    BY DEF NamedGrows
  <2>2. MintAmounts \subseteq Nat
    BY BridgeAssumption
  <2>3. 0 \in Nat
    BY SMTT(60)
  <2> QED BY <2>1, <2>2, <2>3
<1>2. deposits[t] = <<>> /\ deposits' = [deposits EXCEPT ![t] = <<amount>>]
  <2>1. deposits[t] = <<>> /\ deposits' = [deposits EXCEPT ![t] = Append(deposits[t], amount)]
    BY DEF BridgeInv, TxSound, Issue
  <2>2. Append(<<>>, amount) = <<amount>>
    BY SMTT(60)
  <2> QED BY <2>1, <2>2
<1>3. bridgeTx'[t] = WithStatus(bridgeTx[t], "Handled") /\ deposits'[t] = <<amount>>
  BY <1>2 DEF Issue, BridgeInv
<1>4. bridgeTx' = [u \in Txs |-> bridgeTx'[u]] /\ deposits' = [u \in Txs |-> deposits'[u]]
  BY <1>2 DEF Issue, BridgeInv
<1>5. \A u \in Txs \ {t} : bridgeTx'[u] = bridgeTx[u] /\ deposits'[u] = deposits[u]
  BY <1>2 DEF Issue, BridgeInv
<1>6. ASSUME NEW u \in Txs PROVE TxSound(u)'
  <2>1. CASE u = t
    <3>1. bridgeTx[t].amount \in named'[t] \cup {0}
      BY DEF BridgeInv, TxSound, NamedGrows
    <3>2. <<amount>> # <<>> /\ Len(<<amount>>) = 1
      OBVIOUS
    <3>3. bridgeTx'[t] \in [status : Statuses, tries : Nat, amount : named'[t] \cup {0}]
      BY <1>3, <3>1, SMTT(60) DEF WithStatus, Statuses
    <3>4. bridgeTx'[t].status = "Handled"
      BY <1>3, SMTT(60) DEF WithStatus
    <3> QED BY <2>1, <1>3, <3>2, <3>3, <3>4 DEF TxSound
  <2>2. CASE u # t
    BY <2>2, <1>5, OthersSound
  <2> QED BY <2>1, <2>2
<1>7. \A k \in bridgeTasks' : TaskSound(k)'
  BY TasksStaySound DEF Issue, RestSound
<1>8. WaitingIsScheduled'
  BY <1>3, <1>5, SMTT(60) DEF WaitingIsScheduled, RestSound, Issue, WithStatus
<1>9. CurrentInterval' = CurrentInterval /\ CurrentInterval \in Nat
  BY BridgeAssumption, IntervalsGrow DEF CurrentInterval, BridgeInv, LimitSound
<1>10. CASE exempt \/ bridgeConf.exempt
  <2>1. bridged' = bridged /\ window' = window
    BY <1>10 DEF Issue
  <2>2. LimitSound' /\ WithinLimit
    BY <2>1, <1>9, SMTT(60) DEF LimitSound, BridgeInv, WithinLimit
  <2> QED BY <2>2, <1>2, <1>4, <1>6, <1>7, <1>8 DEF BridgeInv, MintsFor, NamedGrows
<1>11. CASE ~ (exempt \/ bridgeConf.exempt)
  <2>1. /\ bridged' = [amount |-> TotalMint(amount), interval |-> CurrentInterval]
        /\ window' = window + amount
        /\ TotalMint(amount) <= bridgeConf.limit
    BY <1>11 DEF Issue, CanIssue
  <2>2. TotalMint(amount) = window + amount /\ TotalMint(amount) \in Nat
    BY <1>1, SMTT(60) DEF TotalMint, BridgeInv, LimitSound
  <2>3. LimitSound' /\ WithinLimit
    BY <2>1, <2>2, <1>1, <1>9, SMTT(60) DEF LimitSound, BridgeInv, WithinLimit
  <2> QED BY <2>3, <1>2, <1>4, <1>6, <1>7, <1>8 DEF BridgeInv, MintsFor, NamedGrows
<1> QED BY <1>10, <1>11

LEMMA HandleLaterSound ==
    ASSUME BridgeInv, NEW t \in Txs, NamedGrows, NEW amount \in named'[t] \cup {0},
           NEW d, d = bridgeTx[t], d.status \in {"Absent", "Timelocked", "Pending"},
           NEW rest, RestSound(rest, t), HandleLater(t, amount, d, rest),
           UNCHANGED <<workload, bridgeConf, bridgeBlock>>
    PROVE  BridgeInv' /\ MintsFor(t) /\ WithinLimit
<1>1. PICK next : next = NextTry(d, amount)
  OBVIOUS
<1>2. PICK task : /\ task.tx = t /\ task.amount = amount
                  /\ bridgeTasks' = rest \cup {task}
  BY DEF HandleLater
<1>3. /\ bridgeTx' = [bridgeTx EXCEPT ![t] = next]
      /\ UNCHANGED <<bridged, deposits, window>>
  BY <1>1 DEF HandleLater
<1>4. bridgeTx[t] \in [status : Statuses, tries : Nat, amount : named'[t] \cup {0}]
  BY DEF BridgeInv, TxSound, NamedGrows
<1>5. /\ next \in [status : Statuses, tries : Nat, amount : named'[t] \cup {0}]
      /\ next.status \in {"Timelocked", "Pending"}
  BY <1>1, <1>4, SMTT(60) DEF NextTry, Statuses
<1>6. bridgeTx' = [u \in Txs |-> bridgeTx'[u]] /\ bridgeTx'[t] = next
  BY <1>3 DEF BridgeInv
<1>7. \A u \in Txs \ {t} : bridgeTx'[u] = bridgeTx[u]
  BY <1>3 DEF BridgeInv
<1>8. ASSUME NEW u \in Txs PROVE TxSound(u)'
  <2>1. CASE u = t
    <3>1. deposits'[t] = <<>>
      BY <1>3 DEF BridgeInv, TxSound
    <3> QED BY <2>1, <3>1, <1>5, <1>6 DEF TxSound
  <2>2. CASE u # t
    BY <2>2, <1>3, <1>7, OthersSound
  <2> QED BY <2>1, <2>2
<1>9. \A k \in bridgeTasks' : TaskSound(k)'
  <2>1. TaskSound(task)'
    BY <1>2 DEF TaskSound
  <2> QED BY <1>2, <2>1, TasksStaySound DEF RestSound
<1>10. WaitingIsScheduled'
  BY <1>2, <1>7 DEF WaitingIsScheduled, RestSound
<1>11. LimitSound' /\ WithinLimit
  BY <1>3, SMTT(60) DEF BridgeInv, LimitSound, WithinLimit, CurrentInterval
<1> QED BY <1>3, <1>6, <1>8, <1>9, <1>10, <1>11 DEF BridgeInv, MintsFor, NamedGrows

\* d is what is stored for t, or what unfreeze_txs makes of it for a manual retry.
LEMMA HandleNowSound ==
    ASSUME BridgeInv, NEW t \in Txs, NamedGrows, NEW amount \in named'[t] \cup {0},
           NEW manual \in BOOLEAN, NEW exempt \in BOOLEAN, bridgeTx[t].status # "Handled",
           NEW d, d.amount = bridgeTx[t].amount, ~ manual => d = bridgeTx[t],
           NEW rest, RestSound(rest, t), HandleNow(t, amount, d, manual, exempt, rest),
           UNCHANGED <<workload, bridgeConf, bridgeBlock>>
    PROVE  BridgeInv' /\ MintsFor(t) /\ WithinLimit
<1>1. PICK due : due = IF manual THEN d.amount ELSE amount
  OBVIOUS
<1>2. due \in named'[t] \cup {0}
  BY <1>1 DEF BridgeInv, TxSound, NamedGrows
<1>3. \/ Issue(t, due, exempt, rest)
      \/ ~ manual /\ d.status \notin {"Handled", "Frozen"} /\ HandleLater(t, amount, d, rest)
  BY <1>1 DEF HandleNow
<1>4. CASE Issue(t, due, exempt, rest)
  BY <1>2, <1>4, IssueSound
<1>5. CASE ~ manual /\ d.status \notin {"Handled", "Frozen"} /\ HandleLater(t, amount, d, rest)
  <2>1. d = bridgeTx[t] /\ d.status \in {"Absent", "Timelocked", "Pending"}
    BY <1>5 DEF BridgeInv, TxSound, Statuses
  <2> QED BY <1>5, <2>1, HandleLaterSound
<1> QED BY <1>3, <1>4, <1>5

\* Before a call, the tasks are all there.
LEMMA TasksRest ==
    ASSUME BridgeInv, NEW t \in Txs
    PROVE  RestSound(bridgeTasks, t)
BY DEF BridgeInv, RestSound, WaitingIsScheduled

\* The call that the scheduler makes is spent.
LEMMA SpentTaskRest ==
    ASSUME BridgeInv, NEW k \in bridgeTasks, NEW rest, rest = bridgeTasks \ {k}
    PROVE  RestSound(rest, k.tx)
<1>1. \A j \in rest : TaskSound(j)
  BY DEF BridgeInv
<1>2. ASSUME NEW u \in Txs \ {k.tx}, bridgeTx[u].status \in {"Timelocked", "Pending"}
      PROVE  \E j \in rest : j.tx = u
  BY <1>2 DEF BridgeInv, WaitingIsScheduled
<1> QED BY <1>1, <1>2 DEF RestSound

\* An amount that a trusted party names is named for that transaction.
LEMMA NameGrows ==
    ASSUME BridgeInv, NEW t \in Txs, NEW a \in MintAmounts, Name(t, a)
    PROVE  /\ NamedGrows /\ a \in named'[t]
           /\ named' = [named EXCEPT ![t] = named[t] \cup {a}]
BY DEF BridgeInv, Name, NamedGrows

LEMMA SameNames ==
    ASSUME BridgeInv, UNCHANGED named
    PROVE  NamedGrows
BY DEF BridgeInv, NamedGrows

(***************************************************************************)
(* One lemma per call.  A step of the bridge is one of LockAndMint, names  *)
(* and mints for one transaction, or changes neither.                      *)
(***************************************************************************)
Names(t, as) == named' = [named EXCEPT ![t] = named[t] \cup as]

StepFor(t) ==
    /\ BridgeInv' /\ MintsFor(t) /\ WithinLimit
    /\ \E as \in SUBSET MintAmounts : Names(t, as)

\* To name nothing.
LEMMA NamesNothing ==
    ASSUME BridgeInv, NEW t \in Txs, UNCHANGED named
    PROVE  \E as \in SUBSET MintAmounts : Names(t, as)
<1>1. named = [named EXCEPT ![t] = named[t] \cup {}]
  BY DEF BridgeInv
<1> WITNESS {} \in SUBSET MintAmounts
<1> QED BY <1>1 DEF Names

\* What is stored for t alone changes, and t does not wait afterwards.
LEMMA StoredSound ==
    ASSUME BridgeInv, NEW t \in Txs, NamedGrows, bridgeTx[t].status # "Handled",
           NEW d \in [status : {"Absent", "Frozen"}, tries : Nat, amount : named'[t] \cup {0}],
           bridgeTx' = [bridgeTx EXCEPT ![t] = d],
           UNCHANGED <<workload, bridgeTasks, bridged, deposits, window, bridgeConf, bridgeBlock>>
    PROVE  BridgeInv' /\ MintsFor(t) /\ WithinLimit
<1>1. bridgeTx' = [u \in Txs |-> bridgeTx'[u]] /\ bridgeTx'[t] = d
  BY DEF BridgeInv
<1>2. \A u \in Txs \ {t} : bridgeTx'[u] = bridgeTx[u]
  BY DEF BridgeInv
<1>3. d.status \in {"Absent", "Frozen"}
      /\ d \in [status : Statuses, tries : Nat, amount : named'[t] \cup {0}]
  BY DEF Statuses
<1>4. ASSUME NEW u \in Txs PROVE TxSound(u)'
  <2>1. CASE u = t
    BY <2>1, <1>1, <1>3 DEF BridgeInv, TxSound
  <2>2. CASE u # t
    BY <2>2, <1>2, OthersSound
  <2> QED BY <2>1, <2>2
<1>5. \A k \in bridgeTasks' : TaskSound(k)'
  BY TasksStaySound DEF BridgeInv
<1>6. WaitingIsScheduled'
  BY <1>1, <1>2, <1>3 DEF BridgeInv, WaitingIsScheduled
<1>7. LimitSound' /\ WithinLimit
  BY SMTT(60) DEF BridgeInv, LimitSound, WithinLimit, CurrentInterval
<1> QED BY <1>1, <1>4, <1>5, <1>6, <1>7 DEF BridgeInv, MintsFor, NamedGrows

LEMMA HandleBridgeTxSound ==
    ASSUME BridgeInv, NEW t \in Txs, NEW a \in MintAmounts, NEW vouched \in BOOLEAN,
           HandleBridgeTx(vouched, t, a), UNCHANGED workload
    PROVE  StepFor(t)
<1>1. UNCHANGED <<bridgeConf, hasCdd, bridgeBlock>>
  BY DEF HandleBridgeTx
<1>2. RestSound(bridgeTasks, t)
  BY TasksRest
<1>3. CASE /\ bridgeTx[t].status = "Absent"
           /\ IF bridgeConf.timelock = 0
              THEN HandleNow(t, a, bridgeTx[t], FALSE, FALSE, bridgeTasks)
              ELSE HandleLater(t, a, bridgeTx[t], bridgeTasks)
           /\ Name(t, a)
  <2>1. NamedGrows /\ a \in named'[t] /\ Names(t, {a})
    BY <1>3, NameGrows DEF Names
  <2>2. BridgeInv' /\ MintsFor(t) /\ WithinLimit
    <3>1. CASE HandleNow(t, a, bridgeTx[t], FALSE, FALSE, bridgeTasks)
      BY <1>1, <1>2, <1>3, <2>1, <3>1, HandleNowSound
    <3>2. CASE HandleLater(t, a, bridgeTx[t], bridgeTasks)
      BY <1>1, <1>2, <1>3, <2>1, <3>2, HandleLaterSound
    <3> QED BY <1>3, <3>1, <3>2
  <2> QED BY <2>1, <2>2 DEF StepFor
<1>4. CASE /\ bridgeTx[t].status = "Pending"
           /\ HandleNow(t, a, bridgeTx[t], TRUE, FALSE, bridgeTasks)
           /\ UNCHANGED named
  <2>1. NamedGrows /\ \E as \in SUBSET MintAmounts : Names(t, as)
    BY <1>4, SameNames, NamesNothing
  <2>2. Issue(t, bridgeTx[t].amount, FALSE, bridgeTasks)
    BY <1>4 DEF HandleNow
  <2>3. bridgeTx[t].amount \in named'[t] \cup {0}
    BY <1>4 DEF BridgeInv, TxSound
  <2>4. BridgeInv' /\ MintsFor(t) /\ WithinLimit
    BY <1>1, <1>2, <1>4, <2>1, <2>2, <2>3, IssueSound
  <2> QED BY <2>1, <2>4 DEF StepFor
<1>5. CASE /\ bridgeTx[t].status = "Frozen"
           /\ bridgeTx' = [bridgeTx EXCEPT ![t] = [status |-> "Frozen", tries |-> 0, amount |-> a]]
           /\ Name(t, a)
           /\ UNCHANGED <<bridged, deposits, window, bridgeTasks>>
  <2>1. NamedGrows /\ a \in named'[t] /\ Names(t, {a})
    BY <1>5, NameGrows DEF Names
  <2>2. BridgeInv' /\ MintsFor(t) /\ WithinLimit
    BY <1>1, <1>5, <2>1, StoredSound
  <2> QED BY <2>1, <2>2 DEF StepFor
<1> QED BY <1>3, <1>4, <1>5 DEF HandleBridgeTx

LEMMA ForceHandleBridgeTxSound ==
    ASSUME BridgeInv, NEW t \in Txs, NEW a \in MintAmounts, ForceHandleBridgeTx(t, a),
           UNCHANGED workload
    PROVE  StepFor(t)
<1>1. NamedGrows /\ a \in named'[t] /\ Names(t, {a})
  BY NameGrows DEF Names, ForceHandleBridgeTx
<1>2. HandleNow(t, a, bridgeTx[t], FALSE, TRUE, bridgeTasks) /\ UNCHANGED <<bridgeConf, bridgeBlock>>
  BY DEF ForceHandleBridgeTx
<1>3. bridgeTx[t].status # "Handled"
  BY <1>2 DEF HandleNow
<1>4. BridgeInv' /\ MintsFor(t) /\ WithinLimit
  BY <1>1, <1>2, <1>3, TasksRest, HandleNowSound
<1> QED BY <1>1, <1>4 DEF StepFor

LEMMA HandleScheduledBridgeTxSound ==
    ASSUME BridgeInv, NEW k \in bridgeTasks, HandleScheduledBridgeTx(k), UNCHANGED workload
    PROVE  k.tx \in Txs /\ StepFor(k.tx)
<1>1. PICK rest : rest = bridgeTasks \ {k}
  OBVIOUS
<1>2. k.tx \in Txs /\ k.amount \in named[k.tx] \cup {0}
  BY DEF BridgeInv, TaskSound
<1>3. RestSound(rest, k.tx)
  BY <1>1, SpentTaskRest
<1>4. UNCHANGED <<bridgeConf, hasCdd, named, bridgeBlock>>
  BY DEF HandleScheduledBridgeTx
<1>5. NamedGrows /\ (\E as \in SUBSET MintAmounts : Names(k.tx, as)) /\ k.amount \in named'[k.tx] \cup {0}
  BY <1>2, <1>4, SameNames, NamesNothing
<1>6. CASE HandleNow(k.tx, k.amount, bridgeTx[k.tx], FALSE, FALSE, rest)
  <2>1. bridgeTx[k.tx].status # "Handled"
    BY <1>6 DEF HandleNow
  <2>2. BridgeInv' /\ MintsFor(k.tx) /\ WithinLimit
    BY <1>2, <1>3, <1>4, <1>5, <1>6, <2>1, HandleNowSound
  <2> QED BY <1>2, <1>5, <2>2 DEF StepFor
<1>7. CASE /\ bridgeTx[k.tx].status \in {"Handled", "Frozen"}
           /\ bridgeTasks' = rest
           /\ UNCHANGED <<bridgeTx, bridged, deposits, window>>
  <2>1. \A t \in Txs : TxSound(t)'
    BY <1>4, <1>7 DEF BridgeInv, TxSound
  <2>2. \A j \in bridgeTasks' : TaskSound(j)'
    BY <1>3, <1>5, <1>7, TasksStaySound DEF RestSound
  <2>3. WaitingIsScheduled'
    BY <1>3, <1>7 DEF RestSound, WaitingIsScheduled
  <2>4. LimitSound' /\ WithinLimit
    BY <1>4, <1>7, SMTT(60) DEF BridgeInv, LimitSound, WithinLimit, CurrentInterval
  <2> QED BY <1>2, <1>4, <1>5, <1>7, <2>1, <2>2, <2>3, <2>4 DEF StepFor, BridgeInv, MintsFor
<1> QED BY <1>1, <1>6, <1>7 DEF HandleScheduledBridgeTx

LEMMA FreezeTxSound ==
    ASSUME BridgeInv, NEW t \in Txs, FreezeTx(t), UNCHANGED workload
    PROVE  StepFor(t)
<1>1. NamedGrows /\ \E as \in SUBSET MintAmounts : Names(t, as)
  BY SameNames, NamesNothing DEF FreezeTx
<1>2. WithStatus(bridgeTx[t], "Frozen")
         \in [status : {"Absent", "Frozen"}, tries : Nat, amount : named'[t] \cup {0}]
  BY DEF WithStatus, BridgeInv, TxSound, FreezeTx
<1>3. BridgeInv' /\ MintsFor(t) /\ WithinLimit
  BY <1>1, <1>2, StoredSound DEF FreezeTx
<1> QED BY <1>1, <1>3 DEF StepFor

LEMMA UnfreezeTxSound ==
    ASSUME BridgeInv, NEW t \in Txs, UnfreezeTx(t), UNCHANGED workload
    PROVE  StepFor(t)
<1>1. PICK d : d = WithStatus(bridgeTx[t], "Absent")
  OBVIOUS
<1>2. /\ bridgeTx[t].status = "Frozen" /\ UNCHANGED <<named, bridgeConf, hasCdd, bridgeBlock>>
      /\ \/ HandleNow(t, d.amount, d, TRUE, FALSE, bridgeTasks)
         \/ /\ bridgeTx' = [bridgeTx EXCEPT ![t] = d]
            /\ UNCHANGED <<bridgeTasks, bridged, deposits, window>>
  BY <1>1 DEF UnfreezeTx
<1>3. NamedGrows /\ \E as \in SUBSET MintAmounts : Names(t, as)
  BY <1>2, SameNames, NamesNothing
<1>4. /\ d \in [status : {"Absent", "Frozen"}, tries : Nat, amount : named'[t] \cup {0}]
      /\ d.amount = bridgeTx[t].amount /\ d.amount \in named'[t] \cup {0}
  BY <1>1, <1>2 DEF WithStatus, BridgeInv, TxSound
<1>5. BridgeInv' /\ MintsFor(t) /\ WithinLimit
  <2>1. CASE HandleNow(t, d.amount, d, TRUE, FALSE, bridgeTasks)
    BY <1>2, <1>3, <1>4, <2>1, TasksRest, HandleNowSound
  <2>2. CASE bridgeTx' = [bridgeTx EXCEPT ![t] = d] /\ UNCHANGED <<bridgeTasks, bridged, deposits, window>>
    BY <1>2, <1>3, <1>4, <2>2, StoredSound
  <2> QED BY <1>2, <2>1, <2>2
<1> QED BY <1>3, <1>5 DEF StepFor

\* The other calls neither name nor mint.
QuietStep == BridgeInv' /\ UNCHANGED <<named, deposits>> /\ WithinLimit

LEMMA RemoveTxsSound ==
    ASSUME BridgeInv, NEW ts \in SUBSET Txs, RemoveTxs(ts), UNCHANGED workload
    PROVE  QuietStep
<1>1. \A t \in Txs : bridgeTx'[t] = IF t \in ts THEN AbsentTx ELSE bridgeTx[t]
  BY DEF RemoveTxs
<1>2. ASSUME NEW t \in Txs PROVE TxSound(t)'
  <2>1. CASE t \in ts
    BY <2>1, <1>1 DEF BridgeInv, TxSound, RemoveTxs, AbsentTx, Statuses
  <2>2. CASE t \notin ts
    BY <2>2, <1>1 DEF BridgeInv, TxSound, RemoveTxs
  <2> QED BY <2>1, <2>2
<1>3. \A k \in bridgeTasks' : TaskSound(k)'
  BY DEF BridgeInv, RemoveTxs, TaskSound
<1>4. WaitingIsScheduled'
  BY <1>1 DEF BridgeInv, WaitingIsScheduled, RemoveTxs, AbsentTx
<1>5. LimitSound' /\ WithinLimit
  BY SMTT(60) DEF BridgeInv, LimitSound, WithinLimit, CurrentInterval, RemoveTxs
<1>6. bridgeTx' = [t \in Txs |-> bridgeTx'[t]]
  BY DEF RemoveTxs
<1> QED BY <1>2, <1>3, <1>4, <1>5, <1>6 DEF BridgeInv, RemoveTxs, QuietStep

\* Settings, the clock and the recipients' CDD claim.
LEMMA SettingsSound ==
    ASSUME BridgeInv, UNCHANGED <<workload, bridgeTx, bridgeTasks, deposits, named>>,
           LimitSound', WithinLimit,
           bridgeConf' \in [timelock : Nat, limit : Nat, exempt : BOOLEAN, frozen : BOOLEAN]
    PROVE  QuietStep
<1>1. \A t \in Txs : TxSound(t)'
  BY DEF BridgeInv, TxSound
<1>2. \A k \in bridgeTasks' : TaskSound(k)'
  BY DEF BridgeInv, TaskSound
<1>3. WaitingIsScheduled'
  BY DEF BridgeInv, WaitingIsScheduled
<1> QED BY <1>1, <1>2, <1>3 DEF BridgeInv, QuietStep

LEMMA BridgeBlockSound ==
    ASSUME BridgeInv, BridgeBlock, UNCHANGED workload
    PROVE  QuietStep
<1>1. bridgeBlock' = bridgeBlock + 1 /\ UNCHANGED bridged /\ bridgeBlock \in Nat
  BY DEF BridgeBlock, BridgeInv, LimitSound
<1>2. CurrentInterval \in Nat /\ CurrentInterval' \in Nat /\ CurrentInterval <= CurrentInterval'
  BY <1>1, BridgeAssumption, IntervalsGrow DEF CurrentInterval
<1>3. window' = IF CurrentInterval' = CurrentInterval THEN window ELSE 0
  BY DEF BridgeBlock, CurrentInterval
<1>4. LimitSound' /\ WithinLimit
  BY <1>1, <1>2, <1>3, SMTT(60) DEF BridgeInv, LimitSound, WithinLimit
<1>5. bridgeConf' \in [timelock : Nat, limit : Nat, exempt : BOOLEAN, frozen : BOOLEAN]
  BY DEF BridgeBlock, BridgeInv
<1> QED BY <1>4, <1>5, SettingsSound DEF BridgeBlock

LEMMA OtherCallsSound ==
    ASSUME BridgeInv, UNCHANGED workload,
           \/ \E f \in BOOLEAN : SetFreeze(f)
           \/ \E c \in BridgeConfs : ChangeBridgeConf(c)
           \/ ChangeRecipientCdd
    PROVE  QuietStep
<1>1. UNCHANGED <<bridgeTx, bridgeTasks, bridged, deposits, window, named, bridgeBlock>>
  BY DEF SetFreeze, ChangeBridgeConf, ChangeRecipientCdd
<1>2. bridgeConf' \in [timelock : Nat, limit : Nat, exempt : BOOLEAN, frozen : BOOLEAN]
  BY BridgeAssumption, SMTT(60) DEF SetFreeze, ChangeBridgeConf, ChangeRecipientCdd, WithFreeze, BridgeInv
<1>3. LimitSound' /\ WithinLimit
  BY <1>1, SMTT(60) DEF BridgeInv, LimitSound, WithinLimit, CurrentInterval
<1> QED BY <1>1, <1>2, <1>3, SettingsSound

(***************************************************************************)
(* The invariant, the promise and the limit.                               *)
(***************************************************************************)
LEMMA BridgeInvHoldsInitially == BridgeInit => BridgeInv
<1> SUFFICES ASSUME BridgeInit PROVE BridgeInv
  OBVIOUS
<1>1. \A t \in Txs : TxSound(t)
  BY DEF BridgeInit, TxSound, AbsentTx, Statuses
<1>2. bridgeTasks = {}
  BY DEF BridgeInit
<1>3. WaitingIsScheduled
  BY DEF BridgeInit, WaitingIsScheduled, AbsentTx
<1>4. bridgeConf \in [timelock : Nat, limit : Nat, exempt : BOOLEAN, frozen : BOOLEAN]
  BY BridgeAssumption, SMTT(60) DEF BridgeInit, WithFreeze
<1>5. LimitSound
  <2>1. CurrentInterval \in Nat
    BY BridgeAssumption, IntervalsGrow DEF CurrentInterval, BridgeInit
  <2> QED BY <2>1, SMTT(60) DEF BridgeInit, LimitSound
<1> QED BY <1>1, <1>2, <1>3, <1>4, <1>5, BridgeAssumption DEF BridgeInit, BridgeInv

\* One step per call of the bridge pallet.
LEMMA BridgeStep ==
    ASSUME BridgeInv, BridgeNext
    PROVE  (\E t \in Txs : StepFor(t)) \/ QuietStep
<1>0. UNCHANGED workload /\ Used \subseteq Txs /\ \A t \in Txs : workload[t] \subseteq MintAmounts
  BY DEF BridgeNext, Used, BridgeInv
<1>1. CASE \E t \in Used : \E a \in workload[t], vouched \in BOOLEAN : HandleBridgeTx(vouched, t, a)
  BY <1>0, <1>1, HandleBridgeTxSound
<1>2. CASE \E t \in Used : \E a \in workload[t] : ForceHandleBridgeTx(t, a)
  BY <1>0, <1>2, ForceHandleBridgeTxSound
<1>3. CASE \E k \in bridgeTasks : HandleScheduledBridgeTx(k)
  BY <1>0, <1>3, HandleScheduledBridgeTxSound
<1>4. CASE \E t \in Used : FreezeTx(t)
  BY <1>0, <1>4, FreezeTxSound
<1>5. CASE \E t \in Used : UnfreezeTx(t)
  BY <1>0, <1>5, UnfreezeTxSound
<1>6. CASE \E ts \in SUBSET Used : RemoveTxs(ts)
  BY <1>0, <1>6, RemoveTxsSound
<1>7. CASE \/ \E f \in BOOLEAN : SetFreeze(f)
           \/ \E c \in BridgeConfs : ChangeBridgeConf(c)
           \/ ChangeRecipientCdd
  BY <1>0, <1>7, OtherCallsSound
<1>8. CASE BridgeBlock
  BY <1>0, <1>8, BridgeBlockSound
<1> QED BY <1>1, <1>2, <1>3, <1>4, <1>5, <1>6, <1>7, <1>8 DEF BridgeNext

LEMMA BridgeStutter ==
    ASSUME BridgeInv, UNCHANGED bridgeVars
    PROVE  QuietStep
<1>1. LimitSound' /\ WithinLimit
  BY SMTT(60) DEF BridgeInv, LimitSound, WithinLimit, CurrentInterval, bridgeVars
<1>2. bridgeConf' \in [timelock : Nat, limit : Nat, exempt : BOOLEAN, frozen : BOOLEAN]
  BY DEF bridgeVars, BridgeInv
<1> QED BY <1>1, <1>2, SettingsSound DEF bridgeVars

LEMMA BridgeInvHolds == BridgeSpec => []BridgeInv
<1>1. BridgeInv /\ [BridgeNext]_bridgeVars => BridgeInv'
  BY BridgeStep, BridgeStutter DEF StepFor, QuietStep
<1> QED BY <1>1, BridgeInvHoldsInitially, PTL DEF BridgeSpec

\* LockAndMint's `minted`, as Bridge maps it.
MintedAs(ds) == [t \in Txs |-> [times |-> Len(ds[t]), amount |-> IF ds[t] = <<>> THEN 0 ELSE ds[t][1]]]

LEMMA PromiseInit == BridgeInit => Promise!LMInit
BY DEF BridgeInit, Promise!LMInit

\* To mint for t for the first time.
LEMMA MintMaps ==
    ASSUME BridgeInv, NEW t \in Txs, NEW m, deposits[t] = <<>>,
           deposits' = [deposits EXCEPT ![t] = <<m>>]
    PROVE  /\ MintedAs(deposits)[t].times = 0
           /\ MintedAs(deposits') = [MintedAs(deposits) EXCEPT ![t] = [times |-> 1, amount |-> m]]
<1>1. Len(<<>>) = 0 /\ Len(<<m>>) = 1 /\ <<m>> # <<>> /\ <<m>>[1] = m
  OBVIOUS
<1>2. \A u \in Txs : deposits'[u] = IF u = t THEN <<m>> ELSE deposits[u]
  BY DEF BridgeInv
<1>3. MintedAs(deposits)[t].times = 0
  BY <1>1 DEF MintedAs
<1>4. \A u \in Txs : MintedAs(deposits')[u] = IF u = t THEN [times |-> 1, amount |-> m]
                                              ELSE MintedAs(deposits)[u]
  BY <1>1, <1>2, SMTT(60) DEF MintedAs
<1> QED BY <1>3, <1>4 DEF MintedAs

LEMMA PromiseStep ==
    ASSUME BridgeInv, NEW t \in Txs, StepFor(t)
    PROVE  Promise!LMNext
<1>1. PICK as \in SUBSET MintAmounts : named' = [named EXCEPT ![t] = named[t] \cup as]
  BY DEF StepFor, Names
<1>2. CASE deposits' = deposits
  <2>1. Promise!LMStep(t, as, 0)
    BY <1>1, <1>2 DEF Promise!LMStep
  <2> QED BY <2>1 DEF Promise!LMNext
<1>3. CASE /\ deposits[t] = <<>>
           /\ \E m \in named'[t] \cup {0} : deposits' = [deposits EXCEPT ![t] = <<m>>]
  <2>1. PICK m \in named'[t] \cup {0} : deposits' = [deposits EXCEPT ![t] = <<m>>]
    BY <1>3
  <2>2. m \in MintAmounts \cup {0}
    BY DEF StepFor, BridgeInv
  <2>3. /\ MintedAs(deposits)[t].times = 0
        /\ MintedAs(deposits') = [MintedAs(deposits) EXCEPT ![t] = [times |-> 1, amount |-> m]]
    BY <1>3, <2>1, MintMaps
  <2>4. Promise!LMStep(t, as, m)
    BY <1>1, <2>1, <2>3 DEF Promise!LMStep, MintedAs
  <2> QED BY <2>2, <2>4 DEF Promise!LMNext
<1> QED BY <1>2, <1>3 DEF StepFor, MintsFor

(***************************************************************************)
(* The bridge keeps the promise of LockAndMint: whatever is time-locked,   *)
(* retried, frozen, removed and proposed again, and whichever task of the  *)
(* scheduler survives, a transaction is minted at most once, an amount the *)
(* controller or the admin named for it, or nothing.  Every step of the    *)
(* bridge is a step of LockAndMint or changes nothing that it sees.        *)
(***************************************************************************)
THEOREM BridgeMintsOnce == BridgeSpec => MintsOnce
<1>1. BridgeInv /\ [BridgeNext]_bridgeVars => [Promise!LMNext]_(Promise!lockAndMintVars)
  <2> SUFFICES ASSUME BridgeInv, [BridgeNext]_bridgeVars
               PROVE  Promise!LMNext \/ UNCHANGED Promise!lockAndMintVars
    OBVIOUS
  <2>1. CASE \E t \in Txs : StepFor(t)
    BY <2>1, PromiseStep
  <2>2. CASE QuietStep
    BY <2>2 DEF QuietStep, Promise!lockAndMintVars
  <2> QED BY <2>1, <2>2, BridgeStep, BridgeStutter
<1> QED BY <1>1, PromiseInit, BridgeInvHolds, PTL DEF BridgeSpec, MintsOnce, Promise!LMSpec

(***************************************************************************)
(* A transaction that waits always has a call in the scheduler, and an     *)
(* interval never sees more than the limit in force: PolyxBridged, which   *)
(* is only brought up to date by minting, is read for what it is worth in  *)
(* the current interval.                                                   *)
(***************************************************************************)
THEOREM BridgeAlwaysKeepsLimits == BridgeSpec => BridgeKeepsLimits
<1>1. BridgeInv => BridgeTypeOK /\ WaitingIsScheduled
  <2> SUFFICES ASSUME BridgeInv PROVE BridgeTypeOK /\ WaitingIsScheduled
    OBVIOUS
  <2>1. \A t \in Txs : bridgeTx[t] \in [status : {"Absent", "Timelocked", "Pending", "Frozen", "Handled"},
                                        tries : Nat, amount : MintAmounts \cup {0}]
    BY DEF BridgeInv, TxSound, Statuses
  <2> QED BY <2>1 DEF BridgeInv, BridgeTypeOK, LimitSound, TaskSound
<1>2. BridgeInv /\ [BridgeNext]_bridgeVars
         => [window' > window => window' <= bridgeConf.limit]_bridgeVars
  BY BridgeStep DEF StepFor, QuietStep, WithinLimit
<1> QED BY <1>1, <1>2, BridgeInvHolds, PTL DEF BridgeSpec, BridgeKeepsLimits, LimitRespected

=============================================================================
