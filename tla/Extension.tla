----------------------------- MODULE Extension -----------------------------
(***************************************************************************)
(* Smart contracts and the runtime.  The contracts pallet instantiates     *)
(* contracts whose key belongs to the caller's identity, and its chain     *)
(* extension lets a running contract dispatch white-listed extrinsics as   *)
(* itself.  Such an extrinsic may call another contract, so calls nest;    *)
(* around each of them the current identity, the fee payer and the call    *)
(* metadata (what the permissions pallet checks keys against) are replaced *)
(* and restored.                                                           *)
(*                                                                         *)
(* `frames` is the call stack.  A dispatch frame is an extrinsic being     *)
(* dispatched, a contract frame a contract being run by the dispatch frame *)
(* below it.  Every frame has a storage layer of its own: `before` is what *)
(* a failure restores.  pallet_contracts, the executor of the code, is not *)
(* part of this repository.                                                *)
(***************************************************************************)
EXTENDS Integers, Sequences, FiniteSets

CONSTANTS
    Users, Addresses,     \* accounts: keys of people, addresses of contracts
    Extrinsics,           \* "call", "instantiate" with its two variants, others
    Apis, Hashes,         \* APIs with upgradeable code; code hashes, 1..n
    MaxLen,               \* MaxInLen and MaxOutLen
    MaxFrames, MaxVersion \* bounds on the call stack and on the runtime's version

ASSUME ExtensionAssumption == Hashes \subseteq Nat \ {0}

VARIABLES
    keyRecord,            \* KeyRecords: account -> [did, primary, perms]
    parentDid,            \* ParentDid: child identity -> parent
    instantiated,         \* addresses that hold a contract
    whitelist,            \* CallRuntimeWhitelist
    apiHash, nextUpgrade, \* CurrentApiHash, ApiNextUpgrade: api -> [version, hash]
    version,              \* the runtime's version
    frames, outcome,      \* the call stack; how the frame that just ended, ended
    current,              \* [did, payer, call]: CurrentDid, CurrentPayer and the metadata
    sighted, trusted      \* history: hashes contracts were told, now and in finished extrinsics

keyVars == <<keyRecord, parentDid, instantiated>>
apiVars == <<apiHash, nextUpgrade>>
stackVars == <<frames, outcome, current>>
extensionVars == <<keyVars, apiVars, whitelist, version, stackVars, sighted, trusted>>

None == "none"
NoContext == [did |-> None, payer |-> None, call |-> None]
Top == frames[Len(frames)]
Runs(kind) == frames # <<>> /\ outcome = None /\ Top.kind = kind
Stored == <<keyRecord, parentDid, instantiated, apiHash, nextUpgrade, sighted>>
Instantiations == {"instantiate", "instantiatePerms", "instantiateChild"}

\* A map with x inserted, or replaced.
Inserted(f, x, y) == [z \in DOMAIN f \cup {x} |-> IF z = x THEN y ELSE f[z]]

DidOfKey(a) == IF a \in DOMAIN keyRecord THEN keyRecord[a].did ELSE None

\* check_account_call_permissions: a secondary key needs the permission for the
\* extrinsic the metadata names.
CallPermitted(a) ==
    /\ a \in DOMAIN keyRecord
    /\ keyRecord[a].primary \/ current.call \in keyRecord[a].perms

----------------------------------------------------------------------------
(* Root calls.                                                             *)

UpdateCallRuntimeWhitelist(ext, allow) ==
    /\ frames = <<>>
    /\ whitelist' = IF allow THEN whitelist \cup {ext} ELSE whitelist \ {ext}
    /\ UNCHANGED <<keyVars, apiVars, version, stackVars, sighted, trusted>>

\* An upgrade may be for the running version, but not for an earlier one; it
\* replaces a pending one.
UpgradeApi(api, v, hash) ==
    /\ frames = <<>>
    /\ v >= version
    /\ nextUpgrade' = Inserted(nextUpgrade, api, [version |-> v, hash |-> hash])
    /\ UNCHANGED <<keyVars, apiHash, whitelist, version, stackVars, sighted, trusted>>

\* Upgrades are published in order: hashes are numbered by their age.
InOrder(api, hash) == api \in DOMAIN apiHash => hash >= apiHash[api]

\* The runtime itself is upgraded.
UpgradeRuntime ==
    /\ frames = <<>> /\ version < MaxVersion
    /\ version' = version + 1
    /\ UNCHANGED <<keyVars, apiVars, whitelist, stackVars, sighted, trusted>>

----------------------------------------------------------------------------
(* Frames.                                                                 *)

\* An extrinsic starts to be dispatched in a context, instead of the one that was.
PushDispatch(who, ext, writeError, context) ==
    /\ frames' = Append(frames, [kind |-> "dispatch", who |-> who, ext |-> ext, saved |-> current,
                                 writeError |-> writeError, context |-> context, before |-> Stored])
    /\ current' = context

PushContract(c) == frames' = Append(frames, [kind |-> "contract", who |-> c, before |-> Stored])

\* with_did_and_payer, with_call_metadata: the context of an extrinsic.
EnterContext(a, ext) == [did |-> DidOfKey(a), payer |-> a, call |-> ext]

\* StoreCallMetadata::pre_dispatch, and the context set by the fee extension.
Submit(u, ext) ==
    /\ frames = <<>> /\ outcome = None
    /\ PushDispatch(u, ext, FALSE, EnterContext(u, ext))
    /\ UNCHANGED <<keyVars, apiVars, whitelist, version, outcome, sighted, trusted>>

\* A frame ends; what it stored is kept or rolled back.
End(how) ==
    /\ outcome' = how
    /\ IF how = "ok" THEN UNCHANGED <<keyVars, apiVars, sighted>>
       ELSE /\ keyRecord' = Top.before[1] /\ parentDid' = Top.before[2]
            /\ instantiated' = Top.before[3]
            /\ apiHash' = Top.before[4] /\ nextUpgrade' = Top.before[5] /\ sighted' = Top.before[6]
    /\ UNCHANGED <<frames, current, whitelist, version, trusted>>

\* Any other extrinsic: it checks the permissions of the key, and may fail.
\* leave_identity_as_key unlinks the key it is called with.
RunExtrinsic ==
    /\ Runs("dispatch")
    /\ Top.ext \notin {"call"} \cup Instantiations
    /\ IF ~CallPermitted(Top.who) THEN End("other")
       ELSE \/ End("module")
            \/ /\ Top.ext = "leave" => ~keyRecord[Top.who].primary
               /\ keyRecord' = IF Top.ext # "leave" THEN keyRecord
                               ELSE [a \in DOMAIN keyRecord \ {Top.who} |-> keyRecord[a]]
               /\ outcome' = "ok"
               /\ UNCHANGED <<parentDid, instantiated, apiVars, whitelist, version, frames,
                              current, sighted, trusted>>

\* A contract starts to run, after check_call_permissions of the caller.
RunContract(c) ==
    /\ Runs("dispatch") /\ Top.ext = "call" /\ Len(frames) < MaxFrames
    /\ c \in instantiated
    /\ IF ~CallPermitted(Top.who) THEN End("other")
       ELSE /\ PushContract(c)
            /\ UNCHANGED <<keyVars, apiVars, whitelist, version, outcome, current, sighted, trusted>>

\* on_instantiate_transfer: a contract whose address is not linked becomes a
\* secondary key without permissions; one that is linked must be of the
\* caller's identity or of a child of it.
OnInstantiateTransfer(records, parents, caller, c) ==
    IF c \in DOMAIN records
    THEN LET did == records[c].did
         IN  IF did = records[caller].did
                \/ (did \in DOMAIN parents /\ parents[did] = records[caller].did)
             THEN records ELSE <<>>
    ELSE Inserted(records, c, [did |-> records[caller].did, primary |-> FALSE, perms |-> {}])

\* general_instantiate: as a secondary key with the given permissions.
LinkWithPerms(c, perms) ==
    /\ c \notin DOMAIN keyRecord
    /\ keyRecord' = Inserted(keyRecord, c, [did |-> DidOfKey(Top.who), primary |-> FALSE, perms |-> perms])
    /\ UNCHANGED parentDid

\* general_instantiate: as the primary key of a new child identity, for the
\* primary key of an identity that is no child.
LinkAsChild(c) ==
    /\ c \notin DOMAIN keyRecord
    /\ keyRecord[Top.who].primary
    /\ DidOfKey(Top.who) \notin DOMAIN parentDid
    /\ keyRecord' = Inserted(keyRecord, c, [did |-> c, primary |-> TRUE, perms |-> {}])
    /\ parentDid' = Inserted(parentDid, c, DidOfKey(Top.who))

\* The extrinsics that instantiate; the constructor runs as a contract frame.
Instantiate(c, perms) ==
    /\ Runs("dispatch") /\ Top.ext \in Instantiations /\ Len(frames) < MaxFrames
    /\ CallPermitted(Top.who)
    /\ c \notin instantiated
    /\ CASE Top.ext = "instantiatePerms" -> LinkWithPerms(c, perms)
         [] Top.ext = "instantiateChild" -> LinkAsChild(c)
         [] Top.ext = "instantiate" -> UNCHANGED parentDid /\
              LET linked == OnInstantiateTransfer(keyRecord, parentDid, Top.who, c)
              IN  linked # <<>> /\ keyRecord' = linked
    /\ instantiated' = instantiated \cup {c}
    /\ PushContract(c)
    /\ UNCHANGED <<apiVars, whitelist, version, outcome, current, sighted, trusted>>

InstantiateFails ==
    /\ Runs("dispatch") /\ Top.ext \in Instantiations \cup {"call"}
    /\ End("module")

----------------------------------------------------------------------------
(* The chain extension.                                                    *)

\* call_runtime: the extrinsic must be white-listed and the contract must have
\* an identity; otherwise the contract traps.
CallRuntime(ext, writeError) ==
    /\ Runs("contract") /\ Len(frames) < MaxFrames
    /\ IF ext \notin whitelist \/ DidOfKey(Top.who) = None THEN End("module")
       ELSE /\ PushDispatch(Top.who, ext, writeError, EnterContext(Top.who, ext))
            /\ UNCHANGED <<keyVars, apiVars, whitelist, version, outcome, sighted, trusted>>

\* Mutant: the upgrade is handed out and not stored.
MutLatestApi(api) ==
    IF api \in DOMAIN nextUpgrade /\ nextUpgrade[api].version <= version
    THEN [hash |-> nextUpgrade[api].hash, stored |-> apiHash,
          pending |-> [a \in DOMAIN nextUpgrade \ {api} |-> nextUpgrade[a]]]
    ELSE [hash |-> IF api \in DOMAIN apiHash THEN apiHash[api] ELSE 0, stored |-> apiHash,
          pending |-> nextUpgrade]

\* get_latest_api_upgrade: a pending upgrade whose version has come replaces
\* the current hash; without any hash the contract traps.
LatestApi(api) ==
    IF api \in DOMAIN nextUpgrade /\ nextUpgrade[api].version <= version
    THEN [hash |-> nextUpgrade[api].hash,
          stored |-> Inserted(apiHash, api, nextUpgrade[api].hash),
          pending |-> [a \in DOMAIN nextUpgrade \ {api} |-> nextUpgrade[a]]]
    ELSE [hash |-> IF api \in DOMAIN apiHash THEN apiHash[api] ELSE 0, stored |-> apiHash,
          pending |-> nextUpgrade]

GetLatestApiUpgrade(api) ==
    /\ Runs("contract")
    /\ \E latest \in {LatestApi(api)} :
          IF latest.hash = 0 THEN End("module")
          ELSE /\ apiHash' = latest.stored /\ nextUpgrade' = latest.pending
               /\ sighted' = Inserted(sighted, api, latest.hash)
               /\ UNCHANGED <<keyVars, whitelist, version, stackVars, trusted>>

\* read_storage: keys and values that are too long are errors; an unknown
\* function id is one too.
ReadStorage(keyLen, valueLen) ==
    /\ Runs("contract")
    /\ IF keyLen > MaxLen \/ valueLen > MaxLen THEN End("module") ELSE UNCHANGED extensionVars

\* get_version, get_key_did and key_hasher change nothing.
ReadOnly == Runs("contract") /\ UNCHANGED extensionVars

\* The contract returns, or reverts or traps.
ContractReturns == Runs("contract") /\ (End("ok") \/ End("module"))

----------------------------------------------------------------------------
(* Returning.                                                              *)

\* Mutant: only a call that succeeded restores the context.
MutRestored == IF outcome = "ok" THEN Top.saved ELSE current

\* with_did_and_payer, with_call_metadata: the context from before the call.
Restored == Top.saved

\* The runtime call of a contract ended: the context is restored.  A failure
\* is handed to the contract if it asked for that and the error is a module's
\* (writeError); otherwise the contract traps as well.
ReturnToContract ==
    /\ Len(frames) > 1 /\ outcome # None /\ Top.kind = "dispatch"
    /\ current' = Restored
    /\ frames' = SubSeq(frames, 1, Len(frames) - 1)
    /\ IF outcome = "ok" \/ (Top.writeError /\ outcome = "module")
       THEN outcome' = None /\ UNCHANGED <<keyVars, apiVars, sighted>>
       ELSE LET below == frames[Len(frames) - 1]
            IN  /\ outcome' = outcome
                /\ keyRecord' = below.before[1] /\ parentDid' = below.before[2]
                /\ instantiated' = below.before[3] /\ apiHash' = below.before[4]
                /\ nextUpgrade' = below.before[5] /\ sighted' = below.before[6]
    /\ UNCHANGED <<whitelist, version, trusted>>

\* A contract ended, and with it the extrinsic that ran it.
ReturnToDispatch ==
    /\ outcome # None /\ frames # <<>> /\ Top.kind = "contract"
    /\ frames' = SubSeq(frames, 1, Len(frames) - 1)
    /\ LET below == frames[Len(frames) - 1]
       IN  IF outcome = "ok" THEN UNCHANGED <<keyVars, apiVars, sighted>>
           ELSE /\ keyRecord' = below.before[1] /\ parentDid' = below.before[2]
                /\ instantiated' = below.before[3] /\ apiHash' = below.before[4]
                /\ nextUpgrade' = below.before[5] /\ sighted' = below.before[6]
    /\ UNCHANGED <<outcome, current, whitelist, version, trusted>>

\* post_dispatch: the metadata and the context are cleared.
Finish ==
    /\ Len(frames) = 1 /\ outcome # None /\ Top.kind = "dispatch"
    /\ frames' = <<>> /\ outcome' = None
    /\ current' = NoContext
    /\ trusted' = sighted
    /\ UNCHANGED <<keyVars, apiVars, whitelist, version, sighted>>

ExtensionStep ==
    \/ \E ext \in Extrinsics, allow \in BOOLEAN : UpdateCallRuntimeWhitelist(ext, allow)
    \/ \E api \in Apis, v \in 1..MaxVersion, h \in Hashes : InOrder(api, h) /\ UpgradeApi(api, v, h)
    \/ UpgradeRuntime
    \/ \E u \in Users, ext \in Extrinsics : Submit(u, ext)
    \/ RunExtrinsic
    \/ \E c \in Addresses : RunContract(c)
    \/ \E c \in Addresses, perms \in {{}, Extrinsics} : Instantiate(c, perms)
    \/ InstantiateFails
    \/ \E ext \in Extrinsics, w \in BOOLEAN : CallRuntime(ext, w)
    \/ \E api \in Apis : GetLatestApiUpgrade(api)
    \/ (\E k, v \in {MaxLen, MaxLen + 1} : ReadStorage(k, v)) \/ ReadOnly
    \/ ContractReturns
    \/ ReturnToContract \/ ReturnToDispatch \/ Finish

\* The genesis configuration white-lists calls and names the first API hashes.
InitExtension(records, calls, hashes) ==
    /\ keyRecord = records /\ parentDid = <<>> /\ instantiated = {}
    /\ whitelist = calls /\ apiHash = hashes /\ nextUpgrade = <<>> /\ version = 1
    /\ frames = <<>> /\ outcome = None /\ current = NoContext
    /\ sighted = <<>> /\ trusted = <<>>

ExtensionSpec(records, calls, hashes) ==
    InitExtension(records, calls, hashes) /\ [][ExtensionStep]_extensionVars

----------------------------------------------------------------------------
(* Properties.                                                             *)

\* The context is that of the innermost extrinsic that is being dispatched:
\* identity and payer are those of the account that dispatches it, and the
\* metadata names it, also after any number of nested calls have returned or
\* failed.  Outside an extrinsic there is none.  Permission checks and fees rely
\* on it (call_runtime, with_did_and_payer, with_call_metadata).
ContextExact ==
    IF frames = <<>> THEN current = NoContext
    ELSE LET d == IF Top.kind = "dispatch" THEN Top ELSE frames[Len(frames) - 1]
         IN  current = d.context

\* A code hash told to contracts of an API in a finished extrinsic is never
\* followed by an earlier one, if upgrades are published in order: a pending
\* upgrade may be replaced, but one that was handed out was also stored.
ApiNeverGoesBack ==
    \A api \in DOMAIN trusted : api \in DOMAIN sighted /\ sighted[api] >= trusted[api]

=============================================================================
