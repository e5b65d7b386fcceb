---------------------------- MODULE AssetRecords ----------------------------
(***************************************************************************)
(* What an asset carries besides its holders: metadata keys and values with  *)
(* their locks, the keys an NFT collection requires, documents, mandatory    *)
(* mediators, custom asset types, and the tickers that need no affirmation   *)
(* (pallets/asset, pallets/nft).  The caller is an agent of the asset with   *)
(* the permission for the call, or root (AssetAdmin).                        *)
(* A metadata key is <<"Local", n>> or <<"Global", n>>.                      *)
(***************************************************************************)
EXTENDS Integers, Sequences, FiniteSets

CONSTANTS
    MetaNames,          \* names of metadata keys, short enough
    MetaValues,         \* values, short enough
    MaxLocalKeys, MaxGlobalKeys,    \* bounds on the keys given out
    MaxMetaTime,        \* bound on time
    MaxCollectionKeys,  \* MaxNumberOfCollectionKeys
    Docs, MaxDocs,      \* documents, bound on the ids given out
    TypeNames,          \* names of custom asset types
    Mediators, MaxAssetMediators,
    Receivers             \* identities that may pre-approve the asset

VARIABLES
    localKey, localName,    \* AssetMetadataLocalNameToKey, AssetMetadataLocalKeyToName
    globalKey, globalName,  \* AssetMetadataGlobalNameToKey, AssetMetadataGlobalKeyToName
    nextKey,                \* AssetMetadataNextLocalKey, AssetMetadataNextGlobalKey
    metaValue, metaLock,    \* AssetMetadataValues, AssetMetadataValueDetails (lock_status)
    collectionKeys,         \* CollectionKeys, {} also before there is a collection
    metaTime,
    documents, nextDoc,     \* AssetDocuments, AssetDocumentsIdSequence
    customTypes, customIds, \* CustomTypes, CustomTypesInverse
    mediators,              \* MandatoryMediators
    tickerExempt, preApproved,    \* TickersExemptFromAffirmation, PreApprovedTicker
    profile                 \* Tokens (asset_type), AssetNames, Identifiers of the asset

metadataVars == <<localKey, localName, globalKey, globalName, nextKey, metaValue, metaLock,
                  collectionKeys, metaTime>>
listVars == <<documents, nextDoc, customTypes, customIds, mediators, tickerExempt, preApproved, profile>>

NoKey == 0
NoName == "none"
NoValue == "empty"
NotRegistered == -1
LocalIds == 1..MaxLocalKeys
GlobalIds == 1..MaxGlobalKeys
MetaKeys == ({"Local"} \X LocalIds) \cup ({"Global"} \X GlobalIds)
\* Asset types: the built-in ones, and custom ones by their id.
BuiltIn == -1
AssetTypes == {"Fungible", "NonFungible"} \X (BuiltIn..Cardinality(TypeNames))
LockStatus == {<<"none">>, <<"Unlocked">>, <<"Locked">>} \cup {<<"LockedUntil", u>> : u \in 1..MaxMetaTime}

ASSUME RecordsAssumption ==
    /\ {MaxLocalKeys, MaxGlobalKeys, MaxDocs, MaxAssetMediators} \subseteq Nat
    /\ NoName \notin MetaNames /\ IsFiniteSet(Mediators)

MetadataInit ==
    /\ localKey = [n \in MetaNames |-> NoKey] /\ localName = [i \in LocalIds |-> NoName]
    /\ globalKey = [n \in MetaNames |-> NoKey] /\ globalName = [i \in GlobalIds |-> NoName]
    /\ nextKey = [k \in {"Local", "Global"} |-> 0]
    /\ metaValue = [k \in MetaKeys |-> NoValue] /\ metaLock = [k \in MetaKeys |-> <<"none">>]
    /\ collectionKeys = {} /\ metaTime = 0

ListsInit ==
    /\ documents = [i \in 0..(MaxDocs - 1) |-> "none"] /\ nextDoc = 0
    /\ customTypes = <<>> /\ customIds = [n \in TypeNames |-> NotRegistered]
    /\ mediators = {} /\ tickerExempt = FALSE /\ preApproved = {}
    /\ profile \in [type : {<<"Fungible", BuiltIn>>, <<"NonFungible", BuiltIn>>}, name : {"old"}, idents : {"old"}]

-----------------------------------------------------------------------------
(* Metadata. *)

\* AssetMetadataLockStatus::is_locked
IsLocked(l) == l = <<"Locked">> \/ (l[1] = "LockedUntil" /\ metaTime < l[2])

\* check_asset_metadata_key_exists
KeyExists(k) == (IF k[1] = "Local" THEN localName ELSE globalName)[k[2]] # NoName

\* unverified_register_asset_metadata_local_type
RegisterLocal(n) ==
    /\ localKey[n] = NoKey
    /\ nextKey["Local"] < MaxLocalKeys
    /\ nextKey' = [nextKey EXCEPT !["Local"] = @ + 1]
    /\ localKey' = [localKey EXCEPT ![n] = nextKey["Local"] + 1]
    /\ localName' = [localName EXCEPT ![nextKey["Local"] + 1] = n]

RegisterLocalType(n) ==
    /\ RegisterLocal(n)
    /\ UNCHANGED <<globalKey, globalName, metaValue, metaLock, collectionKeys, metaTime>>

\* unverified_set_asset_metadata; `l` is <<"none">> when no detail is given.
SetValue(k, v, l) ==
    /\ metaValue' = [metaValue EXCEPT ![k] = v]
    /\ metaLock' = IF l = <<"none">> THEN metaLock ELSE [metaLock EXCEPT ![k] = l]

\* register_and_set_local_asset_metadata: the key is new, so it has no lock.
RegisterAndSetLocal(n, v, l) ==
    /\ RegisterLocal(n)
    /\ SetValue(<<"Local", nextKey["Local"] + 1>>, v, l)
    /\ UNCHANGED <<globalKey, globalName, collectionKeys, metaTime>>

\* register_asset_metadata_global_type, by root
RegisterGlobalType(n) ==
    /\ globalKey[n] = NoKey
    /\ nextKey["Global"] < MaxGlobalKeys
    /\ nextKey' = [nextKey EXCEPT !["Global"] = @ + 1]
    /\ globalKey' = [globalKey EXCEPT ![n] = nextKey["Global"] + 1]
    /\ globalName' = [globalName EXCEPT ![nextKey["Global"] + 1] = n]
    /\ UNCHANGED <<localKey, localName, metaValue, metaLock, collectionKeys, metaTime>>

\* set_asset_metadata
SetAssetMetadata(k, v, l) ==
    /\ KeyExists(k) /\ ~ IsLocked(metaLock[k])
    /\ SetValue(k, v, l)
    /\ UNCHANGED <<localKey, localName, globalKey, globalName, nextKey, collectionKeys, metaTime>>

\* Mutant: a lock can be replaced while it holds.
MutSetDetails(k, l) ==
    /\ KeyExists(k)
    /\ IsLocked(l) => metaValue[k] # NoValue
    /\ metaLock' = [metaLock EXCEPT ![k] = l]
    /\ UNCHANGED <<localKey, localName, globalKey, globalName, nextKey, metaValue, collectionKeys, metaTime>>

\* set_asset_metadata_details: there must be a value to lock.
SetDetails(k, l) ==
    /\ KeyExists(k) /\ ~ IsLocked(metaLock[k])
    /\ IsLocked(l) => metaValue[k] # NoValue
    /\ metaLock' = [metaLock EXCEPT ![k] = l]
    /\ UNCHANGED <<localKey, localName, globalKey, globalName, nextKey, metaValue, collectionKeys, metaTime>>

\* remove_local_metadata_key
RemoveLocalKey(i) ==
    /\ localName[i] # NoName /\ ~ IsLocked(metaLock[<<"Local", i>>])
    /\ <<"Local", i>> \notin collectionKeys
    /\ localKey' = [localKey EXCEPT ![localName[i]] = NoKey]
    /\ localName' = [localName EXCEPT ![i] = NoName]
    /\ metaValue' = [metaValue EXCEPT ![<<"Local", i>>] = NoValue]
    /\ metaLock' = [metaLock EXCEPT ![<<"Local", i>>] = <<"none">>]
    /\ UNCHANGED <<globalKey, globalName, nextKey, collectionKeys, metaTime>>

\* remove_metadata_value
RemoveValue(k) ==
    /\ KeyExists(k) /\ ~ IsLocked(metaLock[k])
    /\ metaValue' = [metaValue EXCEPT ![k] = NoValue]
    /\ metaLock' = [metaLock EXCEPT ![k] = <<"none">>]
    /\ UNCHANGED <<localKey, localName, globalKey, globalName, nextKey, collectionKeys, metaTime>>

\* create_nft_collection, of this asset
SetCollectionKeys(ks) ==
    /\ collectionKeys = {} /\ ks # {}
    /\ Cardinality(ks) <= MaxCollectionKeys
    /\ \A k \in ks : KeyExists(k)
    /\ collectionKeys' = ks
    /\ UNCHANGED <<localKey, localName, globalKey, globalName, nextKey, metaValue, metaLock, metaTime>>

MetaTick ==
    /\ metaTime < MaxMetaTime
    /\ metaTime' = metaTime + 1
    /\ UNCHANGED <<localKey, localName, globalKey, globalName, nextKey, metaValue, metaLock, collectionKeys>>

MetadataNext ==
    \/ \E n \in MetaNames :
         \/ RegisterLocalType(n) \/ RegisterGlobalType(n)
         \/ \E v \in MetaValues, l \in LockStatus : RegisterAndSetLocal(n, v, l)
    \/ \E k \in MetaKeys :
         \/ RemoveValue(k)
         \/ \E l \in LockStatus :
              \/ l # <<"none">> /\ SetDetails(k, l)
              \/ \E v \in MetaValues : SetAssetMetadata(k, v, l)
    \/ \E i \in LocalIds : RemoveLocalKey(i)
    \/ \E ks \in SUBSET MetaKeys : SetCollectionKeys(ks)
    \/ MetaTick

-----------------------------------------------------------------------------
(* Lists. *)

\* add_documents: ids in sequence, never given out again.
AddDocuments(ds) ==
    /\ nextDoc + Len(ds) <= MaxDocs
    /\ documents' = [i \in DOMAIN documents |->
                        IF i \in nextDoc..(nextDoc + Len(ds) - 1) THEN ds[i - nextDoc + 1] ELSE documents[i]]
    /\ nextDoc' = nextDoc + Len(ds)
    /\ UNCHANGED <<customTypes, customIds, mediators, tickerExempt, preApproved, profile>>

\* remove_documents: ids that are not there are skipped.
RemoveDocuments(ids) ==
    /\ documents' = [i \in DOMAIN documents |-> IF i \in ids THEN "none" ELSE documents[i]]
    /\ UNCHANGED <<nextDoc, customTypes, customIds, mediators, tickerExempt, preApproved, profile>>

\* register_custom_asset_type: a name that has an id keeps it.
RegisterCustomAssetType(n) ==
    /\ IF customIds[n] # NotRegistered THEN UNCHANGED <<customTypes, customIds>>
       ELSE /\ customTypes' = Append(customTypes, n)
            /\ customIds' = [customIds EXCEPT ![n] = Len(customTypes)]
    /\ UNCHANGED <<documents, nextDoc, mediators, tickerExempt, preApproved, profile>>

\* ensure_asset_type_valid: only the fungible custom types are looked up.
EnsureAssetTypeValid(t) == t[1] = "Fungible" /\ t[2] # BuiltIn => t[2] < Len(customTypes)

\* update_asset_type: within the fungible or within the non-fungible types.
UpdateAssetType(t) ==
    /\ EnsureAssetTypeValid(t)
    /\ t[1] = profile.type[1]
    /\ profile' = [profile EXCEPT !.type = t]
    /\ UNCHANGED <<documents, nextDoc, customTypes, customIds, mediators, tickerExempt, preApproved>>

\* rename_asset
RenameAsset(n) ==
    /\ profile' = [profile EXCEPT !.name = n]
    /\ UNCHANGED <<documents, nextDoc, customTypes, customIds, mediators, tickerExempt, preApproved>>

\* update_identifiers, with identifiers whose check digits are right.
UpdateIdentifiers(i) ==
    /\ profile' = [profile EXCEPT !.idents = i]
    /\ UNCHANGED <<documents, nextDoc, customTypes, customIds, mediators, tickerExempt, preApproved>>

\* add_mandatory_mediators, all or none
AddMandatoryMediators(ms) ==
    /\ Cardinality(mediators \cup ms) <= MaxAssetMediators
    /\ mediators' = mediators \cup ms
    /\ UNCHANGED <<documents, nextDoc, customTypes, customIds, tickerExempt, preApproved, profile>>

RemoveMandatoryMediators(ms) ==
    /\ mediators' = mediators \ ms
    /\ UNCHANGED <<documents, nextDoc, customTypes, customIds, tickerExempt, preApproved, profile>>

\* exempt_ticker_affirmation, remove_ticker_affirmation_exemption, by root
SetExemption(e) ==
    /\ tickerExempt' = e
    /\ UNCHANGED <<documents, nextDoc, customTypes, customIds, mediators, preApproved, profile>>

\* pre_approve_ticker, remove_ticker_pre_approval
SetPreApproval(d, approve) ==
    /\ preApproved' = IF approve THEN preApproved \cup {d} ELSE preApproved \ {d}
    /\ UNCHANGED <<documents, nextDoc, customTypes, customIds, mediators, tickerExempt, profile>>

DocumentStep ==
    \/ \E d \in Docs : AddDocuments(<<d>>) \/ AddDocuments(<<d, d>>)
    \/ \E ids \in SUBSET DOMAIN documents : RemoveDocuments(ids)

ProfileStep ==
    \/ \E n \in TypeNames : RegisterCustomAssetType(n)
    \/ \E t \in AssetTypes : UpdateAssetType(t)
    \/ \E n \in {"old", "new"} : RenameAsset(n) \/ UpdateIdentifiers(n)

ListsNext ==
    \/ DocumentStep
    \/ ProfileStep
    \/ \E ms \in SUBSET Mediators : AddMandatoryMediators(ms) \/ RemoveMandatoryMediators(ms)
    \/ \E e \in BOOLEAN : SetExemption(e)
    \/ \E d \in Receivers, a \in BOOLEAN : SetPreApproval(d, a)

RecordsSpec ==
    /\ MetadataInit /\ ListsInit
    /\ [][\/ MetadataNext /\ UNCHANGED listVars
          \/ ListsNext /\ UNCHANGED metadataVars]_<<metadataVars, listVars>>

-----------------------------------------------------------------------------
(* Properties. *)

\* However keys are registered and removed, names and keys map to each other, a number is
\* never given out twice, what is not registered has no value, and the keys that an NFT
\* collection requires exist (asset metadata, nft).
MetadataExact ==
    /\ \A n \in MetaNames : /\ \A i \in LocalIds : localKey[n] = i <=> localName[i] = n
                            /\ \A i \in GlobalIds : globalKey[n] = i <=> globalName[i] = n
    /\ \A k \in MetaKeys : /\ KeyExists(k) => k[2] <= nextKey[k[1]]
                           /\ ~ KeyExists(k) => metaValue[k] = NoValue /\ metaLock[k] = <<"none">>
    /\ \A k \in collectionKeys : KeyExists(k)

\* While a metadata value is locked nothing that an agent or root does changes it, unlocks
\* it or removes its key, by whatever call (is_asset_metadata_locked).
LockedValueKept ==
    [][metadataVars' # metadataVars => \A k \in MetaKeys : IsLocked(metaLock[k]) =>
          metaValue'[k] = metaValue[k] /\ metaLock'[k] = metaLock[k] /\ KeyExists(k)']_metadataVars

\* Custom asset types and their ids map to each other, however often a name is registered,
\* documents only have ids that were given out, the mediators keep to their limit, and the
\* custom type of a fungible asset is registered.
ListsExact ==
    /\ \A n \in TypeNames : \A i \in 1..Len(customTypes) : customTypes[i] = n <=> customIds[n] = i - 1
    /\ \A i \in DOMAIN documents : documents[i] # "none" => i < nextDoc
    /\ Cardinality(mediators) <= MaxAssetMediators
    /\ EnsureAssetTypeValid(profile.type)

\* What is recorded about an asset stays consistent, and locked values stay as they are,
\* however metadata, collections, documents, types and mediators change (asset, nft).
RecordsExact == [](MetadataExact /\ ListsExact) /\ LockedValueKept
=============================================================================
