------------------------------ MODULE KeyStore ------------------------------
(***************************************************************************)
(* CBasicKeyStore, src/src/keystore.cpp: the wallet's in-memory credential *)
(* store.  Every public method takes one recursive lock (cs_KeyStore for   *)
(* the transparent partition, cs_SpendingKeyStore for the shielded one)    *)
(* for its whole body, nested calls included, so each method is one atomic *)
(* action here.  Key material is abstracted to identifiers: a Sapling key  *)
(* family k stands for an extended spending key and everything derived     *)
(* from it (extended full viewing key, ivk, ovk), so a map whose value is  *)
(* derived from its key (ivk -> xfvk, xfvk -> xsk, CScriptID -> CScript,   *)
(* Sprout address -> key) is the set of its keys.  The one map whose value *)
(* the caller chooses, address -> ivk, is a function.                      *)
(***************************************************************************)
EXTENDS Naturals, FiniteSets

CONSTANTS
    PrivKeys,       \* transparent private keys (CKey)
    KeyIds,         \* public key identifiers (CKeyID)
    KeyIdOf,        \* key.GetPubKey().GetID()
    Scripts,        \* scripts (redeem scripts and watch-only destinations)
    ScriptSize,     \* redeemScript.size()
    MaxScriptSize,  \* MAX_SCRIPT_ELEMENT_SIZE
    Seeds,          \* non-null HD seeds
    SproutAddrs,    \* Sprout payment addresses, one key pair each
    SaplingKeys,    \* Sapling key families (xsk and its xfvk / ivk / ovk)
    Addrs,          \* Sapling payment addresses
    Owner,          \* the ivk a payment address is derived from
    DefaultAddr,    \* extfvk.DefaultAddress()
    Paths,          \* diversifier paths (blob88)
    DivPath,        \* the diversifier path that derives an address
    IvkBindings,    \* (ivk, addr) pairs callers pass to AddSaplingIncomingViewingKey
    NoKey           \* an absent map entry / the null seed

ASSUME KeyStoreAssumption ==
    /\ KeyIdOf \in [PrivKeys -> KeyIds]
    /\ \A k1, k2 \in PrivKeys : KeyIdOf[k1] = KeyIdOf[k2] => k1 = k2
    /\ ScriptSize \in [Scripts -> Nat]
    /\ MaxScriptSize \in Nat
    /\ Owner \in [Addrs -> SaplingKeys]
    /\ DefaultAddr \in [SaplingKeys -> Addrs]
    /\ \A k \in SaplingKeys : Owner[DefaultAddr[k]] = k
    /\ DivPath \in [Addrs -> Paths]
    /\ IvkBindings \subseteq SaplingKeys \X Addrs
    /\ NoKey \notin PrivKeys \cup Seeds \cup SaplingKeys \cup Paths

VARIABLES
    \* cs_KeyStore partition
    mapKeys,                         \* CKeyID -> CKey
    mapScripts,                      \* CScriptID -> CScript (set of scripts)
    setWatchOnly,
    setSaplingWatchOnly,
    \* cs_SpendingKeyStore partition
    hdSeed,
    mapSproutSpendingKeys,
    mapSproutViewingKeys,
    mapNoteDecryptors,
    mapSaplingSpendingKeys,          \* xfvk -> xsk (set of key families)
    mapSaplingFullViewingKeys,       \* ivk -> xfvk (set of key families)
    setSaplingOutgoingViewingKeys,
    mapSaplingIncomingViewingKeys,   \* addr -> ivk
    setSaplingIncomingViewingKeys,
    mapSaplingPaymentAddresses,      \* addr -> <<ivk, path>>
    mapLastDiversifierPath,          \* ivk -> path
    \* the boolean the last call returned
    ret

transparentVars == <<mapKeys, mapScripts, setWatchOnly, setSaplingWatchOnly>>
sproutVars == <<mapSproutSpendingKeys, mapSproutViewingKeys, mapNoteDecryptors>>
saplingVars == <<mapSaplingSpendingKeys, mapSaplingFullViewingKeys,
                 setSaplingOutgoingViewingKeys, mapSaplingIncomingViewingKeys,
                 setSaplingIncomingViewingKeys, mapSaplingPaymentAddresses,
                 mapLastDiversifierPath>>
vars == <<transparentVars, hdSeed, sproutVars, saplingVars, ret>>

TypeOK ==
    /\ mapKeys \in [KeyIds -> PrivKeys \cup {NoKey}]
    /\ mapScripts \subseteq Scripts
    /\ setWatchOnly \subseteq Scripts
    /\ setSaplingWatchOnly \subseteq SaplingKeys
    /\ hdSeed \in Seeds \cup {NoKey}
    /\ mapSproutSpendingKeys \subseteq SproutAddrs
    /\ mapSproutViewingKeys \subseteq SproutAddrs
    /\ mapNoteDecryptors \subseteq SproutAddrs
    /\ mapSaplingSpendingKeys \subseteq SaplingKeys
    /\ mapSaplingFullViewingKeys \subseteq SaplingKeys
    /\ setSaplingOutgoingViewingKeys \subseteq SaplingKeys
    /\ mapSaplingIncomingViewingKeys \in [Addrs -> SaplingKeys \cup {NoKey}]
    /\ setSaplingIncomingViewingKeys \subseteq SaplingKeys
    /\ mapSaplingPaymentAddresses \in [Addrs -> (SaplingKeys \X Paths) \cup {NoKey}]
    /\ mapLastDiversifierPath \in [SaplingKeys -> Paths \cup {NoKey}]
    /\ ret \in BOOLEAN

Init ==
    /\ mapKeys = [id \in KeyIds |-> NoKey]
    /\ mapScripts = {}
    /\ setWatchOnly = {}
    /\ setSaplingWatchOnly = {}
    /\ hdSeed = NoKey
    /\ mapSproutSpendingKeys = {}
    /\ mapSproutViewingKeys = {}
    /\ mapNoteDecryptors = {}
    /\ mapSaplingSpendingKeys = {}
    /\ mapSaplingFullViewingKeys = {}
    /\ setSaplingOutgoingViewingKeys = {}
    /\ mapSaplingIncomingViewingKeys = [a \in Addrs |-> NoKey]
    /\ setSaplingIncomingViewingKeys = {}
    /\ mapSaplingPaymentAddresses = [a \in Addrs |-> NoKey]
    /\ mapLastDiversifierPath = [k \in SaplingKeys |-> NoKey]
    /\ ret = TRUE

-----------------------------------------------------------------------------
(* Reads: pure lookups under the partition's lock.                         *)

GetKey(id) == mapKeys[id]
GetPubKey(id) == IF GetKey(id) = NoKey THEN NoKey ELSE KeyIdOf[GetKey(id)]
HaveCScript(s) == s \in mapScripts
HaveWatchOnly(s) == s \in setWatchOnly
HaveSaplingWatchOnly(k) == k \in setSaplingWatchOnly
HaveAnyWatchOnly == setWatchOnly # {} \/ setSaplingWatchOnly # {}
HaveHDSeed == hdSeed # NoKey
GetHDSeed == hdSeed
HaveSproutViewingKey(a) == a \in mapSproutViewingKeys
HaveSaplingFullViewingKey(ivk) == ivk \in mapSaplingFullViewingKeys
GetSaplingFullViewingKey(ivk) == IF HaveSaplingFullViewingKey(ivk) THEN ivk ELSE NoKey
HaveSaplingIncomingViewingKey(addr) == mapSaplingIncomingViewingKeys[addr] # NoKey
GetSaplingIncomingViewingKey(addr) == mapSaplingIncomingViewingKeys[addr]

(* addr -> ivk -> xfvk -> xsk; NoKey at the first missing link.            *)
GetSaplingExtendedSpendingKey(addr) ==
    LET ivk == GetSaplingIncomingViewingKey(addr)
        fvk == IF ivk = NoKey THEN NoKey ELSE GetSaplingFullViewingKey(ivk)
    IN  IF fvk # NoKey /\ fvk \in mapSaplingSpendingKeys THEN fvk ELSE NoKey

-----------------------------------------------------------------------------
(* Transparent partition (cs_KeyStore).                                    *)

AddKeyPubKey(key, id) ==
    /\ mapKeys' = [mapKeys EXCEPT ![id] = key]
    /\ ret' = TRUE
    /\ UNCHANGED <<mapScripts, setWatchOnly, setSaplingWatchOnly, hdSeed,
                   sproutVars, saplingVars>>

AddKey(key) == AddKeyPubKey(key, KeyIdOf[key])

AddCScript(s) ==
    /\ IF ScriptSize[s] > MaxScriptSize
         THEN /\ ret' = FALSE
              /\ UNCHANGED mapScripts
         ELSE /\ mapScripts' = mapScripts \cup {s}
              /\ ret' = TRUE
    /\ UNCHANGED <<mapKeys, setWatchOnly, setSaplingWatchOnly, hdSeed,
                   sproutVars, saplingVars>>

SetWatchOnly(w, sw) ==
    /\ setWatchOnly' = w
    /\ setSaplingWatchOnly' = sw
    /\ ret' = TRUE
    /\ UNCHANGED <<mapKeys, mapScripts, hdSeed, sproutVars, saplingVars>>

AddWatchOnly(s) == SetWatchOnly(setWatchOnly \cup {s}, setSaplingWatchOnly)
RemoveWatchOnly(s) == SetWatchOnly(setWatchOnly \ {s}, setSaplingWatchOnly)
AddSaplingWatchOnly(k) == SetWatchOnly(setWatchOnly, setSaplingWatchOnly \cup {k})
(* Mutant: removing a watch-only xfvk also erases its full viewing key.   *)
RemoveSaplingWatchOnlyAndFvk(k) ==
    /\ setSaplingWatchOnly' = setSaplingWatchOnly \ {k}
    /\ mapSaplingFullViewingKeys' = mapSaplingFullViewingKeys \ {k}
    /\ ret' = TRUE
    /\ UNCHANGED <<mapKeys, mapScripts, setWatchOnly, hdSeed, sproutVars,
                   mapSaplingSpendingKeys, setSaplingOutgoingViewingKeys,
                   mapSaplingIncomingViewingKeys, setSaplingIncomingViewingKeys,
                   mapSaplingPaymentAddresses, mapLastDiversifierPath>>
RemoveSaplingWatchOnly(k) == SetWatchOnly(setWatchOnly, setSaplingWatchOnly \ {k})

-----------------------------------------------------------------------------
(* Shielded partition (cs_SpendingKeyStore).                               *)

(* Mutant: the "seed already set" guard dropped.                          *)
SetHDSeedUnguarded(seed) ==
    /\ hdSeed' = seed
    /\ ret' = TRUE
    /\ UNCHANGED <<transparentVars, sproutVars, saplingVars>>

SetHDSeed(seed) ==
    /\ IF hdSeed # NoKey
         THEN /\ ret' = FALSE
              /\ UNCHANGED hdSeed
         ELSE /\ hdSeed' = seed
              /\ ret' = TRUE
    /\ UNCHANGED <<transparentVars, sproutVars, saplingVars>>

(* mapSprout*Keys[address] = key; mapNoteDecryptors.insert never replaces. *)
AddSproutSpendingKey(a) ==
    /\ mapSproutSpendingKeys' = mapSproutSpendingKeys \cup {a}
    /\ mapNoteDecryptors' = mapNoteDecryptors \cup {a}
    /\ ret' = TRUE
    /\ UNCHANGED <<transparentVars, hdSeed, mapSproutViewingKeys, saplingVars>>

AddSproutViewingKey(a) ==
    /\ mapSproutViewingKeys' = mapSproutViewingKeys \cup {a}
    /\ mapNoteDecryptors' = mapNoteDecryptors \cup {a}
    /\ ret' = TRUE
    /\ UNCHANGED <<transparentVars, hdSeed, mapSproutSpendingKeys, saplingVars>>

(* Mutant: erasing the address from the spending-key map as well.        *)
RemoveSproutViewingKeyAndSpendingKey(a) ==
    /\ mapSproutViewingKeys' = mapSproutViewingKeys \ {a}
    /\ mapSproutSpendingKeys' = mapSproutSpendingKeys \ {a}
    /\ ret' = TRUE
    /\ UNCHANGED <<transparentVars, hdSeed, mapNoteDecryptors, saplingVars>>

(* Mutant: erasing the cached note decryptor with the viewing key.        *)
RemoveSproutViewingKeyAndDecryptor(a) ==
    /\ mapSproutViewingKeys' = mapSproutViewingKeys \ {a}
    /\ mapNoteDecryptors' = mapNoteDecryptors \ {a}
    /\ ret' = TRUE
    /\ UNCHANGED <<transparentVars, hdSeed, mapSproutSpendingKeys, saplingVars>>

(* Erases the viewing key only: the cached note decryptor stays.           *)
RemoveSproutViewingKey(a) ==
    /\ mapSproutViewingKeys' = mapSproutViewingKeys \ {a}
    /\ ret' = TRUE
    /\ UNCHANGED <<transparentVars, hdSeed, mapSproutSpendingKeys,
                   mapNoteDecryptors, saplingVars>>

(* The effect of AddSaplingIncomingViewingKey(ivk, addr): overwrites.      *)
IncomingViewingKeyEffect(ivk, addr) ==
    /\ mapSaplingIncomingViewingKeys' =
           [mapSaplingIncomingViewingKeys EXCEPT ![addr] = ivk]
    /\ setSaplingIncomingViewingKeys' = setSaplingIncomingViewingKeys \cup {ivk}

(* The effect of AddSaplingFullViewingKey(xfvk of k), nested call included. *)
FullViewingKeyEffect(k) ==
    /\ mapSaplingFullViewingKeys' = mapSaplingFullViewingKeys \cup {k}
    /\ setSaplingOutgoingViewingKeys' = setSaplingOutgoingViewingKeys \cup {k}
    /\ IncomingViewingKeyEffect(k, DefaultAddr[k])

AddSaplingIncomingViewingKey(ivk, addr) ==
    /\ IncomingViewingKeyEffect(ivk, addr)
    /\ ret' = TRUE
    /\ UNCHANGED <<transparentVars, hdSeed, sproutVars, mapSaplingSpendingKeys,
                   mapSaplingFullViewingKeys, setSaplingOutgoingViewingKeys,
                   mapSaplingPaymentAddresses, mapLastDiversifierPath>>

AddSaplingFullViewingKey(k) ==
    /\ FullViewingKeyEffect(k)
    /\ ret' = TRUE
    /\ UNCHANGED <<transparentVars, hdSeed, sproutVars, mapSaplingSpendingKeys,
                   mapSaplingPaymentAddresses, mapLastDiversifierPath>>

(* Mutant: the spending key stored without the nested                    *)
(* AddSaplingFullViewingKey call.                                          *)
AddSaplingSpendingKeyOnly(k) ==
    /\ mapSaplingSpendingKeys' = mapSaplingSpendingKeys \cup {k}
    /\ ret' = TRUE
    /\ UNCHANGED <<transparentVars, hdSeed, sproutVars, mapSaplingFullViewingKeys,
                   setSaplingOutgoingViewingKeys, mapSaplingIncomingViewingKeys,
                   setSaplingIncomingViewingKeys, mapSaplingPaymentAddresses,
                   mapLastDiversifierPath>>

(* The nested AddSaplingFullViewingKey always succeeds in this class, so   *)
(* the early "return false" is unreachable.                                *)
AddSaplingSpendingKey(k) ==
    /\ FullViewingKeyEffect(k)
    /\ mapSaplingSpendingKeys' = mapSaplingSpendingKeys \cup {k}
    /\ ret' = TRUE
    /\ UNCHANGED <<transparentVars, hdSeed, sproutVars,
                   mapSaplingPaymentAddresses, mapLastDiversifierPath>>

AddSaplingDiversifiedAddess(addr, ivk, path) ==
    /\ mapSaplingPaymentAddresses' =
           [mapSaplingPaymentAddresses EXCEPT ![addr] = <<ivk, path>>]
    /\ ret' = TRUE
    /\ UNCHANGED <<transparentVars, hdSeed, sproutVars, mapSaplingSpendingKeys,
                   mapSaplingFullViewingKeys, setSaplingOutgoingViewingKeys,
                   mapSaplingIncomingViewingKeys, setSaplingIncomingViewingKeys,
                   mapLastDiversifierPath>>

AddLastDiversifierUsed(ivk, path) ==
    /\ mapLastDiversifierPath' = [mapLastDiversifierPath EXCEPT ![ivk] = path]
    /\ ret' = TRUE
    /\ UNCHANGED <<transparentVars, hdSeed, sproutVars, mapSaplingSpendingKeys,
                   mapSaplingFullViewingKeys, setSaplingOutgoingViewingKeys,
                   mapSaplingIncomingViewingKeys, setSaplingIncomingViewingKeys,
                   mapSaplingPaymentAddresses>>

-----------------------------------------------------------------------------
(* Any thread may call any method; diversified addresses are registered    *)
(* with the ivk and path they are derived from.                            *)

Next ==
    \/ \E key \in PrivKeys : AddKey(key)
    \/ \E s \in Scripts : \/ AddCScript(s)
                          \/ AddWatchOnly(s)
                          \/ RemoveWatchOnly(s)
    \/ \E k \in SaplingKeys : \/ AddSaplingWatchOnly(k)
                              \/ RemoveSaplingWatchOnly(k)
                              \/ AddSaplingFullViewingKey(k)
                              \/ AddSaplingSpendingKey(k)
                              \/ \E p \in Paths : AddLastDiversifierUsed(k, p)
    \/ \E seed \in Seeds : SetHDSeed(seed)
    \/ \E a \in SproutAddrs : \/ AddSproutSpendingKey(a)
                              \/ AddSproutViewingKey(a)
                              \/ RemoveSproutViewingKey(a)
    \/ \E b \in IvkBindings : AddSaplingIncomingViewingKey(b[1], b[2])
    \/ \E a \in Addrs : AddSaplingDiversifiedAddess(a, Owner[a], DivPath[a])

Spec == Init /\ [][Next]_vars

-----------------------------------------------------------------------------
(* Properties.                                                             *)

(* GetSaplingExtendedSpendingKey is a faithful inverse of                  *)
(* AddSaplingSpendingKey: the default address of every stored spending key *)
(* resolves to that key through the addr -> ivk -> xfvk -> xsk chain, and  *)
(* no address ever resolves to a spending key it was not derived from.     *)
ExtSpendingKeyLookup ==
    /\ \A k \in mapSaplingSpendingKeys :
          GetSaplingExtendedSpendingKey(DefaultAddr[k]) = k
    /\ \A a \in Addrs :
          GetSaplingExtendedSpendingKey(a) \in {NoKey, Owner[a]}

(* Every Sprout key the store holds has its note decryptor: the one        *)
(* AddSproutSpendingKey / AddSproutViewingKey cache (insert, never replace)  *)
(* survives RemoveSproutViewingKey, which erases the viewing key only, so a *)
(* spending key of the same address can still decrypt its notes.          *)
SproutKeysDecryptable ==
    mapSproutSpendingKeys \cup mapSproutViewingKeys \subseteq mapNoteDecryptors

(* No method loses or replaces key material: transparent keys, spending    *)
(* and full viewing keys of both schemes stay; SetHDSeed never changes a   *)
(* set seed; an address bound to an ivk or a diversifier path keeps it.    *)
KeyMaterialKept ==
    /\ \A id \in KeyIds : mapKeys[id] # NoKey => mapKeys'[id] = mapKeys[id]
    /\ hdSeed # NoKey => hdSeed' = hdSeed
    /\ mapSproutSpendingKeys \subseteq mapSproutSpendingKeys'
    /\ mapSaplingSpendingKeys \subseteq mapSaplingSpendingKeys'
    /\ mapSaplingFullViewingKeys \subseteq mapSaplingFullViewingKeys'
    /\ \A a \in Addrs :
          /\ mapSaplingIncomingViewingKeys[a] # NoKey =>
                mapSaplingIncomingViewingKeys'[a] = mapSaplingIncomingViewingKeys[a]
          /\ mapSaplingPaymentAddresses[a] # NoKey =>
                mapSaplingPaymentAddresses'[a] = mapSaplingPaymentAddresses[a]
NoKeyMaterialLost == [][KeyMaterialKept]_vars

(* The refinement mapping: the abstract store's spending key of an address *)
(* is what GetSaplingExtendedSpendingKey resolves it to.                   *)
AbsKS == INSTANCE AbstractKeyStore
             WITH keys <- mapKeys, seed <- hdSeed, decryptable <- mapNoteDecryptors,
                  viewKey <- mapSaplingIncomingViewingKeys,
                  spendKey <- [a \in Addrs |-> GetSaplingExtendedSpendingKey(a)]

(* Every sequence of CBasicKeyStore calls is one the abstract store allows: *)
(* AddKey files a key under its own id, SetHDSeed writes the seed once, the *)
(* Sprout adds only add decryptors, and the Sapling adds only give an      *)
(* address its own ivk and, through the addr -> ivk -> xfvk -> xsk chain,  *)
(* its own spending key, never taking either back.                         *)
KeyStoreRefines == AbsKS!Spec

(* The comment above AddSaplingIncomingViewingKey (and spec section 8):    *)
(* adding an address that is already in the map leaves its ivk unchanged.  *)
OneIvkPerAddress ==
    [][\A a \in Addrs :
          mapSaplingIncomingViewingKeys[a] # NoKey =>
             mapSaplingIncomingViewingKeys'[a] = mapSaplingIncomingViewingKeys[a]
      ]_mapSaplingIncomingViewingKeys

=============================================================================
