---------------------------- MODULE KeyStoreProofs ----------------------------
(***************************************************************************)
(* Proofs about KeyStore for every value of its constants.                 *)
(***************************************************************************)
EXTENDS KeyStore, TLAPS

(* Callers of AddSaplingIncomingViewingKey pass an address together with   *)
(* the ivk it is derived from (as the wallet's loaders and address         *)
(* generators do).                                                         *)
HonestBindings == \A b \in IvkBindings : b[1] = Owner[b[2]]

(* The inductive invariant behind ExtSpendingKeyLookup: the address map    *)
(* only ever binds an address to its owner, every full viewing key has its *)
(* default address bound, and every spending key has its full viewing key. *)
AddrBoundToOwner ==
    \A a \in Addrs : mapSaplingIncomingViewingKeys[a] \in {NoKey, Owner[a]}
DefaultAddrBound ==
    \A k \in mapSaplingFullViewingKeys : mapSaplingIncomingViewingKeys[DefaultAddr[k]] = k
SpendingKeyHasFvk ==
    mapSaplingSpendingKeys \subseteq mapSaplingFullViewingKeys
(* ...and, for NoKeyMaterialLost, a stored transparent key sits under its   *)
(* own id and a stored diversifier path is the one the address derives     *)
(* from, so rewriting either entry writes back the value it holds.         *)
KeyUnderOwnId ==
    \A id \in KeyIds : mapKeys[id] # NoKey => KeyIdOf[mapKeys[id]] = id
PathBoundToAddr ==
    \A a \in Addrs : mapSaplingPaymentAddresses[a] \in {NoKey, <<Owner[a], DivPath[a]>>}

IInv ==
    /\ TypeOK
    /\ AddrBoundToOwner
    /\ DefaultAddrBound
    /\ SpendingKeyHasFvk
    /\ KeyUnderOwnId
    /\ PathBoundToAddr

USE KeyStoreAssumption DEF transparentVars, sproutVars, saplingVars

-----------------------------------------------------------------------------
(* Type correctness.                                                       *)

LEMMA TypeInit == Init => TypeOK
BY DEF Init, TypeOK

LEMMA TypeStep == TypeOK /\ [Next]_vars => TypeOK'
<1> SUFFICES ASSUME TypeOK, [Next]_vars PROVE TypeOK'
    OBVIOUS
<1>1. ASSUME NEW key \in PrivKeys, AddKey(key) PROVE TypeOK'
    BY <1>1 DEF AddKey, AddKeyPubKey, TypeOK
<1>2. ASSUME NEW s \in Scripts, AddCScript(s) PROVE TypeOK'
    <2>1. CASE ScriptSize[s] > MaxScriptSize
        BY <1>2, <2>1 DEF AddCScript, TypeOK
    <2>2. CASE ~(ScriptSize[s] > MaxScriptSize)
        BY <1>2, <2>2 DEF AddCScript, TypeOK
    <2>3. QED
        BY <2>1, <2>2
<1>3. ASSUME NEW s \in Scripts, AddWatchOnly(s) \/ RemoveWatchOnly(s) PROVE TypeOK'
    BY <1>3 DEF AddWatchOnly, RemoveWatchOnly, SetWatchOnly, TypeOK
<1>4. ASSUME NEW k \in SaplingKeys,
             AddSaplingWatchOnly(k) \/ RemoveSaplingWatchOnly(k)
      PROVE TypeOK'
    BY <1>4 DEF AddSaplingWatchOnly, RemoveSaplingWatchOnly, SetWatchOnly, TypeOK
<1>5. ASSUME NEW k \in SaplingKeys, AddSaplingFullViewingKey(k) PROVE TypeOK'
    BY <1>5 DEF AddSaplingFullViewingKey, FullViewingKeyEffect,
                IncomingViewingKeyEffect, TypeOK
<1>6. ASSUME NEW k \in SaplingKeys, AddSaplingSpendingKey(k) PROVE TypeOK'
    BY <1>6 DEF AddSaplingSpendingKey, FullViewingKeyEffect,
                IncomingViewingKeyEffect, TypeOK
<1>7. ASSUME NEW k \in SaplingKeys, NEW p \in Paths, AddLastDiversifierUsed(k, p)
      PROVE TypeOK'
    BY <1>7 DEF AddLastDiversifierUsed, TypeOK
<1>8. ASSUME NEW seed \in Seeds, SetHDSeed(seed) PROVE TypeOK'
    BY <1>8 DEF SetHDSeed, TypeOK
<1>9. ASSUME NEW a \in SproutAddrs,
             AddSproutSpendingKey(a) \/ AddSproutViewingKey(a) \/ RemoveSproutViewingKey(a)
      PROVE TypeOK'
    BY <1>9 DEF AddSproutSpendingKey, AddSproutViewingKey, RemoveSproutViewingKey, TypeOK
<1>10. ASSUME NEW b \in IvkBindings, AddSaplingIncomingViewingKey(b[1], b[2])
       PROVE TypeOK'
    BY <1>10 DEF AddSaplingIncomingViewingKey, IncomingViewingKeyEffect, TypeOK
<1>11. ASSUME NEW a \in Addrs, AddSaplingDiversifiedAddess(a, Owner[a], DivPath[a])
       PROVE TypeOK'
    BY <1>11 DEF AddSaplingDiversifiedAddess, TypeOK
<1>12. CASE UNCHANGED vars
    BY <1>12 DEF vars, transparentVars, sproutVars, saplingVars, TypeOK
<1>13. QED
    BY <1>1, <1>2, <1>3, <1>4, <1>5, <1>6, <1>7, <1>8, <1>9, <1>10, <1>11, <1>12
       DEF Next

(* Every method keeps every map and set within its type.                   *)
THEOREM TypeCorrect == Spec => []TypeOK
BY TypeInit, TypeStep, PTL DEF Spec

-----------------------------------------------------------------------------
(* The spending-key lookup.                                                *)

LEMMA IInvInit == Init => IInv
BY TypeInit DEF Init, IInv, AddrBoundToOwner, DefaultAddrBound, SpendingKeyHasFvk, KeyUnderOwnId, PathBoundToAddr

(* Both ways a binding enters the address map (AddSaplingIncomingViewingKey *)
(* and the nested call of AddSaplingFullViewingKey) keep the three         *)
(* conjuncts on the map, provided the ivk is the address's owner.          *)
LEMMA BindOwner ==
    ASSUME IInv, NEW ivk \in SaplingKeys, NEW addr \in Addrs, ivk = Owner[addr],
           IncomingViewingKeyEffect(ivk, addr)
    PROVE  /\ AddrBoundToOwner'
           /\ \A k \in mapSaplingFullViewingKeys :
                 mapSaplingIncomingViewingKeys'[DefaultAddr[k]] = k
           /\ mapSaplingIncomingViewingKeys'[addr] = ivk
<1>1. AddrBoundToOwner'
    BY DEF IInv, TypeOK, AddrBoundToOwner, IncomingViewingKeyEffect
<1>2. ASSUME NEW k \in mapSaplingFullViewingKeys
      PROVE mapSaplingIncomingViewingKeys'[DefaultAddr[k]] = k
    <2>1. CASE DefaultAddr[k] = addr
        BY <2>1 DEF IInv, TypeOK, IncomingViewingKeyEffect
    <2>2. CASE DefaultAddr[k] # addr
        BY <2>2 DEF IInv, TypeOK, DefaultAddrBound, IncomingViewingKeyEffect
    <2>3. QED
        BY <2>1, <2>2
<1>3. mapSaplingIncomingViewingKeys'[addr] = ivk
    BY DEF IInv, TypeOK, IncomingViewingKeyEffect
<1>4. QED
    BY <1>1, <1>2, <1>3

LEMMA IInvStep == HonestBindings /\ IInv /\ [Next]_vars => IInv'
<1> SUFFICES ASSUME HonestBindings, IInv, [Next]_vars PROVE IInv'
    OBVIOUS
<1>0. TypeOK'
    BY TypeStep DEF IInv
<1> USE <1>0 DEF IInv
<1>1. ASSUME NEW key \in PrivKeys, AddKey(key) PROVE IInv'
    <2>1. KeyUnderOwnId'
        BY <1>1 DEF AddKey, AddKeyPubKey, KeyUnderOwnId, TypeOK
    <2>2. QED
        BY <1>1, <2>1 DEF AddKey, AddKeyPubKey, AddrBoundToOwner, DefaultAddrBound,
                          SpendingKeyHasFvk, PathBoundToAddr
(* The actions that leave the maps the invariant is about alone.           *)
<1>2. CASE UNCHANGED <<mapKeys, mapSaplingSpendingKeys, mapSaplingFullViewingKeys,
                       mapSaplingIncomingViewingKeys, mapSaplingPaymentAddresses>>
    BY <1>2 DEF AddrBoundToOwner, DefaultAddrBound, SpendingKeyHasFvk, KeyUnderOwnId, PathBoundToAddr
<1>3. ASSUME NEW b \in IvkBindings, AddSaplingIncomingViewingKey(b[1], b[2])
      PROVE IInv'
    <2>1. b[1] = Owner[b[2]] /\ b[1] \in SaplingKeys /\ b[2] \in Addrs
        BY DEF HonestBindings
    <2>2. /\ AddrBoundToOwner'
          /\ \A k \in mapSaplingFullViewingKeys :
                mapSaplingIncomingViewingKeys'[DefaultAddr[k]] = k
        BY <1>3, <2>1, BindOwner DEF AddSaplingIncomingViewingKey
    <2>3. QED
        BY <1>3, <2>2 DEF AddSaplingIncomingViewingKey, DefaultAddrBound,
                          SpendingKeyHasFvk, KeyUnderOwnId, PathBoundToAddr
(* AddSaplingFullViewingKey and AddSaplingSpendingKey.                     *)
<1>4. ASSUME NEW k \in SaplingKeys,
             FullViewingKeyEffect(k),
             mapSaplingSpendingKeys' \subseteq mapSaplingSpendingKeys \cup {k},
             UNCHANGED <<mapKeys, mapSaplingPaymentAddresses>>
      PROVE IInv'
    <2>1. /\ AddrBoundToOwner'
          /\ \A j \in mapSaplingFullViewingKeys :
                mapSaplingIncomingViewingKeys'[DefaultAddr[j]] = j
          /\ mapSaplingIncomingViewingKeys'[DefaultAddr[k]] = k
        <3>1. k = Owner[DefaultAddr[k]] /\ DefaultAddr[k] \in Addrs
            OBVIOUS
        <3>2. IncomingViewingKeyEffect(k, DefaultAddr[k])
            BY <1>4 DEF FullViewingKeyEffect
        <3>3. QED
            BY <3>1, <3>2, BindOwner
    <2>2. QED
        BY <1>4, <2>1 DEF FullViewingKeyEffect, DefaultAddrBound, SpendingKeyHasFvk,
                          KeyUnderOwnId, PathBoundToAddr
<1>5. ASSUME NEW a \in Addrs, AddSaplingDiversifiedAddess(a, Owner[a], DivPath[a])
      PROVE IInv'
    <2>1. PathBoundToAddr'
        BY <1>5 DEF AddSaplingDiversifiedAddess, PathBoundToAddr, TypeOK
    <2>2. QED
        BY <1>5, <2>1 DEF AddSaplingDiversifiedAddess, AddrBoundToOwner, DefaultAddrBound,
                          SpendingKeyHasFvk, KeyUnderOwnId
<1>6. QED
    <2>1. ASSUME NEW k \in SaplingKeys, AddSaplingFullViewingKey(k) PROVE IInv'
        BY <2>1, <1>4 DEF AddSaplingFullViewingKey
    <2>2. ASSUME NEW k \in SaplingKeys, AddSaplingSpendingKey(k) PROVE IInv'
        BY <2>2, <1>4 DEF AddSaplingSpendingKey
    <2>3. QED
        BY <1>1, <1>2, <1>3, <1>5, <2>1, <2>2
        DEF Next, vars, AddCScript, AddWatchOnly, RemoveWatchOnly,
            AddSaplingWatchOnly, RemoveSaplingWatchOnly, SetWatchOnly,
            AddLastDiversifierUsed, SetHDSeed, AddSproutSpendingKey,
            AddSproutViewingKey, RemoveSproutViewingKey

(* Under the invariant every step keeps the key material: a rewrite of a   *)
(* stored entry writes back the value it already holds.                    *)
LEMMA KeptStep == HonestBindings /\ IInv /\ [Next]_vars => [KeyMaterialKept]_vars
<1> SUFFICES ASSUME HonestBindings, IInv, [Next]_vars PROVE [KeyMaterialKept]_vars
    OBVIOUS
<1> USE DEF IInv
<1>1. ASSUME NEW key \in PrivKeys, AddKey(key) PROVE KeyMaterialKept
    <2>1. ASSUME NEW id \in KeyIds, mapKeys[id] # NoKey PROVE mapKeys'[id] = mapKeys[id]
        <3>1. CASE id = KeyIdOf[key]
            <4>1. mapKeys[id] \in PrivKeys /\ KeyIdOf[mapKeys[id]] = KeyIdOf[key]
                BY <2>1, <3>1 DEF KeyUnderOwnId, TypeOK
            <4>2. mapKeys[id] = key
                BY <4>1
            <4>3. QED
                BY <1>1, <3>1, <4>2 DEF AddKey, AddKeyPubKey, TypeOK
        <3>2. CASE id # KeyIdOf[key]
            BY <1>1, <3>2 DEF AddKey, AddKeyPubKey, TypeOK
        <3>3. QED
            BY <3>1, <3>2
    <2>2. QED
        BY <1>1, <2>1 DEF AddKey, AddKeyPubKey, KeyMaterialKept
(* The actions that leave every map the property is about alone.           *)
<1>2. CASE UNCHANGED <<mapKeys, hdSeed, mapSproutSpendingKeys, mapSaplingSpendingKeys,
                       mapSaplingFullViewingKeys, mapSaplingIncomingViewingKeys,
                       mapSaplingPaymentAddresses>>
    BY <1>2 DEF KeyMaterialKept
<1>3. ASSUME NEW seed \in Seeds, SetHDSeed(seed) PROVE KeyMaterialKept
    BY <1>3 DEF SetHDSeed, KeyMaterialKept
<1>4. ASSUME NEW a \in SproutAddrs, AddSproutSpendingKey(a) PROVE KeyMaterialKept
    BY <1>4 DEF AddSproutSpendingKey, KeyMaterialKept
(* A rebinding of an address writes its owner, which is what it holds.     *)
<1>5. ASSUME NEW ivk \in SaplingKeys, NEW addr \in Addrs, ivk = Owner[addr],
             IncomingViewingKeyEffect(ivk, addr)
      PROVE \A a \in Addrs : mapSaplingIncomingViewingKeys[a] # NoKey =>
                mapSaplingIncomingViewingKeys'[a] = mapSaplingIncomingViewingKeys[a]
    BY <1>5 DEF IncomingViewingKeyEffect, AddrBoundToOwner, TypeOK
<1>6. ASSUME NEW b \in IvkBindings, AddSaplingIncomingViewingKey(b[1], b[2])
      PROVE KeyMaterialKept
    <2>1. b[1] = Owner[b[2]] /\ b[1] \in SaplingKeys /\ b[2] \in Addrs
        BY DEF HonestBindings
    <2>2. QED
        BY <1>6, <2>1, <1>5 DEF AddSaplingIncomingViewingKey, KeyMaterialKept
<1>7. ASSUME NEW k \in SaplingKeys, FullViewingKeyEffect(k),
             mapSaplingSpendingKeys \subseteq mapSaplingSpendingKeys',
             UNCHANGED <<mapKeys, hdSeed, mapSproutSpendingKeys, mapSaplingPaymentAddresses>>
      PROVE KeyMaterialKept
    <2>1. k = Owner[DefaultAddr[k]] /\ DefaultAddr[k] \in Addrs
        OBVIOUS
    <2>2. IncomingViewingKeyEffect(k, DefaultAddr[k])
        BY <1>7 DEF FullViewingKeyEffect
    <2>3. QED
        BY <1>7, <2>1, <2>2, <1>5 DEF FullViewingKeyEffect, KeyMaterialKept
<1>8. ASSUME NEW a \in Addrs, AddSaplingDiversifiedAddess(a, Owner[a], DivPath[a])
      PROVE KeyMaterialKept
    BY <1>8 DEF AddSaplingDiversifiedAddess, PathBoundToAddr, TypeOK, KeyMaterialKept
<1>9. QED
    <2>1. ASSUME NEW k \in SaplingKeys, AddSaplingFullViewingKey(k) PROVE KeyMaterialKept
        BY <2>1, <1>7 DEF AddSaplingFullViewingKey
    <2>2. ASSUME NEW k \in SaplingKeys, AddSaplingSpendingKey(k) PROVE KeyMaterialKept
        BY <2>2, <1>7 DEF AddSaplingSpendingKey
    <2>3. QED
        BY <1>1, <1>2, <1>3, <1>4, <1>6, <1>8, <2>1, <2>2
        DEF Next, vars, AddCScript, AddWatchOnly, RemoveWatchOnly,
            AddSaplingWatchOnly, RemoveSaplingWatchOnly, SetWatchOnly,
            AddLastDiversifierUsed, AddSproutViewingKey, RemoveSproutViewingKey

LEMMA IInvLookup == IInv => ExtSpendingKeyLookup
BY DEF IInv, TypeOK, AddrBoundToOwner, DefaultAddrBound, SpendingKeyHasFvk,
       ExtSpendingKeyLookup, GetSaplingExtendedSpendingKey,
       GetSaplingIncomingViewingKey, GetSaplingFullViewingKey, HaveSaplingFullViewingKey

(* When every caller binds an address to the ivk it was derived from,     *)
(* GetSaplingExtendedSpendingKey returns each stored spending key from its *)
(* default address and never a key an address was not derived from, for   *)
(* any number of keys and addresses.                                       *)
THEOREM LookupCorrect == HonestBindings => (Spec => []ExtSpendingKeyLookup)
<1> SUFFICES ASSUME HonestBindings PROVE Spec => []ExtSpendingKeyLookup
    OBVIOUS
<1>1. IInv /\ [Next]_vars => IInv'
    BY IInvStep
<1>2. QED
    BY <1>1, IInvInit, IInvLookup, PTL DEF Spec


(* When every caller binds an address to the ivk it was derived from, no   *)
(* method of CBasicKeyStore loses or replaces key material: the rewrites   *)
(* that AddKey, AddSaplingIncomingViewingKey and AddSaplingDiversifiedAddess *)
(* perform on an existing entry store the value it already holds.          *)
THEOREM KeyMaterialNeverLost == HonestBindings => (Spec => NoKeyMaterialLost)
<1> SUFFICES ASSUME HonestBindings PROVE Spec => NoKeyMaterialLost
    OBVIOUS
<1>1. IInv /\ [Next]_vars => IInv'
    BY IInvStep
<1>2. IInv /\ [Next]_vars => [KeyMaterialKept]_vars
    BY KeptStep
<1>3. QED
    BY <1>1, <1>2, IInvInit, PTL DEF Spec, NoKeyMaterialLost

-----------------------------------------------------------------------------
(* The Sprout note decryptors.                                             *)

LEMMA DecryptorStep ==
    SproutKeysDecryptable /\ [Next]_vars => SproutKeysDecryptable'
<1> SUFFICES ASSUME SproutKeysDecryptable, [Next]_vars PROVE SproutKeysDecryptable'
    OBVIOUS
(* Every method of the other partition and of the Sapling maps.            *)
<1>1. CASE UNCHANGED <<mapSproutSpendingKeys, mapSproutViewingKeys, mapNoteDecryptors>>
    BY <1>1 DEF SproutKeysDecryptable
<1>2. ASSUME NEW a \in SproutAddrs,
             AddSproutSpendingKey(a) \/ AddSproutViewingKey(a) \/ RemoveSproutViewingKey(a)
      PROVE SproutKeysDecryptable'
    BY <1>2 DEF AddSproutSpendingKey, AddSproutViewingKey, RemoveSproutViewingKey,
                SproutKeysDecryptable
<1>3. QED
    BY <1>1, <1>2
    DEF Next, vars, AddKey, AddKeyPubKey, AddCScript, AddWatchOnly, RemoveWatchOnly,
        AddSaplingWatchOnly, RemoveSaplingWatchOnly, SetWatchOnly, SetHDSeed,
        AddSaplingFullViewingKey, AddSaplingSpendingKey, AddLastDiversifierUsed,
        AddSaplingIncomingViewingKey, AddSaplingDiversifiedAddess

(* Every Sprout spending or viewing key the store holds keeps its cached    *)
(* note decryptor, whatever RemoveSproutViewingKey calls interleave: no     *)
(* assumption on the callers is needed.                                    *)
THEOREM DecryptorsKept == Spec => []SproutKeysDecryptable
<1>1. Init => SproutKeysDecryptable
    BY DEF Init, SproutKeysDecryptable
<1>2. QED
    BY <1>1, DecryptorStep, PTL DEF Spec

-----------------------------------------------------------------------------
(* The abstract store.                                                     *)

(* The spending key GetSaplingExtendedSpendingKey resolves each address to. *)
SpendKeyOf == [a \in Addrs |-> GetSaplingExtendedSpendingKey(a)]

(* A step that keeps the key material and the invariant on both sides      *)
(* gives addresses only their owners as viewing and spending keys, and a   *)
(* spending key only through the address's own ivk.                        *)
LEMMA AuthorizeStep ==
    ASSUME IInv, IInv', KeyMaterialKept,
           UNCHANGED <<mapKeys, hdSeed, mapNoteDecryptors>>
    PROVE  AbsKS!Authorize
<1> USE DEF IInv
<1>1. mapSaplingIncomingViewingKeys' \in [Addrs -> {NoKey} \cup {Owner[a] : a \in Addrs}]
    BY DEF TypeOK, AddrBoundToOwner
<1>2. SpendKeyOf' \in [Addrs -> {NoKey} \cup {Owner[a] : a \in Addrs}]
    BY DEF SpendKeyOf, TypeOK, AddrBoundToOwner, GetSaplingExtendedSpendingKey,
           GetSaplingIncomingViewingKey, GetSaplingFullViewingKey, HaveSaplingFullViewingKey
<1>3. AbsKS!OnlyOwnerAdded(mapSaplingIncomingViewingKeys, mapSaplingIncomingViewingKeys')
    BY DEF AbsKS!OnlyOwnerAdded, KeyMaterialKept, TypeOK, AddrBoundToOwner
(* A resolved spending key is the address's ivk, which stays bound and     *)
(* whose full viewing and spending keys stay stored.                       *)
<1>4. AbsKS!OnlyOwnerAdded(SpendKeyOf, SpendKeyOf')
    <2>1. ASSUME NEW a \in Addrs, SpendKeyOf[a] # NoKey PROVE SpendKeyOf'[a] = SpendKeyOf[a]
        <3>1. /\ mapSaplingIncomingViewingKeys[a] # NoKey
              /\ SpendKeyOf[a] = mapSaplingIncomingViewingKeys[a]
              /\ SpendKeyOf[a] \in mapSaplingFullViewingKeys
              /\ SpendKeyOf[a] \in mapSaplingSpendingKeys
            BY <2>1 DEF SpendKeyOf, GetSaplingExtendedSpendingKey,
                        GetSaplingIncomingViewingKey, GetSaplingFullViewingKey,
                        HaveSaplingFullViewingKey
        <3>2. /\ mapSaplingIncomingViewingKeys'[a] = mapSaplingIncomingViewingKeys[a]
              /\ SpendKeyOf[a] \in mapSaplingFullViewingKeys'
              /\ SpendKeyOf[a] \in mapSaplingSpendingKeys'
            BY <3>1 DEF KeyMaterialKept
        <3>3. QED
            BY <3>1, <3>2 DEF SpendKeyOf, GetSaplingExtendedSpendingKey,
                              GetSaplingIncomingViewingKey, GetSaplingFullViewingKey,
                              HaveSaplingFullViewingKey
    <2>2. ASSUME NEW a \in Addrs, SpendKeyOf[a] = NoKey
          PROVE  SpendKeyOf'[a] \in {NoKey, Owner[a]}
        BY DEF SpendKeyOf, TypeOK, AddrBoundToOwner, GetSaplingExtendedSpendingKey,
               GetSaplingIncomingViewingKey, GetSaplingFullViewingKey,
               HaveSaplingFullViewingKey
    <2>3. QED
        BY <2>1, <2>2 DEF AbsKS!OnlyOwnerAdded
<1>5. \A a \in Addrs : SpendKeyOf'[a] # NoKey => mapSaplingIncomingViewingKeys'[a] = SpendKeyOf'[a]
    BY DEF SpendKeyOf, GetSaplingExtendedSpendingKey, GetSaplingIncomingViewingKey,
           GetSaplingFullViewingKey, HaveSaplingFullViewingKey
<1>6. QED
    BY <1>1, <1>2, <1>3, <1>4, <1>5 DEF AbsKS!Authorize, SpendKeyOf

(* Every step of the store, under the invariant on both sides, is a step   *)
(* or a stutter of the abstract store.                                     *)
LEMMA AbsStep ==
    ASSUME HonestBindings, IInv, IInv', [Next]_vars
    PROVE  [AbsKS!Next]_AbsKS!vars
<1>0. KeyMaterialKept
    <2>1. CASE UNCHANGED vars
        BY <2>1 DEF vars, KeyMaterialKept
    <2>2. QED
        BY <2>1, KeptStep
<1>1. ASSUME NEW key \in PrivKeys, AddKey(key) PROVE AbsKS!Next
    BY <1>1 DEF AddKey, AddKeyPubKey, AbsKS!Next, AbsKS!AddKey,
                GetSaplingExtendedSpendingKey, GetSaplingIncomingViewingKey,
                GetSaplingFullViewingKey, HaveSaplingFullViewingKey
<1>2. ASSUME NEW seed \in Seeds, SetHDSeed(seed) PROVE [AbsKS!Next]_AbsKS!vars
    <2>1. CASE hdSeed = NoKey
        BY <1>2, <2>1 DEF SetHDSeed, AbsKS!Next, AbsKS!SetSeed,
                          GetSaplingExtendedSpendingKey, GetSaplingIncomingViewingKey,
                          GetSaplingFullViewingKey, HaveSaplingFullViewingKey
    <2>2. CASE hdSeed # NoKey
        BY <1>2, <2>2 DEF SetHDSeed, AbsKS!vars,
                          GetSaplingExtendedSpendingKey, GetSaplingIncomingViewingKey,
                          GetSaplingFullViewingKey, HaveSaplingFullViewingKey
    <2>3. QED
        BY <2>1, <2>2
<1>3. ASSUME NEW a \in SproutAddrs, AddSproutSpendingKey(a) \/ AddSproutViewingKey(a)
      PROVE  AbsKS!Next
    BY <1>3 DEF AddSproutSpendingKey, AddSproutViewingKey, AbsKS!Next, AbsKS!AddDecryptor,
                GetSaplingExtendedSpendingKey, GetSaplingIncomingViewingKey,
                GetSaplingFullViewingKey, HaveSaplingFullViewingKey
(* Scripts, watch-only entries, the Sprout viewing-key removal and every   *)
(* Sapling method.                                                         *)
<1>4. CASE UNCHANGED <<mapKeys, hdSeed, mapNoteDecryptors>>
    BY <1>0, <1>4, AuthorizeStep DEF AbsKS!Next
<1>5. QED
    BY <1>1, <1>2, <1>3, <1>4
    DEF Next, vars, AddCScript, AddWatchOnly, RemoveWatchOnly,
        AddSaplingWatchOnly, RemoveSaplingWatchOnly, SetWatchOnly,
        AddSaplingFullViewingKey, AddSaplingSpendingKey, AddLastDiversifierUsed,
        RemoveSproutViewingKey, AddSaplingIncomingViewingKey, AddSaplingDiversifiedAddess

(* When every caller binds an address to the ivk it was derived from,     *)
(* CBasicKeyStore implements the abstract store: AddKey files a key under  *)
(* its own id, SetHDSeed sets the seed at most once, AddSproutSpendingKey  *)
(* and AddSproutViewingKey only add decryptors, and the Sapling methods    *)
(* only ever give an address its own ivk and its own spending key, never   *)
(* taking one back, for any number of keys and addresses.                  *)
THEOREM KeyStoreRefinement == HonestBindings => (Spec => KeyStoreRefines)
<1> SUFFICES ASSUME HonestBindings PROVE Spec => KeyStoreRefines
    OBVIOUS
<1>1. Init => AbsKS!Init
    BY DEF Init, AbsKS!Init, GetSaplingExtendedSpendingKey, GetSaplingIncomingViewingKey,
           GetSaplingFullViewingKey, HaveSaplingFullViewingKey
<1>2. IInv /\ IInv' /\ [Next]_vars => [AbsKS!Next]_AbsKS!vars
    BY AbsStep
<1>3. IInv /\ [Next]_vars => IInv'
    BY IInvStep
<1>4. QED
    BY <1>1, <1>2, <1>3, IInvInit, PTL DEF Spec, KeyStoreRefines, AbsKS!Spec

=============================================================================
