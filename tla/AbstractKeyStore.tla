--------------------------- MODULE AbstractKeyStore ---------------------------
(***************************************************************************)
(* What the credential store promises its callers (spec 3 and 4.1), with   *)
(* the maps that derive one key from another left out.  The store knows    *)
(* each transparent key under its own id; the HD seed is written once; a   *)
(* Sprout address, once it can be decrypted, stays decryptable; and a      *)
(* Sapling payment address gains an incoming viewing key and a spending    *)
(* key at most once each, always the ones it is derived from, and never    *)
(* spending authority without viewing authority.  Scripts, watch-only      *)
(* entries, removable Sprout viewing keys and diversifier bookkeeping are  *)
(* not part of the promise.                                                *)
(***************************************************************************)
CONSTANTS PrivKeys, KeyIds, KeyIdOf, Seeds, SproutAddrs, Addrs, Owner, NoKey

VARIABLES
    keys,           \* key id -> private key
    seed,           \* the HD seed
    decryptable,    \* Sprout addresses whose notes can be decrypted
    viewKey,        \* payment address -> the ivk it is viewed with
    spendKey        \* payment address -> the key that spends from it

vars == <<keys, seed, decryptable, viewKey, spendKey>>

Init ==
    /\ keys = [id \in KeyIds |-> NoKey]
    /\ seed = NoKey
    /\ decryptable = {}
    /\ viewKey = [a \in Addrs |-> NoKey]
    /\ spendKey = [a \in Addrs |-> NoKey]

AddKey(key) ==
    /\ keys' = [keys EXCEPT ![KeyIdOf[key]] = key]
    /\ UNCHANGED <<seed, decryptable, viewKey, spendKey>>

SetSeed(s) ==
    /\ seed = NoKey
    /\ seed' = s
    /\ UNCHANGED <<keys, decryptable, viewKey, spendKey>>

AddDecryptor(z) ==
    /\ decryptable' = decryptable \cup {z}
    /\ UNCHANGED <<keys, seed, viewKey, spendKey>>

(* Every entry of f keeps its value, or an empty one gets the address's    *)
(* owner.                                                                  *)
OnlyOwnerAdded(f, g) ==
    \A a \in Addrs : g[a] = f[a] \/ (f[a] = NoKey /\ g[a] = Owner[a])

(* Some addresses gain viewing or spending authority.                      *)
Authorize ==
    /\ viewKey' \in [Addrs -> {NoKey} \cup {Owner[a] : a \in Addrs}]
    /\ spendKey' \in [Addrs -> {NoKey} \cup {Owner[a] : a \in Addrs}]
    /\ OnlyOwnerAdded(viewKey, viewKey')
    /\ OnlyOwnerAdded(spendKey, spendKey')
    /\ \A a \in Addrs : spendKey'[a] # NoKey => viewKey'[a] = spendKey'[a]
    /\ UNCHANGED <<keys, seed, decryptable>>

Next ==
    \/ \E key \in PrivKeys : AddKey(key)
    \/ \E s \in Seeds : SetSeed(s)
    \/ \E z \in SproutAddrs : AddDecryptor(z)
    \/ Authorize

Spec == Init /\ [][Next]_vars

=============================================================================
