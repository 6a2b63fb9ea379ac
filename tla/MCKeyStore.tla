----------------------------- MODULE MCKeyStore -----------------------------
(* Small instances of KeyStore.  The two lock partitions share no state, *)
(* so each run makes one of them large and the other small: the Sapling   *)
(* instance has two key families K1, K2 with default addresses a1, a2 and  *)
(* a diversified address a3 of K1; the transparent instance has two keys,  *)
(* one script of exactly MAX_SCRIPT_ELEMENT_SIZE bytes and one a byte      *)
(* longer, and a Sprout address.  The definitions refer to the declared  *)
(* constant names, so the same ones serve both instances.                 *)
EXTENDS KeyStore

CONSTANTS k1, k2, i1, i2, s1, s2, seed1, seed2, z1, K1, K2, a1, a2, a3, p1, p2

MCPrivKeys == {k1, k2}
MCKeyIds == {i1, i2}
MCKeyIdOf == [k \in PrivKeys |-> IF k = k1 THEN i1 ELSE i2]
MCScripts == {s1, s2}
MCMaxScriptSize == 520
MCScriptSize == [s \in Scripts |-> IF s = s1 THEN 520 ELSE 521]
MCSeeds == {seed1, seed2}
MCNone == {}
MCOneKey == {K1}
MCOneAddr == {a1}
MCOnePath == {p1}
MCSproutAddrs == {z1}
MCSaplingKeys == {K1, K2}
MCAddrs == {a1, a2, a3}
MCOwner == [a \in Addrs |-> IF a = a2 THEN K2 ELSE K1]
MCDefaultAddr == [k \in SaplingKeys |-> IF k = K1 THEN a1 ELSE a2]
MCPaths == {p1, p2}
MCDivPath == [a \in Addrs |-> IF a = a3 THEN p2 ELSE p1]
(* Callers bind an address to the ivk it is derived from.                  *)
MCHonestBindings == {<<Owner[a], a>> : a \in Addrs}
(* A caller that re-adds a2 with K1's ivk (spec section 8, first case).    *)
MCMismatchedBindings == MCHonestBindings \cup {<<K1, a2>>}

=============================================================================
