------------------------- MODULE AbstractConsolidation -------------------------
(***************************************************************************)
(* What note consolidation promises the wallet (spec 4.2 steps 2-4), with  *)
(* the operation's control flow, its randomness and its accounting left    *)
(* out: at any moment a transaction may be committed that spends, for an   *)
(* address the wallet holds the spending key of, some of that address's    *)
(* notes that are confirmed MinDepth times and that no earlier             *)
(* consolidation spent.  Meanwhile blocks arrive and other wallet calls    *)
(* spend confirmed notes.  The promise does not say the notes are still    *)
(* unspent by those other calls: the implementation does not keep that    *)
(* one (run consolidation_NoStaleSpend).                                   *)
(***************************************************************************)
EXTENDS Naturals

CONSTANTS Notes, NoteAddr, NoteHeight, SpendingKeyAddrs, MinDepth, MaxHeight

VARIABLES
    tip,            \* height of the chain tip
    spent,          \* notes the wallet has spent
    consolidated    \* consolidation transactions: [addr, spends]

vars == <<tip, spent, consolidated>>

Init ==
    /\ tip = 0
    /\ spent = {}
    /\ consolidated = {}

Confirmed(n) == NoteHeight[n] <= tip /\ tip - NoteHeight[n] + 1 >= MinDepth

ConsolidatedNotes == UNION {c.spends : c \in consolidated}

Consolidate(a, S) ==
    /\ \A n \in S : NoteAddr[n] = a /\ Confirmed(n)
    /\ S \cap ConsolidatedNotes = {}
    /\ consolidated' = consolidated \cup {[addr |-> a, spends |-> S]}
    /\ spent' = spent \cup S
    /\ UNCHANGED tip

NewBlock ==
    /\ tip < MaxHeight
    /\ tip' = tip + 1
    /\ UNCHANGED <<spent, consolidated>>

OtherSpend(n) ==
    /\ NoteHeight[n] <= tip
    /\ n \notin spent
    /\ spent' = spent \cup {n}
    /\ UNCHANGED <<tip, consolidated>>

Next ==
    \/ \E a \in SpendingKeyAddrs, S \in SUBSET Notes : Consolidate(a, S)
    \/ NewBlock
    \/ \E n \in Notes : OtherSpend(n)

Spec == Init /\ [][Next]_vars

=============================================================================
