------------------------ MODULE MCSaplingConsolidation ------------------------
(* Small instance: three addresses (3 has no spending key), six notes,     *)
(* one of them without a witness, and the code's constants scaled down:    *)
(* minDepth 11 -> 2, expiry delta 40 -> 2, maxQuantity 10..44 -> 2,        *)
(* minQuantity 2..11 -> 2..3 (the minimum can still exceed the maximum),   *)
(* an upgrade at height 5 so that targets 3 and 4 are too close to it.     *)
EXTENDS SaplingConsolidation, TLC

CONSTANTS n1, n2, n3, n4, n5, n6

MCNotes == {n1, n2, n3, n4, n5, n6}
MCNoteAddr == (n1 :> 1 @@ n2 :> 1 @@ n3 :> 1 @@ n4 :> 2 @@ n5 :> 2 @@ n6 :> 3)
MCNoteValue == (n1 :> 1 @@ n2 :> 1 @@ n3 :> 2 @@ n4 :> 1 @@ n5 :> 3 @@ n6 :> 1)
(* The note without a witness is worth nothing.                            *)
MCNoteValueZeroUnwitnessed == (n1 :> 1 @@ n2 :> 1 @@ n3 :> 2 @@ n4 :> 1 @@ n5 :> 0 @@ n6 :> 1)
MCNoteHeight == (n1 :> 0 @@ n2 :> 0 @@ n3 :> 1 @@ n4 :> 0 @@ n5 :> 1 @@ n6 :> 0)

=============================================================================
