---------------------------- MODULE ConsolidationProofs ----------------------------
(***************************************************************************)
(* Proofs about SaplingConsolidation for every value of its constants.     *)
(***************************************************************************)
EXTENDS SaplingConsolidation, FiniteSetTheorems, SumLemmas, TLAPS

(* Why no note is consolidated twice: every committed transaction's notes  *)
(* are marked spent in the wallet, the snapshot main_impl takes under      *)
(* LOCK2 holds only unspent notes grouped by their own address, and an      *)
(* address leaves the loop's to-do list when its transaction is committed, *)
(* so the notes the loop can still spend meet no committed transaction.    *)
CommittedSpent == \A tx \in committed : tx.spends \subseteq spent
Grouped == \A a \in Addrs : \A n \in mapAddresses[a] : NoteAddr[n] = a
SnapshotFresh ==
    \A a \in todo : \A tx \in committed : mapAddresses[a] \cap tx.spends = {}

CInv ==
    /\ todo \subseteq Addrs
    /\ CommittedSpent
    /\ Grouped
    /\ SnapshotFresh
    /\ NoNoteConsolidatedTwice

(* Why the running flag is cleared only by an idle pass: the jobs of the    *)
(* committed transactions never exceed the current operation's id, and     *)
(* consolidationComplete is cleared by every iteration that goes on to      *)
(* build, so while it holds the current operation has committed nothing.   *)
JobsNumbered == launches \in Nat /\ \A tx \in committed : tx.job \in Nat /\ tx.job <= launches
CompleteMeansIdle == consolidationComplete => CommittedByJob = {}

(* A batch and its spends are notes of the address's snapshot.             *)
LEMMA SpendsFromSnapshot ==
    ASSUME NEW a, NEW fromNotes \in Batches(a), NEW spends \in SpendPrefixes(fromNotes)
    PROVE  spends \subseteq mapAddresses[a]
<1>1. fromNotes \subseteq mapAddresses[a]
    BY DEF Batches, Selections
<1>2. spends \subseteq fromNotes
    BY DEF SpendPrefixes
<1>3. QED
    BY <1>1, <1>2

LEMMA CInvInit == Init => CInv
BY DEF Init, CInv, CommittedSpent, Grouped, SnapshotFresh, NoNoteConsolidatedTwice

(* CommitAutomatedTx for the visited address.                             *)
LEMMA CommitStep ==
    ASSUME CInv, NEW a \in todo, NEW fromNotes \in Batches(a),
           NEW spends \in SpendPrefixes(fromNotes), Commit(a, fromNotes, spends)
    PROVE  CInv'
<1> DEFINE amountToSend == SumValue(fromNotes)
           fee == FeeFor(amountToSend)
           new == [job |-> launches, addr |-> a, spends |-> spends,
                   output |-> amountToSend - fee, fee |-> fee,
                   expiry |-> tip + ExpiryDelta, target |-> targetHeight]
<1>1. /\ spent' = spent \cup spends
      /\ committed' = committed \cup {new}
      /\ todo' = todo \ {a}
      /\ mapAddresses' = mapAddresses
    BY DEF Commit
<1>2. spends \subseteq mapAddresses[a] /\ new.spends = spends
    BY SpendsFromSnapshot
<1>3. CommittedSpent'
    BY <1>1, <1>2 DEF CInv, CommittedSpent
<1>4. Grouped'
    BY <1>1 DEF CInv, Grouped
<1>5. SnapshotFresh'
    <2> SUFFICES ASSUME NEW b \in todo', NEW tx \in committed'
                 PROVE mapAddresses'[b] \cap tx.spends = {}
        BY DEF SnapshotFresh
    <2>1. CASE tx \in committed
        BY <1>1, <2>1 DEF CInv, SnapshotFresh
    <2>2. CASE tx = new
        <3>1. b # a /\ b \in Addrs /\ a \in Addrs
            BY <1>1 DEF CInv
        <3>2. QED
            BY <1>1, <1>2, <2>2, <3>1 DEF CInv, Grouped
    <2>3. QED
        BY <1>1, <2>1, <2>2
<1>6. NoNoteConsolidatedTwice'
    <2> SUFFICES ASSUME NEW t1 \in committed', NEW t2 \in committed', t1 # t2
                 PROVE t1.spends \cap t2.spends = {}
        BY DEF NoNoteConsolidatedTwice
    <2>1. CASE t1 \in committed /\ t2 \in committed
        BY <2>1 DEF CInv, NoNoteConsolidatedTwice
    <2>2. CASE t1 = new /\ t2 \in committed
        BY <1>2, <2>2 DEF CInv, SnapshotFresh
    <2>3. CASE t2 = new /\ t1 \in committed
        BY <1>2, <2>3 DEF CInv, SnapshotFresh
    <2>4. QED
        BY <1>1, <2>1, <2>2, <2>3
<1>7. QED
    BY <1>1, <1>3, <1>4, <1>5, <1>6 DEF CInv

LEMMA CInvStep == CInv /\ [Next]_vars => CInv'
<1> SUFFICES ASSUME CInv, [Next]_vars PROVE CInv'
    OBVIOUS
(* The steps that touch none of todo, mapAddresses, committed, spent.      *)
<1>1. CASE UNCHANGED <<todo, mapAddresses, committed, spent>>
    BY <1>1 DEF CInv, CommittedSpent, Grouped, SnapshotFresh, NoNoteConsolidatedTwice
<1>2. CASE Launch
    BY <1>2 DEF Launch, CInv, CommittedSpent, Grouped, SnapshotFresh,
                NoNoteConsolidatedTwice
(* The snapshot holds unspent notes of each address only.                  *)
<1>3. CASE Enumerate
    BY <1>3 DEF Enumerate, FilteredNotes, walletVars, CInv, CommittedSpent, Grouped,
                SnapshotFresh, NoNoteConsolidatedTwice
<1>4. ASSUME NEW a \in todo, SkipAddress(a) \/ SkipBelowMinimum(a) PROVE CInv'
    BY <1>4 DEF SkipAddress, SkipBelowMinimum, walletVars, CInv, CommittedSpent, Grouped,
                SnapshotFresh, NoNoteConsolidatedTwice
<1>5. ASSUME NEW n \in Notes, OtherSpend(n) PROVE CInv'
    BY <1>5 DEF OtherSpend, jobVars, CInv, CommittedSpent, Grouped,
                SnapshotFresh, NoNoteConsolidatedTwice
<1>6. CASE BuildOutcome(Commit)
    BY <1>6, CommitStep DEF BuildOutcome
<1>7. QED
    <2>1. CASE BuildOutcome(BuildFailed) \/ BuildOutcome(BuildThrew)
        BY <2>1, <1>1 DEF BuildOutcome, BuildFailed, BuildThrew, walletVars
    <2>2. CASE MainCancelled \/ MainStart \/ SetExecuting \/ SkipBeforeUpgrade \/ Finish
        BY <2>2, <1>1 DEF MainCancelled, MainStart, SetExecuting, SkipBeforeUpgrade,
                          Finish, walletVars
    <2>3. CASE Cancel \/ NewBlock \/ UNCHANGED vars
        BY <2>3, <1>1 DEF Cancel, NewBlock, walletVars, jobVars, vars
    <2>4. QED
        BY <1>2, <1>3, <1>4, <1>5, <1>6, <2>1, <2>2, <2>3 DEF Next, JobStep

(* No note is spent by two consolidation transactions, whatever the        *)
(* addresses, notes, quantities and interleavings of new blocks, other     *)
(* spends and cancels: the snapshot of main_impl never holds a note that a *)
(* committed transaction spends.                                           *)
THEOREM NoDoubleConsolidation == Spec => []NoNoteConsolidatedTwice
<1>1. CInv => NoNoteConsolidatedTwice
    BY DEF CInv
<1>2. QED
    BY <1>1, CInvInit, CInvStep, PTL DEF Spec

-----------------------------------------------------------------------------
(* The running flag and the schedule.                                      *)

LEMMA IdleInit == Init => JobsNumbered /\ CompleteMeansIdle
BY DEF Init, JobsNumbered, CompleteMeansIdle, CommittedByJob

LEMMA IdleStep ==
    ASSUME JobsNumbered, CompleteMeansIdle, [Next]_vars
    PROVE  /\ JobsNumbered' /\ CompleteMeansIdle'
           /\ [ClearedByIdlePass]_vars
<1> USE DEF JobsNumbered, CompleteMeansIdle, CommittedByJob, ThisJob, ClearedByIdlePass
(* The steps that touch none of the state involved.                        *)
<1>1. CASE UNCHANGED <<launches, committed, consolidationComplete,
                       fConsolidationRunning, nextConsolidation>>
    BY <1>1
(* Every iteration that gets past the target count clears the flag.        *)
<1>2. ASSUME NEW a, Consolidating(a),
             UNCHANGED <<launches, fConsolidationRunning, nextConsolidation>>,
             \/ committed' = committed
             \/ \E tx \in Tx : tx.job = launches /\ committed' = committed \cup {tx}
      PROVE  /\ JobsNumbered' /\ CompleteMeansIdle'
             /\ [ClearedByIdlePass]_vars
    BY <1>2 DEF Consolidating, Tx
<1>3. CASE Launch
    BY <1>3 DEF Launch
<1>4. CASE Finish
    BY <1>4 DEF Finish
<1>5. ASSUME NEW a, NEW fromNotes, NEW spends, Commit(a, fromNotes, spends)
      PROVE  /\ JobsNumbered' /\ CompleteMeansIdle'
             /\ [ClearedByIdlePass]_vars
    <2> DEFINE amountToSend == SumValue(fromNotes)
               fee == FeeFor(amountToSend)
               new == [job |-> launches, addr |-> a, spends |-> spends,
                       output |-> amountToSend - fee, fee |-> fee,
                       expiry |-> tip + ExpiryDelta, target |-> targetHeight]
    <2>1. committed' = committed \cup {new} /\ new.job = launches
        BY <1>5 DEF Commit
    <2>2. Consolidating(a) /\ UNCHANGED <<launches, fConsolidationRunning, nextConsolidation>>
        BY <1>5 DEF Commit, Building
    <2>3. QED
        BY <2>1, <2>2 DEF Consolidating
<1>6. QED
    <2>1. ASSUME NEW a, NEW fromNotes, NEW spends,
                 BuildFailed(a, fromNotes, spends) \/ BuildThrew(a, fromNotes, spends)
          PROVE  /\ JobsNumbered' /\ CompleteMeansIdle'
                 /\ [ClearedByIdlePass]_vars
        BY <2>1, <1>2 DEF BuildFailed, BuildThrew, Building, walletVars
    <2>2. ASSUME NEW a, SkipBelowMinimum(a)
          PROVE  /\ JobsNumbered' /\ CompleteMeansIdle'
                 /\ [ClearedByIdlePass]_vars
        BY <2>2, <1>2 DEF SkipBelowMinimum, walletVars
    <2>3. CASE BuildOutcome(BuildFailed) \/ BuildOutcome(BuildThrew) \/ BuildOutcome(Commit)
        BY <2>3, <2>1, <1>5 DEF BuildOutcome
    <2>4. CASE \/ MainCancelled \/ MainStart \/ SetExecuting \/ SkipBeforeUpgrade
               \/ Enumerate \/ \E a \in todo : SkipAddress(a)
        BY <2>4, <1>1 DEF MainCancelled, MainStart, SetExecuting, SkipBeforeUpgrade,
                          Enumerate, SkipAddress, walletVars
    <2>5. CASE Cancel \/ NewBlock \/ (\E n \in Notes : OtherSpend(n)) \/ UNCHANGED vars
        BY <2>5, <1>1 DEF Cancel, NewBlock, OtherSpend, walletVars, jobVars, vars
    <2>6. QED
        BY <1>3, <1>4, <2>2, <2>3, <2>4, <2>5 DEF Next, JobStep

(* fConsolidationRunning is cleared, and nextConsolidation moved, only by a *)
(* pass of main_impl that committed no transaction, for any number of      *)
(* operations, addresses and notes.                                        *)
THEOREM IdlePassOnly == Spec => RunningClearedOnlyByIdlePass
<1>1. JobsNumbered /\ CompleteMeansIdle /\ [Next]_vars
          => (JobsNumbered /\ CompleteMeansIdle)' /\ [ClearedByIdlePass]_vars
    BY IdleStep
<1>2. QED
    BY <1>1, IdleInit, PTL DEF Spec, RunningClearedOnlyByIdlePass

-----------------------------------------------------------------------------
(* Refinement of the abstract promise.                                     *)

(* Why every committed note is confirmed minDepth times: the snapshot       *)
(* holds notes of the wallet that were confirmed at the tip main_impl read *)
(* under LOCK2, and the tip only grows after it.                           *)
Deep ==
    \A a \in Addrs : \A n \in mapAddresses[a] :
        NoteHeight[n] <= tip /\ tip - NoteHeight[n] + 1 >= MinDepth
RInv ==
    /\ tip \in Nat
    /\ \A a \in Addrs : mapAddresses[a] \subseteq Notes
    /\ Deep

LEMMA RInvInit == Init => RInv
BY DEF Init, RInv, Deep

LEMMA RInvStep == RInv /\ [Next]_vars => RInv'
<1> SUFFICES ASSUME RInv, [Next]_vars PROVE RInv'
    OBVIOUS
<1> USE DEF RInv
<1>1. CASE UNCHANGED <<tip, mapAddresses>>
    BY <1>1 DEF Deep
<1>2. CASE Launch
    BY <1>2 DEF Launch, Deep
<1>3. CASE Enumerate
    BY <1>3 DEF Enumerate, FilteredNotes, walletVars, Deep
(* A new block deepens every note of the snapshot.                         *)
<1>4. CASE NewBlock
    <2>1. tip' = tip + 1 /\ mapAddresses' = mapAddresses
        BY <1>4 DEF NewBlock, jobVars
    <2>2. Deep'
        <3> SUFFICES ASSUME NEW a \in Addrs, NEW n \in mapAddresses'[a]
                     PROVE  NoteHeight[n] <= tip' /\ tip' - NoteHeight[n] + 1 >= MinDepth
            BY DEF Deep
        <3>1. n \in Notes /\ NoteHeight[n] <= tip /\ tip - NoteHeight[n] + 1 >= MinDepth
            BY <2>1 DEF Deep
        <3>2. NoteHeight[n] \in Nat
            BY <3>1, ConsolidationAssumption
        <3>3. tip \in Nat /\ MinDepth \in Nat
            BY ConsolidationAssumption
        <3>4. QED
            BY <2>1, <3>1, <3>2, <3>3
    <2>3. QED
        BY <2>1, <2>2
<1>5. QED
    <2>1. CASE BuildOutcome(BuildFailed) \/ BuildOutcome(BuildThrew) \/ BuildOutcome(Commit)
        BY <2>1, <1>1 DEF BuildOutcome, BuildFailed, BuildThrew, Commit, walletVars
    <2>2. CASE \/ MainCancelled \/ MainStart \/ SetExecuting \/ SkipBeforeUpgrade \/ Finish
               \/ \E a \in todo : SkipAddress(a) \/ SkipBelowMinimum(a)
        BY <2>2, <1>1 DEF MainCancelled, MainStart, SetExecuting, SkipBeforeUpgrade,
                          Finish, SkipAddress, SkipBelowMinimum, walletVars
    <2>3. CASE Cancel \/ (\E n \in Notes : OtherSpend(n)) \/ UNCHANGED vars
        BY <2>3, <1>1 DEF Cancel, OtherSpend, walletVars, jobVars, vars
    <2>4. QED
        BY <1>2, <1>3, <1>4, <2>1, <2>2, <2>3 DEF Next, JobStep

(* A commit is an abstract Consolidate of the visited address's spends.    *)
LEMMA CommitRefines ==
    ASSUME RInv, CInv, NEW a \in todo, NEW fromNotes \in Batches(a),
           NEW spends \in SpendPrefixes(fromNotes), Commit(a, fromNotes, spends)
    PROVE  Abs!Consolidate(a, spends)
<1> DEFINE amountToSend == SumValue(fromNotes)
           fee == FeeFor(amountToSend)
           new == [job |-> launches, addr |-> a, spends |-> spends,
                   output |-> amountToSend - fee, fee |-> fee,
                   expiry |-> tip + ExpiryDelta, target |-> targetHeight]
<1>1. /\ spent' = spent \cup spends
      /\ committed' = committed \cup {new}
      /\ tip' = tip
      /\ a \in Addrs
    BY DEF Commit, CInv
<1>2. spends \subseteq mapAddresses[a]
    BY SpendsFromSnapshot
<1>3. \A n \in spends : NoteAddr[n] = a /\ Abs!Confirmed(n)
    BY <1>1, <1>2 DEF CInv, Grouped, RInv, Deep, Abs!Confirmed
<1>4. spends \cap Abs!ConsolidatedNotes = {}
    BY <1>2 DEF CInv, SnapshotFresh, Abs!ConsolidatedNotes
<1>5. {[addr |-> tx.addr, spends |-> tx.spends] : tx \in committed'}
        = {[addr |-> tx.addr, spends |-> tx.spends] : tx \in committed}
          \cup {[addr |-> a, spends |-> spends]}
    <2>1. new.addr = a /\ new.spends = spends
        OBVIOUS
    <2>2. QED
        BY <1>1, <2>1, Zenon
<1>6. QED
    BY <1>1, <1>3, <1>4, <1>5 DEF Abs!Consolidate

LEMMA RefineStep == RInv /\ CInv /\ [Next]_vars => [Abs!Next]_Abs!vars
<1> SUFFICES ASSUME RInv, CInv, [Next]_vars PROVE [Abs!Next]_Abs!vars
    OBVIOUS
<1>1. CASE UNCHANGED <<tip, spent, committed>>
    BY <1>1 DEF Abs!vars
<1>2. CASE BuildOutcome(Commit)
    <2>1. ASSUME NEW a \in todo, NEW fromNotes \in Batches(a),
                 NEW spends \in SpendPrefixes(fromNotes), Commit(a, fromNotes, spends)
          PROVE  Abs!Next
        <3>1. a \in SpendingKeyAddrs /\ spends \subseteq Notes
            BY <2>1, SpendsFromSnapshot DEF Commit, Building, Consolidating, CInv, RInv
        <3>2. QED
            BY <2>1, <3>1, CommitRefines DEF Abs!Next
    <2>2. QED
        BY <1>2, <2>1 DEF BuildOutcome
<1>3. CASE NewBlock
    BY <1>3 DEF NewBlock, Abs!NewBlock, Abs!Next
<1>4. ASSUME NEW n \in Notes, OtherSpend(n) PROVE [Abs!Next]_Abs!vars
    BY <1>4 DEF OtherSpend, Abs!OtherSpend, Abs!Next
<1>5. QED
    <2>1. CASE BuildOutcome(BuildFailed) \/ BuildOutcome(BuildThrew)
        BY <2>1, <1>1 DEF BuildOutcome, BuildFailed, BuildThrew, walletVars
    <2>2. CASE \/ MainCancelled \/ MainStart \/ SetExecuting \/ SkipBeforeUpgrade \/ Finish
               \/ Enumerate \/ Launch \/ \E a \in todo : SkipAddress(a) \/ SkipBelowMinimum(a)
        BY <2>2, <1>1 DEF MainCancelled, MainStart, SetExecuting, SkipBeforeUpgrade,
                          Finish, Enumerate, Launch, SkipAddress, SkipBelowMinimum, walletVars
    <2>3. CASE Cancel \/ UNCHANGED vars
        BY <2>3, <1>1 DEF Cancel, walletVars, vars
    <2>4. QED
        BY <1>2, <1>3, <1>4, <2>1, <2>2, <2>3 DEF Next, JobStep

(* The consolidation operation implements the abstract promise for every   *)
(* value of the constants: each CommitAutomatedTx of main_impl spends only *)
(* notes of the address it signs for, confirmed minDepth times at the      *)
(* commit and consolidated by no earlier transaction, and every other step *)
(* of the job, the scheduler, new blocks and other spends is a step or a   *)
(* stutter of the abstract wallet.                                         *)
THEOREM Refinement == Spec => ConsolidationRefines
<1>1. Init => Abs!Init
    BY DEF Init, Abs!Init
<1>2. QED
    BY <1>1, RInvInit, RInvStep, CInvInit, CInvStep, RefineStep, PTL
       DEF Spec, ConsolidationRefines, Abs!Spec

-----------------------------------------------------------------------------
(* The size of a batch.                                                    *)

(* Min of two naturals is at most the first.                               *)
LEMMA MinOfTwo ==
    ASSUME NEW x \in Nat, NEW y \in Nat
    PROVE  Min({x, y}) <= x
<1>1. \E m \in {x, y} : \A z \in {x, y} : m <= z
    BY x <= y \/ y <= x
<1>2. QED
    BY <1>1 DEF Min

(* A committed transaction spends no more notes than the maxQuantity its   *)
(* selection loop drew: the spends are a subset of the batch, and the      *)
(* batch has min(maxQuantity, notes of the address) elements.              *)
LEMMA SpendsWithinMax ==
    ASSUME NEW a, NEW fromNotes \in Batches(a), NEW spends \in SpendPrefixes(fromNotes),
           IsFiniteSet(mapAddresses[a])
    PROVE  \E q \in MaxQuantities : Cardinality(spends) <= q
<1>1. PICK q \in MaxQuantities : fromNotes \in Selections(mapAddresses[a], q)
    BY DEF Batches
<1>2. /\ fromNotes \subseteq mapAddresses[a]
      /\ Cardinality(fromNotes) = Min({q, Cardinality(mapAddresses[a])})
    BY <1>1 DEF Selections
<1>3. q \in Nat /\ Cardinality(mapAddresses[a]) \in Nat
    BY FS_CardinalityType, ConsolidationAssumption
<1>4. Cardinality(fromNotes) <= q
    BY <1>2, <1>3, MinOfTwo
<1>5. spends \subseteq fromNotes /\ IsFiniteSet(fromNotes)
    BY <1>2, FS_Subset DEF SpendPrefixes
<1>6. Cardinality(spends) <= Cardinality(fromNotes) /\ Cardinality(fromNotes) \in Nat
      /\ Cardinality(spends) \in Nat
    BY <1>5, FS_Subset, FS_CardinalityType
<1>7. QED
    BY <1>3, <1>4, <1>6

LEMMA BatchStep == BatchBounds /\ CInv /\ RInv /\ [Next]_vars => BatchBounds'
<1> SUFFICES ASSUME BatchBounds, CInv, RInv, [Next]_vars PROVE BatchBounds'
    OBVIOUS
<1>1. CASE committed' = committed
    BY <1>1 DEF BatchBounds
<1>2. ASSUME NEW a \in todo, NEW fromNotes \in Batches(a),
             NEW spends \in SpendPrefixes(fromNotes), Commit(a, fromNotes, spends)
      PROVE  BatchBounds'
    <2> DEFINE amountToSend == SumValue(fromNotes)
               fee == FeeFor(amountToSend)
               new == [job |-> launches, addr |-> a, spends |-> spends,
                       output |-> amountToSend - fee, fee |-> fee,
                       expiry |-> tip + ExpiryDelta, target |-> targetHeight]
    <2>1. committed' = committed \cup {new} /\ new.addr = a /\ new.spends = spends
        BY <1>2 DEF Commit
    <2>2. a \in Addrs /\ spends \subseteq mapAddresses[a]
        BY SpendsFromSnapshot DEF CInv
    <2>3. \A n \in spends : NoteAddr[n] = a
        BY <2>2 DEF CInv, Grouped
    <2>4. IsFiniteSet(mapAddresses[a])
        BY <2>2, FS_Subset, ConsolidationAssumption DEF RInv
    <2>5. \E q \in MaxQuantities : Cardinality(spends) <= q
        BY <2>4, SpendsWithinMax
    <2>6. QED
        BY <2>1, <2>3, <2>5 DEF BatchBounds
<1>3. QED
    <2>1. CASE BuildOutcome(Commit)
        BY <2>1, <1>2 DEF BuildOutcome
    <2>2. CASE BuildOutcome(BuildFailed) \/ BuildOutcome(BuildThrew)
        BY <2>2, <1>1 DEF BuildOutcome, BuildFailed, BuildThrew, walletVars
    <2>3. CASE \/ MainCancelled \/ MainStart \/ SetExecuting \/ SkipBeforeUpgrade \/ Finish
               \/ Enumerate \/ Launch \/ \E a \in todo : SkipAddress(a) \/ SkipBelowMinimum(a)
        BY <2>3, <1>1 DEF MainCancelled, MainStart, SetExecuting, SkipBeforeUpgrade,
                          Finish, Enumerate, Launch, SkipAddress, SkipBelowMinimum, walletVars
    <2>4. CASE Cancel \/ NewBlock \/ (\E n \in Notes : OtherSpend(n)) \/ UNCHANGED vars
        BY <2>4, <1>1 DEF Cancel, NewBlock, OtherSpend, walletVars, vars
    <2>5. QED
        BY <2>1, <2>2, <2>3, <2>4 DEF Next, JobStep

(* Every consolidation transaction main_impl commits spends notes of the   *)
(* address it pays back to, and no more of them than the maxQuantity drawn *)
(* for it, for any notes, quantities, missing witnesses and interleavings. *)
THEOREM BatchesBounded == Spec => []BatchBounds
<1>1. Init => BatchBounds
    BY DEF Init, BatchBounds
<1>2. QED
    BY <1>1, BatchStep, CInvInit, CInvStep, RInvInit, RInvStep, PTL DEF Spec

-----------------------------------------------------------------------------
(* The value of a batch, type correctness and the fee rule.                *)

(* Any set of the wallet's notes is worth a natural amount.                *)
LEMMA SumValueNat ==
    ASSUME NEW S \in SUBSET Notes
    PROVE  SumValue(S) \in Nat
<1>1. IsFiniteSet(S) /\ NoteValue \in [Notes -> Nat]
    BY FS_Subset, ConsolidationAssumption
<1>2. SumOf(NoteValue, S) \in Nat
    BY <1>1, SumNat
<1>3. QED
    BY <1>2 DEF SumValue, SumOf

(* A batch of a visited address, and the spends the builder receives, are  *)
(* notes of the wallet, so their values are naturals.                       *)
LEMMA BatchValue ==
    ASSUME NEW a \in Addrs, mapAddresses[a] \subseteq Notes,
           NEW fromNotes \in Batches(a), NEW spends \in SpendPrefixes(fromNotes)
    PROVE  /\ fromNotes \subseteq Notes /\ spends \subseteq Notes
           /\ SumValue(fromNotes) \in Nat /\ SumValue(spends) \in Nat
<1>1. PICK maxQ \in MaxQuantities : fromNotes \in Selections(mapAddresses[a], maxQ)
    BY Zenon DEF Batches
<1>2. fromNotes \subseteq mapAddresses[a]
    BY <1>1 DEF Selections
<1>3. spends \subseteq fromNotes
    BY DEF SpendPrefixes
<1>4. QED
    BY <1>2, <1>3, SumValueNat

LEMMA TypeInit == Init => TypeOK
<1> SUFFICES ASSUME Init PROVE TypeOK
    OBVIOUS
<1>1. result \in [num : Nat, amount : Int, txids : Nat, set : BOOLEAN]
    BY DEF Init, NoResult
<1>2. mapAddresses \in [Addrs -> SUBSET Notes]
    BY DEF Init
<1>3. /\ tip \in 0..MaxHeight /\ launches \in 0..MaxLaunches /\ targetHeight \in 0..MaxHeight
      /\ nextConsolidation \in Nat /\ amountConsolidated \in Int /\ txIds \in Nat
    BY ConsolidationAssumption DEF Init
<1>4. /\ spent \subseteq Notes /\ committed \subseteq Tx /\ todo \subseteq Addrs
    BY DEF Init
<1>5. opState \in OpStates /\ pc \in Pcs
    BY DEF Init, OpStates, Pcs
<1>6. fConsolidationRunning \in BOOLEAN /\ consolidationComplete \in BOOLEAN
      /\ cancelCalled \in BOOLEAN
    BY Zenon DEF Init
<1>7. QED
    BY <1>1, <1>2, <1>3, <1>4, <1>5, <1>6 DEF TypeOK

(* TypeOK without its Boolean conjuncts, which Zenon handles better.      *)
TypeData ==
    /\ tip \in 0..MaxHeight
    /\ spent \subseteq Notes
    /\ nextConsolidation \in Nat
    /\ launches \in 0..MaxLaunches
    /\ committed \subseteq Tx
    /\ opState \in OpStates
    /\ pc \in Pcs
    /\ targetHeight \in 0..MaxHeight
    /\ mapAddresses \in [Addrs -> SUBSET Notes]
    /\ todo \subseteq Addrs
    /\ amountConsolidated \in Int
    /\ txIds \in Nat
    /\ result \in [num : Nat, amount : Int, txids : Nat, set : BOOLEAN]
TypeBool ==
    /\ fConsolidationRunning \in BOOLEAN
    /\ consolidationComplete \in BOOLEAN
    /\ cancelCalled \in BOOLEAN

LEMMA TypeSplit == TypeOK <=> TypeData /\ TypeBool
BY Zenon DEF TypeOK, TypeData, TypeBool

(* The flags stay Booleans: every action sets them to TRUE or FALSE or     *)
(* leaves them alone.                                                      *)
LEMMA BoolStep == TypeBool /\ [Next]_vars => TypeBool'
<1> SUFFICES ASSUME TypeBool, [Next]_vars PROVE TypeBool'
    OBVIOUS
<1>1. CASE JobStep \/ Launch
    <2>1. CASE BuildOutcome(Commit) \/ BuildOutcome(BuildFailed) \/ BuildOutcome(BuildThrew)
        BY <2>1, Zenon DEF TypeBool, BuildOutcome, Commit, BuildFailed, BuildThrew,
                           Building, Consolidating, walletVars
    <2>2. CASE \/ MainCancelled \/ MainStart \/ SetExecuting \/ SkipBeforeUpgrade \/ Finish
               \/ Enumerate \/ Launch \/ \E a \in todo : SkipAddress(a) \/ SkipBelowMinimum(a)
        BY <2>2, Zenon DEF TypeBool, MainCancelled, MainStart, SetExecuting,
                           SkipBeforeUpgrade, Finish, Enumerate, Launch, SkipAddress,
                           SkipBelowMinimum, Consolidating, walletVars
    <2>3. QED
        BY <1>1, <2>1, <2>2 DEF JobStep
<1>2. CASE Cancel \/ NewBlock \/ (\E n \in Notes : OtherSpend(n)) \/ UNCHANGED vars
    BY <1>2, Zenon DEF TypeBool, Cancel, NewBlock, OtherSpend, walletVars, jobVars, vars
<1>3. QED
    BY <1>1, <1>2 DEF Next

(* The other variables keep their types.                                   *)
LEMMA DataStep == TypeData /\ [Next]_vars => TypeData'
<1> SUFFICES ASSUME TypeData, [Next]_vars PROVE TypeData'
    OBVIOUS
<1> USE ConsolidationAssumption DEF TypeData, OpStates, Pcs
<1>1. CASE Launch
    BY <1>1 DEF Launch, NoResult
<1>2. CASE MainCancelled \/ MainStart \/ SetExecuting \/ SkipBeforeUpgrade
    <2>1. CASE MainCancelled
        BY <2>1 DEF MainCancelled, walletVars
    <2>2. CASE MainStart
        BY <2>2 DEF MainStart, walletVars
    <2>3. CASE SetExecuting
        BY <2>3 DEF SetExecuting, walletVars
    <2>4. CASE SkipBeforeUpgrade
        BY <2>4 DEF SkipBeforeUpgrade, walletVars
    <2>5. QED
        BY <1>2, <2>1, <2>2, <2>3, <2>4
<1>3. CASE Enumerate
    BY <1>3 DEF Enumerate, FilteredNotes, walletVars
<1>4. ASSUME NEW a \in todo, SkipAddress(a) \/ SkipBelowMinimum(a) PROVE TypeData'
    <2>1. CASE SkipAddress(a)
        BY <2>1 DEF SkipAddress, walletVars
    <2>2. CASE SkipBelowMinimum(a)
        BY <2>2 DEF SkipBelowMinimum, walletVars
    <2>3. QED
        BY <1>4, <2>1, <2>2
<1>5. ASSUME NEW a \in todo, NEW fromNotes \in Batches(a),
             NEW spends \in SpendPrefixes(fromNotes),
             BuildFailed(a, fromNotes, spends) \/ BuildThrew(a, fromNotes, spends)
      PROVE  TypeData'
    <2>1. SumValue(fromNotes) \in Nat
        BY BatchValue
    <2>2. CASE BuildFailed(a, fromNotes, spends)
        BY <2>1, <2>2 DEF BuildFailed, walletVars
    <2>3. CASE BuildThrew(a, fromNotes, spends)
        BY <2>1, <2>3 DEF BuildThrew, walletVars
    <2>4. QED
        BY <1>5, <2>2, <2>3
(* The committed transaction has the fields of Tx.                         *)
<1>6. ASSUME NEW a \in todo, NEW fromNotes \in Batches(a),
             NEW spends \in SpendPrefixes(fromNotes), Commit(a, fromNotes, spends)
      PROVE  TypeData'
    <2> DEFINE amountToSend == SumValue(fromNotes)
               fee == FeeFor(amountToSend)
               new == [job |-> launches, addr |-> a, spends |-> spends,
                       output |-> amountToSend - fee, fee |-> fee,
                       expiry |-> tip + ExpiryDelta, target |-> targetHeight]
    <2>1. spends \subseteq Notes /\ amountToSend \in Nat
        BY BatchValue
    <2>2. fee \in Nat
        BY DEF FeeFor
    <2>3. new \in Tx
        BY <2>1, <2>2 DEF Tx
    <2>4. QED
        BY <1>6, <2>1, <2>3 DEF Commit
<1>7. CASE Finish
    BY <1>7 DEF Finish
<1>8. CASE Cancel \/ NewBlock \/ (\E n \in Notes : OtherSpend(n)) \/ UNCHANGED vars
    <2>1. CASE Cancel
        BY <2>1 DEF Cancel, walletVars
    <2>2. CASE NewBlock
        BY <2>2 DEF NewBlock, jobVars
    <2>3. ASSUME NEW n \in Notes, OtherSpend(n) PROVE TypeData'
        BY <2>3 DEF OtherSpend, jobVars
    <2>4. CASE UNCHANGED vars
        BY <2>4 DEF vars, walletVars, jobVars
    <2>5. QED
        BY <1>8, <2>1, <2>2, <2>3, <2>4
<1>9. QED
    BY <1>1, <1>2, <1>3, <1>4, <1>5, <1>6, <1>7, <1>8 DEF Next, JobStep, BuildOutcome

LEMMA TypeStep == TypeOK /\ [Next]_vars => TypeOK'
BY TypeSplit, BoolStep, DataStep DEF TypeOK, TypeData, TypeBool

(* Every variable of the operation, the wallet and the chain keeps its     *)
(* type: in particular amountConsolidated stays an integer and every       *)
(* committed transaction a well-formed record, for every value of the      *)
(* constants.                                                              *)
THEOREM TypeCorrect == Spec => []TypeOK
BY TypeInit, TypeStep, PTL DEF Spec

(* A commit adds a transaction that keeps the fee rule: Build() succeeded, *)
(* so the spends are worth amountToSend, split into output and fee.        *)
LEMMA FeeStep == FeeRule /\ TypeOK /\ [Next]_vars => FeeRule'
<1> SUFFICES ASSUME FeeRule, TypeOK, [Next]_vars PROVE FeeRule'
    OBVIOUS
<1>1. CASE committed' = committed
    BY <1>1 DEF FeeRule
<1>2. ASSUME NEW a \in todo, NEW fromNotes \in Batches(a),
             NEW spends \in SpendPrefixes(fromNotes), Commit(a, fromNotes, spends)
      PROVE  FeeRule'
    <2> DEFINE amountToSend == SumValue(fromNotes)
               fee == FeeFor(amountToSend)
               new == [job |-> launches, addr |-> a, spends |-> spends,
                       output |-> amountToSend - fee, fee |-> fee,
                       expiry |-> tip + ExpiryDelta, target |-> targetHeight]
    <2>1. committed' = committed \cup {new} /\ SumValue(spends) = amountToSend
        BY <1>2 DEF Commit, Balanced
    <2>2. amountToSend \in Nat /\ TxFee \in Nat
        BY BatchValue, ConsolidationAssumption DEF TypeOK
    <2>3. /\ new.fee \in {0, TxFee}
          /\ new.output + new.fee = SumValue(new.spends)
          /\ new.output >= 0
          /\ new.fee > 0 => new.output > 0
        BY <2>1, <2>2 DEF FeeFor
    <2>4. QED
        BY <2>1, <2>3 DEF FeeRule
<1>3. QED
    <2>1. CASE BuildOutcome(Commit)
        BY <2>1, <1>2 DEF BuildOutcome
    <2>2. CASE BuildOutcome(BuildFailed) \/ BuildOutcome(BuildThrew)
        BY <2>2, <1>1 DEF BuildOutcome, BuildFailed, BuildThrew, walletVars
    <2>3. CASE \/ MainCancelled \/ MainStart \/ SetExecuting \/ SkipBeforeUpgrade \/ Finish
               \/ Enumerate \/ Launch \/ \E a \in todo : SkipAddress(a) \/ SkipBelowMinimum(a)
        BY <2>3, <1>1 DEF MainCancelled, MainStart, SetExecuting, SkipBeforeUpgrade,
                          Finish, Enumerate, Launch, SkipAddress, SkipBelowMinimum, walletVars
    <2>4. CASE Cancel \/ NewBlock \/ (\E n \in Notes : OtherSpend(n)) \/ UNCHANGED vars
        BY <2>4, <1>1 DEF Cancel, NewBlock, OtherSpend, walletVars, vars
    <2>5. QED
        BY <2>1, <2>2, <2>3, <2>4 DEF Next, JobStep

(* Every consolidation transaction main_impl commits balances, pays 0 or   *)
(* fConsolidationTxFee, and never pays a fee out of notes worth no more    *)
(* than it (the amountToSend <= fee rule), for every note value and fee.   *)
THEOREM FeeRuleHolds == Spec => []FeeRule
<1>1. Init => FeeRule
    BY DEF Init, FeeRule
<1>2. QED
    BY <1>1, FeeStep, TypeInit, TypeStep, PTL DEF Spec

=============================================================================
