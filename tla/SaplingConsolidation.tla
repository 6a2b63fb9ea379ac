------------------------- MODULE SaplingConsolidation -------------------------
(***************************************************************************)
(* AsyncRPCOperation_saplingconsolidation                                  *)
(* (src/src/wallet/asyncrpcoperation_saplingconsolidation.cpp) running     *)
(* against the wallet and the chain.  One operation at a time runs on an   *)
(* async worker thread; concurrently, blocks arrive, other wallet calls    *)
(* spend notes and anyone may call cancel().                               *)
(*                                                                         *)
(* main_impl holds LOCK2(cs_main, cs_wallet) only while it enumerates the  *)
(* notes, reads the tip, fetches witnesses and commits.  Everything else   *)
(* it reads in the per-address body (the key store, the witness cache) is  *)
(* fixed in this module, so one iteration of the address loop is one step  *)
(* per outcome: the only shared state read inside it is the tip (for the   *)
(* expiry height) and the cancel flag, each read once.  Notes are          *)
(* identifiers with an address, a value and the height of their block.     *)
(***************************************************************************)
EXTENDS Naturals, FiniteSets, FiniteSetsExt

CONSTANTS
    Addrs,                  \* Sapling payment addresses, ordered as std::map orders them
    SpendingKeyAddrs,       \* addresses GetSaplingExtendedSpendingKey resolves
    Notes,                  \* Sapling notes of the wallet
    NoteAddr,               \* entry.address
    NoteValue,              \* entry.note.value()
    NoteHeight,             \* height of the block that holds the note
    MissingWitness,         \* notes GetSaplingNoteWitnesses has no witness for
    MinDepth,               \* minDepth passed to GetFilteredNotes (11)
    ExpiryDelta,            \* CONSOLIDATION_EXPIRY_DELTA (40)
    ActivationHeights,      \* heights of the scheduled network upgrades
    TxFee,                  \* fConsolidationTxFee
    TargetCount,            \* pwalletMain->targetConsolidationQty
    MaxQuantities,          \* values of rand() % 35 + 10
    MinQuantities,          \* values of rand() % 10 + 2
    ConsolidationMapUsed,   \* fConsolidationMapUsed
    AllowList,              \* addresses decoded from -consolidatesaplingaddress
    ConsolidationInterval,  \* pwalletMain->initializeConsolidationInterval
    MaxHeight,              \* bound on the chain tip
    MaxLaunches             \* bound on the operations the wallet launches

ASSUME ConsolidationAssumption ==
    /\ Addrs \subseteq Nat /\ Addrs # {}
    /\ SpendingKeyAddrs \subseteq Addrs
    /\ IsFiniteSet(Notes)
    /\ NoteAddr \in [Notes -> Addrs]
    /\ NoteValue \in [Notes -> Nat]
    /\ NoteHeight \in [Notes -> Nat]
    /\ MissingWitness \subseteq Notes
    /\ MinDepth \in Nat \ {0}
    /\ ExpiryDelta \in Nat
    /\ ActivationHeights \subseteq Nat
    /\ TxFee \in Nat
    /\ TargetCount \in Nat
    /\ MaxQuantities \subseteq Nat \ {0} /\ MaxQuantities # {}
    /\ MinQuantities \subseteq Nat /\ MinQuantities # {}
    /\ ConsolidationMapUsed \in BOOLEAN
    /\ AllowList \subseteq Addrs
    /\ ConsolidationInterval \in Nat
    /\ MaxHeight \in Nat
    /\ MaxLaunches \in Nat

OpStates == {"READY", "EXECUTING", "CANCELLED", "FAILED", "SUCCESS"}
Pcs == {"queued", "started", "enumerate", "loop", "finish", "done"}
NoResult == [num |-> 0, amount |-> 0, txids |-> 0, set |-> FALSE]

VARIABLES
    \* chain and wallet
    tip,                    \* chainActive.Tip()->GetHeight()
    spent,                  \* notes the wallet knows spent by its own transactions
    nextConsolidation,      \* pwalletMain->nextConsolidation
    fConsolidationRunning,  \* pwalletMain->fConsolidationRunning
    launches,               \* operations launched so far (the current one's id)
    committed,              \* consolidation transactions committed (history)
    \* the current operation
    opState,                \* AsyncRPCOperation state
    pc,                     \* where its worker thread is
    targetHeight,           \* targetHeight_
    mapAddresses,           \* address -> eligible notes, snapshot of main_impl
    todo,                   \* addresses the loop has not visited yet
    consolidationComplete,
    amountConsolidated,
    txIds,                  \* consolidationTxIds.size()
    result,                 \* what setConsolidationResult stored
    cancelCalled            \* cancel() has been called on it (history)

walletVars == <<tip, spent, nextConsolidation, fConsolidationRunning, launches, committed>>
jobVars == <<opState, pc, targetHeight, mapAddresses, todo, consolidationComplete,
             amountConsolidated, txIds, result, cancelCalled>>
vars == <<walletVars, jobVars>>

Tx == [job : Nat, addr : Addrs, spends : SUBSET Notes, output : Int, fee : Nat,
       expiry : Nat, target : Nat]

TypeOK ==
    /\ tip \in 0..MaxHeight
    /\ spent \subseteq Notes
    /\ nextConsolidation \in Nat
    /\ fConsolidationRunning \in BOOLEAN
    /\ launches \in 0..MaxLaunches
    /\ committed \subseteq Tx
    /\ opState \in OpStates
    /\ pc \in Pcs
    /\ targetHeight \in 0..MaxHeight
    /\ mapAddresses \in [Addrs -> SUBSET Notes]
    /\ todo \subseteq Addrs
    /\ consolidationComplete \in BOOLEAN
    /\ amountConsolidated \in Int
    /\ txIds \in Nat
    /\ result \in [num : Nat, amount : Int, txids : Nat, set : BOOLEAN]
    /\ cancelCalled \in BOOLEAN

-----------------------------------------------------------------------------
(* Helpers.                                                                *)

SumValue(S) == MapThenSumSet(LAMBDA n : NoteValue[n], S)

(* NextActivationHeight(targetHeight_, consensusParams): none is {}.       *)
NextActivation(h) == {u \in ActivationHeights : u > h /\ \A v \in ActivationHeights : v > h => u <= v}

(* Mutant: GetFilteredNotes called with ignoreSpent = false.             *)
FilteredNotesWithSpent == {n \in Notes : NoteHeight[n] <= tip /\ tip - NoteHeight[n] + 1 >= MinDepth}

(* Mutant: the depth test one confirmation short.                          *)
FilteredNotesShallow == {n \in Notes : NoteHeight[n] <= tip /\ tip - NoteHeight[n] + 2 >= MinDepth
                                       /\ n \notin spent}

(* GetFilteredNotes(..., "", 11): unspent notes with at least minDepth     *)
(* confirmations.                                                          *)
FilteredNotes == {n \in Notes : NoteHeight[n] <= tip /\ tip - NoteHeight[n] + 1 >= MinDepth
                                /\ n \notin spent}

(* addresses.count(entry.address) > 0 || !fConsolidationMapUsed            *)
Mapped(a) == ~ConsolidationMapUsed \/ a \in AllowList

(* CONSOLIDATION_EXPIRY_DELTA guard at the start of main_impl.             *)
UpgradeTooClose == \E u \in NextActivation(targetHeight) : targetHeight + ExpiryDelta >= u

(* Mutant: "<" for "<=", a fee-only output when the notes equal the fee.  *)
FeeForStrict(amountToSend) == IF amountToSend < TxFee THEN 0 ELSE TxFee

(* The fee rule: no fee when the notes are worth no more than it.          *)
FeeFor(amountToSend) == IF amountToSend <= TxFee THEN 0 ELSE TxFee

(* Mutant: the loop breaks one note late (">" for ">=").                  *)
SelectionsLate(notes, maxQuantity) ==
    {S \in SUBSET notes : Cardinality(S) = Min({maxQuantity + 1, Cardinality(notes)})}

(* The selection loop keeps the first maxQuantity matching entries: some   *)
(* subset of that size, as the order of the entries is the wallet's.       *)
Selections(notes, maxQuantity) ==
    {S \in SUBSET notes : Cardinality(S) = Min({maxQuantity, Cardinality(notes)})}

(* Spends the builder receives: the notes before the first missing witness *)
(* in some order of fromNotes.                                             *)
SpendPrefixes(fromNotes) ==
    IF fromNotes \cap MissingWitness = {} THEN {fromNotes}
    ELSE SUBSET (fromNotes \ MissingWitness)

(* builder.Build() fails when the spends do not cover output plus fee.     *)
Balanced(spends, amountToSend) == SumValue(spends) = amountToSend

-----------------------------------------------------------------------------
Init ==
    /\ tip = 0
    /\ spent = {}
    /\ nextConsolidation = ConsolidationInterval
    /\ fConsolidationRunning = FALSE
    /\ launches = 0
    /\ committed = {}
    /\ opState = "SUCCESS"
    /\ pc = "done"
    /\ targetHeight = 0
    /\ mapAddresses = [a \in Addrs |-> {}]
    /\ todo = {}
    /\ consolidationComplete = TRUE
    /\ amountConsolidated = 0
    /\ txIds = 0
    /\ result = NoResult
    /\ cancelCalled = FALSE

(* The wallet's per-block hook (not in the source files; from the spec):   *)
(* once the previous operation has finished, a new one is queued for the   *)
(* tip when the schedule is due or a previous pass was incomplete.         *)
Launch ==
    /\ pc = "done"
    /\ launches < MaxLaunches
    /\ fConsolidationRunning \/ tip >= nextConsolidation
    /\ fConsolidationRunning' = TRUE
    /\ launches' = launches + 1
    /\ opState' = "READY"
    /\ pc' = "queued"
    /\ targetHeight' = tip
    /\ mapAddresses' = [a \in Addrs |-> {}]
    /\ todo' = {}
    /\ consolidationComplete' = TRUE
    /\ amountConsolidated' = 0
    /\ txIds' = 0
    /\ result' = NoResult
    /\ cancelCalled' = FALSE
    /\ UNCHANGED <<tip, spent, nextConsolidation, committed>>

(* main(): "if (isCancelled()) return;"                                    *)
MainCancelled ==
    /\ pc = "queued"
    /\ opState = "CANCELLED"
    /\ pc' = "done"
    /\ UNCHANGED <<walletVars, opState, targetHeight, mapAddresses, todo,
                   consolidationComplete, amountConsolidated, txIds, result, cancelCalled>>

MainStart ==
    /\ pc = "queued"
    /\ opState # "CANCELLED"
    /\ pc' = "started"
    /\ UNCHANGED <<walletVars, opState, targetHeight, mapAddresses, todo,
                   consolidationComplete, amountConsolidated, txIds, result, cancelCalled>>

(* set_state(EXECUTING), a separate store after the check above.           *)
SetExecuting ==
    /\ pc = "started"
    /\ opState' = "EXECUTING"
    /\ pc' = "enumerate"
    /\ UNCHANGED <<walletVars, targetHeight, mapAddresses, todo,
                   consolidationComplete, amountConsolidated, txIds, result, cancelCalled>>

(* main_impl returns true with an empty result; main sets SUCCESS.         *)
SkipBeforeUpgrade ==
    /\ pc = "enumerate"
    /\ UpgradeTooClose
    /\ result' = [num |-> 0, amount |-> 0, txids |-> 0, set |-> TRUE]
    /\ opState' = "SUCCESS"
    /\ pc' = "done"
    /\ UNCHANGED <<walletVars, targetHeight, mapAddresses, todo,
                   consolidationComplete, amountConsolidated, txIds, cancelCalled>>

(* Under LOCK2: GetFilteredNotes and the grouping into mapAddresses.       *)
Enumerate ==
    /\ pc = "enumerate"
    /\ ~UpgradeTooClose
    /\ mapAddresses' = [a \in Addrs |->
                          IF Mapped(a) THEN {n \in FilteredNotes : NoteAddr[n] = a} ELSE {}]
    /\ todo' = {a \in Addrs : mapAddresses'[a] # {}}
    /\ pc' = "loop"
    /\ UNCHANGED <<walletVars, opState, targetHeight, consolidationComplete,
                   amountConsolidated, txIds, result, cancelCalled>>

-----------------------------------------------------------------------------
(* One iteration of the address loop, for addr = the least unvisited one.  *)

Current == Min(todo)

(* noteCount: entries whose ivk is the spending key's and whose address is *)
(* addr; with the key resolved that is every entry of the group.           *)
NoteCount(addr) == Cardinality({n \in mapAddresses[addr] : NoteAddr[n] = addr})

Visit(a) ==
    /\ pc = "loop"
    /\ todo # {}
    /\ a = Current

(* Mutant: "continue" that does not advance the iterator.                *)
SkipAddressNoAdvance(a) ==
    /\ Visit(a)
    /\ a \notin SpendingKeyAddrs \/ NoteCount(a) < TargetCount
    /\ UNCHANGED <<walletVars, jobVars>>

(* GetSaplingExtendedSpendingKey fails, or noteCount < targetCount.        *)
SkipAddress(a) ==
    /\ Visit(a)
    /\ a \notin SpendingKeyAddrs \/ NoteCount(a) < TargetCount
    /\ todo' = todo \ {a}
    /\ UNCHANGED <<walletVars, opState, pc, targetHeight, mapAddresses,
                   consolidationComplete, amountConsolidated, txIds, result, cancelCalled>>

(* The address needs consolidation: consolidationComplete = false, then    *)
(* maxQuantity and the selection, then minQuantity.                        *)
Consolidating(a) ==
    /\ Visit(a)
    /\ a \in SpendingKeyAddrs
    /\ NoteCount(a) >= TargetCount
    /\ consolidationComplete' = FALSE

SkipBelowMinimum(a) ==
    /\ Consolidating(a)
    /\ \E maxQ \in MaxQuantities, minQ \in MinQuantities :
          \E fromNotes \in Selections(mapAddresses[a], maxQ) :
             Cardinality(fromNotes) < minQ
    /\ todo' = todo \ {a}
    /\ UNCHANGED <<walletVars, opState, pc, targetHeight, mapAddresses,
                   amountConsolidated, txIds, result, cancelCalled>>

(* Past the minimum: the batches fromNotes can be.                        *)
Batches(a) ==
    UNION {{S \in Selections(mapAddresses[a], maxQ) :
               \E minQ \in MinQuantities : Cardinality(S) >= minQ} : maxQ \in MaxQuantities}

(* For a batch: the fee, amountConsolidated += amountToSend, the expiry    *)
(* height from the current tip, the witnesses, the spends up to the first  *)
(* missing witness, the output and Build(); the outcome is the action.     *)
Building(a, fromNotes, spends) ==
    /\ Consolidating(a)
    /\ fromNotes \in Batches(a)
    /\ spends \in SpendPrefixes(fromNotes)

(* "break" out of the address loop without committing: Build() returned   *)
(* none (always when the spends do not balance, and whenever the builder   *)
(* fails), or it built the transaction and isCancelled() held.  The two    *)
(* breaks leave the same state.                                            *)
BuildFailed(a, fromNotes, spends) ==
    /\ Building(a, fromNotes, spends)
    /\ amountConsolidated' = amountConsolidated + SumValue(fromNotes)
    /\ pc' = "finish"
    /\ UNCHANGED <<walletVars, opState, targetHeight, mapAddresses, todo, txIds,
                   result, cancelCalled>>

(* The builder throws: main catches it and the operation FAILS.            *)
BuildThrew(a, fromNotes, spends) ==
    /\ Building(a, fromNotes, spends)
    /\ amountConsolidated' = amountConsolidated + SumValue(fromNotes)
    /\ opState' = "FAILED"
    /\ pc' = "done"
    /\ UNCHANGED <<walletVars, targetHeight, mapAddresses, todo, txIds,
                   result, cancelCalled>>

(* Built and not cancelled: CommitAutomatedTx, which marks the spent notes *)
(* in the wallet, then amountConsolidated += output and the txid.          *)
Commit(a, fromNotes, spends) ==
    LET amountToSend == SumValue(fromNotes)
        fee == FeeFor(amountToSend)
    IN
    /\ Building(a, fromNotes, spends)
    /\ Balanced(spends, amountToSend)
    /\ opState # "CANCELLED"
    /\ spent' = spent \cup spends
    /\ committed' = committed \cup
          {[job |-> launches, addr |-> a, spends |-> spends,
            output |-> amountToSend - fee, fee |-> fee,
            expiry |-> tip + ExpiryDelta, target |-> targetHeight]}
    /\ amountConsolidated' = amountConsolidated + amountToSend + (amountToSend - fee)
    /\ txIds' = txIds + 1
    /\ todo' = todo \ {a}
    /\ UNCHANGED <<tip, nextConsolidation, fConsolidationRunning, launches,
                   opState, pc, targetHeight, mapAddresses, result, cancelCalled>>

(* Mutant: the pass always reschedules, dropping "if (consolidationComplete)". *)
FinishAlwaysComplete ==
    /\ \/ pc = "finish"
       \/ pc = "loop" /\ todo = {}
    /\ nextConsolidation' = ConsolidationInterval + tip
    /\ fConsolidationRunning' = FALSE
    /\ result' = [num |-> 0, amount |-> amountConsolidated, txids |-> txIds, set |-> TRUE]
    /\ opState' = "SUCCESS"
    /\ pc' = "done"
    /\ UNCHANGED <<tip, spent, launches, committed, targetHeight, mapAddresses, todo,
                   consolidationComplete, amountConsolidated, txIds, cancelCalled>>

(* After the loop: a complete pass reschedules and clears the running      *)
(* flag; setConsolidationResult(numTxCreated = 0, ...); main sets SUCCESS. *)
Finish ==
    /\ \/ pc = "finish"
       \/ pc = "loop" /\ todo = {}
    /\ IF consolidationComplete
         THEN /\ nextConsolidation' = ConsolidationInterval + tip
              /\ fConsolidationRunning' = FALSE
         ELSE UNCHANGED <<nextConsolidation, fConsolidationRunning>>
    /\ result' = [num |-> 0, amount |-> amountConsolidated, txids |-> txIds, set |-> TRUE]
    /\ opState' = "SUCCESS"
    /\ pc' = "done"
    /\ UNCHANGED <<tip, spent, launches, committed, targetHeight, mapAddresses, todo,
                   consolidationComplete, amountConsolidated, txIds, cancelCalled>>

-----------------------------------------------------------------------------
(* The environment.                                                        *)

(* cancel(): set_state(CANCELLED), whatever the state.                     *)
Cancel ==
    /\ launches > 0
    /\ opState' = "CANCELLED"
    /\ cancelCalled' = TRUE
    /\ UNCHANGED <<walletVars, pc, targetHeight, mapAddresses, todo,
                   consolidationComplete, amountConsolidated, txIds, result>>

NewBlock ==
    /\ tip < MaxHeight
    /\ tip' = tip + 1
    /\ UNCHANGED <<spent, nextConsolidation, fConsolidationRunning, launches,
                   committed, jobVars>>

(* Another wallet call (z_sendmany, ...) spends a note.                    *)
OtherSpend(n) ==
    /\ NoteHeight[n] <= tip
    /\ n \notin spent
    /\ spent' = spent \cup {n}
    /\ UNCHANGED <<tip, nextConsolidation, fConsolidationRunning, launches,
                   committed, jobVars>>

(* One iteration of the address loop, each outcome an action.            *)
BuildOutcome(Outcome(_, _, _)) ==
    \E a \in todo : \E fromNotes \in Batches(a) : \E spends \in SpendPrefixes(fromNotes) :
        Outcome(a, fromNotes, spends)

JobStep ==
    \/ MainCancelled \/ MainStart \/ SetExecuting \/ SkipBeforeUpgrade \/ Enumerate
    \/ \E a \in todo : SkipAddress(a)
    \/ \E a \in todo : SkipBelowMinimum(a)
    \/ BuildOutcome(BuildFailed)
    \/ BuildOutcome(BuildThrew)
    \/ BuildOutcome(Commit)
    \/ Finish

Next ==
    \/ JobStep
    \/ Launch
    \/ Cancel
    \/ NewBlock
    \/ \E n \in Notes : OtherSpend(n)

(* The worker thread keeps running the operation it picked up.             *)
Spec == Init /\ [][Next]_vars /\ WF_vars(JobStep)

-----------------------------------------------------------------------------
(* Properties.                                                             *)

ThisJob(tx) == tx.job = launches
CommittedByJob == {tx \in committed : ThisJob(tx)}
SumOutputs(T) == MapThenSumSet(LAMBDA tx : tx.output, T)

(* Every committed consolidation transaction balances, its fee is 0 or     *)
(* fConsolidationTxFee, its output is never negative and never zero while  *)
(* a fee is paid (the amountToSend <= fee rule of main_impl).              *)
FeeRule ==
    \A tx \in committed :
        /\ tx.fee \in {0, TxFee}
        /\ tx.output + tx.fee = SumValue(tx.spends)
        /\ tx.output >= 0
        /\ tx.fee > 0 => tx.output > 0

(* Every committed transaction spends notes of the address it pays back    *)
(* to, and no more of them than some maxQuantity the selection loop draws. *)
BatchBounds ==
    \A tx \in committed :
        /\ \A n \in tx.spends : NoteAddr[n] = tx.addr
        /\ \E q \in MaxQuantities : Cardinality(tx.spends) <= q

(* No note is spent by two consolidation transactions, across passes: a    *)
(* later pass enumerates notes only after the earlier one committed.       *)
NoNoteConsolidatedTwice ==
    \A t1, t2 \in committed : t1 # t2 => t1.spends \cap t2.spends = {}

(* The running flag is cleared, and the schedule moved, only by a pass     *)
(* that committed nothing (the consolidationComplete branch of main_impl). *)
ClearedByIdlePass ==
    (fConsolidationRunning /\ ~fConsolidationRunning') \/ nextConsolidation' # nextConsolidation
        => CommittedByJob = {}
RunningClearedOnlyByIdlePass == [][ClearedByIdlePass]_vars

(* The refinement mapping: the consolidation transactions as the wallet    *)
(* sees them, an address and the notes they spend.                         *)
Abs == INSTANCE AbstractConsolidation
           WITH consolidated <- {[addr |-> tx.addr, spends |-> tx.spends] : tx \in committed}

(* The operation, whatever the interleaving of its steps with cancels, new *)
(* blocks and other spends, only ever commits what the abstract promise    *)
(* allows: notes of the address whose spending key signs, confirmed        *)
(* minDepth times at the commit, and never consolidated before.            *)
ConsolidationRefines == Abs!Spec

(* Every operation the wallet queues eventually finishes: the loop visits  *)
(* each address once and every break leads to the end of main_impl.        *)
JobTerminates == pc # "done" ~> pc = "done"

-----------------------------------------------------------------------------
(* Statements of the spec that the code does not meet (violation runs).    *)

(* Spec 4.2 step 6 / 8: num_tx_created is the number of transactions the   *)
(* pass committed.                                                         *)
ReportedTxCount == result.set => result.num = Cardinality(CommittedByJob)

(* Spec 4.2 step 6: amount_consolidated is the value the pass's committed  *)
(* transactions consolidated.                                              *)
ReportedAmount == result.set => result.amount = SumOutputs(CommittedByJob)

(* Spec 4.2: Cancelled is terminal: once an operation is cancelled its     *)
(* state stays CANCELLED.                                                  *)
CancelledIsFinal ==
    [][opState = "CANCELLED" /\ launches' = launches => opState' = "CANCELLED"]_<<opState, launches>>

(* Spec 4.2 / 8: a cancel() before the commit checkpoint keeps the pass    *)
(* from committing.                                                        *)
NoCommitAfterCancel ==
    [][cancelCalled /\ launches' = launches => committed' = committed]_<<committed, cancelCalled, launches>>

(* Spec 4.2 step 1: no consolidation transaction can still be mined at or  *)
(* after the next network upgrade following the height it was built for.   *)
ExpiryBeforeUpgrade ==
    \A tx \in committed : \A u \in NextActivation(tx.target) : tx.expiry < u

(* Code comment "random minimum 2 - 12 required" and spec 4.2 step 3c: a   *)
(* consolidation transaction spends at least the minQuantity drawn for it. *)
MinQuantityMet ==
    \A tx \in committed : \E q \in MinQuantities : Cardinality(tx.spends) >= q

(* Spec 1: the job assembles valid transactions: it never commits one that *)
(* spends a note the wallet already spent.                                 *)
NoStaleSpend ==
    [][\A tx \in committed' \ committed : tx.spends \cap spent = {}]_<<committed, spent>>

(* Spec 4.2 step 5: a pass in which every address was skipped (below the   *)
(* target count or below the random minimum) is complete: it clears the   *)
(* running flag.  amountConsolidated is 0 exactly then, notes having value.*)
IdlePassCompletes ==
    [][ pc # "done" /\ pc' = "done" /\ opState' = "SUCCESS" /\ result'.set
        /\ ~UpgradeTooClose /\ amountConsolidated = 0
        => ~fConsolidationRunning' ]_vars

=============================================================================
