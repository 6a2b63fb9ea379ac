# TLA+ models of the wallet credential store and Sapling note consolidation

This directory models the two files of `src/`:

- `src/src/keystore.cpp`: `CBasicKeyStore`, the in-memory store of the wallet's
  keys (the spec's *CredentialStore*);
- `src/src/wallet/asyncrpcoperation_saplingconsolidation.cpp`:
  `AsyncRPCOperation_saplingconsolidation`, the background job that merges the
  wallet's Sapling notes (the spec's *ConsolidationJob*).

The job reads the key store through `GetSaplingExtendedSpendingKey` and
`GetSaplingIncomingViewingKey`. It also reads the wallet's note index, the
chain tip, the witness cache and the scheduling fields `nextConsolidation` and
`fConsolidationRunning`. It hands finished transactions to
`CommitAutomatedTx`.

## 1. Inventory

### CredentialStore (`KeyStore.tla`)

**State.** The store has two lock partitions. Every public method holds one
recursive lock for its whole body, nested calls included.

- `cs_KeyStore` guards the transparent maps:
  - `mapKeys`;
  - `mapScripts`;
  - `setWatchOnly`;
  - `setSaplingWatchOnly`.
- `cs_SpendingKeyStore` guards the shielded state:
  - `hdSeed`;
  - the Sprout spending-key, viewing-key and note-decryptor maps;
  - the Sapling maps: xfvk→xsk, ivk→xfvk, the ovk set, addr→ivk, the ivk set,
    addr→(ivk, path), and ivk→last path.

**Operations.** The model has one action per mutating method:

- `AddKeyPubKey`, `AddKey`;
- `AddCScript`, which fails with no change above `MAX_SCRIPT_ELEMENT_SIZE`;
- `Add/RemoveWatchOnly`, `Add/RemoveSaplingWatchOnly`;
- `SetHDSeed`, which is write-once;
- `AddSproutSpendingKey`, `AddSproutViewingKey`, `RemoveSproutViewingKey`;
- `AddSaplingIncomingViewingKey`;
- `AddSaplingFullViewingKey`, which calls the former for the default address;
- `AddSaplingSpendingKey`, which calls the former;
- `AddSaplingDiversifiedAddess`, `AddLastDiversifierUsed`.

The lookups are operators, including the composite
`GetSaplingExtendedSpendingKey` (addr → ivk → xfvk → xsk).

**Hard behaviours.**

- Any thread may call any method. The two partitions interleave freely.
- The nested calls of `AddSaplingSpendingKey` must appear atomic.
- `AddSaplingIncomingViewingKey` overwrites an existing binding. The comment
  above it and spec §3/§8 promise that it does not.

### ConsolidationJob (`SaplingConsolidation.tla`)

**State.** The operation's state (READY, EXECUTING, CANCELLED, FAILED,
SUCCESS), `targetHeight_`, and the locals of `main_impl`:

- the `mapAddresses` snapshot;
- the address-loop position;
- `consolidationComplete`, `amountConsolidated`;
- the tx ids;
- the result that `setConsolidationResult` stores.

The wallet and chain contribute:

- the tip;
- the notes spent by the wallet;
- `nextConsolidation`, `fConsolidationRunning`;
- the committed transactions.

**Operations.**

- `main()`:
  - the `isCancelled()` check;
  - the separate `set_state(EXECUTING)`;
  - the catch-all that turns an exception into FAILED;
  - SUCCESS at the end.
- `main_impl()`:
  - the upgrade-window guard;
  - note enumeration under `LOCK2`;
  - the address loop, with the spending-key skip, the target-count skip, the
    randomised `maxQuantity` selection and the `minQuantity` skip;
  - fee computation, the expiry from the current tip, witnesses (break at
    the first missing one), `Build()`, the cancel checkpoint and the commit;
  - the completion branch and the result.
- `cancel()`.

**Hard behaviours.**

- `cancel()` races the worker thread.
- New blocks and other wallet spends interleave with a pass that holds no
  lock between its reads.
- A builder failure breaks out of the whole loop. A missing witness breaks
  only the spend loop.
- Counters and accounting can go wrong at the edges of a batch.
- The running flag must not be cleared by a pass that did work.

### Properties per component

| Component | Properties |
|---|---|
| KeyStore | `ExtSpendingKeyLookup` (the lookup returns every stored key from its default address and never a foreign key); `NoKeyMaterialLost` (no key, seed, binding or path is lost or replaced); `SproutKeysDecryptable` (every Sprout address with a key keeps its note decryptor); `KeyStoreRefines` (the store implements `AbstractKeyStore`); `OneIvkPerAddress` (the comment's promise, checked as a violation run) |
| SaplingConsolidation | `FeeRule`; `BatchBounds`; `NoNoteConsolidatedTwice`; `RunningClearedOnlyByIdlePass`; `ConsolidationRefines` (the operation implements `AbstractConsolidation`); `JobTerminates`; eight statements of the spec or the comments that the code breaks (§5) |

## 2. Modules and how they correspond to the code

| Module | Role |
|---|---|
| `KeyStore.tla` | `CBasicKeyStore`. Key material is abstracted to identifiers. A Sapling key family `k` stands for an xsk and all that derives from it (xfvk, ivk, ovk, default address). A map whose value derives from its key is the set of its keys. `mapKeys`, addr→ivk, addr→path and ivk→path are functions with the sentinel `NoKey`. `ret` is the value of the last call. |
| `MCKeyStore.tla` + `MCKeyStoreSapling.cfg`, `MCKeyStoreTransparent.cfg`, `MCKeyStoreIvkOverwrite.cfg` | Model values for keys, ids, scripts (one of exactly 520 bytes and one of 521), seeds, two key families, three addresses (`a3` a diversified address of `K1`) and two paths. |
| `AbstractKeyStore.tla` | What the store promises its callers, with the derivation maps left out. Keys are filed under their own id. The seed is written once. A Sprout address, once decryptable, stays so. A Sapling address gains a viewing key and a spending key at most once each, always its owner. It never gains spending authority without viewing authority. It has no `map` entries. |
| `KeyStoreProofs.tla` | TLAPS proofs about `KeyStore`, the refinement included. |
| `SaplingConsolidation.tla` | The operation, the wallet's scheduler and the chain. Each step of the worker thread between two reads of shared state is one action: `MainCancelled`, `MainStart`, `SetExecuting`, `SkipBeforeUpgrade`, `Enumerate`, and one action per outcome of a loop iteration (`SkipAddress`, `SkipBelowMinimum`, `BuildFailed`, `BuildThrew`, `Commit`), then `Finish`. The environment acts between any two of them: `Cancel`, `NewBlock`, `OtherSpend`, and `Launch`, which queues the next operation. The order of notes within a vector is left nondeterministic: a batch is any subset of the selection size. The random `maxQuantity`/`minQuantity` draws and the outcome of `Build()` are nondeterministic choices. |
| `MCSaplingConsolidation.tla` + `MCSaplingConsolidation*.cfg` | Six notes on three addresses; address 3 has no spending key. Note `n5` has no witness. Two notes are too young at the start. |
| `AbstractConsolidation.tla` | What a consolidation promises the wallet, without the operation's control flow: at any step a transaction may be committed that spends, for an address with a spending key, some of its notes confirmed `MinDepth` times that no earlier consolidation spent. Blocks and other spends happen meanwhile. It has no `map` entries: it is the promise, not a translation of code. |
| `ConsolidationProofs.tla` | TLAPS proofs of `FeeRule` (with the type lemma `TypeCorrect`), `BatchBounds`, `NoNoteConsolidatedTwice`, `RunningClearedOnlyByIdlePass` and the refinement. |
| `SumLemmas.tla` | TLAPS proof that `MapThenSumSet` of natural values over a finite set is a natural (`SumNat`), which `SumValue` rests on. It models no code. |

`SaplingConsolidation` instantiates the abstract module as `Abs`. The
refinement mapping keeps `tip` and `spent`. It maps `committed` to the set
of `[addr, spends]` pairs of its transactions, dropping the job id, the
amounts, the expiry and the target. `ConsolidationRefines == Abs!Spec`.
A `Commit` maps to `Abs!Consolidate`, `NewBlock` and `OtherSpend` to their
abstract namesakes, and every other step to a stutter. The promise leaves
out "still unspent by other wallet calls", because the code does not keep
it (finding 7).

`KeyStore` instantiates `AbstractKeyStore` as `AbsKS`. The mapping keeps
`mapKeys`, `hdSeed`, `mapNoteDecryptors` and the addr→ivk map. It maps each
address's spending key to what `GetSaplingExtendedSpendingKey` resolves it
to through the addr → ivk → xfvk → xsk chain. `KeyStoreRefines == AbsKS!Spec`.
`AddKey`, a first `SetHDSeed` and the two Sprout adds map to their abstract
namesakes. Every other method maps to `Authorize` or to a stutter. This
includes scripts, watch-only sets, `RemoveSproutViewingKey` and every
Sapling method.

`Launch`, `NewBlock`, `OtherSpend` and the two `Init`s model code outside
these files. They are marked `spec_modelled` in `PROJECT.json`. `Launch`
follows spec §4.2/§5: the scheduler queues an operation for the current tip
when `tip >= nextConsolidation` or when `fConsolidationRunning` is set, and
only after the previous operation has finished.

## 3. Runs, bounds and fairness

| Run | Result | What it shows |
|---|---|---|
| `keystore_sapling` | pass, 46 080 states | Every interleaving of the shielded methods over 2 key families, 3 addresses, 2 paths and 2 seeds keeps `ExtSpendingKeyLookup` and `NoKeyMaterialLost`, and implements `AbstractKeyStore` (`KeyStoreRefines`). |
| `keystore_transparent` | pass, 30 720 states | Transparent keys, scripts and Sprout keys are never lost, across `RemoveSproutViewingKey`, and every Sprout address with a key keeps its decryptor (`SproutKeysDecryptable`). The run also checks `KeyStoreRefines`. |
| `keystore_ivk_overwrite` | violation | `AddSaplingFullViewingKey(K2)` then `AddSaplingIncomingViewingKey(K1, a2)` rebinds `a2`. |
| `consolidation` | pass, 467 300 states, about 2 min | Two operations interleaved with blocks up to height 4, other spends and cancels satisfy `FeeRule`, `BatchBounds`, `NoNoteConsolidatedTwice`, `RunningClearedOnlyByIdlePass` and `JobTerminates`, and implement `AbstractConsolidation` (`ConsolidationRefines`). Two launches already let a second pass meet the first one's commits and the running flag it left. With three launches the run reaches 803 565 states and passes as well, but the refinement check then takes about 4 minutes. |
| `consolidation_<P>` (8 runs) | violation | See §5. |

The two KeyStore partitions share no state, so each run makes one partition
large and the other minimal.

The consolidation constants are scaled so that every branch is reachable:

- minDepth is 2 and the expiry delta 2;
- the upgrade is at height 5, so targets 3 and 4 fall inside the window;
- the fee is 2, so batches worth 2 or less pay none;
- the target count is 2;
- `maxQuantity` is 2 and `minQuantity` is 2 or 3, so the minimum can exceed
  the selection, as 2..11 can exceed 10..44 in the code;
- address 3 has one note and no key;
- the missing witness makes an unbalanced build possible.

`MaxHeight = 4` and `MaxLaunches = 2` bound the chain and the scheduler. The violation runs use `MaxLaunches = 3`.

**Fairness.** Only `WF_vars(JobStep)` is assumed. The worker thread keeps
running the operation it picked up, and no step of it waits for another
actor: the locks it takes are always released by their holders. Nothing is
assumed of cancels, blocks or the scheduler. `JobTerminates` holds under
this fairness alone.

Every property of a passing run has a mutant in `PROJECT.json`: a plausible
code change under which TLC finds the property violated.

| Property | Mutant |
|---|---|
| `FeeRule` | `<` for `<=` |
| `BatchBounds` | the selection breaking one note late |
| `NoNoteConsolidatedTwice` | `GetFilteredNotes` not ignoring spent notes |
| `RunningClearedOnlyByIdlePass` | the `if (consolidationComplete)` dropped |
| `ConsolidationRefines` | the depth test of `GetFilteredNotes` one confirmation short |
| `JobTerminates` | a `continue` that does not advance |
| `ExtSpendingKeyLookup` | the nested fvk call dropped |
| `NoKeyMaterialLost` | the seed guard dropped; the spending key erased with the viewing key |
| `SproutKeysDecryptable` | `RemoveSproutViewingKey` also erasing the decryptor |
| `KeyStoreRefines` | the seed guard dropped (transparent run); removing a watch-only xfvk also erasing its full viewing key (Sapling run) |

## 4. Proofs (TLAPS)

`KeyStoreProofs.tla`, from `KeyStoreAssumption`:

- **`TypeCorrect`**: `Spec => []TypeOK`. The proof is one step per method.
  The ones with an early return are split on the guard. `TypeOK` is a
  lemma the other proofs rest on, not a property of a run. The C++ types
  already enforce it, so no plausible code change could break it.
- **`LookupCorrect`**: `HonestBindings => (Spec => []ExtSpendingKeyLookup)`.
  `HonestBindings` says that callers of `AddSaplingIncomingViewingKey` pass
  the ivk the address derives from, as the wallet's address generators do.
  Without it the property fails (the violation run above).
  `ExtSpendingKeyLookup` is not inductive. The inductive invariant `IInv`
  adds these conjuncts:
  - every bound address is bound to its owner (`AddrBoundToOwner`);
  - every full viewing key's default address is bound
    (`DefaultAddrBound`);
  - every spending key has its fvk (`SpendingKeyHasFvk`);
  - a stored transparent key sits under its own id (`KeyUnderOwnId`);
  - a stored path is its address's (`PathBoundToAddr`).

  The lemma `BindOwner` handles both ways a binding is written: directly, or
  nested in `AddSaplingFullViewingKey`. TLC checked `IInv` on both KeyStore
  instances before it was proved.
- **`KeyMaterialNeverLost`**: `HonestBindings => (Spec => NoKeyMaterialLost)`.
  Under `IInv` every rewrite of an existing entry writes back the value it
  holds:
  - `AddKey` rewrites `mapKeys[id]`; `KeyIdOf` is injective;
  - `AddSaplingIncomingViewingKey` rebinds an address to its owner;
  - `AddSaplingDiversifiedAddess` rewrites the path, and it is the
    address's own.
- **`DecryptorsKept`**: `Spec => []SproutKeysDecryptable`. It holds without
  any assumption and is inductive as it stands. Every method that adds a
  Sprout key adds its decryptor. `RemoveSproutViewingKey` removes only the
  viewing key and leaves the decryptor.

- **`KeyStoreRefinement`**: `HonestBindings => (Spec => KeyStoreRefines)`.
  The initial state maps to the abstract one. The step lemma `AbsStep`
  assumes `IInv` before and after the step. It uses `KeptStep` to get
  `KeyMaterialKept`, then:
  - `AddKey`, a first `SetHDSeed` and the Sprout adds are their abstract
    namesakes;
  - a `SetHDSeed` that finds a seed is a stutter;
  - every other method leaves keys, seed and decryptors alone.
    `AuthorizeStep` shows it is an `Authorize`. `AddrBoundToOwner'` bounds
    the new ivks. A resolved spending key is the address's bound ivk, whose
    fvk and xsk are stored. `KeyMaterialKept` keeps all three, so a
    resolved key stays resolved. A key resolves only through the address's
    own ivk, so spending authority comes with viewing authority.
  TLC checked `KeyStoreRefines` on both instances before the proof.

`ConsolidationProofs.tla`, from `ConsolidationAssumption`:

- **`NoDoubleConsolidation`**: `Spec => []NoNoteConsolidatedTwice`. The
  inductive invariant `CInv` says three things:
  - every committed transaction's notes are in `spent`;
  - the snapshot groups notes by their own address;
  - the snapshot of every address still to visit meets no committed
    transaction.

  A commit removes its address from the to-do list. Enumeration takes only
  unspent notes. So a new transaction's notes meet no earlier one's. TLC
  checked `CInv` on the consolidation instance (803 565 states) before it
  was proved.
- **`IdlePassOnly`**: `Spec => RunningClearedOnlyByIdlePass`. It rests on
  two invariants:
  - `JobsNumbered`: no committed transaction's job id exceeds `launches`;
  - `CompleteMeansIdle`: while `consolidationComplete` holds, the current
    operation has committed nothing. Every iteration that goes on to build
    clears the flag first (`Consolidating`).

  `Finish` clears `fConsolidationRunning` only under `consolidationComplete`,
  so the action property follows. TLC checked both invariants first.
- **`Refinement`**: `Spec => ConsolidationRefines`. It rests on `CInv` and
  on `RInv`, which TLC also checked first. `RInv` says that every note in
  the snapshot is a note of the wallet confirmed `MinDepth` times at the
  current tip (`Deep`). Enumeration takes notes confirmed at the tip it
  reads, and `NewBlock` only deepens them. At a commit:
  - `Grouped` gives the address condition;
  - `Deep` gives the confirmation;
  - `SnapshotFresh` gives "no earlier consolidation spent it";
  - `Consolidating` gives the spending key.

- **`BatchesBounded`**: `Spec => []BatchBounds`. Every committed
  transaction spends notes of its own address only, and no more than some
  `maxQuantity` can draw. It rests on `CInv` and `RInv`:
  - the address part follows from `Grouped`;
  - the size part is the lemma `SpendsWithinMax`. The spends are a subset
    of the batch, and a batch (`Batches`) has at most
    `Min({q, |mapAddresses[a]|})` notes for a drawn `q`. The snapshot is
    finite, because `RInv` keeps it inside the finite `Notes`
    (`ConsolidationAssumption` now says `Notes` is finite). So
    `FS_Subset` and `FS_CardinalityType` bound its cardinality.

  The lower bound ("at least `minQuantity` spends") is not part of
  `BatchBounds`. It is false (finding 9).

- **`TypeCorrect`**: `Spec => []TypeOK` for the consolidation module. As
  for the key store, it is a lemma and no run checks it. It is
  inductive as it stands. The proof splits `TypeOK` in two:
  - `TypeBool`, the three flags, goes to Zenon (`BoolStep`);
  - `TypeData`, the rest, goes to SMT (`DataStep`), one step per action.
  The only non-trivial conjuncts are `amountConsolidated \in Int` and
  `committed \subseteq Tx`. Both need the value of a batch to be a
  natural. `BatchValue` shows that a batch and its spends are notes of the
  wallet, and `SumValueNat` gives their value from `SumNat` (below).
- **`FeeRuleHolds`**: `Spec => []FeeRule`. `FeeRule` is inductive together
  with `TypeOK` (`FeeStep`). Only `Commit` adds a transaction. Its guard
  `Balanced` makes the spends worth `amountToSend`, and `amountToSend` is a
  natural (`BatchValue`). `FeeFor` then gives:
  - a fee of 0 or `TxFee`;
  - an output of `amountToSend - fee`, which is not negative;
  - an output that is positive whenever the fee is.
  The statement is `FeeRule` as the run checks it, for every note value and
  every fee.

`SumLemmas.tla` (no assumptions):

- **`SumNat`**: for `F \in [D -> Nat]` and a finite `S \subseteq D`, the
  sum `MapThenSumSet(LAMBDA n : F[n], S)` is a natural. The community
  module's own theorems about `MapThenFoldSet` take an operator parameter,
  and the installed provers cannot instantiate one. So `SumLemmas` unfolds
  the definition by hand. `MapThenFoldSet` is a recursive function over
  `SUBSET S`, which `tlapm` reads as `CHOOSE g : g = [s \in SUBSET S |-> ...]`
  (`SumIter`). The argument has two parts:
  - existence (`AllLayers`, `IterSolves`): a solution on the subsets of at
    most `n` elements extends to `n + 1` (`LayerStep`). A least `n` with no
    solution, taken with `WFMin` over `NatLessThanWellFounded`, cannot
    exist. At `n = Cardinality(S)` the layer is all of `SUBSET S`;
  - naturals (`SolutionNat`): a least subset, by cardinality, with a value
    outside `Nat` would have a smaller one too.
  No operator in it is `RECURSIVE`, so the module stays within SMT's reach.

The following stay with TLC only:

- `JobTerminates`, because liveness (and `ENABLED`) is beyond TLAPS;
- the violation runs. Each is a counterexample TLC finds, not a theorem.

## 5. Findings

The code disagrees with its own comments or the spec in nine places. Each
one is a violation run with one property.

1. **`OneIvkPerAddress`** (keystore.cpp:214). `AddSaplingIncomingViewingKey`
   overwrites. The comment above it says the map stays unchanged.
2. **`ReportedTxCount`** (:119). `numTxCreated` is never incremented. The
   spec's design note flags this.
3. **`ReportedAmount`** (:183, :235). The amount is counted before the build
   and again after the commit.
4. **`CancelledIsFinal`** (:28, :56-60). `cancel()` is overwritten by
   `set_state(EXECUTING)` and by the final SUCCESS/FAILED.
5. **`NoCommitAfterCancel`** (:25-28). A cancel between the check and
   `set_state(EXECUTING)` is lost and the pass commits.
6. **`ExpiryBeforeUpgrade`** (:76 vs :187). The guard uses `targetHeight_`
   but the expiry uses the current tip. A block during the pass pushes the
   expiry to the upgrade.
7. **`NoStaleSpend`** (:91 vs :233). A note spent by another wallet call
   after the snapshot is committed again.
8. **`IdlePassCompletes`** (:155 vs :175-177). A pass that skipped its only
   candidate at `minQuantity` is not complete, although spec §4.2 step 5
   says it is.
9. **`MinQuantityMet`** (:176 vs :211). The minimum is checked on the
   selected notes. The spend loop then stops at the first note without a
   witness. If the notes it leaves out are worth 0, the transaction still
   balances and is committed with fewer spends than the comment "random
   minimum 2 - 12 required" and spec §4.2 step 3c require. The run gives
   `n5` (no witness) the value 0.

## 6. Not modelled, and what remains

- **Not modelled:**
  - JSON formatting of the result and status (`setConsolidationResult`,
    `getStatus`);
  - logging;
  - error codes and messages (an exception is just FAILED);
  - the transaction builder, proving and witnesses beyond "present or
    missing";
  - persistence.
- **Still static:** the key store inside the consolidation model. The
  per-note `GetSaplingIncomingViewingKey` calls (:142, :160) run after the
  lock is released. They could only see a different ivk if an address's
  ivk were overwritten in between. Under honest bindings no method
  overwrites one (`KeyMaterialNeverLost`). With a mismatched binding,
  `AddSaplingIncomingViewingKey` does overwrite it (finding 1), and that is
  where the two lookups can disagree. So the hazard is covered by these two
  KeyStore results rather than by a composed model.
- **Next:**
  - overlapping operations. The running flag is advisory (spec §5), and the
    scheduler that would launch a second operation is not in the source
    files;
  - facts about `SumValue` beyond its type. `ReportedAmount` (finding 3)
    would need additivity over a disjoint union. `SumLemmas` proves only
    that a sum is a natural, and additivity would need the same
    layer-by-layer construction again.
