# ArtGod in TLA+

ArtGod is a local-first desktop platform for NFT collections. A Tauri
application supervises a NATS server, a backend API and a set of indexer
workers, all processes of their own that share one SQLite database, and, on
request, trading bots that hold a wallet key. This directory models the parts
of it whose correctness depends on the order in which processes, threads and
messages act, model-checks them on small instances and proves part of it for
every instance.

## The system and its parts

| Part | Where | Here |
| --- | --- | --- |
| Canonical chain as an RPC endpoint shows it | `indexer/src/infra/rpc` | `CanonicalChain` |
| Acquisition of a block range (logs, headers) | `indexer/src/application/sync-range-processing.ts`, `sync-blocks.ts` | `SyncAcquisition`, `AtomicRangeRead` |
| Fenced commit of a range, stored headers, pending checks | `indexer/src/infra/storage/sqlite*.ts` | `ReorgRecovery`, `SyncAcquisition` |
| Reorg detection, ancestor proof, rollback, resync | `indexer/src/application/reorg-*.ts`, `domain/reorg-*.ts` | `ReorgRecovery`, `ReorgFork` |
| Backfill gate of the sync worker | `indexer/src/application/backfill-execution.ts` | `BackfillGate` |
| Follow-ups: outbox, drainer, broker, worker runner, activities | `indexer/src/infra/queue`, `application/queue-outbox`, `application/worker-runner.ts`, `infra/domain/activities.ts` | `SyncFollowUps` |
| ERC-721 owners: projection, checkpoints, bootstrap anchor | `indexer/src/domain/ownership.ts`, `infra/bootstrap` | `OwnershipProjection` |
| Bot lifecycle and supervisor loop | `src-tauri/src/runtime`, `src-tauri/src/wallet/tauri/bot_commands.rs` | `BotLifecycle` |
| Gap discovery, scheduler | `indexer/src/application/sync-gap-scheduler.ts` | planned |
| Order validation demand, maker revalidation, admission | `indexer/src/application/orders`, `infra/orders` | planned |
| Bootstrap step orchestrator | `indexer/src/application/bootstrap-step-*.ts` | planned |
| Bidding command reconciler, rate limiter | `trading/src` | planned |
| RPC budget and resilience | `shared/evm` | planned |
| Backend API, frontend, extensions, off-chain ingestion, wallet cryptography | `backend`, `frontend`, `shared` | not modelled |

`PROJECT.json` has the full list with the reason for each part left out, the
lines every definition stands for, and the hazards.

How the parts meet. The *sync worker* acquires ranges of blocks over RPC and
commits them; each stored block is owed a check against the canonical chain
until it is deeper than the configured reorg depth. The *reorg worker* performs
those checks; a mismatch becomes a row of a journal, from which an attempt
proves a common ancestor, rolls the database back and leaves a resync for the
sync worker. *Bootstrap* pins an anchor block, snapshots the owners at it and
backfills to the head. Every commit also inserts *follow-ups* into an outbox;
the drainer publishes them to the broker and the domain worker turns facts into
activities. `chain_sync_revisions` is the fence between them: a rollback
advances it, and what was acquired at an older revision is refused.

## Modules

`writeTransaction` opens an immediate SQLite transaction, so a transaction is
one step of a model; RPC reads, publications and everything between two
transactions are steps of their own, at which any other process may act or the
process may stop.

**CanonicalChain.** The chain is a branch of labelled blocks; a hash is the
whole branch up to a height, so equal hashes have equal ancestors. `NewHead` and
`Reorg` are the endpoint's; a reorg replaces less than the configured depth. The
modules that read the chain extend this one.

**ReorgFork.** `proveReorgAncestor` as a relation between the captured stored
window and the canonical headers.

**ReorgRecovery.** State: stored headers, pending checks, revision, journal row,
bootstrap anchor, whether any collection is eligible for sync (`eligible`: live or
bootstrapping, `listCollectionsForSync`), the reorg worker's attempt and the sync
worker's acquisitions; `proved` and `owed` are history variables. One action per transaction or await of
`RecoverChainReorg` (`ReadCheckHead`, `SelectCheck`, `ObserveBlock`,
`CompleteCheck`, `RetainMismatch`, `Resume`, `ProveAncestor`, `ReadSnapshot`,
`ReadResyncHead`, `CommitRollback`, `FailAttempt`) and of a range acquisition
(`BeginDirect`, `BeginResync`, `BeginGapRepair`, `ObserveHead`, `FetchBlocks`,
`CommitRange`, `ConflictingRange`, `RetainConflict`, `DropRange`). No range begins
without an eligible collection; the operator may purge the anchored collection and
add one at any time (`PurgeCollection`, `AddCollection`), which leaves blocks,
revision and journal as they are. Gap repair asks for a live collection; the
eligible ones are taken to include one. A crash is a `FailAttempt` or `DropRange`:
what an attempt holds is memory. Three things the
model makes visible: the parent-hash evidence of the ancestor proof is only
conservative (the direct comparison suffices for safety);
`refreshCheckpoint` is never reached, because the journal is always at the
current revision (`RecoveryAtRevision`); and the window comparison in the
rollback transaction matters only with two sync slots and two reorgs, beyond the
instance TLC explores but inside the proof.

**SyncAcquisition** reads a range one block at a time: logs, headers, and the
recheck of the tip. **AtomicRangeRead** is what such a read promises: the
headers are those of one moment. The first is shown to implement the second
under the mapping of `AtomicRead`.

**SyncFollowUps.** Commits and rollbacks that insert and drop outbox rows, the
drainer's selection, publication and settlement as separate steps, the broker
with redelivery, deduplication and dead letters, and the domain worker's
handlers. The projection of activities is a read and row-by-row inserts, as in
the code.

**OwnershipProjection.** One token: ranges committed in any order, rollback plans
whose owners are read over RPC beforehand, and the bootstrap steps with a crash
between finalizing the snapshot and finishing the step. Ranges are one view of
the chain (from `SyncAcquisition`) and forks are right (from `ReorgRecovery`).

**BackfillGate.** The gate's queue, its active task and settlements.

**BotLifecycle.** The coordinator's slots and cancellations, the controllers and
visible states, start commands, stop commands, the wallet assignment, the bot
threads, the manager's command on the core and the supervisor loop. One step is
one critical section or one check of a polling thread. A stop's generation is
the stopper's identity; `starting` and `restarting` of the core are one state,
because a bot only asks whether the core is `running`; the two current bots
declare no critical process, so that question is the whole dependency check. The
validation in `commit_start` is the first of two fences: a generation cancelled
before its commit and one cancelled right after it reach the same state, and the
thread of either refuses to spawn its process. `CoreFenced` therefore rests on
every generation being cancelled by a change of the core, committed or not.
Locks are not poisoned and events to the webview do not fail.

## Runs

Twelve runs, listed in `PROJECT.json`; states are distinct states.

| Run | Question | Instance | Result |
| --- | --- | --- | --- |
| `backfill_gate` | Is the gate exclusive, never idle with a waiter, fair to main work? | 3 main, 2 gap, 1 facts-only task | holds |
| `reorg_recovery` | Is every orphan owned, a proved window final, a removed block owed? | 4 blocks, depth 2, 2 reorgs, batch 2, one acquisition, no purge; 2.0 M states | holds |
| `reorg_recovery_live` | Do orphans go and recoveries end? | blocks 2 to 4, depth 2, 2 reorgs, batch 1, purges at any time; 151 k | holds |
| `sync_acquisition` | Is an acquired range one moment of the chain, are facts those of the headers? | 3 blocks, depth 3, 2 reorgs, ranges of 2; 151 k | holds |
| `covered_complete` | Are the events of a covered block stored? | the same | violated |
| `follow_ups` | Does every event hint and activity survive commits and rollbacks? | 2 blocks, 2 commits, 1 rollback; 298 k | holds |
| `follow_ups_live` | The same with a fault; are events handled? | 1 block, 1 fault, 1 other job, 1 attempt; 329 k | holds |
| `activity_race` | Is an activity row always of a stored fact? | 1 block, no fault | violated |
| `ownership_projection` | Is the balance row the owner on the chain, never older than the anchor, and never rewritten by history at or before it? | 4 blocks, 2 reorgs, 2 rollbacks, one worker; 1.9 M | holds |
| `bootstrap_owner` | Is a live collection's owner right? | 3 blocks | violated |
| `bot_lifecycle` | One process per bot, stops that hold and return, no start across a core change? | one bot, start, stop, 2 generations, 2 core events; 345 k | holds |
| `terminal_cleanup` | Is "stopped" shown only after cleanup? | the same | violated |

Each property of a passing run is paired with a mutated definition, a plausible
bug of the same code, that violates it.

*Why the bounds suffice for the cases of interest.* With a depth of 2 and four
blocks a block is stored, orphaned, checked, confirmed, rolled back and stored
again, and a second reorg falls into the recovery of the first. Purges are left to `reorg_recovery_live` (`MayPurge`): for safety the proofs cover
them, with any instance. In both reorg runs the first block ranges start at can itself be the orphan. Two
blocks are needed in `follow_ups` for a range job that loses half its range;
one suffices for faults, because a fault concerns one row or one message. One
attempt in `follow_ups_live` lets a single fault reach the dead letter queue and
a terminal row. In `ownership_projection` four blocks put history below an
anchor at height 2; every block there transfers or burns the token, and ranges of
other collections stand for ranges with nothing to project. Two core events are a
start and a crash, with the restart the loop makes by itself, or a start and a
stop. Two bot generations are a process and its successor.

*Deadlock.* The bot run checks it. The others say `CHECK_DEADLOCK FALSE`: they
reach states where the bounds leave nothing to do.

*Symmetry* of block hashes is used in `follow_ups` alone, never with a liveness
property.

## Fairness

- `BackfillGate`: a running task settles: its RPC and database calls are taken
  to return or to fail. Nothing is assumed about arrivals.
- `ReorgRecovery`: weak fairness of the reorg worker's step and of each
  acquisition's step, because both processes poll; and from some point on calls
  stop failing and direct ranges stop arriving (`Quiet`). The chain settles
  because its heads and reorgs are bounded.
- `SyncFollowUps`: weak fairness of the drainer and of each queue's consumer;
  failures are bounded.
- `BotLifecycle`: weak fairness of what the start command does by itself, of
  stops, of the assignment and of the bot threads. The operator may leave a
  prompt open for ever, a process may run for ever, and the supervisor loop need
  not move.

Both liveness properties of recovery are stated for behaviours in which some
collection is eligible from some moment on (`<>[]eligible`). Without it they fail:
`runReorgResync` returns when there is none, so "an empty eligible set leaves
recovery pending" (docs/indexer/06-reorg-handling.md:182), and gap repair, which
fetches the headers a proof may need, asks for a collection too. Before that moment
collections come and go freely.

Two outcomes are excepted from the liveness of recovery, because the code leaves
them pending: a fork below a bootstrap anchor (`BlockedByAnchor`), and an orphan
branch that leaves the chain at or below the first block ranges start at, for
which no ancestor can be stored (`NoAncestor`). Both occur in the instance; the
second then retries for ever, as docs/indexer/06-reorg-handling.md:218 says. A
third exception belongs to the bound: when the chain ends at `MaxBlock`, an orphan
at its tip is never deep enough for its check, and a resync that meets it waits
(`ChainEnds`).

## Proofs

| Theorem | Statement |
| --- | --- |
| `GateSafety` | types, exclusion and no lost wakeup, for any sets of tasks |
| `RecoverySafety` | `TypeOK`, `OrphanOwned`, `ProvedWindowCanonical`, `RolledBackOwed`, `RecoveryAtRevision` |
| `HistoryStable` | `StoredStable` |

The last two hold for any labels, depth, chain length, number of reorgs, batch
size and set of acquisitions, with collections purged at any time or never. They use the named assumptions of the modules:
`ChainAssumption`, `RecoveryAssumption`, `NoneAssumption`, and
`TaskClassesAssumption` for the gate.

`OrphanOwned` is not inductive: it says nothing of blocks that are canonical now,
nor of what attempts hold in memory. The inductive invariant `IInv` has three
parts. `DbInv`: a stored block is owed a check, covered by the recovery, or
*final*, that is at a confirmed height and equal to the chain's. `SlotsInv`: the
headers an acquisition holds are right at every height confirmed by the head it
observed, and, if its revision is current, at every proved height. `WorkerInv`:
the reorg worker's attempt still matches the journal row it started from, if that
row is there, and its window is canonical below the fork. The hinge is
`ConfirmedStable` in `CanonicalChain_proofs`: a confirmed hash never changes, so
what an attempt remembers of confirmed heights stays true across any
interleaving, and the transaction re-asserts the rest. `ReorgRecoverySync_proofs`
has the invariant and the steps of chain, collections and acquisition;
`ReorgRecovery_proofs` those of the reorg worker, and the conclusions.

Only model-checked: all liveness, the refinement `AtomicRead`, and everything
about follow-ups, ownership and bots. Liveness under fairness and `ENABLED` are
beyond the installed prover.

## Where the code and its comments disagree

- `covered_complete`: logs are read before headers. If the branch the logs came
  from has no event there is no fact to compare with the headers of the other
  branch; the range is recorded as covered and a canonical event is missing
  (`domain/sync-result.ts:42`).
- `activity_race`: the activity projection selects facts and inserts rows without
  a transaction; a rollback in between leaves activity of a removed fact
  (`infra/domain/activities.ts:403`).
- `bootstrap_owner`: finalizing the snapshot after realtime sync projected a newer
  transfer leaves the anchor's owner, because the backfill's `INSERT OR IGNORE`
  adds nothing and so projects nothing (`infra/bootstrap/sqlite.ts:563`).
  `OwnerMatchesChain` is stated for the other cases: the history variable
  `missed` records the transfers this one loses, and those of a range acquired
  before its collection had an anchor.
- `terminal_cleanup`: a start whose config does not load publishes "stopped"
  although the loop runs; the next start joins that loop
  (`runtime/supervisor.rs:262`).

## Not modelled

Reorgs at or beyond the configured depth (docs/indexer/06, "Current Limits");
deferral by quota or schedule; chunking, retries and fallback inside an RPC call;
ERC-1155, fills, extension events and token sets; the purge of the collection in
`OwnershipProjection`; two sync acquisitions at once
in TLC (the reorg proofs cover any number); shutdown of several bots one after
the other; poisoned locks and failing webview events. User interface, read API,
media fetching, wallet cryptography and third-party streams are formatting or
I/O whose guarantees the source does not state.

## Plan

1. Admission of order validation (`fair-validation-admission.ts`): the limit
   shared by main and gap work and the abort of waiters, with liveness of each
   class; then validation demand and maker revalidation, their generations and
   leases against rollbacks.
2. Gap discovery and the scheduler, composed with `ReorgRecovery`, which takes
   the repair of any missing block as given.
3. The bootstrap step orchestrator: dependencies, leases and the writes they do
   not fence.
4. The bidding command reconciler (claim, apply, complete, retry across crashes)
   and the token bucket of the trading bot.
5. Proofs: `OneProcess`, `CoreFenced` and `ShownOwned` of the bots, `EventOwned`
   of the follow-ups, `AnchorFloor`, and the steps of the refinement `AtomicRead`.
