---------------------------- MODULE ReorgRecovery ---------------------------
(***************************************************************************)
(* Chain history under reorgs: range commits by the sync worker, delayed    *)
(* canonical checks and rollback by the reorg worker, resync of what a      *)
(* rollback removed.  The two workers are separate processes that share one *)
(* SQLite database; each write transaction is atomic, nothing else is.      *)
(*                                                                         *)
(* One action is the code between two awaits or two transactions.  A failed *)
(* RPC call, a thrown conflict and a process crash all leave the database   *)
(* as it was and drop the attempt (retry_at is abstracted: due work may be  *)
(* retried at any time).                                                    *)
(***************************************************************************)
EXTENDS CanonicalChain, ReorgFork

CONSTANTS
    BatchSize,      \* BACKFILL_BATCH_SIZE
    FirstBlock,     \* bound: the lowest block a range starts at, such as
                    \* the bootstrap anchor of the only live collection
    MayPurge,       \* bound: whether collections are purged
    Slots           \* concurrent acquisitions of the sync worker

ASSUME RecoveryAssumption ==
    /\ BatchSize \in Nat \ {0}
    /\ FirstBlock \in Nat \ {0}
    /\ MayPurge \in BOOLEAN

VARIABLES
    stored,         \* blocks: height -> block_hash
    pending,        \* heights with canonical_check_pending = 1
    revision,       \* chain_sync_revisions.revision
    recovery,       \* the chain_reorg_recoveries row
    lastId,         \* recovery identities handed out by randomUUID
    anchor,         \* MAX(bootstrap_anchor_block)
    eligible,       \* some collection is live or bootstrapping
    worker,         \* the reorg worker's current attempt
    slot,           \* the sync worker's acquisitions
    proved,         \* history: heights of committed ancestor-proof windows
    owed            \* history: rolled-back heights not resynced yet

collections == <<anchor, eligible>>
db == <<stored, pending, revision, recovery, lastId, collections>>
ghosts == <<proved, owed>>
vars == <<chainVars, db, worker, slot, ghosts>>

Revisions == Nat

Awaiting ==
    [phase : {"awaiting"}, id : Nat, version : Nat, revision : Revisions,
     checked : Heights, resumeFrom : Heights \cup {None}]

Resync ==
    [phase : {"resync"}, id : Nat, version : Nat, revision : Revisions,
     checked : Heights, from : Heights, to : Heights, target : Heights]

ASSUME NoneAssumption == None \notin Heights \cup Hash \cup Awaiting \cup Resync

\* A local header window: None outside it and where no header is stored.
Window == [Heights -> Hash \cup {None}]

\* The reorg worker's pass: "idle" before resumeDue, "checkDue" after it.
WorkerState ==
    [pc : {"idle", "checkDue"}]
    \cup [pc : {"head"}, head : Heights]
    \cup [pc : {"check"}, block : Heights, hash : Hash, revision : Revisions]
    \cup [pc : {"observed"}, block : Heights, hash : Hash,
          revision : Revisions, seen : Hash]
    \cup [pc : {"history"}, expected : Awaiting, window : Window]
    \cup [pc : {"plan", "snapshot"}, expected : Awaiting, window : Window,
          fork : Heights]
    \cup [pc : {"commit"}, expected : Awaiting, window : Window,
          fork : Heights, head : Heights]

\* SYNC_WORK_COMPLETION: "direct" is a realtime block or a manual backfill
\* range; a resync carries the identity of its recovery, the others 0.
Job == [kind : {"direct", "gap", "resync"}, id : Nat]

SlotState ==
    [pc : {"idle"}]
    \cup [pc : {"captured"}, job : Job, from : Heights, to : Heights,
          revision : Revisions]
    \cup [pc : {"observed"}, job : Job, from : Heights, to : Heights,
          revision : Revisions, head : Heights]
    \cup [pc : {"fetched"}, job : Job, from : Heights, to : Heights,
          revision : Revisions, head : Heights, tip : Hash]
    \cup [pc : {"conflict"}, block : Heights, hash : Hash,
          revision : Revisions]

TypeOK ==
    /\ ChainTypeOK
    /\ stored \in [Heights -> Hash \cup {None}]
    /\ pending \subseteq Heights
    /\ revision \in Revisions
    /\ recovery \in {None} \cup Awaiting \cup Resync
    /\ lastId \in Nat
    /\ anchor \in Heights \cup {None}
    /\ eligible \in BOOLEAN
    /\ worker \in WorkerState
    /\ slot \in [Slots -> SlotState]
    /\ proved \subseteq Heights
    /\ owed \subseteq Heights

Idle == [pc |-> "idle"]

Init ==
    /\ ChainInit
    /\ stored = [n \in Heights |-> None]
    /\ pending = {}
    /\ revision = 0
    /\ recovery = None
    /\ lastId = 0
    /\ anchor = None
    /\ eligible = TRUE
    /\ worker = Idle
    /\ slot = [s \in Slots |-> Idle]
    /\ proved = {}
    /\ owed = {}

-----------------------------------------------------------------------------
(* The recovery journal's transitions (domain/reorg-recovery.ts).           *)

Lower(m, n) == IF m < n THEN m ELSE n

\* Mutated: the first mismatch is kept whatever its height.
RetainFirstMismatch(current, rev, id, block) ==
    IF current # None /\ current.phase = "awaiting" /\ current.revision = rev
    THEN current
    ELSE [phase |-> "awaiting", id |-> id, revision |-> rev,
          version |-> IF current = None THEN 0 ELSE current.version + 1,
          checked |-> block,
          resumeFrom |-> IF current = None THEN None
                         ELSE IF current.phase = "resync" THEN current.from
                         ELSE current.resumeFrom]

\* retainReorgMismatch: the lowest known mismatch owns the recovery, and an
\* interrupted resync leaves the block it had reached in resumeFrom.
RetainReorgMismatch(current, rev, id, block) ==
    IF /\ current # None
       /\ current.phase = "awaiting"
       /\ current.revision = rev
       /\ current.checked <= block
    THEN current
    ELSE [phase |-> "awaiting", id |-> id, revision |-> rev,
          version |-> IF current = None THEN 0 ELSE current.version + 1,
          checked |-> block,
          resumeFrom |-> IF current = None THEN None
                         ELSE IF current.phase = "resync" THEN current.from
                         ELSE current.resumeFrom]

\* Mutated: the interrupted range is forgotten.
ResyncFromRollback(rec, rollbackFrom) == rollbackFrom

ResyncFrom(rec, rollbackFrom) ==
    IF rec.resumeFrom = None THEN rollbackFrom
    ELSE Lower(rollbackFrom, rec.resumeFrom)

\* Mutated: the continuation keeps the revision of the rolled-back history.
BeginAtOldRevision(rec, rollbackFrom, head) ==
    LET from == ResyncFrom(rec, rollbackFrom) IN
    IF from > head THEN None
    ELSE [phase |-> "resync", id |-> rec.id, revision |-> rec.revision,
          version |-> rec.version + 1, checked |-> rec.checked,
          from |-> from, to |-> Lower(head, from + BatchSize - 1),
          target |-> head]

\* beginReorgResync, for a head not behind the fork.
BeginReorgResync(rec, rollbackFrom, head) ==
    LET from == ResyncFrom(rec, rollbackFrom) IN
    IF from > head THEN None
    ELSE [phase |-> "resync", id |-> rec.id, revision |-> rec.revision + 1,
          version |-> rec.version + 1, checked |-> rec.checked,
          from |-> from, to |-> Lower(head, from + BatchSize - 1),
          target |-> head]

\* Mutated: the range past the target is not recognised as the end.
AdvanceWithoutEnd(rec) ==
    [rec EXCEPT !.version = rec.version + 1,
                !.from = rec.to + 1,
                !.to = Lower(rec.target, rec.to + BatchSize)]

AdvanceReorgResync(rec) ==
    IF rec.to + 1 > rec.target THEN None
    ELSE [rec EXCEPT !.version = rec.version + 1,
                     !.from = rec.to + 1,
                     !.to = Lower(rec.target, rec.to + BatchSize)]

\* Mutated: the range is looked for at the revision that was rolled back.
IsRangeOfOldRevision(rec, id, rev, from, to) ==
    /\ rec # None
    /\ rec.phase = "resync"
    /\ rec.id = id
    /\ rec.revision = rev + 1
    /\ rec.from = from
    /\ rec.to = to

IsCurrentReorgRange(rec, id, rev, from, to) ==
    /\ rec # None
    /\ rec.phase = "resync"
    /\ rec.id = id
    /\ rec.revision = rev
    /\ rec.from = from
    /\ rec.to = to

-----------------------------------------------------------------------------
(* The sync worker: acquisition and commit of one block range.              *)

\* acquireSyncRange captures the revision before its first RPC call.
Begin(s, job, from, to) ==
    /\ slot[s] = Idle
    /\ slot' = [slot EXCEPT ![s] = [pc |-> "captured", job |-> job,
                                    from |-> from, to |-> to,
                                    revision |-> revision]]
    /\ UNCHANGED <<chainVars, db, worker, ghosts>>

\* A realtime block or a manual backfill range.  The handlers return when they
\* find no collection to sync.
BeginDirect(s) ==
    /\ eligible
    /\ \E from \in FirstBlock..HeadBlock :
          \E to \in from..Lower(HeadBlock, from + BatchSize - 1) :
              Begin(s, [kind |-> "direct", id |-> 0], from, to)

\* The automatic executor runs one range at a time.
AutomaticIdle ==
    \A t \in Slots : slot[t].pc \in {"captured", "observed", "fetched"} =>
                        slot[t].job.kind = "direct"

Resyncing == recovery # None /\ recovery.phase = "resync"

\* runReorgResync: the journalled range, before any gap repair.  An empty set
\* of eligible collections leaves the recovery pending.
BeginResync(s) ==
    /\ AutomaticIdle
    /\ Resyncing
    /\ eligible
    /\ Begin(s, [kind |-> "resync", id |-> recovery.id],
             recovery.from, recovery.to)

\* runGapRepair, seen from here: a missing block below the realtime window
\* is acquired.  How gaps are discovered and retired is left out, and the
\* eligible collections are taken to include a live one (hasCollections).
BeginGapRepair(s) ==
    /\ AutomaticIdle
    /\ ~Resyncing
    /\ eligible
    /\ \E n \in FirstBlock..(HeadBlock - ReorgDepth) :
          /\ stored[n] = None
          /\ Begin(s, [kind |-> "gap", id |-> 0], n, n)

\* The head that decides which blocks still need a delayed check.
ObserveHead(s) ==
    /\ slot[s].pc = "captured"
    /\ slot' = [slot EXCEPT ![s] = [pc |-> "observed", job |-> @.job,
                                    from |-> @.from, to |-> @.to,
                                    revision |-> @.revision, head |-> HeadBlock]]
    /\ UNCHANGED <<chainVars, db, worker, ghosts>>

\* fetchCanonicalSyncBlocks: linked headers whose tip is still canonical.
FetchBlocks(s) ==
    /\ slot[s].pc = "observed"
    /\ slot[s].to <= HeadBlock
    /\ slot' = [slot EXCEPT ![s] = [pc |-> "fetched", job |-> @.job,
                                    from |-> @.from, to |-> @.to,
                                    revision |-> @.revision, head |-> @.head,
                                    tip |-> HashAt(@.to)]]
    /\ UNCHANGED <<chainVars, db, worker, ghosts>>

\* Mutated: stored hashes are not compared with the fetched ones.
ConflictsIgnored(r) == {}

Conflicts(r) ==
    {n \in r.from..r.to : stored[n] # None /\ stored[n] # Canonical(r.tip, n)}

\* Mutated: the commit does not compare revisions.
OwnsRangeOfAnyRevision(r) ==
    r.job.kind = "resync" =>
        IsCurrentReorgRange(recovery, r.job.id, r.revision, r.from, r.to)

\* assertCurrent and the revision assertion of persistSyncResult.
OwnsRange(r) ==
    /\ r.revision = revision
    /\ r.job.kind = "resync" =>
          IsCurrentReorgRange(recovery, r.job.id, r.revision, r.from, r.to)

\* persistBlocks: existing rows keep their pending flag.
PersistBlocks(r) ==
    /\ stored' = [n \in Heights |->
                    IF n \in r.from..r.to THEN Canonical(r.tip, n) ELSE stored[n]]
    /\ pending' = pending \cup {n \in r.from..r.to :
                                  stored[n] = None /\ n > UpperBound(r.head)}

\* commitSyncRange: blocks and the resync continuation in one transaction.
CommitRange(s) ==
    LET r == slot[s] IN
    /\ r.pc = "fetched"
    /\ OwnsRange(r)
    /\ Conflicts(r) = {}
    /\ PersistBlocks(r)
    /\ IF r.job.kind = "resync"
       THEN /\ recovery' = AdvanceReorgResync(recovery)
            /\ owed' = owed \ (r.from..r.to)
       ELSE UNCHANGED <<recovery, owed>>
    /\ slot' = [slot EXCEPT ![s] = Idle]
    /\ UNCHANGED <<chainVars, revision, lastId, collections, worker, proved>>

\* StoredBlockHashConflict: the first disagreeing block, found after the
\* revision assertion; the failed transaction writes nothing.
ConflictingRange(s) ==
    LET r == slot[s] IN
    /\ r.pc = "fetched"
    /\ OwnsRange(r)
    /\ \E n \in Conflicts(r) :
          /\ \A m \in Conflicts(r) : n <= m
          /\ slot' = [slot EXCEPT ![s] = [pc |-> "conflict", block |-> n,
                                          hash |-> stored[n],
                                          revision |-> revision]]
    /\ UNCHANGED <<chainVars, db, worker, ghosts>>

CheckMatchesRow(c) == c.revision = revision /\ stored[c.block] = c.hash

\* canonicalChecks.retain, a transaction of its own.
RetainConflict(s) ==
    /\ slot[s].pc = "conflict"
    /\ CheckMatchesRow(slot[s])
    /\ pending' = pending \cup {slot[s].block}
    /\ slot' = [slot EXCEPT ![s] = Idle]
    /\ UNCHANGED <<chainVars, stored, revision, recovery, lastId, collections,
                   worker, ghosts>>

DropRange(s) ==
    /\ slot' = [slot EXCEPT ![s] = Idle]
    /\ UNCHANGED <<chainVars, db, worker, ghosts>>

\* The block is gone from the chain, the commit lost its range or revision,
\* or the conflicting row has changed: the attempt ends without a write.
RejectRange(s) ==
    /\ \/ slot[s].pc = "observed" /\ slot[s].to > HeadBlock
       \/ slot[s].pc = "fetched" /\ ~OwnsRange(slot[s])
       \/ slot[s].pc = "conflict" /\ ~CheckMatchesRow(slot[s])
    /\ DropRange(s)

\* A failed call or a crash, at any point of the attempt.
FailRange(s) == slot[s].pc # "idle" /\ DropRange(s)

-----------------------------------------------------------------------------
(* The reorg worker: delayed canonical checks (checkDue, checkBlock).       *)

CheckDue == [pc |-> "checkDue"]

Goto(state) ==
    /\ worker' = state
    /\ UNCHANGED <<chainVars, db, slot, ghosts>>

\* The head is read before the due check is selected.
ReadCheckHead ==
    /\ worker = CheckDue
    /\ Goto(IF pending = {} THEN Idle ELSE [pc |-> "head", head |-> HeadBlock])

\* nextDue reads the block and the revision in one snapshot.
SelectCheck ==
    LET due == {n \in pending : n <= UpperBound(worker.head)} IN
    /\ worker.pc = "head"
    /\ IF due = {} THEN Goto(Idle)
       ELSE \E n \in due :
                Goto([pc |-> "check", block |-> n, hash |-> stored[n],
                      revision |-> revision])

\* checkBlock re-reads the revision and the stored hash, then asks RPC.
ObserveBlock ==
    /\ worker.pc = "check"
    /\ IF CheckMatchesRow(worker) /\ worker.block <= HeadBlock
       THEN Goto([pc |-> "observed", block |-> worker.block,
                  hash |-> worker.hash, revision |-> worker.revision,
                  seen |-> HashAt(worker.block)])
       ELSE Goto(Idle)

\* The hash matched: complete consumes the check in its own transaction.
CompleteCheck ==
    /\ worker.pc = "observed"
    /\ worker.seen = worker.hash
    /\ pending' = IF CheckMatchesRow(worker) THEN pending \ {worker.block}
                  ELSE pending
    /\ worker' = Idle
    /\ UNCHANGED <<chainVars, stored, revision, recovery, lastId, collections,
                   slot, ghosts>>

\* The hash differed: retainMismatch journals the recovery and consumes the
\* check in one transaction, or writes nothing when the row or its pending
\* flag has changed.  The worker then starts over with resumeDue.
RetainMismatch ==
    /\ worker.pc = "observed"
    /\ worker.seen # worker.hash
    /\ IF CheckMatchesRow(worker) /\ worker.block \in pending
       THEN /\ recovery' = RetainReorgMismatch(recovery, revision, lastId + 1,
                                               worker.block)
            /\ lastId' = IF recovery' = recovery THEN lastId ELSE lastId + 1
            /\ pending' = pending \ {worker.block}
       ELSE UNCHANGED <<recovery, lastId, pending>>
    /\ worker' = Idle
    /\ UNCHANGED <<chainVars, stored, revision, collections, slot, ghosts>>

-----------------------------------------------------------------------------
(* The reorg worker: ancestor proof and rollback (resume).                  *)

\* Mutated: a window of the checked block alone.
WindowStartAtBlock(block) == block

\* findCommonAncestor's window below the checked block.
WindowStart(block) == IF block > ReorgDepth THEN block - ReorgDepth ELSE 0

WindowOf(block) == WindowStart(block)..block

LocalWindow(block) ==
    [n \in Heights |-> IF n \in WindowOf(block) THEN stored[n] ELSE None]

\* resume reads the journal and captures the local window before RPC.  A
\* recovery of an older revision is re-armed by refreshCheckpoint; a resync
\* is left to the sync worker; an empty window proves nothing.
Resume ==
    /\ worker = Idle
    /\ IF recovery # None /\ recovery.revision # revision
       THEN /\ recovery' = RetainReorgMismatch(recovery, revision, lastId + 1,
                                               recovery.checked)
            /\ lastId' = lastId + 1
            /\ worker' = CheckDue
       ELSE /\ worker' = IF /\ recovery # None
                            /\ recovery.phase = "awaiting"
                            /\ Stored(LocalWindow(recovery.checked)) # {}
                         THEN [pc |-> "history", expected |-> recovery,
                               window |-> LocalWindow(recovery.checked)]
                         ELSE CheckDue
            /\ UNCHANGED <<recovery, lastId>>
    /\ UNCHANGED <<chainVars, stored, pending, revision, collections, slot, ghosts>>

\* canRollbackFromBlock: a rollback stays above every bootstrap anchor.
CanRollbackFromBlock(from) == anchor # None => from > anchor

\* prepareRollback: the anchor and the revision, before ownership RPC.
CanPrepare(fork) ==
    /\ CanRollbackFromBlock(fork + 1)
    /\ worker.expected.revision = revision

\* The canonical window is read, the fork proved and the rollback prepared.
ProveAncestor ==
    /\ worker.pc = "history"
    /\ worker.expected.checked <= HeadBlock
    /\ \E f \in Heights :
          /\ IsFork(f, worker.window, HashAt(worker.expected.checked))
          /\ CanPrepare(f)
          /\ Goto([pc |-> "plan", expected |-> worker.expected,
                   window |-> worker.window, fork |-> f])

\* readSnapshot: the fork is canonical before and after the owner reads.
ReadSnapshot ==
    /\ worker.pc = "plan"
    /\ worker.fork <= HeadBlock
    /\ HashAt(worker.fork) = worker.window[worker.fork]
    /\ Goto([worker EXCEPT !.pc = "snapshot"])

\* The head that bounds the resync may not be behind the fork.
ReadResyncHead ==
    /\ worker.pc = "snapshot"
    /\ HeadBlock >= worker.fork
    /\ Goto([pc |-> "commit", expected |-> worker.expected,
             window |-> worker.window, fork |-> worker.fork,
             head |-> HeadBlock])

\* assertCurrent: identity, revision, version and phase of the journal row.
RecoveryIsCurrent(expected) ==
    /\ recovery # None
    /\ recovery.phase = expected.phase
    /\ recovery.id = expected.id
    /\ recovery.revision = expected.revision
    /\ recovery.version = expected.version

\* assertReorgHistoryUnchanged: same revision, same sparse window.
HistoryUnchanged(w) ==
    /\ w.expected.revision = revision
    /\ \A n \in WindowOf(w.expected.checked) : stored[n] = w.window[n]

CanCommitRollback ==
    /\ RecoveryIsCurrent(worker.expected)
    /\ HistoryUnchanged(worker)
    /\ CanRollbackFromBlock(worker.fork + 1)

\* rollbackFromBlock: every block above the fork goes, the fork stays.
RollbackFromBlock(fork, forkHash) ==
    /\ stored' = [n \in Heights |->
                    IF n > fork THEN None
                    ELSE IF n = fork THEN forkHash ELSE stored[n]]
    /\ pending' = pending \cap (0..fork)
    /\ revision' = revision + 1

\* commitRollbackAndResync: every precondition is re-asserted in the writer.
CommitRollback ==
    /\ worker.pc = "commit"
    /\ CanCommitRollback
    /\ RollbackFromBlock(worker.fork, worker.window[worker.fork])
    /\ recovery' = BeginReorgResync(worker.expected, worker.fork + 1,
                                    worker.head)
    /\ proved' = proved \cup WindowOf(worker.expected.checked)
    /\ owed' = {n \in owed \cup {m \in Heights : m > worker.fork
                                                 /\ stored[m] # None} :
                  n <= worker.head}
    /\ worker' = CheckDue
    /\ UNCHANGED <<chainVars, lastId, collections, slot>>

\* No proof, or a conflict thrown on the way to the commit: deferProof, and
\* the pass goes on to the due checks.
DeferProof ==
    /\ \/ /\ worker.pc = "history"
          /\ worker.expected.checked <= HeadBlock =>
                ~\E f \in Heights :
                    /\ IsFork(f, worker.window, HashAt(worker.expected.checked))
                    /\ CanPrepare(f)
       \/ /\ worker.pc = "plan"
          /\ worker.fork <= HeadBlock => HashAt(worker.fork) # worker.window[worker.fork]
       \/ worker.pc = "snapshot" /\ HeadBlock < worker.fork
       \/ worker.pc = "commit" /\ ~CanCommitRollback
    /\ Goto(CheckDue)

\* A failed call ends the proof or the check; a crash ends the pass.
FailAttempt ==
    /\ worker \notin {Idle, CheckDue}
    /\ \/ Goto(Idle)
       \/ worker.pc \in {"history", "plan", "snapshot"} /\ Goto(CheckDue)

-----------------------------------------------------------------------------
\* The bootstrap worker anchors a collection reorgDepth below the head.
SetAnchor ==
    /\ eligible
    /\ anchor = None
    /\ HeadBlock - ReorgDepth >= 1
    /\ anchor' = HeadBlock - ReorgDepth
    /\ UNCHANGED <<chainVars, stored, pending, revision, recovery, lastId,
                   eligible, worker, slot, ghosts>>

\* purgeCollectionData: the operator purges the anchored collection, with or
\* without another one left; blocks, revision and journal belong to the chain.
PurgeCollection ==
    /\ MayPurge
    /\ eligible
    /\ anchor' = None
    /\ eligible' \in BOOLEAN
    /\ UNCHANGED <<chainVars, stored, pending, revision, recovery, lastId,
                   worker, slot, ghosts>>

\* A bootstrap run is created for a collection, which has no anchor yet.
AddCollection ==
    /\ ~eligible
    /\ eligible' = TRUE
    /\ UNCHANGED <<chainVars, stored, pending, revision, recovery, lastId,
                   anchor, worker, slot, ghosts>>

Environment ==
    /\ NewHead \/ Reorg
    /\ UNCHANGED <<db, worker, slot, ghosts>>

SyncStep(s) ==
    \/ BeginResync(s)
    \/ BeginGapRepair(s)
    \/ ObserveHead(s)
    \/ FetchBlocks(s)
    \/ CommitRange(s)
    \/ ConflictingRange(s)
    \/ RetainConflict(s)
    \/ RejectRange(s)

WorkerStep ==
    \/ Resume
    \/ ProveAncestor
    \/ ReadSnapshot
    \/ ReadResyncHead
    \/ CommitRollback
    \/ DeferProof
    \/ ReadCheckHead
    \/ SelectCheck
    \/ ObserveBlock
    \/ CompleteCheck
    \/ RetainMismatch

Next ==
    \/ Environment
    \/ \E s \in Slots : BeginDirect(s) \/ SyncStep(s) \/ FailRange(s)
    \/ WorkerStep
    \/ FailAttempt
    \/ SetAnchor
    \/ PurgeCollection
    \/ AddCollection

Spec == Init /\ [][Next]_vars

\* No step is only a failure, and no realtime or manual range begins.
Quiet ==
    /\ FailAttempt => WorkerStep
    /\ \A s \in Slots : ~BeginDirect(s) /\ (FailRange(s) => SyncStep(s))

\* Both loops poll forever.  Calls do not fail forever, and the direct work
\* that shares the slots with recovery and gap repair pauses at some point.
FairSpec ==
    /\ Spec
    /\ WF_vars(WorkerStep)
    /\ \A s \in Slots : WF_vars(SyncStep(s))
    /\ <>[][Quiet]_vars

-----------------------------------------------------------------------------
(* Properties                                                              *)

OnChain(h) == Len(h) <= HeadBlock /\ HashAt(Len(h)) = h

\* Every stored block that has left the canonical chain is still owed a
\* check, or lies above the mismatch an unfinished recovery will roll back:
\* no orphan is ever forgotten, whatever commits, checks and rollbacks
\* interleave (canonical-check.ts:3).
OrphanOwned ==
    \A n \in Heights :
        stored[n] # None /\ ~OnChain(stored[n]) =>
            \/ n \in pending
            \/ /\ recovery # None
               /\ recovery.phase = "awaiting"
               /\ recovery.revision = revision
               /\ recovery.checked <= n

\* Once a rollback commits, the whole window its ancestor proof covered stays
\* canonical: nothing below the fork was an orphan, and no acquisition begun
\* before the rollback puts one back.
ProvedWindowCanonical ==
    \A n \in proved : stored[n] # None => OnChain(stored[n])

\* A height a rollback emptied stays in the journal until a resync range
\* that includes it commits, through later mismatches and rollbacks that
\* interrupt the resync; heights beyond the observed head are not owed.
RolledBackOwed ==
    \A n \in owed :
        /\ recovery # None
        /\ IF recovery.phase = "resync"
           THEN n \in recovery.from..recovery.target
           ELSE recovery.resumeFrom # None /\ recovery.resumeFrom <= n

\* The journal never falls behind the revision it recovers: rollback and its
\* continuation are one transaction, so refreshCheckpoint finds no work.
RecoveryAtRevision == recovery # None => recovery.revision = revision

\* A stored block is never overwritten by another branch.  It disappears only
\* in a rollback, which empties everything above one block, stays above the
\* bootstrap anchor and advances the revision.
RemovedOnlyByRollback ==
    \A n \in Heights :
        stored[n] # None /\ stored'[n] # stored[n] =>
            /\ revision' = revision + 1
            /\ \A m \in n..MaxBlock : stored'[m] = None
            /\ anchor # None => n > anchor

StoredStable == [][RemovedOnlyByRollback]_vars

Orphan(n) == stored[n] # None /\ ~OnChain(stored[n])

\* The two cases the code leaves pending: a rollback would have to cross a
\* retained anchor (sqlite.ts:527), or an orphan branch leaves the chain at or
\* below the first block ranges start at, so that no ancestor can be stored
\* ("If no common ancestor is verified, keep recovery pending and warn",
\* docs/indexer/06-reorg-handling.md:218).
BlockedByAnchor == anchor # None /\ \E n \in 0..anchor : Orphan(n)

NoAncestor ==
    \E n \in Heights :
        /\ Orphan(n)
        /\ n >= FirstBlock
        /\ SubSeq(stored[n], 1, FirstBlock) # HashAt(FirstBlock)

Unprovable == BlockedByAnchor \/ NoAncestor

ConfirmedOrphan == \E n \in Heights : n <= Confirmed /\ Orphan(n)

\* Every orphan at a confirmed height is eventually rolled back, unless the
\* code can prove no fork for it.  The headers a proof needs are fetched only
\* for a collection, so one must be there from some moment on.
OrphanRemoved ==
    <>[]eligible => (ConfirmedOrphan ~> (~ConfirmedOrphan \/ Unprovable))

\* The bound MaxBlock ends the chain before a stored orphan's check is due: a
\* resync that meets it waits for a head that does not come.
ChainEnds == \E n \in Heights : n > MaxBlock - ReorgDepth + 1 /\ Orphan(n)

\* Every journalled recovery eventually finishes its resync, through later
\* mismatches, conflicts and purges, with the same exceptions, provided some
\* collection is eligible from some moment on: runReorgResync does nothing for
\* an empty set ("An empty eligible set leaves recovery pending",
\* docs/indexer/06-reorg-handling.md:182).
RecoveryCompletes ==
    <>[]eligible =>
        (recovery # None ~> (recovery = None \/ Unprovable \/ ChainEnds))
=============================================================================
