------------------------- MODULE OwnershipProjection ------------------------
(***************************************************************************)
(* The current owner of one ERC-721 token (nft_balances), as three writers  *)
(* in three processes compute it:                                           *)
(*                                                                         *)
(*  - sync (indexer/src/infra/storage/sqlite.ts, persistSyncResult) stores  *)
(*    the transfers of a block range, in any order of ranges, and projects  *)
(*    the newly inserted ones that follow the bootstrap anchor;             *)
(*  - reorg recovery (rollbackFromBlock) replaces the owner of an affected  *)
(*    token by the owner read at the fork, and keeps it as a checkpoint;    *)
(*  - collection bootstrap (bootstrap-anchor-executor.ts, infra/bootstrap/  *)
(*    sqlite.ts, bootstrap-backfill-executor.ts, bootstrap-collection-live- *)
(*    executor.ts) picks an anchor block, replaces all balances by the      *)
(*    owners at the anchor, waits for the blocks since the anchor to be     *)
(*    covered and makes the collection live.                                *)
(*                                                                         *)
(* A block's label is what it does to the token: an owner (a transfer to    *)
(* that owner), Burned (a transfer to the zero address) or Quiet.  A range  *)
(* is read as one view of the chain and a fork is given with its proof:     *)
(* SyncAcquisition and ReorgRecovery model how they are obtained.           *)
(***************************************************************************)
EXTENDS CanonicalChain, FiniteSets, FiniteSetsExt

CONSTANTS
    None,
    Owner, Burned, Quiet,   \* the labels of blocks
    Minter,                 \* who owns the token before block 1
    Worker,                 \* sync consumers: realtime, backfill, automatic
    MaxRange,               \* bound: blocks of one sync range
    MaxRollbacks            \* bound: rollbacks of a behaviour

ASSUME ProjectionAssumption ==
    /\ Label \subseteq Owner \cup {Burned, Quiet}
    /\ Minter \in Owner
    /\ None \notin Label \cup Nat \cup [owner : Owner, block : Nat]
    /\ MaxRange \in Nat \ {0}
    /\ MaxRollbacks \in Nat

VARIABLES
    step,           \* the bootstrap step the run is at
    anchor,         \* collections.bootstrap_anchor_block
    anchorHash,     \* the run's anchor hash
    target,         \* toBlock of the retained bootstrap backfill range
    stored,         \* blocks: hash of each stored header
    covered,        \* collection_sync_blocks of this collection
    transfers,      \* nft_transfer_events of the token, by block
    balance,        \* the token's nft_balances row
    checkpoint,     \* the token's erc721_ownership_checkpoints row
    revision,       \* chain_sync_revisions
    job,            \* the range each worker has read and not yet committed
    plan,           \* the rollback prepared and not yet committed
    missed          \* history: stored transfers the balance does not reflect

bootstrapVars == <<step, anchor, anchorHash, target>>
factVars == <<stored, covered, transfers>>
ownerVars == <<balance, checkpoint, missed>>
vars == <<chainVars, bootstrapVars, factVars, ownerVars, revision, job, plan>>

Step == {"anchor", "ownership", "backfill", "check", "collection_live", "live"}

\* An ownership state: who, and the block the row is attributed to.
Row == [owner : Owner \cup {None}, block : Heights]

\* A burnt token has no nft_balances row.
BalanceOf(row) == IF row.owner = None THEN None ELSE row

\* The owner after a transfer: a transfer to the zero address leaves none.
Recipient(l) == IF l = Burned THEN None ELSE l

\* The owner the chain with tip hash h gives the token; None when burnt.
OwnerAt(h) ==
    LET moved == {n \in 1..Len(h) : h[n] # Quiet}
    IN  IF moved = {} THEN Minter ELSE Recipient(h[Max(moved)])

-----------------------------------------------------------------------------
\* Sync

\* acquireSyncRange: the collection record, with the anchor it has now, is
\* captured with the checkpoint before the chain is read.  `member` is FALSE
\* for a range other collections asked for: it stores headers only.
AcquireRange(w) ==
    /\ job[w] = None
    /\ \E from \in 1..HeadBlock, member \in BOOLEAN :
       \E to \in from..HeadBlock :
          /\ to - from < MaxRange
          /\ job' = [job EXCEPT ![w] =
                [from |-> from, tip |-> HashAt(to), member |-> member,
                 anchor |-> anchor, revision |-> revision]]
    /\ UNCHANGED <<chainVars, bootstrapVars, factVars, ownerVars, revision,
                   plan>>

Blocks(j) == j.from..Len(j.tip)

RangeHash(j, n) == SubSeq(j.tip, 1, n)

\* persistSyncResult refuses a range of an older revision and one that
\* disagrees with a stored header.
Admitted(j) ==
    /\ j.revision = revision
    /\ \A n \in Blocks(j) : stored[n] # None => stored[n] = RangeHash(j, n)

\* INSERT OR IGNORE: the transfers this range adds.
Inserted(j) ==
    {n \in Blocks(j) : j.member /\ j.tip[n] # Quiet /\ transfers[n] = None}

-----------------------------------------------------------------------------
\* A transfer just below the anchor is projected.
CanProjectFromAnchor(a, n) == a # None /\ n >= a - 1

\* A transfer in the anchor block is projected.
CanProjectAtAnchor(a, n) == a # None /\ n >= a

\* Only a token with a balance row in the window is affected: an orphan burn
\* has none.
AffectedByBalance(from) ==
    anchor # None /\ balance # None /\ balance.block >= from

\* Coverage of the removed blocks is kept.
DeleteHeadersOnly(from, fork) ==
    /\ stored' = [n \in Heights |->
            IF n >= from THEN None ELSE IF n = from - 1 THEN fork ELSE stored[n]]
    /\ transfers' = [n \in Heights |-> IF n >= from THEN None ELSE transfers[n]]
    /\ UNCHANGED covered
-----------------------------------------------------------------------------

\* canProjectCurrentStateAtBlock
CanProject(a, n) == a # None /\ n > a

\* resolveErc721Ownership: a checkpoint holds for its whole block.
Resolve(latest, point) ==
    IF /\ point # None
       /\ latest = None \/ point.block >= latest.block
    THEN point
    ELSE latest

\* selectLatestTransfer over the facts f.
Latest(f) ==
    LET at == {n \in Heights : f[n] # None}
    IN  IF at = {} THEN None
        ELSE [owner |-> Recipient(f[Max(at)]), block |-> Max(at)]

\* applyBalanceUpdatesFromEvents: whichever transfer asked for it, the owner is
\* that of the latest stored one or of the checkpoint.
Projection(facts) == BalanceOf(Resolve(Latest(facts), checkpoint))

\* persistSyncResult, one transaction.
CommitRange(w) ==
    LET j == job[w]
        inserted == Inserted(j)
        projected == {n \in inserted : CanProject(j.anchor, n)}
    IN  /\ j # None
        /\ Admitted(j)
        /\ stored' = [n \in Heights |->
                IF n \in Blocks(j) THEN RangeHash(j, n) ELSE stored[n]]
        /\ covered' = IF j.member THEN covered \cup Blocks(j) ELSE covered
        /\ transfers' = [n \in Heights |->
                IF n \in inserted THEN j.tip[n] ELSE transfers[n]]
        /\ balance' = IF projected = {} THEN balance
                      ELSE Projection(transfers')
        /\ missed' = IF projected = {}
                     THEN missed \cup {n \in inserted : CanProject(anchor, n)}
                     ELSE {}
        /\ job' = [job EXCEPT ![w] = None]
        /\ UNCHANGED <<chainVars, bootstrapVars, checkpoint, revision, plan>>

\* A refused range, a failed read or a stopped worker writes nothing.
DropRange(w) ==
    /\ job[w] # None
    /\ job' = [job EXCEPT ![w] = None]
    /\ UNCHANGED <<chainVars, bootstrapVars, factVars, ownerVars, revision,
                   plan>>

-----------------------------------------------------------------------------
\* Reorg recovery

\* selectRollbackTokens: the token has a fact, a balance or a checkpoint in
\* the window, and its collection has an anchor.
Affected(from) ==
    /\ anchor # None
    /\ \/ \E n \in from..MaxBlock : transfers[n] # None
       \/ balance # None /\ balance.block >= from
       \/ checkpoint # None /\ checkpoint.block >= from

\* canRollbackFromBlock
CanRollback(from) == anchor # None => from > anchor

\* The highest stored canonical header below the first stored orphan.
IsForkOfHistory(f) ==
    LET orphans == {n \in Heights : /\ stored[n] # None
                                    /\ \/ n > HeadBlock
                                       \/ stored[n] # HashAt(n)}
        kept == {n \in 0..HeadBlock : stored[n] = HashAt(n)
                                      /\ \A o \in orphans : n < o}
    IN  orphans # {} /\ f \in kept /\ f = Max(kept)

\* RollbackChainRange.prepare: the token scope, then the owner at the fork.
PrepareRollback ==
    /\ plan = None
    /\ revision < MaxRollbacks
    /\ \E f \in 0..HeadBlock :
          /\ IsForkOfHistory(f)
          /\ CanRollback(f + 1)
          /\ plan' = [from |-> f + 1, fork |-> HashAt(f),
                      affected |-> Affected(f + 1), revision |-> revision]
    /\ UNCHANGED <<chainVars, bootstrapVars, factVars, ownerVars, revision,
                   job>>

PlanCurrent ==
    /\ plan.revision = revision
    /\ CanRollback(plan.from)
    /\ stored[plan.from - 1] \in {None, plan.fork}
    /\ Affected(plan.from) = plan.affected

\* Facts, coverage and headers from the rollback block on are removed; the
\* fork header is retained.
DeleteFrom(from, fork) ==
    /\ stored' = [n \in Heights |->
            IF n >= from THEN None ELSE IF n = from - 1 THEN fork ELSE stored[n]]
    /\ transfers' = [n \in Heights |-> IF n >= from THEN None ELSE transfers[n]]
    /\ covered' = {n \in covered : n < from}

\* rollbackFromBlock
CommitRollback ==
    LET point == [owner |-> OwnerAt(plan.fork), block |-> plan.from - 1]
    IN  /\ plan # None
        /\ PlanCurrent
        /\ DeleteFrom(plan.from, plan.fork)
        /\ IF plan.affected
           THEN /\ checkpoint' = point
                /\ balance' = BalanceOf(point)
                /\ missed' = {}
           ELSE UNCHANGED ownerVars
        /\ revision' = revision + 1
        /\ plan' = None
        /\ UNCHANGED <<chainVars, bootstrapVars, job>>

\* Failed validation throws before the first write, a crash loses the plan;
\* the retained recovery prepares another.
DiscardPlan ==
    /\ plan # None
    /\ plan' = None
    /\ UNCHANGED <<chainVars, bootstrapVars, factVars, ownerVars, revision, job>>

-----------------------------------------------------------------------------
\* Collection bootstrap

\* BootstrapAnchorExecutor.anchor: head - reorgDepth of a head read earlier.
SelectAnchor ==
    /\ step = "anchor"
    /\ \E a \in 1..(maxHead - ReorgDepth) :
          /\ anchor' = a
          /\ anchorHash' = HashAt(a)
    /\ step' = "ownership"
    /\ UNCHANGED <<chainVars, target, factVars, ownerVars, revision, job, plan>>

\* finalizeSnapshot.  The step is marked succeeded in a later write, so a
\* crash in between finalizes again.  A token absent at the anchor fails.
FinalizeSnapshot ==
    /\ step = "ownership"
    /\ OwnerAt(anchorHash) # None
    /\ balance' = [owner |-> OwnerAt(anchorHash), block |-> anchor]
    /\ checkpoint' = None
    /\ missed' = {n \in Heights : n > anchor /\ transfers[n] # None}
    /\ step' \in {"ownership", "backfill"}
    /\ UNCHANGED <<chainVars, anchor, anchorHash, target, factVars, revision,
                   job, plan>>

\* scheduleAfterSnapshot: anchor + 1 to the head, or nothing to catch up.
ScheduleBackfill ==
    /\ step = "backfill"
    /\ target' = IF HeadBlock < anchor + 1 THEN anchor ELSE HeadBlock
    /\ step' = IF HeadBlock < anchor + 1 THEN "collection_live" ELSE "check"
    /\ UNCHANGED <<chainVars, anchor, anchorHash, factVars, ownerVars, revision,
                   job, plan>>

\* checkProgress: every block of the retained range is covered.
CheckProgress ==
    /\ step = "check"
    /\ (anchor + 1)..target \subseteq covered
    /\ step' = "collection_live"
    /\ UNCHANGED <<chainVars, anchor, anchorHash, target, factVars, ownerVars,
                   revision, job, plan>>

\* BootstrapCollectionLiveExecutor.complete
CompleteBootstrap ==
    /\ step = "collection_live"
    /\ step' = "live"
    /\ UNCHANGED <<chainVars, anchor, anchorHash, target, factVars, ownerVars,
                   revision, job, plan>>

-----------------------------------------------------------------------------
Init ==
    /\ ChainInit
    /\ step = "anchor" /\ anchor = None /\ anchorHash = None /\ target = None
    /\ stored = [n \in Heights |-> IF n = 0 THEN <<>> ELSE None]
    /\ covered = {}
    /\ transfers = [n \in Heights |-> None]
    /\ balance = None /\ checkpoint = None /\ missed = {}
    /\ revision = 0
    /\ job = [w \in Worker |-> None]
    /\ plan = None

Chain ==
    /\ NewHead \/ Reorg
    /\ UNCHANGED <<bootstrapVars, factVars, ownerVars, revision, job, plan>>

Bootstrap ==
    \/ SelectAnchor \/ FinalizeSnapshot \/ ScheduleBackfill \/ CheckProgress
    \/ CompleteBootstrap

Recovery == PrepareRollback \/ CommitRollback \/ DiscardPlan

Sync == \E w \in Worker : AcquireRange(w) \/ CommitRange(w) \/ DropRange(w)

Next == Chain \/ Bootstrap \/ Recovery \/ Sync

Spec == Init /\ [][Next]_vars

-----------------------------------------------------------------------------
\* Types; a covered block has its header, and a transfer its coverage:
\* persistSyncResult writes the three together, rollbackFromBlock removes
\* them together.
TypeOK ==
    /\ ChainTypeOK
    /\ step \in Step
    /\ anchor \in Heights \cup {None}
    /\ target \in Heights \cup {None}
    /\ \A n \in Heights : stored[n] # None => stored[n] \in Hash
    /\ \A n \in covered : stored[n] # None
    /\ \A n \in Heights : transfers[n] # None =>
          n \in covered /\ transfers[n] \in Owner \cup {Burned}
    /\ balance \in [owner : Owner, block : Heights] \cup {None}
    /\ checkpoint \in Row \cup {None}
    /\ revision \in 0..MaxRollbacks

\* Once there is an anchor, the balance and the checkpoint are attributed to
\* the anchor block or to later ones, never to earlier ones, whatever order
\* ranges, rollbacks and the snapshot come in.
AnchorFloor ==
    anchor # None =>
        /\ balance # None => balance.block >= anchor
        /\ checkpoint # None => checkpoint.block >= anchor

\* A commit of facts rewrites the balance only when it stores a transfer after
\* the anchor, and only by the owner after such a block: the anchor block itself
\* belongs to the snapshot ("Historical backfill at or before the anchor must
\* not rewrite this table", docs/indexer/05-storage-and-schema.md:272).
RewrittenAfterAnchor ==
    transfers' # transfers /\ revision' = revision /\ balance' # balance =>
        /\ anchor # None
        /\ \E n \in Heights : n > anchor /\ transfers'[n] # transfers[n]
        /\ balance' # None => balance'.block > anchor

HistoryKeepsOwner == [][RewrittenAfterAnchor]_vars

Finalized == step \in {"backfill", "check", "collection_live", "live"}

HistoryCanonical(k) ==
    \A n \in 0..k : stored[n] # None => stored[n] = HashAt(n)

\* The block up to which ownership was read from the chain.
Base == IF checkpoint = None THEN anchor ELSE checkpoint.block

\* The blocks from the base to k are covered by canonical history, and
\* nothing stored is later.
CaughtUpTo(k) ==
    /\ k \in Base..HeadBlock
    /\ (Base + 1)..k \subseteq covered
    /\ HistoryCanonical(k)
    /\ \A n \in (k + 1)..MaxBlock : transfers[n] = None

\* The row says who owns the token at block k.
OwnerCorrect(k) ==
    IF balance = None THEN OwnerAt(HashAt(k)) = None
    ELSE balance.owner = OwnerAt(HashAt(k))

\* persistSyncResult and rollbackFromBlock keep the owner right whatever the
\* order of ranges, gap repairs, rollbacks and checkpoints: with the snapshot
\* in place, no transfer left unprojected by the two cases `missed` records,
\* and canonical coverage from the snapshot or the checkpoint up to k, the
\* balance row is the owner at k.
OwnerMatchesChain ==
    Finalized /\ missed = {} =>
        \A k \in Heights : CaughtUpTo(k) => OwnerCorrect(k)

\* docs/indexer/14-collection-bootstrap.md:684-689: "A collection should be
\* considered ownership-correct once: metadata snapshot completed, ownership
\* snapshot completed, short backfill completed, collections.status = live".
OwnershipCorrectOnceLive ==
    step = "live" =>
        \A k \in Heights : CaughtUpTo(k) => OwnerCorrect(k)
=============================================================================
