-------------------------- MODULE SyncAcquisition ---------------------------
(***************************************************************************)
(* One sync acquisition call by call: logs first, page by page, then the    *)
(* headers one at a time, then the tip again, then one transaction that     *)
(* stores headers, coverage and facts.  The chain moves between the calls.  *)
(*                                                                         *)
(* A block's label says whether it holds an event of the tracked            *)
(* collection; the fact stored for an event is the hash of its block.  One  *)
(* kind of event stands for all, and a log page is one block, the smallest  *)
(* the chunked reader uses.                                                 *)
(***************************************************************************)
EXTENDS CanonicalChain

CONSTANTS
    None,
    Slots,          \* concurrent acquisitions
    EventLabel,     \* labels of the blocks that hold an event
    MaxRange        \* bound: blocks per acquisition

ASSUME AcquisitionAssumption ==
    /\ EventLabel \subseteq Label
    /\ MaxRange \in Nat \ {0}
    /\ None \notin Hash

VARIABLES
    stored,         \* blocks: height -> block_hash
    covered,        \* collection_sync_blocks of the collection
    facts,          \* hashes of the blocks whose events are stored
    revision,       \* chain_sync_revisions.revision
    acq             \* the acquisitions

store == <<stored, covered, facts, revision>>
vars == <<chainVars, store, acq>>

Blocks == 1..MaxBlock

Idle == [pc |-> "idle"]

Acquisition ==
    [pc : {"idle"}]
    \cup [pc : {"logs", "headers", "tip", "result"},
          from : Blocks, to : Blocks, revision : Nat,
          next : 1..(MaxBlock + 1), logs : SUBSET Hash, headers : Seq(Hash)]

TypeOK ==
    /\ ChainTypeOK
    /\ stored \in [Blocks -> Hash \cup {None}]
    /\ covered \subseteq Blocks
    /\ facts \in SUBSET Hash
    /\ revision \in Nat
    /\ acq \in [Slots -> Acquisition]

Init ==
    /\ ChainInit
    /\ stored = [n \in Blocks |-> None]
    /\ covered = {}
    /\ facts = {}
    /\ revision = 0
    /\ acq = [s \in Slots |-> Idle]

HasEvent(h) == h[Len(h)] \in EventLabel

ParentHash(h) == SubSeq(h, 1, Len(h) - 1)

-----------------------------------------------------------------------------
(* Acquisition (acquireSyncRange, fetchCanonicalSyncBlocks).                *)

SetAcq(s, a) ==
    /\ acq' = [acq EXCEPT ![s] = a]
    /\ UNCHANGED <<chainVars, store>>

\* Mutated: a range may start below the first block.
BeginAtZero(s) ==
    /\ acq[s] = Idle
    /\ \E from \in 0..HeadBlock : \E to \in from..HeadBlock :
          /\ to - from < MaxRange
          /\ SetAcq(s, [pc |-> "logs", from |-> from, to |-> to,
                        revision |-> revision, next |-> from,
                        logs |-> {}, headers |-> <<>>])

\* The revision is captured before the first call.
Begin(s) ==
    /\ acq[s] = Idle
    /\ \E from \in 1..HeadBlock : \E to \in from..HeadBlock :
          /\ to - from < MaxRange
          /\ SetAcq(s, [pc |-> "logs", from |-> from, to |-> to,
                        revision |-> revision, next |-> from,
                        logs |-> {}, headers |-> <<>>])

\* One page of getLogs: empty for a block the chain does not have.
ReadLogs(s) ==
    LET a == acq[s]
        last == a.next = a.to IN
    /\ a.pc = "logs"
    /\ SetAcq(s, [a EXCEPT
          !.logs = @ \cup IF a.next <= HeadBlock /\ HasEvent(HashAt(a.next))
                          THEN {HashAt(a.next)} ELSE {},
          !.next = IF last THEN a.from ELSE @ + 1,
          !.pc = IF last THEN "headers" ELSE @])

\* assertSyncBlockHeaders: adjacent headers belong to one chain.
Linked(headers) ==
    \A i \in 1..(Len(headers) - 1) : ParentHash(headers[i + 1]) = headers[i]

\* getBlock(next, fresh); the links are asserted after the last one.
ReadHeader(s) ==
    LET a == acq[s]
        headers == Append(a.headers, HashAt(a.next)) IN
    /\ a.pc = "headers"
    /\ a.next <= HeadBlock
    /\ IF a.next < a.to
       THEN SetAcq(s, [a EXCEPT !.headers = headers, !.next = @ + 1])
       ELSE /\ Linked(headers)
            /\ SetAcq(s, [a EXCEPT !.headers = headers, !.pc = "tip"])

\* Mutated: the tip is taken as read.
RecheckNothing(s) ==
    LET a == acq[s] IN
    /\ a.pc = "tip"
    /\ SetAcq(s, [a EXCEPT !.pc = "result"])

\* The tip is read again and must not have changed.
RecheckTip(s) ==
    LET a == acq[s] IN
    /\ a.pc = "tip"
    /\ a.to <= HeadBlock
    /\ HashAt(a.to) = a.headers[Len(a.headers)]
    /\ SetAcq(s, [a EXCEPT !.pc = "result"])

\* A failed call or assertion, or a crash, at any point.
Abandon(s) == acq[s] # Idle /\ SetAcq(s, Idle)

-----------------------------------------------------------------------------
(* Persistence (persistSyncResult, rollbackFromBlock).                      *)

Header(a, n) == a.headers[n - a.from + 1]

\* Mutated: the facts are stored whatever branch they were read on.
FactsUnchecked(a) == TRUE

\* assertSyncResultMatchesBlocks: every fact's block is one of the headers.
FactsMatchBlocks(a) ==
    \A h \in a.logs : Len(h) \in a.from..a.to /\ Header(a, Len(h)) = h

\* StoredBlockHashConflict.
Conflict(a) ==
    \E n \in a.from..a.to : stored[n] # None /\ stored[n] # Header(a, n)

\* Any failed assertion leaves the database alone: the attempt is abandoned.
Commit(s) ==
    LET a == acq[s]
        range == a.from..a.to IN
    /\ a.pc = "result"
    /\ a.revision = revision
    /\ FactsMatchBlocks(a)
    /\ ~Conflict(a)
    /\ stored' = [n \in Blocks |-> IF n \in range THEN Header(a, n) ELSE stored[n]]
    /\ covered' = covered \cup range
    /\ facts' = facts \cup a.logs
    /\ acq' = [acq EXCEPT ![s] = Idle]
    /\ UNCHANGED <<chainVars, revision>>

OnChain(h) == Len(h) <= HeadBlock /\ HashAt(Len(h)) = h

\* The facts a rollback keeps.
FactsUpTo(fork) == {h \in facts : Len(h) <= fork}

\* The reorg worker rolls back to a canonical stored block below an orphan
\* (ReorgRecovery models how it gets there).
Rollback ==
    /\ \E fork \in Blocks :
          /\ stored[fork] # None /\ OnChain(stored[fork])
          /\ \E n \in (fork + 1)..MaxBlock : stored[n] # None /\ ~OnChain(stored[n])
          /\ stored' = [n \in Blocks |-> IF n > fork THEN None ELSE stored[n]]
          /\ covered' = covered \cap (1..fork)
          /\ facts' = FactsUpTo(fork)
    /\ revision' = revision + 1
    /\ UNCHANGED <<chainVars, acq>>

Next ==
    \/ (NewHead \/ Reorg) /\ UNCHANGED <<store, acq>>
    \/ \E s \in Slots :
          Begin(s) \/ ReadLogs(s) \/ ReadHeader(s) \/ RecheckTip(s)
          \/ Commit(s) \/ Abandon(s)
    \/ Rollback

Spec == Init /\ [][Next]_vars

-----------------------------------------------------------------------------
(* Properties                                                              *)

View(a) ==
    IF a.pc = "result" THEN [n \in a.from..a.to |-> Header(a, n)] ELSE None

Atomic == INSTANCE AtomicRangeRead WITH view <- [s \in Slots |-> View(acq[s])]

\* The headers an acquisition ends with are one instantaneous read of the
\* canonical chain, however reorgs fall between the header calls.
AtomicRead == Atomic!AbsSpec

\* Stored facts and coverage always belong to the stored header of their
\* block, through commits of overlapping ranges and rollbacks
\* (persistSyncResult asserts it of its own input only).
FactsMatchHeaders ==
    /\ \A h \in facts : stored[Len(h)] = h
    /\ \A n \in covered : stored[n] # None

\* A covered block's events are stored: the promise of the comment at
\* sync-result.ts:40, "A reorg between log and header reads must reject the
\* result before coverage or balances move".
CoveredComplete ==
    \A n \in covered : HasEvent(stored[n]) => stored[n] \in facts
=============================================================================
