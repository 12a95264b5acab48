---------------------- MODULE ReorgRecoverySync_proofs ----------------------
(***************************************************************************)
(* The inductive invariant behind the safety of chain history under reorgs, *)
(* and its preservation by the steps of the chain, of the bootstrap worker  *)
(* and of block acquisition.  ReorgRecovery_proofs treats the steps of the  *)
(* reorg worker and concludes.                                              *)
(***************************************************************************)
EXTENDS ReorgRecovery, CanonicalChain_proofs

\* The recovery that will roll back height n.
Covered(n) ==
    /\ recovery # None
    /\ recovery.phase = "awaiting"
    /\ recovery.revision = revision
    /\ recovery.checked <= n

Final(n, h) == n <= Confirmed /\ h = HashAt(n)

\* A stored block is owed a check, covered by the recovery, or final.
StoredInv ==
    \A n \in Heights :
        stored[n] # None =>
            /\ Len(stored[n]) = n
            /\ n \in pending \/ Covered(n) \/ Final(n, stored[n])

PendingStored == \A n \in pending : stored[n] # None

RecoveryInv ==
    recovery # None =>
        /\ recovery.id <= lastId
        /\ recovery.revision = revision
        /\ recovery.checked <= Confirmed
        /\ recovery.phase = "resync" => recovery.to <= recovery.target

ProvedInv ==
    \A n \in proved : n <= Confirmed /\ (stored[n] # None => stored[n] = HashAt(n))

\* What an acquisition remembers: a head that has been seen, a revision that
\* has been current, and headers that are right wherever it matters.
SlotOK(r) ==
    /\ r.pc \in {"captured", "observed", "fetched"} => r.revision <= revision
    /\ r.pc \in {"observed", "fetched"} => r.head <= maxHead
    /\ r.pc = "fetched" =>
          /\ Len(r.tip) = r.to
          /\ \A n \in r.from..r.to :
                n <= UpperBound(r.head) \/ (n \in proved /\ r.revision = revision)
                    => Canonical(r.tip, n) = HashAt(n)

SlotInv == \A s \in Slots : SlotOK(slot[s])

\* What a proof attempt remembers: the journal row it started from, if that
\* row is still there, and a window inside the proof's range.
ProofOK(w) ==
    /\ w.expected.id <= lastId
    /\ w.expected.checked <= Confirmed
    /\ recovery # None /\ recovery.phase = "awaiting" /\ recovery.id = w.expected.id
          => recovery = w.expected
    /\ \A n \in Heights : w.window[n] # None => n \in WindowOf(w.expected.checked)

\* Below a proved fork the remembered window is canonical.
ForkOK(w) ==
    /\ w.fork < w.expected.checked
    /\ w.window[w.fork] # None
    /\ \A n \in Heights : n <= w.fork /\ w.window[n] # None => w.window[n] = HashAt(n)

WorkerOK(w) ==
    /\ w.pc = "head" => w.head <= maxHead
    /\ w.pc \in {"check", "observed"} => w.block <= Confirmed
    /\ w.pc = "observed" => w.seen = HashAt(w.block)
    /\ w.pc \in {"history", "plan", "snapshot", "commit"} => ProofOK(w)
    /\ w.pc \in {"plan", "snapshot", "commit"} => ForkOK(w)

DbTypeOK ==
    /\ stored \in [Heights -> Hash \cup {None}]
    /\ pending \subseteq Heights
    /\ revision \in Revisions
    /\ recovery \in {None} \cup Awaiting \cup Resync
    /\ lastId \in Nat
    /\ anchor \in Heights \cup {None}
    /\ eligible \in BOOLEAN
    /\ proved \subseteq Heights
    /\ owed \subseteq Heights

DbInv ==
    /\ ChainTypeOK
    /\ DbTypeOK
    /\ StoredInv
    /\ PendingStored
    /\ RecoveryInv
    /\ ProvedInv
    /\ RolledBackOwed

SlotsInv == slot \in [Slots -> SlotState] /\ SlotInv

WorkerInv == worker \in WorkerState /\ WorkerOK(worker)

\* The inductive invariant, by the process that owns each part.
IInv == DbInv /\ SlotsInv /\ WorkerInv

-----------------------------------------------------------------------------
(* Frames: a step that leaves alone what a part mentions preserves it.      *)

\* The chain's own type, spelled out for the arithmetic steps.
LEMMA ChainFacts ==
    ASSUME ChainTypeOK
    PROVE  /\ Confirmed \in Nat
           /\ maxHead \in Nat
           /\ HeadBlock \in Heights
           /\ Confirmed <= HeadBlock
           /\ HeadBlock <= maxHead
           /\ \A n \in Heights : n \in Nat /\ n <= MaxBlock
           /\ \A h \in Heights : UpperBound(h) \in Nat
           /\ \A h \in Heights : h <= maxHead => UpperBound(h) <= Confirmed
<1>1. Len(chain) \in Nat BY LenProperties DEF ChainTypeOK, Hash
<1> QED BY <1>1, ChainAssumption
        DEF ChainTypeOK, Confirmed, HeadBlock, Heights, UpperBound

\* The database conjuncts read only the database and the chain.
LEMMA DbFrame ==
    ASSUME DbInv, UNCHANGED <<chainVars, db, ghosts>>
    PROVE  DbInv'
<1>1. ChainTypeOK'
  BY DEF DbInv, ChainTypeOK, chainVars, Confirmed, HeadBlock, Heights
<1>2. DbTypeOK' BY DEF DbInv, DbTypeOK, db, collections, ghosts
<1>3. StoredInv'
  BY DEF DbInv, StoredInv, Covered, Final, Confirmed, HashAt, chainVars, db, collections
<1>4. RecoveryInv' BY DEF DbInv, RecoveryInv, Confirmed, chainVars, db, collections
<1>5. ProvedInv'
  BY DEF DbInv, ProvedInv, Confirmed, HashAt, chainVars, db, collections, ghosts
<1>6. RolledBackOwed' BY DEF DbInv, RolledBackOwed, db, collections, ghosts
<1>7. PendingStored' BY DEF DbInv, PendingStored, db, collections
<1> QED BY <1>1, <1>2, <1>3, <1>4, <1>5, <1>6, <1>7 DEF DbInv

\* An acquisition reads its own slot, the chain and the database.
LEMMA SlotsFrame ==
    ASSUME SlotsInv, UNCHANGED <<chainVars, revision, proved, slot>>
    PROVE  SlotsInv'
BY DEF SlotsInv, SlotInv, SlotOK, chainVars, HashAt

\* A proof attempt survives whatever does not journal a mismatch.
LEMMA WorkerFrame ==
    ASSUME WorkerInv, UNCHANGED <<chainVars, lastId, worker>>,
           recovery' # None /\ recovery'.phase = "awaiting" => recovery' = recovery
    PROVE  WorkerInv'
BY DEF WorkerInv, WorkerOK, ProofOK, ForkOK, chainVars, Confirmed, HashAt

\* One acquisition moves to a state it may be in.
LEMMA SlotStep ==
    ASSUME SlotsInv, NEW s \in Slots, NEW x \in SlotState, SlotOK(x),
           slot' = [slot EXCEPT ![s] = x],
           UNCHANGED <<chainVars, revision, proved>>
    PROVE  SlotsInv'
<1>1. slot' \in [Slots -> SlotState] BY DEF SlotsInv
<1>2. ASSUME NEW t \in Slots PROVE SlotOK(slot[t])'
  <2>1. SlotOK(slot[t]) /\ slot \in [Slots -> SlotState] BY DEF SlotsInv, SlotInv
  <2>2. CASE t = s
    <3>1. slot'[t] = x BY <2>1, <2>2
    <3> QED BY <3>1 DEF SlotOK, chainVars, HashAt
  <2>3. CASE t # s
    <3>1. slot'[t] = slot[t] BY <2>1, <2>3
    <3> QED BY <3>1, <2>1 DEF SlotOK, chainVars, HashAt
  <2> QED BY <2>2, <2>3
<1> QED BY <1>1, <1>2 DEF SlotsInv, SlotInv

\* The reorg worker moves to a state it may be in.
LEMMA GotoStep ==
    ASSUME IInv, NEW x \in WorkerState, WorkerOK(x), Goto(x)
    PROVE  IInv'
<1>1. worker' = x /\ UNCHANGED <<chainVars, db, slot, ghosts>> BY DEF Goto
<1>2. DbInv' BY <1>1, DbFrame DEF IInv
<1>3. SlotsInv' BY <1>1, SlotsFrame DEF IInv, db, collections, ghosts
<1>4. WorkerInv'
  BY <1>1 DEF WorkerInv, WorkerOK, ProofOK, ForkOK, chainVars, db, collections,
              Confirmed, HashAt
<1> QED BY <1>2, <1>3, <1>4 DEF IInv

\* The start of a pass and the empty slot promise nothing.
LEMMA IdleOK ==
    /\ Idle \in SlotState /\ SlotOK(Idle)
    /\ Idle \in WorkerState /\ WorkerOK(Idle)
    /\ CheckDue \in WorkerState /\ WorkerOK(CheckDue)
BY DEF Idle, CheckDue, SlotState, WorkerState, SlotOK, WorkerOK

-----------------------------------------------------------------------------
(* Steps of the sync worker.                                                *)

\* A step that changes only one slot.
LEMMA SlotOnly ==
    ASSUME IInv, NEW s \in Slots, NEW x \in SlotState, SlotOK(x),
           slot' = [slot EXCEPT ![s] = x],
           UNCHANGED <<chainVars, db, worker, ghosts>>
    PROVE  IInv'
<1>1. DbInv' BY DbFrame DEF IInv
<1>2. SlotsInv' BY SlotStep DEF IInv, db, collections, ghosts
<1>3. WorkerInv' BY WorkerFrame DEF IInv, db, collections
<1> QED BY <1>1, <1>2, <1>3 DEF IInv

\* The typed state of one slot.
LEMMA SlotFacts ==
    ASSUME IInv, NEW s \in Slots
    PROVE  /\ slot[s] \in SlotState
           /\ SlotOK(slot[s])
           /\ slot[s].pc = "captured" =>
                 slot[s] \in [pc : {"captured"}, job : Job, from : Heights,
                              to : Heights, revision : Revisions]
           /\ slot[s].pc = "observed" =>
                 slot[s] \in [pc : {"observed"}, job : Job, from : Heights,
                              to : Heights, revision : Revisions, head : Heights]
           /\ slot[s].pc = "fetched" =>
                 slot[s] \in [pc : {"fetched"}, job : Job, from : Heights,
                              to : Heights, revision : Revisions,
                              head : Heights, tip : Hash]
           /\ slot[s].pc = "conflict" =>
                 slot[s] \in [pc : {"conflict"}, block : Heights, hash : Hash,
                              revision : Revisions]
<1>1. slot[s] \in SlotState /\ SlotOK(slot[s]) BY DEF IInv, SlotsInv, SlotInv
<1> QED BY <1>1 DEF SlotState

\* acquireSyncRange starts an acquisition at the current revision.
LEMMA BeginInv ==
    ASSUME IInv, NEW s \in Slots, NEW job \in Job, NEW from \in Heights,
           NEW to \in Heights, Begin(s, job, from, to)
    PROVE  IInv'
<1> DEFINE x == [pc |-> "captured", job |-> job, from |-> from, to |-> to,
                 revision |-> revision]
<1>1. revision \in Nat BY DEF IInv, DbInv, DbTypeOK, Revisions
<1>2. x \in SlotState BY <1>1 DEF SlotState, Revisions
<1>3. SlotOK(x) BY <1>1 DEF SlotOK
<1>4. slot' = [slot EXCEPT ![s] = x] /\ UNCHANGED <<chainVars, db, worker, ghosts>>
  BY DEF Begin
<1> HIDE DEF x
<1> QED BY <1>2, <1>3, <1>4, SlotOnly

\* A realtime or backfill job starts an acquisition.
LEMMA BeginDirectInv ==
    ASSUME IInv, NEW s \in Slots, BeginDirect(s)
    PROVE  IInv'
<1>1. PICK from \in FirstBlock..HeadBlock :
        \E to \in from..Lower(HeadBlock, from + BatchSize - 1) :
            Begin(s, [kind |-> "direct", id |-> 0], from, to)
  BY DEF BeginDirect
<1>2. PICK to \in from..Lower(HeadBlock, from + BatchSize - 1) :
        Begin(s, [kind |-> "direct", id |-> 0], from, to)
  BY <1>1
<1>3. HeadBlock \in Heights BY ChainFacts DEF IInv, DbInv
<1>4. from \in Heights /\ to \in Heights
  BY <1>3, RecoveryAssumption, ChainAssumption DEF Heights, Lower
<1>5. [kind |-> "direct", id |-> 0] \in Job BY DEF Job
<1> QED BY <1>2, <1>4, <1>5, BeginInv

\* The automatic executor starts the retained resync range.
LEMMA BeginResyncInv ==
    ASSUME IInv, NEW s \in Slots, BeginResync(s)
    PROVE  IInv'
<1>1. recovery \in Resync
  BY DEF BeginResync, Resyncing, IInv, DbInv, DbTypeOK, Awaiting, Resync
<1>2. /\ [kind |-> "resync", id |-> recovery.id] \in Job
      /\ recovery.from \in Heights /\ recovery.to \in Heights
  BY <1>1 DEF Job, Resync
<1>3. Begin(s, [kind |-> "resync", id |-> recovery.id], recovery.from, recovery.to)
  BY DEF BeginResync
<1> QED BY <1>2, <1>3, BeginInv

\* The automatic executor starts a gap repair.
LEMMA BeginGapRepairInv ==
    ASSUME IInv, NEW s \in Slots, BeginGapRepair(s)
    PROVE  IInv'
<1>1. PICK n \in FirstBlock..(HeadBlock - ReorgDepth) :
        Begin(s, [kind |-> "gap", id |-> 0], n, n)
  BY DEF BeginGapRepair
<1>2. HeadBlock \in Heights BY ChainFacts DEF IInv, DbInv
<1>3. n \in Heights BY <1>2, RecoveryAssumption, ChainAssumption DEF Heights
<1>4. [kind |-> "gap", id |-> 0] \in Job BY DEF Job
<1> QED BY <1>1, <1>3, <1>4, BeginInv

\* The observed head bounds the confirmed height of the range.
LEMMA ObserveHeadInv ==
    ASSUME IInv, NEW s \in Slots, ObserveHead(s)
    PROVE  IInv'
<1> DEFINE r == slot[s]
           x == [pc |-> "observed", job |-> r.job, from |-> r.from, to |-> r.to,
                 revision |-> r.revision, head |-> HeadBlock]
<1>1. /\ r \in [pc : {"captured"}, job : Job, from : Heights,
                to : Heights, revision : Revisions]
      /\ SlotOK(r)
  BY SlotFacts DEF ObserveHead
<1>2. HeadBlock \in Heights /\ HeadBlock <= maxHead BY ChainFacts DEF IInv, DbInv
<1>3. x \in SlotState BY <1>1, <1>2 DEF SlotState
<1>4. SlotOK(x) BY <1>1, <1>2 DEF SlotOK
<1>5. slot' = [slot EXCEPT ![s] = x] /\ UNCHANGED <<chainVars, db, worker, ghosts>>
  BY DEF ObserveHead, IInv, SlotsInv
<1> HIDE DEF x
<1> QED BY <1>3, <1>4, <1>5, SlotOnly

\* A range of the chain's own headers is right everywhere.
LEMMA FetchBlocksInv ==
    ASSUME IInv, NEW s \in Slots, FetchBlocks(s)
    PROVE  IInv'
<1> DEFINE r == slot[s]
           x == [pc |-> "fetched", job |-> r.job, from |-> r.from, to |-> r.to,
                 revision |-> r.revision, head |-> r.head, tip |-> HashAt(r.to)]
<1>1. /\ r \in [pc : {"observed"}, job : Job, from : Heights, to : Heights,
                revision : Revisions, head : Heights]
      /\ SlotOK(r)
      /\ r.to <= HeadBlock
  BY SlotFacts DEF FetchBlocks
<1>2. HashAt(r.to) \in Hash /\ Len(HashAt(r.to)) = r.to
  BY <1>1, HashAtType DEF IInv, DbInv
<1>3. x \in SlotState BY <1>1, <1>2 DEF SlotState
<1>4. \A n \in r.from..r.to : Canonical(HashAt(r.to), n) = HashAt(n)
  <2>1. chain \in Seq(Label) /\ Len(chain) \in Nat
    BY LenProperties DEF IInv, DbInv, ChainTypeOK, Hash
  <2>2. r.to \in 0..Len(chain) BY <1>1, <2>1 DEF Heights, HeadBlock
  <2>3. \A n \in r.from..r.to : n \in 0..r.to BY <1>1 DEF Heights
  <2> QED BY <2>1, <2>2, <2>3, PrefixOfPrefix DEF Canonical, HashAt
<1>5. SlotOK(x) BY <1>1, <1>2, <1>4 DEF SlotOK
<1>6. slot' = [slot EXCEPT ![s] = x] /\ UNCHANGED <<chainVars, db, worker, ghosts>>
  BY DEF FetchBlocks, IInv, SlotsInv
<1> HIDE DEF x
<1> QED BY <1>3, <1>5, <1>6, SlotOnly

\* A range that disagrees with a stored header names that header.
LEMMA ConflictingRangeInv ==
    ASSUME IInv, NEW s \in Slots, ConflictingRange(s)
    PROVE  IInv'
<1>1. slot[s] \in [pc : {"fetched"}, job : Job, from : Heights, to : Heights,
                   revision : Revisions, head : Heights, tip : Hash]
  BY SlotFacts DEF ConflictingRange
<1>2. PICK n \in Conflicts(slot[s]) :
        slot' = [slot EXCEPT ![s] = [pc |-> "conflict", block |-> n,
                                     hash |-> stored[n], revision |-> revision]]
  BY DEF ConflictingRange
<1>3. n \in slot[s].from..slot[s].to /\ stored[n] # None BY DEF Conflicts
<1>4. n \in Heights BY <1>1, <1>3, ChainAssumption DEF Heights
<1>5. stored[n] \in Hash /\ revision \in Revisions
  BY <1>3, <1>4 DEF IInv, DbInv, DbTypeOK
<1> DEFINE x == [pc |-> "conflict", block |-> n, hash |-> stored[n],
                 revision |-> revision]
<1>6. x \in SlotState BY <1>4, <1>5 DEF SlotState
<1>7. SlotOK(x) BY DEF SlotOK
<1>8. slot' = [slot EXCEPT ![s] = x] /\ UNCHANGED <<chainVars, db, worker, ghosts>>
  BY <1>2 DEF ConflictingRange
<1> HIDE DEF x
<1> QED BY <1>6, <1>7, <1>8, SlotOnly

\* A dropped range leaves the database alone.
LEMMA DropRangeInv ==
    ASSUME IInv, NEW s \in Slots, DropRange(s)
    PROVE  IInv'
BY IdleOK, SlotOnly DEF DropRange

\* A commit adds headers that are final or pending, and takes nothing away
\* that a recovery in the "awaiting" phase covers.
LEMMA CommitRangeInv ==
    ASSUME IInv, NEW s \in Slots, CommitRange(s)
    PROVE  IInv'
<1> DEFINE r == slot[s]
<1>1. /\ r \in [pc : {"fetched"}, job : Job, from : Heights, to : Heights,
                revision : Revisions, head : Heights, tip : Hash]
      /\ SlotOK(r)
      /\ r.pc = "fetched"
  BY SlotFacts DEF CommitRange
<1>2. /\ OwnsRange(r) /\ Conflicts(r) = {} /\ PersistBlocks(r)
      /\ IF r.job.kind = "resync"
         THEN recovery' = AdvanceReorgResync(recovery) /\ owed' = owed \ (r.from..r.to)
         ELSE recovery' = recovery /\ owed' = owed
      /\ slot' = [slot EXCEPT ![s] = Idle]
      /\ UNCHANGED <<chainVars, revision, lastId, collections, worker, proved>>
  BY DEF CommitRange
<1>3. DbTypeOK /\ ChainTypeOK /\ StoredInv /\ RecoveryInv /\ ProvedInv /\ RolledBackOwed
  BY DEF IInv, DbInv
<1>4. ASSUME NEW n \in Heights, n \in r.from..r.to
      PROVE  /\ Canonical(r.tip, n) \in Hash
             /\ Len(Canonical(r.tip, n)) = n
             /\ Canonical(r.tip, n) # None
             /\ stored[n] # None => stored[n] = Canonical(r.tip, n)
             /\ stored'[n] = Canonical(r.tip, n)
             /\ n <= UpperBound(r.head) => Final(n, Canonical(r.tip, n))
             /\ n \in proved => Canonical(r.tip, n) = HashAt(n)
  <2>1. r.tip \in Seq(Label) /\ Len(r.tip) = r.to BY <1>1 DEF SlotOK, Hash
  <2>2. n \in 0..Len(r.tip) BY <1>1, <1>4, <2>1 DEF Heights
  <2>3. Canonical(r.tip, n) \in Hash /\ Len(Canonical(r.tip, n)) = n
    BY <2>1, <2>2, PrefixType DEF Canonical, Hash
  <2>4. stored[n] # None => stored[n] = Canonical(r.tip, n)
    BY <1>2, <1>4 DEF Conflicts
  <2>5. stored'[n] = Canonical(r.tip, n) BY <1>2, <1>4 DEF PersistBlocks
  <2>6. n <= UpperBound(r.head) => Final(n, Canonical(r.tip, n))
    <3>1. r.head <= maxHead /\ r.head \in Heights BY <1>1 DEF SlotOK
    <3>2. /\ UpperBound(r.head) <= Confirmed /\ UpperBound(r.head) \in Nat
          /\ Confirmed \in Nat /\ n \in Nat
      BY <3>1, <1>3, ChainFacts
    <3>3. n <= UpperBound(r.head) => n <= Confirmed BY <3>2
    <3> QED BY <1>1, <1>4, <3>3 DEF SlotOK, Final
  <2>7. n \in proved => Canonical(r.tip, n) = HashAt(n)
    BY <1>1, <1>2, <1>4 DEF SlotOK, OwnsRange
  <2> QED BY <2>3, <2>4, <2>5, <2>6, <2>7, NoneAssumption
<1>5. ASSUME NEW n \in Heights, n \notin r.from..r.to
      PROVE  stored'[n] = stored[n]
  BY <1>2, <1>5 DEF PersistBlocks
<1>6. /\ pending \subseteq pending' /\ pending' \subseteq Heights
      /\ \A n \in Heights : n \in r.from..r.to /\ stored[n] = None
                            /\ n \notin pending' => n <= UpperBound(r.head)
  <2>1. pending' = pending \cup {n \in r.from..r.to :
                                   stored[n] = None /\ n > UpperBound(r.head)}
    BY <1>2 DEF PersistBlocks
  <2>2. UpperBound(r.head) \in Nat BY <1>1, <1>3, ChainFacts
  <2>3. r.from..r.to \subseteq Heights BY <1>1, ChainAssumption DEF Heights
  <2>4. pending \subseteq Heights BY <1>3 DEF DbTypeOK
  <2>5. pending \subseteq pending' /\ pending' \subseteq Heights BY <2>1, <2>3, <2>4
  <2>6. ASSUME NEW n \in Heights, n \in r.from..r.to, stored[n] = None,
               n \notin pending'
        PROVE  n <= UpperBound(r.head)
    <3>1. ~(n > UpperBound(r.head)) BY <2>1, <2>6
    <3>2. n \in Nat BY <1>3, ChainFacts
    <3> HIDE DEF r
    <3> QED BY <2>2, <3>1, <3>2
  <2> QED BY <2>5, <2>6
<1>7. /\ recovery' \in {None} \cup Awaiting \cup Resync
      /\ RecoveryInv'
      /\ RolledBackOwed'
      /\ owed' \subseteq Heights
      /\ recovery # None /\ recovery.phase = "awaiting" => recovery' = recovery
      /\ recovery' # None /\ recovery'.phase = "awaiting" => recovery' = recovery
  <2>1. CASE r.job.kind # "resync"
    <3>1. recovery' = recovery /\ owed' = owed BY <1>2, <2>1
    <3> QED BY <1>2, <1>3, <3>1
            DEF DbTypeOK, RecoveryInv, RolledBackOwed, chainVars, Confirmed
  <2>2. CASE r.job.kind = "resync"
    <3>1. /\ recovery # None /\ recovery.phase = "resync"
          /\ recovery.from = r.from /\ recovery.to = r.to
      BY <1>2, <2>2 DEF OwnsRange, IsCurrentReorgRange
    <3>2. recovery \in Resync BY <1>3, <3>1 DEF DbTypeOK, Awaiting, Resync
    <3>3. recovery' = AdvanceReorgResync(recovery) /\ owed' = owed \ (r.from..r.to)
      BY <1>2, <2>2
    <3>4. /\ recovery.from \in Nat /\ recovery.to \in Nat /\ recovery.target \in Nat
          /\ \A n \in owed : n \in recovery.from..recovery.target
      BY <1>3, <3>1, <3>2, ChainFacts DEF RolledBackOwed, Resync
    <3>5. ASSUME NEW n \in owed'
          PROVE  n \in Nat /\ recovery.to < n /\ n <= recovery.target
      <4>1. n \in owed /\ n \notin recovery.from..recovery.to BY <3>1, <3>3
      <4>2. n \in recovery.from..recovery.target BY <3>4, <4>1
      <4> HIDE DEF r
      <4> QED BY <3>4, <4>1, <4>2
    <3>6. CASE recovery.to + 1 > recovery.target
      <4>1. recovery' = None BY <3>3, <3>6 DEF AdvanceReorgResync
      <4>2. owed' = {} BY <3>6, <3>4, <3>5
      <4> QED BY <4>1, <4>2, <3>1 DEF RecoveryInv, RolledBackOwed
    <3>7. CASE ~(recovery.to + 1 > recovery.target)
      <4> DEFINE y == [recovery EXCEPT !.version = recovery.version + 1,
                                       !.from = recovery.to + 1,
                                       !.to = Lower(recovery.target,
                                                    recovery.to + BatchSize)]
      <4>1. recovery' = y BY <3>3, <3>7 DEF AdvanceReorgResync
      <4>2. /\ recovery.to + 1 \in Heights
            /\ Lower(recovery.target, recovery.to + BatchSize) \in Heights
            /\ Lower(recovery.target, recovery.to + BatchSize) <= recovery.target
        BY <3>2, <3>7, ChainAssumption, RecoveryAssumption DEF Resync, Heights, Lower
      <4>3. recovery.version + 1 \in Nat BY <3>2 DEF Resync
      <4>4. y \in Resync
        BY <3>2, <4>2, <4>3 DEF Resync
      <4>5. /\ y.id = recovery.id /\ y.revision = recovery.revision
            /\ y.checked = recovery.checked /\ y.phase = "resync"
            /\ y.from = recovery.to + 1 /\ y.target = recovery.target
            /\ y.to = Lower(recovery.target, recovery.to + BatchSize)
        BY <3>1, <3>2 DEF Resync
      <4>6. y # None BY <4>4, NoneAssumption
      <4> HIDE DEF y
      <4>7. recovery' \in Resync BY <4>1, <4>4
      <4>8. RecoveryInv'
        BY <1>2, <1>3, <3>1, <4>1, <4>2, <4>5 DEF RecoveryInv, chainVars, Confirmed
      <4>9. RolledBackOwed'
        <5>1. \A n \in owed' : n \in (recovery.to + 1)..recovery.target
          BY <3>4, <3>5
        <5> QED BY <4>1, <4>5, <4>6, <5>1 DEF RolledBackOwed
      <4>10. owed' \subseteq Heights BY <1>3, <3>3 DEF DbTypeOK
      <4> QED BY <3>1, <4>1, <4>5, <4>7, <4>8, <4>9, <4>10
    <3> QED BY <3>6, <3>7
  <2> QED BY <2>1, <2>2
<1>8. DbTypeOK'
  <2>1. \A n \in Heights : stored'[n] \in Hash \cup {None}
    BY <1>3, <1>4, <1>5 DEF DbTypeOK
  <2>2. stored' = [n \in Heights |->
                    IF n \in r.from..r.to THEN Canonical(r.tip, n) ELSE stored[n]]
    BY <1>2 DEF PersistBlocks
  <2>3. stored' \in [Heights -> Hash \cup {None}] BY <2>1, <2>2
  <2> QED BY <1>2, <1>3, <1>6, <1>7, <2>3 DEF DbTypeOK, collections
<1>9. StoredInv'
  <2> SUFFICES ASSUME NEW n \in Heights, stored'[n] # None
               PROVE  /\ Len(stored'[n]) = n
                      /\ n \in pending' \/ Covered(n)' \/ Final(n, stored[n])'
    BY DEF StoredInv
  <2>1. \A h : Final(n, h) => n <= Confirmed' /\ h = HashAt(n)'
    BY <1>2 DEF Final, Confirmed, HashAt, chainVars
  <2>2. Covered(n) => Covered(n)' BY <1>2, <1>7 DEF Covered
  <2>3. CASE stored[n] # None
    <3>1. stored'[n] = stored[n] BY <1>4, <1>5, <2>3
    <3>2. Len(stored[n]) = n /\ (n \in pending \/ Covered(n) \/ Final(n, stored[n]))
      BY <1>3, <2>3 DEF StoredInv
    <3> QED BY <1>6, <2>1, <2>2, <3>1, <3>2 DEF Final
  <2>4. CASE stored[n] = None
    <3>1. n \in r.from..r.to BY <1>5, <2>4
    <3>2. n \in pending' \/ n <= UpperBound(r.head) BY <1>6, <2>4, <3>1
    <3> QED BY <1>4, <2>1, <3>1, <3>2 DEF Final
  <2> QED BY <2>3, <2>4
<1>10. ProvedInv'
  <2> SUFFICES ASSUME NEW n \in proved
               PROVE  n <= Confirmed' /\ (stored'[n] # None => stored'[n] = HashAt(n)')
    BY <1>2 DEF ProvedInv
  <2>1. n \in Heights BY <1>3 DEF DbTypeOK
  <2>2. Confirmed' = Confirmed /\ HashAt(n)' = HashAt(n)
    BY <1>2 DEF Confirmed, HashAt, chainVars
  <2> QED BY <1>3, <1>4, <1>5, <2>1, <2>2 DEF ProvedInv
<1>11. ChainTypeOK'
  BY <1>2, <1>3 DEF ChainTypeOK, chainVars, Confirmed, HeadBlock, Heights
<1>12. PendingStored'
  <2>1. \A n \in Heights : stored[n] # None => stored'[n] # None
    BY <1>4, <1>5
  <2>2. pending \subseteq Heights /\ PendingStored BY DEF IInv, DbInv, DbTypeOK
  <2>3. ASSUME NEW n \in pending', n \notin pending PROVE stored'[n] # None
    <3>1. n \in r.from..r.to /\ n \in Heights BY <1>2, <1>6, <2>3 DEF PersistBlocks
    <3> QED BY <1>4, <3>1
  <2> QED BY <2>1, <2>2, <2>3 DEF PendingStored
<1>13. DbInv' BY <1>7, <1>8, <1>9, <1>10, <1>11, <1>12 DEF DbInv
<1>14. SlotsInv' BY <1>2, IdleOK, SlotStep DEF IInv
<1>15. WorkerInv'
  BY <1>2, <1>7, WorkerFrame DEF IInv
<1> QED BY <1>13, <1>14, <1>15 DEF IInv

\* A step that only changes which stored blocks are owed a check, and takes
\* the check from none but a final or covered block.
LEMMA PendingStep ==
    ASSUME DbInv, pending' \subseteq Heights, \A n \in pending' : stored[n] # None,
           UNCHANGED <<chainVars, stored, revision, recovery, lastId, collections, ghosts>>,
           \A n \in Heights : n \in pending /\ n \notin pending' /\ stored[n] # None =>
                                Covered(n) \/ Final(n, stored[n])
    PROVE  DbInv'
<1>1. ChainTypeOK'
  BY DEF DbInv, ChainTypeOK, chainVars, Confirmed, HeadBlock, Heights
<1>2. DbTypeOK' BY DEF DbInv, DbTypeOK, collections, ghosts
<1>3. StoredInv'
  BY DEF DbInv, StoredInv, Covered, Final, Confirmed, HashAt, chainVars
<1>4. RecoveryInv' BY DEF DbInv, RecoveryInv, Confirmed, chainVars
<1>5. ProvedInv' BY DEF DbInv, ProvedInv, Confirmed, HashAt, chainVars, ghosts
<1>6. RolledBackOwed' BY DEF DbInv, RolledBackOwed, ghosts
<1>7. PendingStored' BY DEF PendingStored
<1> QED BY <1>1, <1>2, <1>3, <1>4, <1>5, <1>6, <1>7 DEF DbInv

\* A conflict leaves a pending check for the stored header.
LEMMA RetainConflictInv ==
    ASSUME IInv, NEW s \in Slots, RetainConflict(s)
    PROVE  IInv'
<1>1. slot[s].block \in Heights BY SlotFacts DEF RetainConflict
<1>2. /\ pending' = pending \cup {slot[s].block}
      /\ slot' = [slot EXCEPT ![s] = Idle]
      /\ UNCHANGED <<chainVars, stored, revision, recovery, lastId, collections,
                     worker, ghosts>>
  BY DEF RetainConflict
<1>3. pending \subseteq Heights BY DEF IInv, DbInv, DbTypeOK
<1>4. stored[slot[s].block] # None
  BY SlotFacts, NoneAssumption DEF RetainConflict, CheckMatchesRow
<1>5. \A n \in pending' : stored[n] # None
  BY <1>2, <1>4 DEF IInv, DbInv, PendingStored
<1>6. DbInv' BY <1>1, <1>2, <1>3, <1>5, PendingStep DEF IInv
<1>7. SlotsInv' BY <1>2, IdleOK, SlotStep DEF IInv, ghosts
<1>8. WorkerInv' BY <1>2, WorkerFrame DEF IInv
<1> QED BY <1>6, <1>7, <1>8 DEF IInv

\* Every step of a sync worker preserves the invariant.
LEMMA SyncStepInv ==
    ASSUME IInv, NEW s \in Slots, SyncStep(s)
    PROVE  IInv'
<1>1. RejectRange(s) => DropRange(s) BY DEF RejectRange
<1> QED
  BY <1>1, BeginResyncInv, BeginGapRepairInv, ObserveHeadInv, FetchBlocksInv,
     CommitRangeInv, ConflictingRangeInv, RetainConflictInv, DropRangeInv
     DEF SyncStep

-----------------------------------------------------------------------------
(* Steps of the chain and of the bootstrap worker.                          *)

\* Everything remembered about confirmed heights survives a new head and a
\* reorg.
LEMMA EnvironmentInv ==
    ASSUME IInv, Environment
    PROVE  IInv'
<1>1. ChainTypeOK /\ (NewHead \/ Reorg) /\ UNCHANGED <<db, worker, slot, ghosts>>
  BY DEF IInv, DbInv, Environment
<1>2. /\ ChainTypeOK'
      /\ Confirmed' \in Nat /\ Confirmed <= Confirmed'
      /\ maxHead' \in Nat /\ maxHead <= maxHead'
      /\ \A n \in Heights : n <= Confirmed => HashAt(n)' = HashAt(n)
  BY <1>1, ConfirmedStable
<1>3. /\ Confirmed \in Nat /\ Confirmed' \in Nat
      /\ maxHead \in Nat /\ maxHead' \in Nat
      /\ \A n \in Heights : n \in Nat
      /\ \A h \in Heights : UpperBound(h) \in Nat
      /\ \A h \in Heights : h <= maxHead => UpperBound(h) <= Confirmed
  BY <1>1, <1>2, ChainFacts
<1>4. \A n \in Heights : n <= Confirmed => n <= Confirmed' /\ HashAt(n)' = HashAt(n)
  BY <1>2, <1>3
<1>5. DbInv'
  <2>1. DbTypeOK' BY <1>1 DEF IInv, DbInv, DbTypeOK, db, collections, ghosts
  <2>2. StoredInv'
    <3> SUFFICES ASSUME NEW n \in Heights, stored[n] # None
                 PROVE  /\ Len(stored[n]) = n
                        /\ n \in pending \/ Covered(n)' \/ Final(n, stored[n])'
      BY <1>1 DEF StoredInv, db, collections
    <3>1. Len(stored[n]) = n /\ (n \in pending \/ Covered(n) \/ Final(n, stored[n]))
      BY DEF IInv, DbInv, StoredInv
    <3>2. Covered(n) => Covered(n)' BY <1>1 DEF Covered, db, collections
    <3>3. Final(n, stored[n]) => Final(n, stored[n])'
      BY <1>1, <1>4 DEF Final, db, collections
    <3> QED BY <3>1, <3>2, <3>3
  <2>3. RecoveryInv'
    <3>1. recovery # None => recovery.checked \in Heights
      BY DEF IInv, DbInv, DbTypeOK, Awaiting, Resync
    <3> QED BY <1>1, <1>4, <3>1 DEF IInv, DbInv, RecoveryInv, db, collections
  <2>4. ProvedInv'
    <3>1. proved' = proved /\ stored' = stored /\ proved \subseteq Heights
      BY <1>1 DEF IInv, DbInv, DbTypeOK, db, collections, ghosts
    <3>2. \A n \in proved : n <= Confirmed' /\ HashAt(n)' = HashAt(n)
      BY <1>4, <3>1 DEF IInv, DbInv, ProvedInv
    <3> QED BY <3>1, <3>2 DEF IInv, DbInv, ProvedInv
  <2>5. RolledBackOwed' BY <1>1 DEF IInv, DbInv, RolledBackOwed, db, collections, ghosts
  <2>6. PendingStored' BY <1>1 DEF IInv, DbInv, PendingStored, db, collections
  <2> QED BY <1>2, <2>1, <2>2, <2>3, <2>4, <2>5, <2>6 DEF DbInv
<1>6. SlotsInv'
  <2> SUFFICES ASSUME NEW s \in Slots PROVE SlotOK(slot[s])'
    BY <1>1 DEF IInv, SlotsInv, SlotInv
  <2> DEFINE r == slot[s]
  <2>1. slot' = slot /\ revision' = revision /\ proved' = proved
    BY <1>1 DEF db, collections, ghosts
  <2>2. SlotOK(r) BY SlotFacts
  <2>3. r.pc \in {"observed", "fetched"} => r.head <= maxHead'
    <3>1. r.pc \in {"observed", "fetched"} => r.head \in Heights BY SlotFacts
    <3> QED BY <1>2, <1>3, <2>2, <3>1 DEF SlotOK
  <2>4. ASSUME r.pc = "fetched", NEW n \in r.from..r.to,
               n <= UpperBound(r.head) \/ (n \in proved /\ r.revision = revision)
        PROVE  Canonical(r.tip, n) = HashAt(n)'
    <3>1. r.from \in Heights /\ r.to \in Heights /\ r.head \in Heights
      BY <2>4, SlotFacts
    <3>2. n \in Heights BY <3>1, ChainAssumption DEF Heights
    <3>3. Canonical(r.tip, n) = HashAt(n) BY <2>2, <2>4 DEF SlotOK
    <3>4. CASE n \in proved
      BY <1>4, <3>2, <3>3, <3>4 DEF IInv, DbInv, ProvedInv
    <3>5. CASE n <= UpperBound(r.head)
      <4>1. UpperBound(r.head) <= Confirmed /\ UpperBound(r.head) \in Nat
        BY <1>3, <2>2, <2>4, <3>1 DEF SlotOK
      <4>2. n <= Confirmed BY <1>3, <3>2, <3>5, <4>1
      <4> QED BY <1>4, <3>2, <3>3, <4>2
    <3> QED BY <2>4, <3>4, <3>5
  <2> QED BY <2>1, <2>2, <2>3, <2>4 DEF SlotOK
<1>7. WorkerInv'
  <2>1. worker' = worker /\ recovery' = recovery /\ lastId' = lastId
    BY <1>1 DEF db, collections
  <2>2. worker \in WorkerState /\ WorkerOK(worker) BY DEF IInv, WorkerInv
  <2>3. worker.pc = "head" => worker.head <= maxHead'
    <3>1. worker.pc = "head" => worker.head \in Heights BY <2>2 DEF WorkerState
    <3> QED BY <1>2, <1>3, <2>2, <3>1 DEF WorkerOK
  <2>4. worker.pc \in {"check", "observed"} => worker.block <= Confirmed'
    <3>1. worker.pc \in {"check", "observed"} => worker.block \in Heights
      BY <2>2 DEF WorkerState
    <3> QED BY <1>4, <2>2, <3>1 DEF WorkerOK
  <2>5. worker.pc = "observed" => worker.seen = HashAt(worker.block)'
    <3>1. worker.pc = "observed" => worker.block \in Heights
      BY <2>2 DEF WorkerState
    <3>2. worker.pc = "observed" =>
            worker.block <= Confirmed /\ worker.seen = HashAt(worker.block)
      BY <2>2 DEF WorkerOK
    <3> QED BY <1>4, <2>1, <3>1, <3>2
  <2>6. worker.pc \in {"history", "plan", "snapshot", "commit"} => ProofOK(worker)'
    <3>1. worker.pc \in {"history", "plan", "snapshot", "commit"} =>
            worker.expected \in Awaiting
      BY <2>2 DEF WorkerState
    <3>2. worker.expected \in Awaiting => worker.expected.checked \in Heights
      BY DEF Awaiting
    <3> QED BY <1>4, <2>1, <2>2, <3>1, <3>2 DEF WorkerOK, ProofOK
  <2>7. worker.pc \in {"plan", "snapshot", "commit"} => ForkOK(worker)'
    <3> SUFFICES ASSUME worker.pc \in {"plan", "snapshot", "commit"}
                 PROVE  ForkOK(worker)'
      OBVIOUS
    <3>1. worker.expected \in Awaiting /\ worker.fork \in Heights
      BY <2>2 DEF WorkerState
    <3>2. worker.expected.checked \in Heights BY <3>1 DEF Awaiting
    <3>3. worker.fork < worker.expected.checked /\ worker.expected.checked <= Confirmed
      BY <2>2 DEF WorkerOK, ProofOK, ForkOK
    <3>4. \A n \in Heights : n <= worker.fork => n <= Confirmed
      BY <1>3, <3>1, <3>2, <3>3
    <3> QED BY <1>4, <2>1, <2>2, <3>4 DEF WorkerOK, ForkOK
  <2> QED BY <2>1, <2>2, <2>3, <2>4, <2>5, <2>6, <2>7 DEF WorkerInv, WorkerOK
<1> QED BY <1>5, <1>6, <1>7 DEF IInv

\* The bootstrap worker anchors a collection, and the operator purges or adds
\* one: the blocks and the journal are those of the chain.
LEMMA CollectionsInv ==
    ASSUME IInv, SetAnchor \/ PurgeCollection \/ AddCollection
    PROVE  IInv'
<1>1. UNCHANGED <<chainVars, stored, pending, revision, recovery, lastId,
                  worker, slot, ghosts>>
  BY DEF SetAnchor, PurgeCollection, AddCollection
<1>2. anchor' \in Heights \cup {None}
  <2>1. HeadBlock \in Heights BY ChainFacts DEF IInv, DbInv
  <2>2. SetAnchor => anchor' \in Heights
    BY <2>1, ChainAssumption DEF SetAnchor, Heights
  <2> QED BY <2>2 DEF PurgeCollection, AddCollection, IInv, DbInv, DbTypeOK
<1>3. eligible' \in BOOLEAN
  BY DEF SetAnchor, PurgeCollection, AddCollection, IInv, DbInv, DbTypeOK
<1>4. DbInv'
  <2>1. ChainTypeOK'
    BY <1>1 DEF IInv, DbInv, ChainTypeOK, chainVars, Confirmed, HeadBlock, Heights
  <2>2. DbTypeOK' BY <1>1, <1>2, <1>3 DEF IInv, DbInv, DbTypeOK, ghosts
  <2>3. StoredInv'
    BY <1>1 DEF IInv, DbInv, StoredInv, Covered, Final, Confirmed, HashAt, chainVars
  <2>4. RecoveryInv' BY <1>1 DEF IInv, DbInv, RecoveryInv, Confirmed, chainVars
  <2>5. ProvedInv' BY <1>1 DEF IInv, DbInv, ProvedInv, Confirmed, HashAt, chainVars, ghosts
  <2>6. RolledBackOwed' BY <1>1 DEF IInv, DbInv, RolledBackOwed, ghosts
  <2>7. PendingStored' BY <1>1 DEF IInv, DbInv, PendingStored
  <2> QED BY <2>1, <2>2, <2>3, <2>4, <2>5, <2>6, <2>7 DEF DbInv
<1>5. SlotsInv' BY <1>1, SlotsFrame DEF IInv, ghosts
<1>6. WorkerInv' BY <1>1, WorkerFrame DEF IInv
<1> QED BY <1>4, <1>5, <1>6 DEF IInv
=============================================================================
