------------------------ MODULE ReorgRecovery_proofs ------------------------
(***************************************************************************)
(* The safety of chain history under reorgs, for every chain, depth, batch  *)
(* size and number of concurrent acquisitions.                              *)
(*                                                                         *)
(* The argument.  A block that is stored but not owed a check was canonical *)
(* at a confirmed height when its check was waived or completed, and the    *)
(* confirmed part of the chain never changes (ConfirmedStable).  Whatever an *)
(* attempt of either worker remembers is therefore still true at its commit *)
(* for confirmed heights, and for the others the commit's own assertions    *)
(* compare it with the database.                                            *)
(*                                                                         *)
(* The invariant and its frames, and the steps of the chain, of the         *)
(* bootstrap worker and of block acquisition, are in                        *)
(* ReorgRecoverySync_proofs.                                                *)
(***************************************************************************)
EXTENDS ReorgRecoverySync_proofs

-----------------------------------------------------------------------------
(* Steps of the reorg worker.                                               *)

\* checkDue reads a head the chain has reached.
LEMMA ReadCheckHeadInv ==
    ASSUME IInv, ReadCheckHead
    PROVE  IInv'
<1> DEFINE x == [pc |-> "head", head |-> HeadBlock]
<1>1. HeadBlock \in Heights /\ HeadBlock <= maxHead BY ChainFacts DEF IInv, DbInv
<1>2. x \in WorkerState BY <1>1 DEF WorkerState
<1>3. WorkerOK(x) BY <1>1 DEF WorkerOK
<1>4. Goto(Idle) \/ Goto(x) BY DEF ReadCheckHead
<1> HIDE DEF x
<1> QED BY <1>2, <1>3, <1>4, IdleOK, GotoStep

\* A due check is at a confirmed height.
LEMMA SelectCheckInv ==
    ASSUME IInv, SelectCheck
    PROVE  IInv'
<1>1. worker.head \in Heights /\ worker.head <= maxHead
  BY DEF IInv, WorkerInv, WorkerOK, WorkerState, SelectCheck
<1>2. CASE Goto(Idle) BY <1>2, IdleOK, GotoStep
<1>3. CASE ~Goto(Idle)
  <2>1. PICK n \in {m \in pending : m <= UpperBound(worker.head)} :
          Goto([pc |-> "check", block |-> n, hash |-> stored[n],
                revision |-> revision])
    BY <1>3 DEF SelectCheck
  <2> DEFINE x == [pc |-> "check", block |-> n, hash |-> stored[n],
                   revision |-> revision]
  <2>2. n \in Heights /\ revision \in Revisions
    BY DEF IInv, DbInv, DbTypeOK
  <2>3. n <= Confirmed
    <3>1. /\ UpperBound(worker.head) <= Confirmed /\ UpperBound(worker.head) \in Nat
          /\ n \in Nat /\ Confirmed \in Nat
      BY <1>1, <2>2, ChainFacts DEF IInv, DbInv
    <3> QED BY <3>1
  <2>4. stored[n] \in Hash
    BY <2>2 DEF IInv, DbInv, DbTypeOK, PendingStored
  <2>5. x \in WorkerState BY <2>2, <2>4 DEF WorkerState
  <2>6. WorkerOK(x) BY <2>3 DEF WorkerOK
  <2> HIDE DEF x
  <2> QED BY <2>1, <2>5, <2>6, GotoStep DEF x
<1> QED BY <1>2, <1>3

\* The typed state of a check in progress.
LEMMA CheckFacts ==
    ASSUME IInv, worker.pc \in {"check", "observed"}
    PROVE  /\ worker.block \in Heights /\ worker.block <= Confirmed
           /\ worker.hash \in Hash /\ worker.revision \in Revisions
           /\ worker.pc = "observed" => worker.seen = HashAt(worker.block)
<1>1. worker \in WorkerState /\ WorkerOK(worker) BY DEF IInv, WorkerInv
<1> QED BY <1>1 DEF WorkerState, WorkerOK

\* The block read for a check is the canonical one, as it is now.
LEMMA ObserveBlockInv ==
    ASSUME IInv, ObserveBlock
    PROVE  IInv'
<1> DEFINE x == [pc |-> "observed", block |-> worker.block,
                 hash |-> worker.hash, revision |-> worker.revision,
                 seen |-> HashAt(worker.block)]
<1>1. CASE Goto(Idle) BY <1>1, IdleOK, GotoStep
<1>2. CASE ~Goto(Idle)
  <2>1. Goto(x) /\ worker.block <= HeadBlock BY <1>2 DEF ObserveBlock
  <2>2. /\ worker.block \in Heights /\ worker.block <= Confirmed
        /\ worker.hash \in Hash /\ worker.revision \in Revisions
    BY CheckFacts DEF ObserveBlock
  <2>3. HashAt(worker.block) \in Hash BY <2>1, <2>2, HashAtType DEF IInv, DbInv
  <2>4. x \in WorkerState BY <2>2, <2>3 DEF WorkerState
  <2>5. WorkerOK(x) BY <2>2 DEF WorkerOK
  <2> HIDE DEF x
  <2> QED BY <2>1, <2>4, <2>5, GotoStep
<1> QED BY <1>1, <1>2

\* The reorg worker ends a check in a transaction on the database.
LEMMA CompleteCheckInv ==
    ASSUME IInv, CompleteCheck
    PROVE  IInv'
<1>1. /\ worker.block \in Heights /\ worker.block <= Confirmed
      /\ worker.hash = HashAt(worker.block)
  BY CheckFacts DEF CompleteCheck
<1>2. /\ pending' = IF CheckMatchesRow(worker) THEN pending \ {worker.block}
                    ELSE pending
      /\ worker' = Idle
      /\ UNCHANGED <<chainVars, stored, revision, recovery, lastId, collections,
                     slot, ghosts>>
  BY DEF CompleteCheck
<1>3. \A n \in Heights : n \in pending /\ n \notin pending' =>
        n = worker.block /\ stored[n] = HashAt(n)
  BY <1>1, <1>2 DEF CheckMatchesRow
<1>4. pending' \subseteq Heights /\ \A n \in pending' : stored[n] # None
  BY <1>2 DEF IInv, DbInv, DbTypeOK, PendingStored
<1>5. DbInv' BY <1>1, <1>2, <1>3, <1>4, PendingStep DEF IInv, Final
<1>6. SlotsInv' BY <1>2, SlotsFrame DEF IInv, ghosts
<1>7. WorkerInv' BY <1>2 DEF WorkerInv, WorkerOK, WorkerState, Idle
<1> QED BY <1>5, <1>6, <1>7 DEF IInv

\* A newly journalled mismatch covers its block and everything the journal
\* covered before, keeps what an interrupted resync owes, and has an identity
\* no attempt has seen.
LEMMA RetainFacts ==
    ASSUME DbInv, NEW block \in Heights, block <= Confirmed, NEW new,
           new = RetainReorgMismatch(recovery, revision, lastId + 1, block)
    PROVE  /\ new \in Awaiting
           /\ new.revision = revision
           /\ new.checked <= block /\ new.checked <= Confirmed
           /\ recovery # None /\ recovery.phase = "awaiting" =>
                 new.checked <= recovery.checked
           /\ new = recovery \/ new.id = lastId + 1
           /\ \A n \in owed : new.resumeFrom # None /\ new.resumeFrom <= n
<1>1. /\ recovery \in {None} \cup Awaiting \cup Resync
      /\ lastId \in Nat /\ revision \in Revisions /\ owed \subseteq Heights
      /\ RecoveryInv /\ RolledBackOwed
      /\ Confirmed \in Nat /\ \A n \in Heights : n \in Nat
  BY ChainFacts DEF DbInv, DbTypeOK
<1>2. CASE /\ recovery # None /\ recovery.phase = "awaiting"
           /\ recovery.revision = revision /\ recovery.checked <= block
  <2>1. new = recovery BY <1>2 DEF RetainReorgMismatch
  <2>2. recovery \in Awaiting BY <1>1, <1>2 DEF Resync
  <2>3. recovery.checked \in Nat BY <1>1, <2>2 DEF Awaiting
  <2> QED BY <1>1, <1>2, <2>1, <2>2, <2>3 DEF RecoveryInv, RolledBackOwed
<1>3. CASE ~(/\ recovery # None /\ recovery.phase = "awaiting"
             /\ recovery.revision = revision /\ recovery.checked <= block)
  <2> DEFINE v == IF recovery = None THEN 0 ELSE recovery.version + 1
             f == IF recovery = None THEN None
                  ELSE IF recovery.phase = "resync" THEN recovery.from
                  ELSE recovery.resumeFrom
  <2>1. new = [phase |-> "awaiting", id |-> lastId + 1, revision |-> revision,
               version |-> v, checked |-> block, resumeFrom |-> f]
    BY <1>3 DEF RetainReorgMismatch
  <2>2. v \in Nat BY <1>1 DEF Awaiting, Resync
  <2>3. f \in Heights \cup {None} BY <1>1 DEF Awaiting, Resync
  <2>4. recovery # None /\ recovery.phase = "awaiting" => block <= recovery.checked
    <3>1. recovery # None => recovery.checked \in Nat /\ recovery.revision = revision
      BY <1>1 DEF Awaiting, Resync, RecoveryInv
    <3> QED BY <1>1, <1>3, <3>1
  <2>5. \A n \in owed : f # None /\ f <= n
    <3> SUFFICES ASSUME NEW n \in owed PROVE f # None /\ f <= n
      OBVIOUS
    <3>1. CASE recovery \in Awaiting
      BY <1>1, <3>1 DEF RolledBackOwed, Awaiting
    <3>2. CASE recovery \in Resync
      <4>1. /\ recovery # None /\ recovery.phase = "resync"
            /\ n \in recovery.from..recovery.target
            /\ recovery.from \in Heights /\ recovery.target \in Heights
        BY <1>1, <3>2 DEF RolledBackOwed, Resync
      <4>2. recovery.from <= n BY <1>1, <4>1
      <4>3. f = recovery.from BY <4>1
      <4>4. recovery.from # None BY <4>1, NoneAssumption
      <4> QED BY <4>2, <4>3, <4>4
    <3> QED BY <1>1, <3>1, <3>2 DEF RolledBackOwed
  <2> HIDE DEF v, f
  <2>6. new \in Awaiting BY <1>1, <2>1, <2>2, <2>3 DEF Awaiting
  <2>7. /\ new.revision = revision /\ new.checked = block /\ new.id = lastId + 1
        /\ new.resumeFrom = f
    BY <2>1
  <2>8. block <= block BY <1>1
  <2> QED BY <2>4, <2>5, <2>6, <2>7, <2>8
<1> QED BY <1>2, <1>3

\* A journalled mismatch covers every orphan from its block on.
LEMMA RetainMismatchInv ==
    ASSUME IInv, RetainMismatch
    PROVE  IInv'
<1>1. worker.block \in Heights /\ worker.block <= Confirmed
  BY CheckFacts DEF RetainMismatch
<1>2. worker' = Idle /\ UNCHANGED <<chainVars, stored, revision, collections, slot, ghosts>>
  BY DEF RetainMismatch
<1>3. DbInv BY DEF IInv
<1>4. SlotsInv' BY <1>2, SlotsFrame DEF IInv, ghosts
<1>5. WorkerInv' BY <1>2 DEF WorkerInv, WorkerOK, WorkerState, Idle
<1>6. CASE ~(CheckMatchesRow(worker) /\ worker.block \in pending)
  <2>1. UNCHANGED <<recovery, lastId, pending>> BY <1>6 DEF RetainMismatch
  <2>2. UNCHANGED db BY <1>2, <2>1 DEF db, collections
  <2>3. DbInv' BY <1>2, <1>3, <2>2, DbFrame
  <2> QED BY <1>4, <1>5, <2>3 DEF IInv
<1>7. CASE CheckMatchesRow(worker) /\ worker.block \in pending
  <2>1. /\ recovery' = RetainReorgMismatch(recovery, revision, lastId + 1, worker.block)
        /\ lastId' = IF recovery' = recovery THEN lastId ELSE lastId + 1
        /\ pending' = pending \ {worker.block}
    BY <1>7 DEF RetainMismatch
  <2>2. /\ recovery' \in Awaiting
        /\ recovery'.revision = revision
        /\ recovery'.checked <= worker.block /\ recovery'.checked <= Confirmed
        /\ recovery # None /\ recovery.phase = "awaiting" =>
              recovery'.checked <= recovery.checked
        /\ recovery' = recovery \/ recovery'.id = lastId + 1
        /\ \A n \in owed : recovery'.resumeFrom # None /\ recovery'.resumeFrom <= n
    BY <1>1, <1>3, <2>1, RetainFacts
  <2>3. recovery' # None /\ recovery'.phase = "awaiting"
    BY <2>2, NoneAssumption DEF Awaiting
  <2>4. lastId \in Nat /\ lastId' \in Nat /\ recovery'.id <= lastId'
    <3>1. lastId \in Nat /\ RecoveryInv BY <1>3 DEF DbInv, DbTypeOK
    <3>2. CASE recovery' = recovery BY <2>1, <2>3, <3>1, <3>2 DEF RecoveryInv
    <3>3. CASE recovery' # recovery BY <2>1, <2>2, <3>1, <3>3
    <3> QED BY <3>2, <3>3
  <2>5. Confirmed' = Confirmed /\ \A n \in Heights : HashAt(n)' = HashAt(n)
    BY <1>2 DEF chainVars, Confirmed, HashAt
  <2>6. ChainTypeOK'
    BY <1>2, <1>3 DEF DbInv, ChainTypeOK, chainVars, Confirmed, HeadBlock, Heights
  <2>7. DbTypeOK' BY <1>2, <1>3, <2>1, <2>2, <2>4
      DEF DbInv, DbTypeOK, collections, ghosts
  <2>8. StoredInv'
    <3> SUFFICES ASSUME NEW n \in Heights, stored[n] # None
                 PROVE  /\ Len(stored[n]) = n
                        /\ n \in pending' \/ Covered(n)' \/ Final(n, stored[n])'
      BY <1>2 DEF StoredInv
    <3>1. Len(stored[n]) = n /\ (n \in pending \/ Covered(n) \/ Final(n, stored[n]))
      BY <1>3 DEF DbInv, StoredInv
    <3>2. recovery'.checked \in Nat /\ n \in Nat /\ worker.block \in Nat
      BY <1>1, <1>3, <2>2, ChainFacts DEF DbInv, Awaiting
    <3>3. Final(n, stored[n]) => Final(n, stored[n])' BY <1>2, <2>5 DEF Final
    <3>4. CASE n = worker.block
      BY <1>2, <2>2, <2>3, <3>1, <3>4 DEF Covered
    <3>5. CASE Covered(n)
      <4>1. recovery.checked \in Nat
        BY <1>3, <3>5, ChainFacts DEF DbInv, DbTypeOK, Covered, Awaiting, Resync
      <4>2. recovery'.checked <= n BY <2>2, <3>2, <3>5, <4>1 DEF Covered
      <4> QED BY <1>2, <2>2, <2>3, <3>1, <4>2 DEF Covered
    <3> QED BY <2>1, <3>1, <3>3, <3>4, <3>5
  <2>9. PendingStored' BY <1>2, <1>3, <2>1 DEF DbInv, PendingStored
  <2>10. RecoveryInv' BY <1>2, <2>2, <2>3, <2>4, <2>5 DEF RecoveryInv
  <2>11. ProvedInv'
    BY <1>2, <1>3, <2>5 DEF DbInv, DbTypeOK, ProvedInv, ghosts
  <2>12. RolledBackOwed' BY <1>2, <2>2, <2>3 DEF RolledBackOwed, ghosts
  <2>13. DbInv'
    BY <2>6, <2>7, <2>8, <2>9, <2>10, <2>11, <2>12 DEF DbInv
  <2> QED BY <1>4, <1>5, <2>13 DEF IInv
<1> QED BY <1>6, <1>7

\* The journal is at the current revision, so resume never re-arms it.
LEMMA ResumeInv ==
    ASSUME IInv, Resume
    PROVE  IInv'
<1>1. ~(recovery # None /\ recovery.revision # revision)
  BY DEF IInv, DbInv, RecoveryInv
<1> DEFINE proving == /\ recovery # None
                      /\ recovery.phase = "awaiting"
                      /\ Stored(LocalWindow(recovery.checked)) # {}
           x == [pc |-> "history", expected |-> recovery,
                 window |-> LocalWindow(recovery.checked)]
<1>2. /\ worker' = IF proving THEN x ELSE CheckDue
      /\ UNCHANGED <<recovery, lastId>>
      /\ UNCHANGED <<chainVars, stored, pending, revision, collections, slot, ghosts>>
  BY <1>1 DEF Resume
<1>3. (proving /\ Goto(x)) \/ Goto(CheckDue) BY <1>2 DEF Goto, db, collections
<1>4. CASE Goto(CheckDue) BY <1>4, IdleOK, GotoStep
<1>5. CASE proving /\ Goto(x)
  <2>1. recovery \in Awaiting BY <1>5 DEF IInv, DbInv, DbTypeOK, Resync
  <2>2. LocalWindow(recovery.checked) \in Window
    BY DEF IInv, DbInv, DbTypeOK, LocalWindow, Window
  <2>3. x \in WorkerState BY <2>1, <2>2 DEF WorkerState
  <2>4. ProofOK(x)
    <3>1. recovery.id <= lastId /\ recovery.checked <= Confirmed
      BY <1>5 DEF IInv, DbInv, RecoveryInv
    <3>2. \A n \in Heights : LocalWindow(recovery.checked)[n] # None =>
                               n \in WindowOf(recovery.checked)
      BY DEF LocalWindow
    <3> QED BY <3>1, <3>2 DEF ProofOK
  <2>5. WorkerOK(x)
    <3>1. x.pc = "history" OBVIOUS
    <3> HIDE DEF x
    <3> QED BY <2>4, <3>1 DEF WorkerOK
  <2> HIDE DEF x
  <2> QED BY <1>5, <2>3, <2>5, GotoStep
<1> QED BY <1>3, <1>4, <1>5

\* The typed state of a proof attempt.
LEMMA ProofFacts ==
    ASSUME IInv, worker.pc \in {"history", "plan", "snapshot", "commit"}
    PROVE  /\ worker.expected \in Awaiting /\ worker.window \in Window
           /\ worker.expected.checked \in Heights
           /\ ProofOK(worker)
           /\ worker.pc # "history" => worker.fork \in Heights /\ ForkOK(worker)
           /\ worker.pc = "commit" => worker.head \in Heights
<1>1. worker \in WorkerState /\ WorkerOK(worker) BY DEF IInv, WorkerInv
<1>2. worker.expected \in Awaiting /\ worker.window \in Window
  BY <1>1 DEF WorkerState
<1>3. worker.pc # "history" => worker.fork \in Heights BY <1>1 DEF WorkerState
<1>4. worker.pc = "commit" => worker.head \in Heights BY <1>1 DEF WorkerState
<1>5. worker.expected.checked \in Heights BY <1>2 DEF Awaiting
<1> QED BY <1>1, <1>2, <1>3, <1>4, <1>5 DEF WorkerOK

\* The fork lies below every known divergence, so all the window stores up to
\* it is canonical.
LEMMA ProveAncestorInv ==
    ASSUME IInv, ProveAncestor
    PROVE  IInv'
<1> DEFINE c == worker.expected.checked
           tip == HashAt(c)
<1>1. /\ worker.pc = "history" /\ c <= HeadBlock BY DEF ProveAncestor
<1>2. PICK f \in Heights :
        /\ IsFork(f, worker.window, tip)
        /\ Goto([pc |-> "plan", expected |-> worker.expected,
                 window |-> worker.window, fork |-> f])
  BY DEF ProveAncestor
<1>3. /\ worker.expected \in Awaiting /\ worker.window \in Window
      /\ c \in Heights /\ ProofOK(worker)
  BY <1>1, ProofFacts
<1>4. chain \in Seq(Label) /\ Len(chain) \in Nat /\ \A n \in Heights : n \in Nat
  BY LenProperties, ChainFacts DEF IInv, DbInv, ChainTypeOK, Hash
<1>5. Len(tip) = c BY <1>1, <1>3, HashAtType DEF IInv, DbInv
<1>6. /\ f \in Stored(worker.window)
      /\ \A d \in Divergence(worker.window, tip) : f < d
  BY <1>2 DEF IsFork, Ancestors
<1>7. f < c BY <1>5, <1>6 DEF Divergence
<1>8. worker.window[f] # None BY <1>6 DEF Stored
<1>9. ASSUME NEW n \in Heights, n <= f, worker.window[n] # None
      PROVE  worker.window[n] = HashAt(n)
  <2>1. n \in Stored(worker.window) BY <1>3, <1>9 DEF Stored, Window
  <2>2. ~(f < n) BY <1>4, <1>9
  <2>3. n \notin Divergence(worker.window, tip) BY <1>6, <2>2
  <2>4. worker.window[n] = Canonical(tip, n) BY <2>1, <2>3 DEF Divergence
  <2>5. c \in 0..Len(chain) /\ n \in 0..c
    BY <1>1, <1>3, <1>4, <1>7, <1>9 DEF HeadBlock
  <2>6. Canonical(tip, n) = HashAt(n)
    BY <1>4, <2>5, PrefixOfPrefix DEF Canonical, HashAt
  <2> QED BY <2>4, <2>6
<1> DEFINE x == [pc |-> "plan", expected |-> worker.expected,
                 window |-> worker.window, fork |-> f]
<1>10. x \in WorkerState BY <1>3 DEF WorkerState
<1>11. ProofOK(x) BY <1>3 DEF ProofOK
<1>12. ForkOK(x) BY <1>7, <1>8, <1>9 DEF ForkOK
<1>13. x.pc = "plan" OBVIOUS
<1> HIDE DEF x
<1>14. WorkerOK(x) BY <1>11, <1>12, <1>13 DEF WorkerOK
<1> QED BY <1>2, <1>10, <1>14, GotoStep DEF x

\* The ownership snapshot is read from the proved fork.
LEMMA ReadSnapshotInv ==
    ASSUME IInv, ReadSnapshot
    PROVE  IInv'
<1> DEFINE x == [worker EXCEPT !.pc = "snapshot"]
<1>1. worker.pc = "plan" /\ Goto(x) BY DEF ReadSnapshot
<1>2. worker \in [pc : {"plan", "snapshot"}, expected : Awaiting, window : Window,
                  fork : Heights]
  BY <1>1 DEF IInv, WorkerInv, WorkerState
<1>3. /\ x \in [pc : {"plan", "snapshot"}, expected : Awaiting, window : Window,
                fork : Heights]
      /\ x.pc = "snapshot" /\ x.expected = worker.expected
      /\ x.window = worker.window /\ x.fork = worker.fork
  BY <1>2
<1>4. ProofOK(worker) /\ ForkOK(worker) BY <1>1, ProofFacts
<1> HIDE DEF x
<1>5. x \in WorkerState BY <1>3 DEF WorkerState
<1>6. WorkerOK(x) BY <1>3, <1>4 DEF WorkerOK, ProofOK, ForkOK
<1> QED BY <1>1, <1>5, <1>6, GotoStep

\* The head of the continuation is one the chain has reached.
LEMMA ReadResyncHeadInv ==
    ASSUME IInv, ReadResyncHead
    PROVE  IInv'
<1> DEFINE x == [pc |-> "commit", expected |-> worker.expected,
                 window |-> worker.window, fork |-> worker.fork,
                 head |-> HeadBlock]
<1>1. worker.pc = "snapshot" /\ Goto(x) BY DEF ReadResyncHead
<1>2. /\ worker.expected \in Awaiting /\ worker.window \in Window
      /\ worker.fork \in Heights /\ ProofOK(worker) /\ ForkOK(worker)
  BY <1>1, ProofFacts
<1>3. HeadBlock \in Heights BY ChainFacts DEF IInv, DbInv
<1>4. x \in WorkerState BY <1>2, <1>3 DEF WorkerState
<1>5. WorkerOK(x) BY <1>2 DEF WorkerOK, ProofOK, ForkOK
<1> HIDE DEF x
<1> QED BY <1>1, <1>4, <1>5, GotoStep

\* The continuation of a rollback starts at or below every height it owes.
Continues(next, rec, rollbackFrom, head) ==
    /\ next \in {None} \cup Resync
    /\ next # None =>
          /\ next.id = rec.id /\ next.revision = rec.revision + 1
          /\ next.checked = rec.checked /\ next.phase = "resync"
          /\ next.to <= next.target
    /\ \A n \in Nat :
          /\ n <= head
          /\ n >= rollbackFrom \/ (rec.resumeFrom # None /\ rec.resumeFrom <= n)
          => next # None /\ n \in next.from..next.target

\* What beginReorgResync returns continues the rollback it is given.
LEMMA BeginFacts ==
    ASSUME NEW rec \in Awaiting, NEW rollbackFrom \in Nat, NEW head \in Heights,
           NEW next, next = BeginReorgResync(rec, rollbackFrom, head)
    PROVE  Continues(next, rec, rollbackFrom, head)
<1> DEFINE from == ResyncFrom(rec, rollbackFrom)
<1>1. /\ rec.resumeFrom \in Heights \cup {None} /\ rec.version \in Nat
      /\ rec.id \in Nat /\ rec.revision \in Nat /\ rec.checked \in Heights
  BY DEF Awaiting, Revisions
<1>2. MaxBlock \in Nat /\ BatchSize \in Nat \ {0} /\ Heights = 0..MaxBlock
  BY ChainAssumption, RecoveryAssumption DEF Heights
<1>3. /\ from \in Nat /\ from <= rollbackFrom
      /\ rec.resumeFrom # None => from <= rec.resumeFrom
  BY <1>1, <1>2 DEF ResyncFrom, Lower
<1> HIDE DEF from
<1>4. CASE from > head
  <2>1. next = None BY <1>4 DEF BeginReorgResync, from
  <2>2. ASSUME NEW n \in Nat, n <= head,
               n >= rollbackFrom \/ (rec.resumeFrom # None /\ rec.resumeFrom <= n)
        PROVE  FALSE
    BY <1>1, <1>2, <1>3, <1>4, <2>2
  <2> QED BY <2>1, <2>2 DEF Continues
<1>5. CASE ~(from > head)
  <2> DEFINE to == Lower(head, from + BatchSize - 1)
  <2>1. next = [phase |-> "resync", id |-> rec.id, revision |-> rec.revision + 1,
                version |-> rec.version + 1, checked |-> rec.checked,
                from |-> from, to |-> to, target |-> head]
    BY <1>5 DEF BeginReorgResync, from
  <2>2. to \in Heights /\ to <= head /\ from \in Heights
    BY <1>2, <1>3, <1>5 DEF Lower
  <2> HIDE DEF to
  <2>3. rec.revision + 1 \in Revisions /\ rec.version + 1 \in Nat
    BY <1>1 DEF Revisions
  <2>4. next \in Resync BY <1>1, <2>1, <2>2, <2>3 DEF Resync
  <2>5. next # None BY <2>4, NoneAssumption
  <2>6. /\ next.id = rec.id /\ next.revision = rec.revision + 1
        /\ next.checked = rec.checked /\ next.phase = "resync"
        /\ next.from = from /\ next.to = to /\ next.target = head
    BY <2>1
  <2>7. ASSUME NEW n \in Nat, n <= head,
               n >= rollbackFrom \/ (rec.resumeFrom # None /\ rec.resumeFrom <= n)
        PROVE  n \in from..head
    BY <1>1, <1>2, <1>3, <2>7
  <2> QED BY <2>2, <2>4, <2>5, <2>6, <2>7 DEF Continues
<1> QED BY <1>4, <1>5

\* What the transaction of a rollback knows: the journal row is the one the
\* proof started from, and up to the fork the database is what it captured.
LEMMA RollbackFacts ==
    ASSUME IInv, CommitRollback
    PROVE  /\ recovery = worker.expected
           /\ worker.expected.revision = revision
           /\ worker.fork \in Heights /\ worker.fork < worker.expected.checked
           /\ worker.fork <= Confirmed
           /\ stored' \in [Heights -> Hash \cup {None}]
           /\ \A n \in Heights : n > worker.fork => stored'[n] = None
           /\ \A n \in Heights : n <= worker.fork => stored'[n] = stored[n]
           /\ \A n \in WindowOf(worker.expected.checked) :
                 n \in Heights /\ n <= Confirmed
                 /\ (stored'[n] # None => stored'[n] = HashAt(n))
<1> DEFINE c == worker.expected.checked
<1>1. /\ worker.pc = "commit" /\ CanCommitRollback
      /\ RollbackFromBlock(worker.fork, worker.window[worker.fork])
  BY DEF CommitRollback
<1>2. /\ worker.expected \in Awaiting /\ worker.window \in Window
      /\ c \in Heights /\ ProofOK(worker)
      /\ worker.fork \in Heights /\ ForkOK(worker)
  BY <1>1, ProofFacts
<1>3. recovery = worker.expected
  BY <1>1, <1>2 DEF CanCommitRollback, RecoveryIsCurrent, ProofOK, Awaiting
<1>4. /\ worker.expected.revision = revision
      /\ \A n \in WindowOf(c) : stored[n] = worker.window[n]
  BY <1>1 DEF CanCommitRollback, HistoryUnchanged
<1>5. worker.fork < c /\ c <= Confirmed BY <1>2 DEF ForkOK, ProofOK
<1>6. Confirmed \in Nat /\ \A n \in Heights : n \in Nat
  BY ChainFacts DEF IInv, DbInv
<1>7. worker.fork <= Confirmed BY <1>2, <1>5, <1>6
<1>8. worker.window[worker.fork] = stored[worker.fork]
  BY <1>2, <1>4 DEF ForkOK, ProofOK
<1>9. stored' = [n \in Heights |->
                   IF n > worker.fork THEN None
                   ELSE IF n = worker.fork THEN worker.window[worker.fork]
                   ELSE stored[n]]
  BY <1>1 DEF RollbackFromBlock
<1>10. \A n \in Heights : n > worker.fork => stored'[n] = None BY <1>9
<1>11. ASSUME NEW n \in Heights, n <= worker.fork PROVE stored'[n] = stored[n]
  <2>1. ~(n > worker.fork) BY <1>2, <1>6, <1>11
  <2> QED BY <1>8, <1>9, <2>1
<1>12. stored' \in [Heights -> Hash \cup {None}]
  <2>1. stored \in [Heights -> Hash \cup {None}] BY DEF IInv, DbInv, DbTypeOK
  <2> QED BY <1>2, <1>8, <1>9, <2>1
<1>13. ASSUME NEW n \in WindowOf(c)
       PROVE  /\ n \in Heights /\ n <= Confirmed
              /\ stored'[n] # None => stored'[n] = HashAt(n)
  <2>1. WindowStart(c) \in Nat BY <1>2, <1>6, ChainAssumption DEF WindowStart
  <2>2. n \in Nat /\ n <= c BY <1>2, <1>6, <2>1 DEF WindowOf
  <2>3. n \in Heights BY <1>2, <2>2, ChainAssumption DEF Heights
  <2>4. n <= Confirmed BY <1>2, <1>5, <1>6, <2>2
  <2>5. CASE n > worker.fork BY <1>10, <2>3, <2>4, <2>5
  <2>6. CASE n <= worker.fork
    <3>1. stored'[n] = stored[n] /\ stored[n] = worker.window[n]
      BY <1>4, <1>11, <2>3, <2>6
    <3> QED BY <1>2, <2>3, <2>4, <2>6, <3>1 DEF ForkOK
  <2> QED BY <1>2, <1>6, <2>2, <2>5, <2>6
<1> QED BY <1>2, <1>3, <1>4, <1>5, <1>7, <1>10, <1>11, <1>12, <1>13

\* The rollback removes every orphan and hands over to the resync.
LEMMA CommitRollbackInv ==
    ASSUME IInv, CommitRollback
    PROVE  IInv'
<1> DEFINE e == worker.expected
           fork == worker.fork
<1>1. /\ recovery = e /\ e.revision = revision
      /\ fork \in Heights /\ fork < e.checked /\ fork <= Confirmed
      /\ stored' \in [Heights -> Hash \cup {None}]
      /\ \A n \in Heights : n > fork => stored'[n] = None
      /\ \A n \in Heights : n <= fork => stored'[n] = stored[n]
      /\ \A n \in WindowOf(e.checked) :
            n \in Heights /\ n <= Confirmed
            /\ (stored'[n] # None => stored'[n] = HashAt(n))
  BY RollbackFacts
<1>2. /\ pending' = pending \cap (0..fork) /\ revision' = revision + 1
      /\ recovery' = BeginReorgResync(e, fork + 1, worker.head)
      /\ proved' = proved \cup WindowOf(e.checked)
      /\ owed' = {n \in owed \cup {m \in Heights : m > fork /\ stored[m] # None} :
                    n <= worker.head}
      /\ worker' = CheckDue
      /\ UNCHANGED <<chainVars, lastId, collections, slot>>
  BY DEF CommitRollback, RollbackFromBlock
<1>3. e \in Awaiting /\ worker.head \in Heights /\ ProofOK(worker)
  BY ProofFacts DEF CommitRollback
<1>4. /\ DbTypeOK /\ ChainTypeOK /\ StoredInv /\ PendingStored /\ RecoveryInv
      /\ ProvedInv /\ RolledBackOwed
      /\ Confirmed \in Nat /\ \A n \in Heights : n \in Nat
  BY ChainFacts DEF IInv, DbInv
<1>5. Confirmed' = Confirmed /\ \A n \in Heights : HashAt(n)' = HashAt(n)
  BY <1>2 DEF chainVars, Confirmed, HashAt
<1>6. fork + 1 \in Nat BY <1>1, <1>4
<1> HIDE DEF e, fork
<1>7. /\ recovery' \in {None} \cup Resync
      /\ recovery' # None =>
            /\ recovery'.id = e.id /\ recovery'.revision = e.revision + 1
            /\ recovery'.checked = e.checked /\ recovery'.phase = "resync"
            /\ recovery'.to <= recovery'.target
      /\ \A n \in Nat :
            /\ n <= worker.head
            /\ n >= fork + 1 \/ (e.resumeFrom # None /\ e.resumeFrom <= n)
            => recovery' # None /\ n \in recovery'.from..recovery'.target
  <2>1. Continues(recovery', e, fork + 1, worker.head)
    BY <1>2, <1>3, <1>6, BeginFacts
  <2> QED BY <2>1 DEF Continues
<1>8. ChainTypeOK'
  BY <1>2, <1>4 DEF ChainTypeOK, chainVars, Confirmed, HeadBlock, Heights
<1>9. DbTypeOK'
  <2>1. pending' \subseteq Heights /\ owed' \subseteq Heights /\ proved' \subseteq Heights
    BY <1>1, <1>2, <1>4 DEF DbTypeOK
  <2>2. revision' \in Revisions BY <1>2, <1>4 DEF DbTypeOK, Revisions
  <2> QED BY <1>1, <1>2, <1>4, <1>7, <2>1, <2>2 DEF DbTypeOK, collections
<1>10. StoredInv'
  <2> SUFFICES ASSUME NEW n \in Heights, stored'[n] # None
               PROVE  /\ Len(stored'[n]) = n
                      /\ n \in pending' \/ Covered(n)' \/ Final(n, stored[n])'
    BY DEF StoredInv
  <2>1. n <= fork BY <1>1, <1>4
  <2>2. stored'[n] = stored[n] BY <1>1, <2>1
  <2>3. Len(stored[n]) = n /\ (n \in pending \/ Covered(n) \/ Final(n, stored[n]))
    BY <1>4, <2>2 DEF StoredInv
  <2>4. ~Covered(n)
    <3>1. e.checked \in Nat BY <1>3, <1>4 DEF Awaiting
    <3> QED BY <1>1, <1>4, <2>1, <3>1 DEF Covered
  <2>5. n \in pending => n \in pending' BY <1>1, <1>2, <1>4, <2>1
  <2>6. Final(n, stored[n]) => Final(n, stored[n])' BY <1>5, <2>2 DEF Final
  <2> QED BY <2>2, <2>3, <2>4, <2>5, <2>6
<1>11. PendingStored'
  <2>1. \A n \in pending' : n \in pending /\ n \in Heights /\ n <= fork
    BY <1>1, <1>2, <1>4 DEF DbTypeOK
  <2> QED BY <1>1, <1>4, <2>1 DEF PendingStored
<1>12. RecoveryInv'
  <2>1. e.id <= lastId /\ e.checked <= Confirmed BY <1>3 DEF ProofOK, e
  <2> QED BY <1>1, <1>2, <1>5, <1>7, <2>1 DEF RecoveryInv
<1>13. ProvedInv'
  <2> SUFFICES ASSUME NEW n \in proved'
               PROVE  n <= Confirmed' /\ (stored'[n] # None => stored'[n] = HashAt(n)')
    BY DEF ProvedInv
  <2>1. n \in Heights BY <1>9 DEF DbTypeOK
  <2>2. CASE n \in WindowOf(e.checked) BY <1>1, <1>5, <2>1, <2>2
  <2>3. CASE n \in proved
    <3>1. n <= Confirmed /\ (stored[n] # None => stored[n] = HashAt(n))
      BY <1>4, <2>3 DEF ProvedInv
    <3>2. stored'[n] = None \/ stored'[n] = stored[n] BY <1>1, <1>4, <2>1
    <3> QED BY <1>5, <2>1, <3>1, <3>2
  <2> QED BY <1>2, <2>2, <2>3
<1>14. RolledBackOwed'
  <2> SUFFICES ASSUME NEW n \in owed'
               PROVE  /\ recovery' # None
                      /\ IF recovery'.phase = "resync"
                         THEN n \in recovery'.from..recovery'.target
                         ELSE recovery'.resumeFrom # None /\ recovery'.resumeFrom <= n
    BY DEF RolledBackOwed
  <2>1. n \in Nat /\ n <= worker.head BY <1>2, <1>4, <1>9 DEF DbTypeOK
  <2>2. n >= fork + 1 \/ (e.resumeFrom # None /\ e.resumeFrom <= n)
    <3>1. CASE n \in owed
      BY <1>1, <1>3, <1>4, <3>1 DEF RolledBackOwed, Awaiting
    <3>2. CASE n \in {m \in Heights : m > fork /\ stored[m] # None}
      BY <1>1, <1>4, <2>1, <3>2
    <3> QED BY <1>2, <3>1, <3>2
  <2> QED BY <1>7, <2>1, <2>2
<1>15. DbInv'
  BY <1>8, <1>9, <1>10, <1>11, <1>12, <1>13, <1>14 DEF DbInv
<1>16. SlotsInv'
  <2> SUFFICES ASSUME NEW s \in Slots PROVE SlotOK(slot[s])'
    BY <1>2 DEF IInv, SlotsInv, SlotInv
  <2> DEFINE r == slot[s]
  <2>1. slot' = slot /\ maxHead' = maxHead BY <1>2 DEF chainVars
  <2>2. SlotOK(r) BY SlotFacts
  <2>3. r.pc \in {"captured", "observed", "fetched"} =>
          r.revision <= revision' /\ r.revision # revision'
    <3>1. r.pc \in {"captured", "observed", "fetched"} => r.revision \in Nat
      BY SlotFacts DEF Revisions
    <3>2. revision \in Nat BY <1>4 DEF DbTypeOK, Revisions
    <3> QED BY <1>2, <2>2, <3>1, <3>2 DEF SlotOK
  <2>4. chain' = chain BY <1>2 DEF chainVars
  <2> QED BY <2>1, <2>2, <2>3, <2>4 DEF SlotOK, HashAt
<1>17. WorkerInv' BY <1>2 DEF WorkerInv, WorkerOK, WorkerState, CheckDue
<1> QED BY <1>15, <1>16, <1>17 DEF IInv

\* Every step of the reorg worker preserves the invariant.
LEMMA WorkerStepInv ==
    ASSUME IInv, WorkerStep \/ FailAttempt
    PROVE  IInv'
<1>1. DeferProof => Goto(CheckDue) BY DEF DeferProof
<1>2. FailAttempt => Goto(Idle) \/ Goto(CheckDue) BY DEF FailAttempt
<1>3. Goto(Idle) \/ Goto(CheckDue) => IInv' BY IdleOK, GotoStep
<1> QED
  BY <1>1, <1>2, <1>3, ResumeInv, ProveAncestorInv, ReadSnapshotInv,
     ReadResyncHeadInv, CommitRollbackInv, ReadCheckHeadInv, SelectCheckInv,
     ObserveBlockInv, CompleteCheckInv, RetainMismatchInv
     DEF WorkerStep

-----------------------------------------------------------------------------
(* The theorems.                                                            *)

\* An empty database with the genesis header satisfies the invariant.
LEMMA InitInv == Init => IInv
<1> SUFFICES ASSUME Init PROVE IInv
  OBVIOUS
<1> USE ChainAssumption, RecoveryAssumption
<1>1. ChainTypeOK
  <2>1. chain \in [1..StartHead -> GrowLabel] /\ StartHead \in Nat
    BY DEF Init, ChainInit
  <2>2. chain \in Seq(Label) /\ Len(chain) = StartHead BY <2>1
  <2> QED BY <2>2 DEF Init, ChainInit, ChainTypeOK, Hash, Heights, HeadBlock, Confirmed
<1>2. DbInv
  BY <1>1 DEF Init, DbInv, DbTypeOK, StoredInv, PendingStored, RecoveryInv,
              ProvedInv, RolledBackOwed, Revisions
<1>3. SlotsInv BY IdleOK DEF Init, SlotsInv, SlotInv
<1>4. WorkerInv BY IdleOK DEF Init, WorkerInv
<1> QED BY <1>2, <1>3, <1>4 DEF IInv

\* The invariant reads only the variables of the specification.
LEMMA StutterInv ==
    ASSUME IInv, UNCHANGED vars
    PROVE  IInv'
<1>1. UNCHANGED <<chainVars, db, worker, slot, ghosts>> BY DEF vars
<1>2. DbInv' BY <1>1, DbFrame DEF IInv
<1>3. SlotsInv' BY <1>1, SlotsFrame DEF IInv, db, collections, ghosts
<1>4. WorkerInv' BY <1>1, WorkerFrame DEF IInv, db, collections
<1> QED BY <1>2, <1>3, <1>4 DEF IInv

\* Every step preserves the invariant.
LEMMA NextInv ==
    ASSUME IInv, [Next]_vars
    PROVE  IInv'
<1>1. \A s \in Slots : FailRange(s) => DropRange(s) BY DEF FailRange
<1> QED
  BY <1>1, EnvironmentInv, BeginDirectInv, SyncStepInv, DropRangeInv,
     WorkerStepInv, CollectionsInv, StutterInv
     DEF Next

\* The invariant gives the properties that are model-checked.
LEMMA InvImplies ==
    ASSUME IInv
    PROVE  TypeOK /\ OrphanOwned /\ ProvedWindowCanonical /\ RolledBackOwed
           /\ RecoveryAtRevision
<1>1. TypeOK BY DEF IInv, DbInv, DbTypeOK, SlotsInv, WorkerInv, TypeOK
<1>2. Confirmed <= HeadBlock /\ Confirmed \in Nat /\ HeadBlock \in Nat
      /\ \A n \in Heights : n \in Nat
  BY ChainFacts DEF IInv, DbInv
<1>3. ASSUME NEW n \in Heights, stored[n] # None, n <= Confirmed,
             stored[n] = HashAt(n)
      PROVE  OnChain(stored[n])
  <2>1. Len(stored[n]) = n BY <1>3 DEF IInv, DbInv, StoredInv
  <2>2. n <= HeadBlock BY <1>2, <1>3
  <2> QED BY <1>3, <2>1, <2>2 DEF OnChain
<1>4. OrphanOwned
  BY <1>3 DEF IInv, DbInv, StoredInv, OrphanOwned, Covered, Final
<1>5. ProvedWindowCanonical
  BY <1>3 DEF IInv, DbInv, DbTypeOK, ProvedInv, ProvedWindowCanonical
<1>6. RecoveryAtRevision BY DEF IInv, DbInv, RecoveryInv, RecoveryAtRevision
<1> QED BY <1>1, <1>4, <1>5, <1>6 DEF IInv, DbInv

\* Chain history is safe under reorgs up to the configured depth.  No orphan
\* is forgotten, a rolled-back window stays canonical, every emptied height
\* stays journalled, and the journal keeps up with the revision, however
\* commits, checks, proofs, rollbacks, failures and reorgs interleave.
THEOREM RecoverySafety ==
    Spec => [](TypeOK /\ OrphanOwned /\ ProvedWindowCanonical
               /\ RolledBackOwed /\ RecoveryAtRevision)
<1>1. IInv /\ [Next]_vars => IInv' BY NextInv
<1>2. IInv => TypeOK /\ OrphanOwned /\ ProvedWindowCanonical /\ RolledBackOwed
              /\ RecoveryAtRevision
  BY InvImplies
<1> QED BY InitInv, <1>1, <1>2, PTL DEF Spec

\* A block row changes only in a rollback above the anchor.
LEMMA StoredStep ==
    ASSUME IInv, [Next]_vars
    PROVE  [RemovedOnlyByRollback]_vars
<1>1. CASE stored' = stored BY <1>1 DEF RemovedOnlyByRollback
<1>2. ASSUME NEW s \in Slots, CommitRange(s) PROVE RemovedOnlyByRollback
  <2>1. slot[s].from \in Heights /\ slot[s].to \in Heights
    BY <1>2, SlotFacts DEF CommitRange
  <2>2. ASSUME NEW n \in Heights, stored[n] # None PROVE stored'[n] = stored[n]
    BY <1>2, <2>2 DEF CommitRange, PersistBlocks, Conflicts
  <2> QED BY <2>2 DEF RemovedOnlyByRollback
<1>3. ASSUME CommitRollback PROVE RemovedOnlyByRollback
  <2>1. /\ worker.fork \in Heights
        /\ \A n \in Heights : n > worker.fork => stored'[n] = None
        /\ \A n \in Heights : n <= worker.fork => stored'[n] = stored[n]
    BY <1>3, RollbackFacts
  <2>2. /\ revision' = revision + 1
        /\ anchor # None => worker.fork + 1 > anchor
    BY <1>3 DEF CommitRollback, RollbackFromBlock, CanCommitRollback,
                CanRollbackFromBlock
  <2>3. /\ \A n \in Heights : n \in Nat /\ n <= MaxBlock
        /\ anchor # None => anchor \in Heights
    BY ChainFacts DEF IInv, DbInv, DbTypeOK
  <2>4. ASSUME NEW n \in Heights, stored'[n] # stored[n]
        PROVE  /\ \A m \in n..MaxBlock : stored'[m] = None
               /\ anchor # None => n > anchor
    <3>1. n > worker.fork BY <2>1, <2>3, <2>4
    <3>2. ASSUME NEW m \in n..MaxBlock PROVE stored'[m] = None
      <4>1. m \in Heights /\ m > worker.fork
        BY <2>1, <2>3, <3>1, ChainAssumption DEF Heights
      <4> QED BY <2>1, <4>1
    <3>3. anchor # None => n > anchor BY <2>1, <2>2, <2>3, <3>1
    <3> QED BY <3>2, <3>3
  <2> QED BY <2>2, <2>4 DEF RemovedOnlyByRollback
<1>4. \/ stored' = stored
      \/ \E s \in Slots : CommitRange(s)
      \/ CommitRollback
  BY DEF Next, vars, db, collections, Environment, BeginDirect, SyncStep, FailRange,
         WorkerStep, FailAttempt, SetAnchor, PurgeCollection, AddCollection, Begin,
         BeginResync, BeginGapRepair, ObserveHead,
         FetchBlocks, ConflictingRange, RetainConflict, RejectRange, DropRange,
         Goto, Resume, ProveAncestor, ReadSnapshot, ReadResyncHead, DeferProof,
         ReadCheckHead, SelectCheck, ObserveBlock, CompleteCheck, RetainMismatch
<1> QED BY <1>1, <1>2, <1>3, <1>4

\* Stored blocks are never overwritten by another branch, and disappear only
\* in a rollback above the bootstrap anchor that advances the revision.
THEOREM HistoryStable == Spec => StoredStable
<1>1. IInv /\ [Next]_vars => IInv' BY NextInv
<1>2. IInv /\ [Next]_vars => [RemovedOnlyByRollback]_vars BY StoredStep
<1> QED BY InitInv, <1>1, <1>2, PTL DEF Spec, StoredStable
=============================================================================
