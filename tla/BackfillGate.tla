---------------------------- MODULE BackfillGate ----------------------------
(***************************************************************************)
(* The sync worker's BackfillExecutionGate (indexer/src/application/        *)
(* backfill-execution.ts).  Manual backfills, reorg resync and automatic    *)
(* gap repair all enter one in-process gate before they touch current       *)
(* state.  A task that only adds facts at or before every bootstrap anchor  *)
(* bypasses the gate and runs in parallel.                                  *)
(*                                                                         *)
(* A task is submitted, waits in `waiting`, is started by startNext and     *)
(* leaves when its promise settles, whether it resolved or was rejected.    *)
(* The worker resubmits work under the same name, so a task may come back.  *)
(***************************************************************************)
EXTENDS Naturals, Sequences, SequencesExt

CONSTANTS
    MainTasks,      \* serialized tasks of class SYNC_WORK_CLASS.Main
    GapTasks,       \* serialized tasks of class SYNC_WORK_CLASS.GapRepair
    FactsTasks      \* tasks resolved to ParallelFactsOnly

ASSUME TaskClassesAssumption ==
    /\ MainTasks \cap GapTasks = {}
    /\ FactsTasks \cap (MainTasks \cup GapTasks) = {}

VARIABLES
    active,         \* the gate's `active` flag
    waiting,        \* the gate's `waiting` array
    running         \* tasks whose promise has started and has not settled

vars == <<active, waiting, running>>

Serialized == MainTasks \cup GapTasks

TypeOK ==
    /\ active \in BOOLEAN
    /\ waiting \in Seq(Serialized)
    /\ running \subseteq Serialized \cup FactsTasks

Init ==
    /\ active = FALSE
    /\ waiting = <<>>
    /\ running = {}

-----------------------------------------------------------------------------
(* Mutated forms of the definitions below.                                 *)

\* startNext that pops the newest entry instead of the oldest.
NextIndexNewest(q) == Len(q)

\* startNext without its `if (this.active) return`.
StartNextUnguarded(q, act, run) ==
    IF q = <<>>
    THEN /\ waiting' = q
         /\ active' = act
         /\ running' = run
    ELSE /\ waiting' = Tail(q)
         /\ active' = TRUE
         /\ running' = run \cup {Head(q)}

\* run without its early return for facts-only tasks.
RunFactsOnlyQueued(t) ==
    /\ t \notin running /\ ~Contains(waiting, t)
    /\ waiting' = Append(waiting, t)
    /\ UNCHANGED <<active, running>>

\* A settled task that only starts its successor when it resolved.
SettleDropsRejected(t) ==
    /\ t \in running
    /\ IF t \in Serialized
       THEN /\ active' = FALSE
            /\ running' = running \ {t}
            /\ UNCHANGED waiting
       ELSE /\ running' = running \ {t}
            /\ UNCHANGED <<active, waiting>>
-----------------------------------------------------------------------------

Submitted(t) == t \in running \/ Contains(waiting, t)

\* startNext's choice: the first waiting Main task, else the first in line.
NextIndex(q) ==
    IF \E i \in 1..Len(q) : q[i] \in MainTasks
    THEN CHOOSE i \in 1..Len(q) :
            /\ q[i] \in MainTasks
            /\ \A j \in 1..(i - 1) : q[j] \notin MainTasks
    ELSE 1

\* startNext, called with the queue, flag and running set its caller left.
StartNext(q, act, run) ==
    IF act \/ q = <<>>
    THEN /\ waiting' = q
         /\ active' = act
         /\ running' = run
    ELSE /\ waiting' = RemoveAt(q, NextIndex(q))
         /\ active' = TRUE
         /\ running' = run \cup {q[NextIndex(q)]}

\* run(SerializedCurrentState, task): enqueue, then try to start.
RunSerialized(t) ==
    /\ ~Submitted(t)
    /\ StartNext(Append(waiting, t), active, running)

\* run(ParallelFactsOnly, task): the task runs without touching the gate.
RunFactsOnly(t) ==
    /\ ~Submitted(t)
    /\ running' = running \cup {t}
    /\ UNCHANGED <<active, waiting>>

\* The task's promise settles; `finally` clears the flag and starts the next.
Settle(t) ==
    /\ t \in running
    /\ IF t \in Serialized
       THEN StartNext(waiting, FALSE, running \ {t})
       ELSE /\ running' = running \ {t}
            /\ UNCHANGED <<active, waiting>>

Next ==
    \/ \E t \in Serialized : RunSerialized(t)
    \/ \E t \in FactsTasks : RunFactsOnly(t)
    \/ \E t \in Serialized \cup FactsTasks : Settle(t)

\* A started task settles: every RPC and database call it makes is bounded.
Fairness == \A t \in Serialized \cup FactsTasks : WF_vars(Settle(t))

Spec == Init /\ [][Next]_vars /\ Fairness

-----------------------------------------------------------------------------
(* Properties                                                              *)

\* At most one task that may write current state runs at a time, and the
\* flag says exactly whether one does (backfill-execution.ts:36).
Exclusive ==
    /\ \A s, t \in running \cap Serialized : s = t
    /\ active <=> running \cap Serialized # {}

\* No wakeup is lost: whenever a task waits, some serialized task is running
\* whose `finally` will call startNext.
NoLostWakeup == waiting # <<>> => running \cap Serialized # {}

\* A gap-repair range is admitted only when no manual or recovery work waits,
\* and work of one class is admitted in submission order.
StartsInPriorityOrder ==
    \A t \in Serialized :
        t \in running' \ running =>
            \A i \in 1..Len(waiting) :
                waiting[i] # t =>
                    IF t \in GapTasks
                    THEN /\ waiting[i] \notin MainTasks
                         /\ waiting[i] \in GapTasks /\ Contains(waiting, t) =>
                                \E j \in 1..i : waiting[j] = t
                    ELSE waiting[i] \in MainTasks =>
                                \E j \in 1..i : waiting[j] = t

PriorityOrder == [][StartsInPriorityOrder]_vars

\* Queued manual and recovery work is never starved, however often gap repair
\* or other work of its class is resubmitted.
MainEventuallyRuns ==
    \A t \in MainTasks : Contains(waiting, t) ~> t \in running
=============================================================================
