--------------------------- MODULE SyncFollowUps ----------------------------
(***************************************************************************)
(* What a committed sync range still owes the domains: the follow-up jobs   *)
(* in the queue outbox, the drainer that publishes them, the broker, and    *)
(* the consumers that handle them, against ranges and rollbacks committed   *)
(* by the sync and reorg processes.                                         *)
(*                                                                         *)
(* Every block holds one event.  An event job carries that event's hint;    *)
(* a range job makes the activity domain project the range's stored facts.  *)
(* A plain job stands for the publications of the other workflows.          *)
(***************************************************************************)
EXTENDS Naturals, FiniteSets

CONSTANTS
    None,
    MaxBlock,
    Hash,
    TxKey(_, _),    \* dedupe key of the event in a block: its transaction
    Limit,          \* rows listed by a drain
    MaxAttempts,    \* publication tries of a bounded row, deliveries of a job
    MaxPlain,       \* bound: jobs of other workflows (0 or 1)
    MaxCommits,     \* bound: ranges committed
    MaxRollbacks,   \* bound: rollbacks committed
    MaxFaults       \* bound: publication, handler and process failures

Blocks == 1..MaxBlock
Key == {TxKey(n, h) : n \in Blocks, h \in Hash}
Block == [number : Blocks, hash : Hash]
Ref(n, h) == [number |-> n, hash |-> h]

ASSUME FollowUpAssumption ==
    /\ MaxBlock \in Nat \ {0}
    /\ Limit \in Nat \ {0}
    /\ MaxAttempts \in Nat \ {0}
    /\ None \notin Hash \cup Block

VARIABLES
    stored,     \* blocks: height -> block_hash
    facts,      \* nft_transfer_events: height -> the event's block and revision
    revision,   \* chain_sync_revisions.revision
    outbox,     \* queue_outbox
    nextId,     \* its AUTOINCREMENT sequence
    drain,      \* rows of the running drain not yet settled
    accepted,   \* the row of the drain the broker has accepted, or None
    published,  \* broker: every job it ever accepted
    stream,     \* broker: job -> number of deliveries, for the jobs it holds
    work,       \* domain worker: queue -> the delivery being handled, or None
    activities, \* activities: dedupe key -> block of the row, or None
    handled,    \* events whose hint was handled since their block was stored
    dead,       \* jobs moved to the dead letter queue
    commits, rollbacks, faults

database == <<stored, facts, revision, outbox, nextId>>
drainer == <<drain, accepted>>
broker == <<published, stream>>
domain == <<work, activities, handled, dead>>
bounds == <<commits, rollbacks, faults>>
vars == <<database, drainer, broker, domain, bounds>>

\* Mutant: the job id leaves out the chain revision.
EventUnqualified(n, h, r) ==
    [kind |-> "event", from |-> n, to |-> n, hash |-> h, revision |-> 0]

\* enqueueSyncFollowUp: job ids are qualified by the chain revision.
Event(n, h, r) == [kind |-> "event", from |-> n, to |-> n, hash |-> h, revision |-> r]
RangeJob(m, n, r) ==
    [kind |-> "range", from |-> m, to |-> n, hash |-> None, revision |-> r]
PlainJob == [kind |-> "plain", from |-> 0, to |-> 0, hash |-> None, revision |-> 0]

Job == [kind : {"event", "range", "plain"}, from : 0..MaxBlock, to : 0..MaxBlock,
        hash : Hash \cup {None}, revision : Nat]
Row == [id : Nat, job : Job, attempts : Nat,
        status : {"pending", "failed_retry", "failed_terminal", "sent"}]
Queues == {"event", "range"}

\* QUEUE_OUTBOX_RETRY_POLICY: enqueueSyncFollowUp writes Required, enqueueJob
\* writes Bounded.
Required(row) == row.job.kind # "plain"

\* ORDER BY next_attempt_at, outbox_id: a first try is due at once, a retry
\* after its delay; retries are taken in the order of their ids.
Before(r, s) ==
    IF r.status = s.status THEN r.id < s.id ELSE r.status = "pending"

First(rows) == CHOOSE r \in rows : \A s \in rows \ {r} : Before(r, s)

TypeOK ==
    /\ stored \in [Blocks -> Hash \cup {None}]
    /\ facts \in [Blocks -> [hash : Hash, revision : Nat] \cup {None}]
    /\ revision \in Nat
    /\ outbox \in SUBSET Row
    /\ \A r, s \in outbox : r.id = s.id \/ r.job = s.job => r = s
    /\ \A r \in outbox \cup drain : r.id < nextId
    /\ nextId \in Nat
    /\ drain \in SUBSET Row
    /\ accepted # None => drain # {} /\ accepted = First(drain)
    /\ published \in SUBSET Job
    /\ stream \in [DOMAIN stream -> Nat]
    /\ DOMAIN stream \subseteq published
    /\ \A q \in Queues : work[q] # None =>
          /\ work[q].job \in DOMAIN stream
          /\ work[q].job.kind = q
          /\ work[q].rows \in SUBSET Block
    /\ activities \in [Key -> Block \cup {None}]
    /\ handled \in SUBSET Block
    /\ dead \in SUBSET Job

Init ==
    /\ stored = [n \in Blocks |-> None]
    /\ facts = [n \in Blocks |-> None]
    /\ revision = 0
    /\ outbox = {}
    /\ nextId = 1
    /\ drain = {}
    /\ accepted = None
    /\ published = {}
    /\ stream = <<>>
    /\ work = [q \in Queues |-> None]
    /\ activities = [k \in Key |-> None]
    /\ handled = {}
    /\ dead = {}
    /\ commits = 0 /\ rollbacks = 0 /\ faults = 0

-----------------------------------------------------------------------------
(* SqliteSyncRangeCommit.commitSyncRange and SqliteQueueOutbox.              *)

\* buildSyncFollowUps over the range: one range job, one job per event.
FollowUps(m, n, header) ==
    {RangeJob(m, n, revision)} \cup {Event(b, header[b], revision) : b \in m..n}

\* Mutant: a plain INSERT.
RowsForAll(jobs) == jobs

\* insertJob, once for each job: INSERT OR IGNORE on the job id, which names
\* the source, the event and the chain revision.
RowsFor(jobs) == {j \in jobs : \A r \in outbox : r.job # j}

\* The rows take the next values of the sequence, in any order.
Numbering(new, first) ==
    CHOOSE id \in [new -> first..(first + Cardinality(new) - 1)] :
        \A i, j \in new : id[i] = id[j] => i = j

\* Mutant: a plain rowid, one above the largest in use.
FirstFreeIdReused ==
    IF outbox = {} THEN 1
    ELSE (CHOOSE r \in outbox : \A s \in outbox : s.id <= r.id).id + 1

\* AUTOINCREMENT: a deleted row's id is never given out again.
FirstFreeId == nextId

InsertJobs(jobs) ==
    LET new == RowsFor(jobs)
        id == Numbering(new, FirstFreeId) IN
    /\ outbox' = outbox \cup
          {[id |-> id[j], job |-> j, attempts |-> 0, status |-> "pending"] : j \in new}
    /\ nextId' = FirstFreeId + Cardinality(new)

\* enqueueJob: the finite retry policy of the other workflows.
EnqueueJob ==
    /\ PlainJob \notin published /\ \A r \in outbox : r.job # PlainJob
    /\ MaxPlain > 0
    /\ InsertJobs({PlainJob})
    /\ UNCHANGED <<stored, facts, revision, drainer, broker, domain, bounds>>

\* A range acquired at the current revision commits: headers that agree with
\* the stored ones, their facts (INSERT OR IGNORE) and the follow-ups, in one
\* transaction.
CommitRange(m, n) ==
    /\ commits < MaxCommits
    /\ \E header \in [m..n -> Hash] :
        /\ \A b \in m..n : stored[b] \in {None, header[b]}
        /\ stored' = [b \in Blocks |-> IF b \in m..n THEN header[b] ELSE stored[b]]
        /\ facts' = [b \in Blocks |->
              IF b \in m..n /\ facts[b] = None
              THEN [hash |-> header[b], revision |-> revision] ELSE facts[b]]
        /\ InsertJobs(FollowUps(m, n, header))
    /\ commits' = commits + 1
    /\ UNCHANGED <<revision, drainer, broker, domain, rollbacks, faults>>

\* Mutant: range rows that reach into the rolled back blocks go as well.
OrphanedAll(row, from) == row.job.kind # "plain" /\ row.job.to >= from

\* Rows rollbackFromBlock deletes: sync_block_number is set for events only.
Orphaned(row, from) == row.job.kind = "event" /\ row.job.from >= from

\* SqliteStorage.rollbackFromBlock: facts, activities, headers and event rows
\* go; the verified fork header is (re)written; the revision advances.
Rollback(from) ==
    /\ rollbacks < MaxRollbacks
    /\ \E n \in Blocks : n >= from /\ stored[n] # None
    /\ \E h \in Hash :
        /\ from > 1 => stored[from - 1] \in {None, h}
        /\ stored' = [n \in Blocks |->
              IF n >= from THEN None ELSE IF n = from - 1 THEN h ELSE stored[n]]
    /\ facts' = [n \in Blocks |-> IF n >= from THEN None ELSE facts[n]]
    /\ activities' = [k \in Key |->
          IF activities[k] # None /\ activities[k].number >= from
          THEN None ELSE activities[k]]
    /\ handled' = {b \in handled : b.number < from}
    /\ outbox' = {r \in outbox : ~Orphaned(r, from)}
    /\ revision' = revision + 1
    /\ rollbacks' = rollbacks + 1
    /\ UNCHANGED <<nextId, drainer, broker, work, dead, commits, faults>>

-----------------------------------------------------------------------------
(* drainQueueOutbox: one drain at a time (running), rows one after another.  *)

\* Mutant: failed_retry rows are never listed again.
DuePending == {r \in outbox : r.status = "pending"}

Due == {r \in outbox : r.status \in {"pending", "failed_retry"}}

\* selectDueStmt.  Which retries have served their delay is left open.
ListDue ==
    /\ drain = {}
    /\ \E waiting \in SUBSET {r \in Due : r.status = "failed_retry"} :
        LET due == Due \ waiting IN
        /\ due # {}
        /\ drain' = {r \in due : Cardinality({s \in due : Before(s, r)}) < Limit}
    /\ UNCHANGED <<database, accepted, broker, domain, bounds>>

\* queue.publish: JetStream stores the message under its msgID.  A job it
\* already holds, or held within the duplicate window, is accepted unstored.
Publish(row) ==
    /\ row = First(drain) /\ accepted = None
    /\ accepted' = row
    /\ published' = published \cup {row.job}
    /\ \/ /\ row.job \in published
          /\ stream' = stream
       \/ /\ row.job \notin DOMAIN stream
          /\ stream' = [j \in DOMAIN stream \cup {row.job} |->
                IF j = row.job THEN 0 ELSE stream[j]]
    /\ UNCHANGED <<database, drain, domain, bounds>>

\* Statement on the row with this outbox_id, if there still is one.
UpdateRow(id, Change(_)) == {IF r.id = id THEN Change(r) ELSE r : r \in outbox}

Settled(row) == drain' = drain \ {row} /\ accepted' = None

\* removePublishedSyncFollowUp or markSent after the broker's answer.
MarkPublished ==
    /\ accepted # None
    /\ outbox' =
          IF Required(accepted)
          THEN {r \in outbox : ~(r.id = accepted.id /\ Required(r))}
          ELSE UpdateRow(accepted.id, LAMBDA r : [r EXCEPT !.status = "sent"])
    /\ Settled(accepted)
    /\ UNCHANGED <<stored, facts, revision, nextId, broker, domain, bounds>>

\* Mutant: the finite retry policy for every row.
TerminalAny(row) == row.attempts + 1 >= MaxAttempts

Terminal(row) == ~Required(row) /\ row.attempts + 1 >= MaxAttempts

\* The catch block: the publication failed, its answer was lost, or the row
\* could not be settled.  attempts is the listed value plus one.
MarkFailed(row) ==
    /\ row = First(drain)
    /\ faults < MaxFaults
    /\ outbox' = UpdateRow(row.id, LAMBDA r :
          [r EXCEPT !.attempts = row.attempts + 1,
                    !.status = IF Terminal(row) THEN "failed_terminal"
                               ELSE "failed_retry"])
    /\ Settled(row)
    /\ faults' = faults + 1
    /\ UNCHANGED <<stored, facts, revision, nextId, broker, domain, commits, rollbacks>>

-----------------------------------------------------------------------------
(* runWorker with CanonicalSyncJobAdmission; one delivery at a time.         *)

\* CanonicalSyncJobAdmission.isCurrent
IsCurrent(job) == job.kind = "event" => stored[job.from] = job.hash

Without(job) == [j \in DOMAIN stream \ {job} |-> stream[j]]

\* The facts persistTransferActivities reads for a range.
FactsIn(job) ==
    {Ref(n, facts[n].hash) : n \in {b \in job.from..job.to : facts[b] # None}}

\* An admitted delivery enters its handler, which for a range job first reads
\* all its facts; a stale one is acknowledged unhandled.
Deliver(q) ==
    /\ work[q] = None
    /\ \E job \in DOMAIN stream :
        /\ job.kind = q
        /\ IF IsCurrent(job)
           THEN /\ work' = [work EXCEPT ![q] =
                      [job |-> job,
                       rows |-> IF q = "range" THEN FactsIn(job) ELSE {}]]
                /\ stream' = [stream EXCEPT ![job] = @ + 1]
           ELSE work' = work /\ stream' = Without(job)
    /\ UNCHANGED <<database, drainer, published, activities, handled, dead, bounds>>

\* insertActivity, a statement of its own: INSERT OR IGNORE on dedupe_key.
InsertActivity ==
    /\ work["range"] # None
    /\ \E b \in work["range"].rows :
        /\ work' = [work EXCEPT !["range"].rows = @ \ {b}]
        /\ LET k == TxKey(b.number, b.hash) IN
           activities' = IF activities[k] = None
                         THEN [activities EXCEPT ![k] = b] ELSE activities
    /\ UNCHANGED <<database, drainer, broker, handled, dead, bounds>>

\* The handler returned and the message is acknowledged.
Ack(q) ==
    /\ work[q] # None
    /\ work[q].rows = {}
    /\ LET job == work[q].job IN
        /\ handled' = IF q = "event" /\ facts[job.from] # None
                         /\ facts[job.from].hash = job.hash
                      THEN handled \cup {Ref(job.from, job.hash)} ELSE handled
        /\ stream' = Without(job)
    /\ work' = [work EXCEPT ![q] = None]
    /\ UNCHANGED <<database, drainer, published, activities, dead, bounds>>

\* The handler threw: a message past its attempts goes to the dead letter
\* queue and is acknowledged, any other is returned to the broker.
Fail(q) ==
    /\ work[q] # None
    /\ faults < MaxFaults
    /\ LET job == work[q].job IN
       IF stream[job] >= MaxAttempts
       THEN dead' = dead \cup {job} /\ stream' = Without(job)
       ELSE UNCHANGED <<dead, stream>>
    /\ work' = [work EXCEPT ![q] = None]
    /\ faults' = faults + 1
    /\ UNCHANGED <<database, drainer, published, activities, handled, commits, rollbacks>>

\* The domain worker stops anywhere: its memory goes, the database and the
\* broker stay, unacknowledged messages are delivered again.
Crash ==
    /\ faults < MaxFaults
    /\ drain # {} \/ \E q \in Queues : work[q] # None
    /\ drain' = {} /\ accepted' = None
    /\ work' = [q \in Queues |-> None]
    /\ faults' = faults + 1
    /\ UNCHANGED <<database, broker, activities, handled, dead, commits, rollbacks>>

-----------------------------------------------------------------------------
DrainStep == ListDue \/ (\E row \in drain : Publish(row)) \/ MarkPublished
ConsumeStep(q) == Deliver(q) \/ (q = "range" /\ InsertActivity) \/ Ack(q)

Next ==
    \/ \E m, n \in Blocks : m <= n /\ CommitRange(m, n)
    \/ \E from \in Blocks : Rollback(from)
    \/ EnqueueJob
    \/ DrainStep
    \/ \E row \in drain : MarkFailed(row)
    \/ \E q \in Queues : ConsumeStep(q) \/ Fail(q)
    \/ Crash

Spec == Init /\ [][Next]_vars

\* The drainer polls and the broker delivers for as long as the domain worker
\* runs; failures are bounded, so both get through eventually.
FairSpec ==
    /\ Spec
    /\ WF_vars(DrainStep)
    /\ \A q \in Queues : WF_vars(ConsumeStep(q))

-----------------------------------------------------------------------------
IsDue(job) == \E r \in Due : r.job = job

FactRef(n) == Ref(n, facts[n].hash)

\* No event hint of a stored fact is lost between the commit that retains it
\* and its handler, whatever rollback, failed publication, lost answer or
\* restart falls in between: it is due in the outbox, held by the broker,
\* handled, or in the dead letter queue after its last attempt.
EventOwned ==
    \A n \in Blocks : facts[n] # None =>
        LET job == Event(n, facts[n].hash, facts[n].revision) IN
        \/ FactRef(n) \in handled
        \/ IsDue(job)
        \/ job \in DOMAIN stream \cup dead

\* A range job that will still read the fact of block n, or has it in hand.
Projects(job, n) ==
    /\ job.kind = "range" /\ n \in job.from..job.to
    /\ work["range"] # None /\ work["range"].job = job =>
          FactRef(n) \in work["range"].rows

\* Every stored fact has an activity row under its key, or a range job that
\* will write one: range jobs survive the rollback of a part of their range
\* and reach the activity domain after the facts they project.
ActivityOwed ==
    \A n \in Blocks : facts[n] # None =>
        \/ activities[TxKey(n, facts[n].hash)] # None
        \/ \E job \in {r.job : r \in Due} \cup DOMAIN stream : Projects(job, n)
        \/ \E job \in dead : job.kind = "range" /\ n \in job.from..job.to

\* A bounded publication ends truthfully: a "sent" receipt means that the
\* broker accepted the job, and only the last try makes a row terminal.
ReceiptTruthful ==
    \A r \in outbox :
        /\ r.status = "sent" => r.job \in published
        /\ r.status = "failed_terminal" => ~Required(r) /\ r.attempts >= MaxAttempts

\* Each stored event's hint is eventually handled, unless its block is rolled
\* back or its last attempt fails.
EventsHandled ==
    \A n \in Blocks :
        facts[n] # None ~>
            \/ facts[n] = None
            \/ FactRef(n) \in handled
            \/ \E job \in dead : job.kind = "event" /\ job.from = n

\* Activity rows are a projection of the stored facts: no row stands for a
\* block that a rollback has removed.
ActivitiesProjectFacts ==
    \A k \in Key : activities[k] # None =>
        LET b == activities[k] IN facts[b.number] # None /\ FactRef(b.number) = b
=============================================================================
