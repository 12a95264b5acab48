---------------------------- MODULE BotLifecycle ----------------------------
(***************************************************************************)
(* The lifecycle of wallet-bound bots in the desktop supervisor.           *)
(*                                                                         *)
(*  - runtime/bot_lifecycle.rs: BotLifecycleCoordinator, a mutex and a      *)
(*    condition variable that fence every start, stop and change of a bot   *)
(*    by a generation;                                                      *)
(*  - wallet/tauri/bot_commands.rs: the start command, which keeps its      *)
(*    reservation across the prompt and the decryption of the wallet;       *)
(*  - runtime/supervisor.rs: the thread that owns a bot's process, the stop *)
(*    command, the commands on the core, and the loop that supervises the   *)
(*    core processes and invalidates bots whenever the core changes.        *)
(*                                                                         *)
(* One step is one critical section of the coordinator's mutex, of the bot  *)
(* statuses or of the controllers, or one check of a polling thread.  What  *)
(* happens between two of them (prompt, catalog, decryption, output of the  *)
(* processes) is a choice of outcomes.  No lock is poisoned and no event to *)
(* the webview fails.                                                       *)
(***************************************************************************)
EXTENDS Naturals, Sequences, SequencesExt

CONSTANTS
    None,
    BotSpecs,       \* BOT_RUNTIME_SPECS: the bots, in the order of the list
    Starter,        \* start commands in flight
    Stopper,        \* stop commands in flight
    Manager,        \* the command on the core, which stops the bots too
    MaxGen,         \* bound: start and mutation generations
    MaxEvents       \* bound: commands on the core and failures of the core

ASSUME LifecycleAssumption ==
    /\ MaxGen \in Nat /\ MaxEvents \in Nat
    /\ None \notin Nat
    /\ Manager \notin Stopper
    /\ (Stopper \cup {Manager}) \cap Nat = {}

VARIABLES
    nextGen,        \* BotLifecycleState.next_generation
    coreGen,        \* BotLifecycleState.core_generation
    operation,      \* BotLifecycleSlot.operation of each bot
    active,         \* BotLifecycleSlot.active: its generation
    cancelled,      \* generations whose BotStartCancellation is set
    controllers,    \* bot_controllers: generation of the published controller
    shown,          \* bot_statuses: state, lifecycle_generation, mandate
    start,          \* the start commands
    stop,           \* the stop commands, and the manager's command on the core
    change,         \* the wallet assignment under way
    worker,         \* the thread of each generation
    core,           \* RuntimeStatus.state
    loop,           \* the supervisor loop: its place, and whether told to stop
    events          \* commands and failures of the core so far

slots == <<nextGen, coreGen, operation, active, cancelled>>
published == <<controllers, shown>>
coreVars == <<core, loop, events>>
vars == <<slots, published, start, stop, change, worker, coreVars>>

Bot == ToSet(BotSpecs)
Gen == 1..MaxGen
Halter == Stopper \cup {Manager}

\* bot_runtime_state_is_active
ActiveState == {"awaiting_unlock", "starting", "bootstrapping", "running"}

IdleStart == [pc |-> "idle", bot |-> None, gen |-> None, core |-> None]
IdleStop == [pc |-> "idle", todo |-> <<>>, gen |-> None]
NoWorker == [pc |-> "none", phase |-> None, bot |-> None, core |-> None,
             told |-> FALSE]

\* A visible state; one that is not active drops generation and mandate.
Status(state, gen, mandate) ==
    IF state \in ActiveState
    THEN [state |-> state, gen |-> gen, mandate |-> mandate]
    ELSE [state |-> state, gen |-> None, mandate |-> None]

\* default_managed_bot_runtime_status
DefaultStatus == Status("disabled", None, None)

\* set_bot_runtime_state, which no generation fences.
Show(b, state) ==
    shown' = [shown EXCEPT ![b] = Status(state, shown[b].gen, shown[b].mandate)]

\* apply_generation_bot_runtime_state
ShowFenced(g, state) ==
    LET b == worker[g].bot
    IN  shown' = [shown EXCEPT ![b] =
                    IF shown[b].gen = g THEN Status(state, g, shown[b].mandate)
                    ELSE shown[b]]

Occupied(b) == operation[b] # None \/ active[b] # None

\* changed.notify_all(): every thread asleep on the condition variable wakes.
NotifyAll(commands) ==
    [h \in Halter |->
        IF commands[h].pc = "asleep" THEN [commands[h] EXCEPT !.pc = "reserve"]
        ELSE commands[h]]

\* The cancellations a change of the core, or a stop, sets.
Pending(b) ==
    (IF operation[b] # None /\ operation[b].kind = "starting"
     THEN {operation[b].gen} ELSE {})
    \cup (IF active[b] # None THEN {active[b]} ELSE {})

\* Mutated: a change of the core cancels pending starts and forgets the threads.
InvalidateStartsOnly ==
    /\ coreGen' = coreGen + 1
    /\ cancelled' = cancelled \cup UNION {Pending(b) \ {active[b]} : b \in Bot}
    /\ UNCHANGED <<nextGen, operation, active>>

\* invalidate_core
InvalidateCore ==
    /\ coreGen' = coreGen + 1
    /\ cancelled' = cancelled \cup UNION {Pending(b) : b \in Bot}
    /\ UNCHANGED <<nextGen, operation, active>>

Init ==
    /\ nextGen = 0 /\ coreGen = 0
    /\ operation = [b \in Bot |-> None] /\ active = [b \in Bot |-> None]
    /\ cancelled = {}
    /\ controllers = [b \in Bot |-> None]
    /\ shown = [b \in Bot |-> DefaultStatus]
    /\ start = [c \in Starter |-> IdleStart]
    /\ stop = [h \in Halter |-> IdleStop]
    /\ change = None
    /\ worker = [g \in Gen |-> NoWorker]
    /\ core = "stopped"
    /\ loop = [pc |-> "none", told |-> FALSE]
    /\ events = 0

-----------------------------------------------------------------------------
(* The start command.                                                      *)

At(c, pc) == start[c].pc = pc
StartTo(c, pc) == start' = [start EXCEPT ![c].pc = pc]

\* validate_start_state
ValidStart(c) ==
    LET r == start[c]
    IN  /\ r.gen \notin cancelled
        /\ r.core = coreGen
        /\ operation[r.bot] = [kind |-> "starting", gen |-> r.gen, core |-> r.core]

\* validate_bot_start: the generation, then the dependencies.  A change between
\* the two reads is met by the next check, the last one under the mutex.
ValidBotStart(c) == ValidStart(c) /\ core = "running"

\* reserve_start; a bot that is active or changing refuses the command.
ReserveStart(c, b) ==
    /\ At(c, "idle")
    /\ nextGen < MaxGen
    /\ ~Occupied(b)
    /\ nextGen' = nextGen + 1
    /\ operation' = [operation EXCEPT ![b] =
            [kind |-> "starting", gen |-> nextGen + 1, core |-> coreGen]]
    /\ start' = [start EXCEPT ![c] =
            [pc |-> "unlock", bot |-> b, gen |-> nextGen + 1, core |-> coreGen]]
    /\ UNCHANGED <<coreGen, active, cancelled, published, stop, change, worker,
                   coreVars>>

\* begin_bot_unlock: a start that lost its generation already gives up.
BeginUnlock(c) ==
    /\ At(c, "unlock")
    /\ IF ValidStart(c)
       THEN /\ StartTo(c, "stable")
            /\ shown' = [shown EXCEPT ![start[c].bot] =
                    Status("awaiting_unlock", start[c].gen, None)]
       ELSE StartTo(c, "drop") /\ UNCHANGED shown
    /\ UNCHANGED <<slots, controllers, stop, change, worker, coreVars>>

\* wait_until_bot_dependencies_stable before the prompt, and
\* validate_frozen_bot_start_context before and after the decryption.
Revalidate(c, pc, next) ==
    /\ At(c, pc)
    /\ StartTo(c, IF ValidBotStart(c) THEN next ELSE "fail")
    /\ UNCHANGED <<slots, published, stop, change, worker, coreVars>>

AwaitStable(c) == Revalidate(c, "stable", "prompt")

AnswerPrompt(c) == Revalidate(c, "prompt", "decrypt")

Decrypted(c) == Revalidate(c, "decrypt", "mandate")

\* A config, wallet, catalog, prompt or decryption error, and the prompt or the
\* catalog query that a cancellation ends.
AbandonStart(c) ==
    /\ start[c].pc \in {"stable", "prompt", "decrypt"}
    /\ StartTo(c, "fail")
    /\ UNCHANGED <<slots, published, stop, change, worker, coreVars>>

\* The config disables the bot, or the operator dismisses the prompt:
\* set_reserved_bot_runtime_state to a state that is not active.
LockStart(c) ==
    /\ start[c].pc \in {"stable", "prompt"}
    /\ IF ValidStart(c)
       THEN Show(start[c].bot, IF At(c, "stable") THEN "disabled" ELSE "locked")
       ELSE UNCHANGED shown
    /\ StartTo(c, "guard")
    /\ UNCHANGED <<slots, controllers, stop, change, worker, coreVars>>

\* set_reserved_bot_bidding_mandate
ShowMandate(c) ==
    /\ At(c, "mandate")
    /\ IF ValidStart(c)
       THEN /\ shown' = [shown EXCEPT ![start[c].bot].mandate = start[c].gen]
            /\ StartTo(c, "starting")
       ELSE UNCHANGED shown /\ StartTo(c, "guard")
    /\ UNCHANGED <<slots, controllers, stop, change, worker, coreVars>>

\* set_reserved_bot_runtime_state(Starting)
ShowStarting(c) ==
    /\ At(c, "starting")
    /\ IF ValidStart(c)
       THEN /\ shown' = [shown EXCEPT ![start[c].bot] =
                    Status("starting", start[c].gen, @.mandate)]
            /\ StartTo(c, "commit")
       ELSE UNCHANGED shown /\ StartTo(c, "guard")
    /\ UNCHANGED <<slots, controllers, stop, change, worker, coreVars>>

\* start_bot_runtime in commit_start: ownership, controller and thread are
\* published together, or nothing is.
CommitStart(c) ==
    /\ At(c, "commit")
    /\ LET b == start[c].bot
           g == start[c].gen
       IN  \/ /\ ValidBotStart(c)
              /\ controllers[b] = None
              /\ active' = [active EXCEPT ![b] = g]
              /\ controllers' = [controllers EXCEPT ![b] = g]
              /\ worker' = [worker EXCEPT ![g] =
                    [NoWorker EXCEPT !.pc = "begin", !.bot = b,
                                     !.core = start[c].core]]
              /\ StartTo(c, "guard")
           \/ StartTo(c, "fail") /\ UNCHANGED <<active, controllers, worker>>
    /\ UNCHANGED <<nextGen, coreGen, operation, cancelled, shown, stop, change,
                   coreVars>>

\* fail_bot_start
FailStart(c) ==
    /\ At(c, "fail")
    /\ IF start[c].gen \in cancelled THEN Show(start[c].bot, "stopped")
       ELSE IF ValidStart(c) THEN Show(start[c].bot, "error")
       ELSE UNCHANGED shown
    /\ StartTo(c, "guard")
    /\ UNCHANGED <<slots, controllers, stop, change, worker, coreVars>>

\* Mutated: no guard resets the visible state of a cancelled start.
DropGuardSilent(c) ==
    /\ At(c, "guard")
    /\ StartTo(c, "drop")
    /\ UNCHANGED <<slots, published, stop, change, worker, coreVars>>

\* Drop of CancelledBotStartStateGuard, then of the reservation: finish_start.
DropGuard(c) ==
    /\ At(c, "guard")
    /\ IF start[c].gen \in cancelled THEN Show(start[c].bot, "stopped")
       ELSE UNCHANGED shown
    /\ StartTo(c, "drop")
    /\ UNCHANGED <<slots, controllers, stop, change, worker, coreVars>>

\* Mutated: the end of a start wakes nobody.
FinishStartQuietly(c) ==
    /\ At(c, "drop")
    /\ operation' = [operation EXCEPT ![start[c].bot] = None]
    /\ start' = [start EXCEPT ![c] = IdleStart]
    /\ UNCHANGED <<nextGen, coreGen, active, cancelled, published, stop, change,
                   worker, coreVars>>

FinishStart(c) ==
    /\ At(c, "drop")
    /\ LET b == start[c].bot
           owner == /\ operation[b] # None
                    /\ operation[b].kind = "starting"
                    /\ operation[b].gen = start[c].gen
       IN  IF owner
           THEN /\ operation' = [operation EXCEPT ![b] = None]
                /\ stop' = NotifyAll(stop)
           ELSE UNCHANGED <<operation, stop>>
    /\ start' = [start EXCEPT ![c] = IdleStart]
    /\ UNCHANGED <<nextGen, coreGen, active, cancelled, published, change, worker,
                   coreVars>>

-----------------------------------------------------------------------------
(* The stop command.  A stopper's generation is the stopper itself.         *)

StopAt(h, pc) == stop[h].pc = pc
StopBot(h) == stop[h].todo[1]

\* bot_stop: stop_bot_runtime of one bot.
RequestStop(h, b) ==
    /\ h \in Stopper
    /\ stop[h].pc = "idle"
    /\ stop' = [stop EXCEPT ![h] = [IdleStop EXCEPT !.pc = "reserve", !.todo = <<b>>]]
    /\ UNCHANGED <<slots, published, start, change, worker, coreVars>>

\* Mutated: a stop cancels a pending operation and does not wait for its end.
ReserveStopAtOnce(h) ==
    /\ StopAt(h, "reserve")
    /\ cancelled' = cancelled \cup Pending(StopBot(h))
    /\ operation' = [operation EXCEPT ![StopBot(h)] =
            [kind |-> "stopping", gen |-> h, core |-> None]]
    /\ stop' = [stop EXCEPT ![h].pc = "take"]
    /\ UNCHANGED <<nextGen, coreGen, active, published, start, change, worker,
                   coreVars>>

\* reserve_stop: cancel a pending start and wait for it, wait for any other
\* operation, else cancel the active generation and exclude new starts.
ReserveStop(h) ==
    /\ StopAt(h, "reserve")
    /\ LET b == StopBot(h)
       IN  IF operation[b] # None
           THEN /\ cancelled' = IF operation[b].kind = "starting"
                                THEN cancelled \cup {operation[b].gen} ELSE cancelled
                /\ stop' = [stop EXCEPT ![h].pc = "asleep"]
                /\ UNCHANGED operation
           ELSE /\ cancelled' = cancelled \cup Pending(b)
                /\ operation' = [operation EXCEPT ![b] =
                        [kind |-> "stopping", gen |-> h, core |-> None]]
                /\ stop' = [stop EXCEPT ![h].pc = "take"]
    /\ UNCHANGED <<nextGen, coreGen, active, published, start, change, worker,
                   coreVars>>

\* Mutated: a stop does not join the thread it told to stop.
TakeControllerUnjoined(h) ==
    /\ StopAt(h, "take")
    /\ LET b == StopBot(h)
           g == controllers[b]
       IN  /\ controllers' = [controllers EXCEPT ![b] = None]
           /\ worker' = IF g = None THEN worker
                        ELSE [worker EXCEPT ![g].told = TRUE]
    /\ stop' = [stop EXCEPT ![h].pc = "show"]
    /\ UNCHANGED <<slots, shown, start, change, coreVars>>

\* The controller is taken and told to stop.
TakeController(h) ==
    /\ StopAt(h, "take")
    /\ LET b == StopBot(h)
           g == controllers[b]
       IN  IF g = None
           THEN /\ stop' = [stop EXCEPT ![h].pc = "show"]
                /\ UNCHANGED <<controllers, worker>>
           ELSE /\ controllers' = [controllers EXCEPT ![b] = None]
                /\ worker' = [worker EXCEPT ![g].told = TRUE]
                /\ stop' = [stop EXCEPT ![h].pc = "join", ![h].gen = g]
    /\ UNCHANGED <<slots, shown, start, change, coreVars>>

\* join_handle.join() returns when the thread has ended.
JoinWorker(h) ==
    /\ StopAt(h, "join")
    /\ worker[stop[h].gen].pc = "done"
    /\ stop' = [stop EXCEPT ![h].pc = "show", ![h].gen = None]
    /\ UNCHANGED <<slots, published, start, change, worker, coreVars>>

ShowStopped(h) ==
    /\ StopAt(h, "show")
    /\ Show(StopBot(h), "stopped")
    /\ stop' = [stop EXCEPT ![h].pc = "release"]
    /\ UNCHANGED <<slots, controllers, start, change, worker, coreVars>>

\* Drop of BotStopReservation: finish_stop.  The manager goes on to its next bot.
FinishStop(h) ==
    /\ StopAt(h, "release")
    /\ LET b == StopBot(h)
           rest == Tail(stop[h].todo)
           done == [stop EXCEPT ![h] =
                      [IdleStop EXCEPT !.todo = rest,
                          !.pc = IF rest # <<>> THEN "reserve"
                                 ELSE IF h = Manager THEN "halt" ELSE "idle"]]
           owner == operation[b] # None /\ operation[b].gen = h
       IN  IF owner
           THEN /\ operation' = [operation EXCEPT ![b] = None]
                /\ active' = [active EXCEPT ![b] = None]
                /\ stop' = NotifyAll(done)
           ELSE stop' = done /\ UNCHANGED <<operation, active>>
    /\ UNCHANGED <<nextGen, coreGen, cancelled, published, start, change, worker,
                   coreVars>>
-----------------------------------------------------------------------------
(* The wallet assignment, a mutation of an idle bot.                        *)

\* Mutated: a mutation looks at pending operations and not at a running bot.
ReserveMutationActive(b) ==
    /\ change = None
    /\ nextGen < MaxGen
    /\ operation[b] = None
    /\ nextGen' = nextGen + 1
    /\ operation' = [operation EXCEPT ![b] =
            [kind |-> "mutating", gen |-> nextGen + 1, core |-> None]]
    /\ change' = [bot |-> b, gen |-> nextGen + 1, pc |-> "assign"]
    /\ UNCHANGED <<coreGen, active, cancelled, published, start, stop, worker,
                   coreVars>>

\* reserve_mutation
ReserveMutation(b) ==
    /\ change = None
    /\ nextGen < MaxGen
    /\ ~Occupied(b)
    /\ nextGen' = nextGen + 1
    /\ operation' = [operation EXCEPT ![b] =
            [kind |-> "mutating", gen |-> nextGen + 1, core |-> None]]
    /\ change' = [bot |-> b, gen |-> nextGen + 1, pc |-> "assign"]
    /\ UNCHANGED <<coreGen, active, cancelled, published, start, stop, worker,
                   coreVars>>

\* assign_wallet_while_idle refuses a bot that looks busy, may fail, and else
\* clears the visible state.
AssignWallet ==
    /\ change # None
    /\ change.pc = "assign"
    /\ change' = [change EXCEPT !.pc = "drop"]
    /\ \/ /\ shown[change.bot].state \notin ActiveState
          /\ shown' = [shown EXCEPT ![change.bot] = DefaultStatus]
       \/ UNCHANGED shown
    /\ UNCHANGED <<slots, controllers, start, stop, worker, coreVars>>

\* Drop of BotMutationReservation: finish_mutation.
FinishMutation ==
    /\ change # None
    /\ change.pc = "drop"
    /\ LET b == change.bot
           owner == operation[b] # None /\ operation[b].kind = "mutating"
                    /\ operation[b].gen = change.gen
       IN  IF owner
           THEN /\ operation' = [operation EXCEPT ![b] = None]
                /\ stop' = NotifyAll(stop)
           ELSE UNCHANGED <<operation, stop>>
    /\ change' = None
    /\ UNCHANGED <<nextGen, coreGen, active, cancelled, published, start, worker,
                   coreVars>>

-----------------------------------------------------------------------------
(* The thread of a generation: run_bot_runtime_loop.  Its process is alive  *)
(* at "poll", "recv" and "ending".                                          *)

Live(g) == worker[g].pc \in {"poll", "recv", "ending"}

\* The visible state a phase publishes; the handoff publishes none.
Advance(phase) ==
    CASE phase = "handoff" -> {"waiting"}
      [] phase = "waiting" -> {"bootstrapping", "running"}
      [] phase = "bootstrapping" -> {"running"}
      [] OTHER -> {}

\* Mutated: a thread looks at its stop channel only.
StopSeenTold(g) == worker[g].told

StopSeen(g) == g \in cancelled \/ worker[g].told

\* A cancelled thread spawns no process, and a process may fail to spawn.
SpawnBot(g) ==
    /\ worker[g].pc = "begin"
    /\ \/ /\ g \notin cancelled
          /\ worker' = [worker EXCEPT ![g].pc = "poll", ![g].phase = "handoff"]
          /\ UNCHANGED shown
       \/ /\ ShowFenced(g, IF g \in cancelled THEN "stopped" ELSE "error")
          /\ worker' = [worker EXCEPT ![g].pc = "remove"]
    /\ UNCHANGED <<slots, controllers, start, stop, change, coreVars>>

\* Mutated: a thread that is stopped publishes the phase it was in.
PollStopKeepsPhase(g) ==
    /\ worker[g].pc = "poll"
    /\ worker' = [worker EXCEPT ![g].pc = IF StopSeen(g) THEN "ending" ELSE "recv"]
    /\ UNCHANGED <<slots, published, start, stop, change, coreVars>>

\* bot_stop_requested, at the head of every polling loop.
PollStop(g) ==
    /\ worker[g].pc = "poll"
    /\ worker' = [worker EXCEPT
            ![g].pc = IF StopSeen(g) THEN "ending" ELSE "recv",
            ![g].phase = IF StopSeen(g) THEN "stopped" ELSE @]
    /\ UNCHANGED <<slots, published, start, stop, change, coreVars>>

\* The rest of a loop's body: a signal of the process moves it to the next
\* phase; an exit, an error, a timeout, or a core that is not running ends it;
\* else the loop goes round.  The secret handoff does not look at the core, and
\* bootstrapping takes a signal before it does.
Receive(g) ==
    /\ worker[g].pc = "recv"
    /\ LET phase == worker[g].phase
       IN  \/ /\ core = "running" \/ phase \in {"handoff", "bootstrapping"}
              /\ \E next \in Advance(phase) :
                    /\ worker' = [worker EXCEPT ![g].pc = "poll", ![g].phase = next]
                    /\ IF next \in ActiveState THEN ShowFenced(g, next)
                       ELSE UNCHANGED shown
           \/ /\ core = "running" \/ phase = "handoff"
              /\ worker' = [worker EXCEPT ![g].pc = "poll"]
              /\ UNCHANGED shown
           \/ /\ worker' = [worker EXCEPT ![g].pc = "ending", ![g].phase = "error"]
              /\ UNCHANGED shown
    /\ UNCHANGED <<slots, controllers, start, stop, change, coreVars>>

\* stop_all_processes, then the last visible state.
EndBot(g) ==
    /\ worker[g].pc = "ending"
    /\ ShowFenced(g, worker[g].phase)
    /\ worker' = [worker EXCEPT ![g].pc = "remove"]
    /\ UNCHANGED <<slots, controllers, start, stop, change, coreVars>>

\* The thread removes the controller that is still its own.
RemoveController(g) ==
    /\ worker[g].pc = "remove"
    /\ LET b == worker[g].bot
       IN  controllers' = [controllers EXCEPT ![b] = IF @ = g THEN None ELSE @]
    /\ worker' = [worker EXCEPT ![g].pc = "finish"]
    /\ UNCHANGED <<slots, shown, start, stop, change, coreVars>>

\* finish_controller
FinishController(g) ==
    /\ worker[g].pc = "finish"
    /\ LET b == worker[g].bot
       IN  IF active[b] = g
           THEN /\ active' = [active EXCEPT ![b] = None]
                /\ stop' = NotifyAll(stop)
           ELSE UNCHANGED <<active, stop>>
    /\ worker' = [worker EXCEPT ![g].pc = "done"]
    /\ UNCHANGED <<nextGen, coreGen, operation, cancelled, published, start, change,
                   coreVars>>

-----------------------------------------------------------------------------
(* The core: the commands of the manager, one at a time under lifecycle_gate, *)
(* and the supervisor loop.  Starting and restarting are one state here.     *)

Command == stop[Manager]
ManagerTo(pc) == stop' = [stop EXCEPT ![Manager] = [IdleStop EXCEPT !.pc = pc]]
LoopTo(pc) == loop' = [loop EXCEPT !.pc = pc]
NewEvent == events < MaxEvents /\ events' = events + 1

\* start_locked: a config that does not load publishes "stopped" whatever runs;
\* else a controller that looks finished is joined first, and one that does
\* not makes the command a no-op.
StartCore ==
    /\ Command.pc = "idle"
    /\ NewEvent
    /\ \/ core' = "stopped" /\ UNCHANGED stop
       \/ /\ loop.pc \in {"none", "done"} \/ core = "stopped"
          /\ ManagerTo("reap")
          /\ UNCHANGED core
    /\ UNCHANGED <<slots, published, start, change, worker, loop>>

\* reap_completed_controller, then a new supervisor loop.
ReapLoop ==
    /\ Command.pc = "reap"
    /\ loop.pc \in {"none", "done"}
    /\ core' = "starting"
    /\ loop' = [pc |-> "begin", told |-> FALSE]
    /\ ManagerTo("idle")
    /\ UNCHANGED <<slots, published, start, change, worker, events>>

\* stop_locked: invalidate the core, stop the bots one by one, then the loop.
StopCore ==
    /\ Command.pc = "idle"
    /\ NewEvent
    /\ InvalidateCore
    /\ stop' = [stop EXCEPT ![Manager] =
            [IdleStop EXCEPT !.pc = "reserve", !.todo = BotSpecs]]
    /\ UNCHANGED <<published, start, change, worker, core, loop>>

HaltLoop ==
    /\ Command.pc = "halt"
    /\ IF loop.pc = "none" THEN UNCHANGED <<core, loop>>
       ELSE core' = "stopping" /\ loop' = [loop EXCEPT !.told = TRUE]
    /\ ManagerTo("joinloop")
    /\ UNCHANGED <<slots, published, start, change, worker, events>>

JoinLoop ==
    /\ Command.pc = "joinloop"
    /\ loop.pc \in {"none", "done"}
    /\ core' = "stopped"
    /\ loop' = [pc |-> "none", told |-> FALSE]
    /\ ManagerTo("idle")
    /\ UNCHANGED <<slots, published, start, change, worker, events>>

LoopOnly == UNCHANGED <<published, start, stop, change, worker>>

\* Every round of run_supervisor_loop is a new generation.
LoopBegin ==
    /\ loop.pc = "begin"
    /\ InvalidateCore
    /\ LoopTo("publish")
    /\ LoopOnly /\ UNCHANGED <<core, events>>

LoopPublish ==
    /\ loop.pc = "publish"
    /\ core' = "starting"
    /\ LoopTo("spawn")
    /\ LoopOnly /\ UNCHANGED <<slots, events>>

\* spawn_runtime_processes: the processes run, or a stop is seen or the recovery
\* fails and the loop ends, or it fails and the loop backs off.
LoopSpawn ==
    /\ loop.pc = "spawn"
    /\ \/ core' = "running" /\ LoopTo("monitor") /\ UNCHANGED events
       \/ /\ (loop.told /\ UNCHANGED events) \/ NewEvent
          /\ core' = "stopped" /\ LoopTo("done")
       \/ NewEvent /\ core' = "starting" /\ LoopTo("backoff")
    /\ LoopOnly /\ UNCHANGED slots

\* monitor_processes returns on a stop or on the exit of a process, and the
\* running generation ends at once.
LoopMonitor ==
    /\ loop.pc = "monitor"
    /\ InvalidateCore
    /\ \/ loop.told /\ LoopTo("stopping") /\ UNCHANGED events
       \/ NewEvent /\ LoopTo("crashed")
    /\ LoopOnly /\ UNCHANGED core

LoopCleanup ==
    /\ \/ loop.pc = "stopping" /\ core' = "stopped" /\ LoopTo("done")
       \/ loop.pc = "crashed" /\ core' = "starting" /\ LoopTo("backoff")
    /\ LoopOnly /\ UNCHANGED <<slots, events>>

\* sleep_with_stop
LoopBackoff ==
    /\ loop.pc = "backoff"
    /\ IF loop.told THEN core' = "stopped" /\ LoopTo("done")
       ELSE UNCHANGED core /\ LoopTo("begin")
    /\ LoopOnly /\ UNCHANGED <<slots, events>>

-----------------------------------------------------------------------------
\* What a start command does by itself; the operator answers the prompt, and a
\* cancellation ends it (SecretPromptCancellation).
StartRuns(c) ==
    \/ BeginUnlock(c) \/ AwaitStable(c) \/ Decrypted(c)
    \/ start[c].gen \in cancelled /\ AbandonStart(c)
    \/ ShowMandate(c) \/ ShowStarting(c) \/ CommitStart(c)
    \/ FailStart(c) \/ DropGuard(c) \/ FinishStart(c)

StopRuns(h) ==
    \/ ReserveStop(h) \/ TakeController(h) \/ JoinWorker(h)
    \/ ShowStopped(h) \/ FinishStop(h)

MutationRuns == AssignWallet \/ FinishMutation

WorkerRuns(g) ==
    \/ SpawnBot(g) \/ PollStop(g) \/ Receive(g) \/ EndBot(g)
    \/ RemoveController(g) \/ FinishController(g)

LoopRuns ==
    \/ LoopBegin \/ LoopPublish \/ LoopSpawn \/ LoopMonitor \/ LoopCleanup
    \/ LoopBackoff

Next ==
    \/ \E c \in Starter :
          \/ \E b \in Bot : ReserveStart(c, b)
          \/ AnswerPrompt(c) \/ LockStart(c) \/ AbandonStart(c)
          \/ StartRuns(c)
    \/ \E h \in Halter :
          \/ \E b \in Bot : RequestStop(h, b)
          \/ StopRuns(h)
    \/ \E b \in Bot : ReserveMutation(b)
    \/ MutationRuns
    \/ \E g \in Gen : WorkerRuns(g)
    \/ StartCore \/ ReapLoop \/ StopCore \/ HaltLoop \/ JoinLoop
    \/ LoopRuns

Spec == Init /\ [][Next]_vars

\* Every thread is scheduled.  The operator may leave a prompt open for ever,
\* and a process may run for ever.
FairSpec ==
    /\ Spec
    /\ \A c \in Starter : WF_vars(StartRuns(c))
    /\ \A h \in Halter : WF_vars(StopRuns(h))
    /\ WF_vars(MutationRuns)
    /\ \A g \in Gen : WF_vars(WorkerRuns(g))

-----------------------------------------------------------------------------
StartPc == {"idle", "unlock", "stable", "prompt", "decrypt", "mandate",
            "starting", "commit", "fail", "guard", "drop"}
StopPc == {"idle", "reserve", "asleep", "take", "join", "show", "release",
           "reap", "halt", "joinloop"}

TypeOK ==
    /\ nextGen \in 0..MaxGen /\ coreGen \in 0..(2 * MaxEvents + 1)
    /\ cancelled \subseteq Gen
    /\ \A b \in Bot :
          /\ operation[b] # None =>
                /\ operation[b].kind \in {"starting", "stopping", "mutating"}
                /\ operation[b].gen \in Gen \cup Halter
          /\ active[b] \in Gen \cup {None}
          /\ controllers[b] \in Gen \cup {None}
          /\ shown[b].state \in ActiveState \cup {"disabled", "locked", "stopped", "error"}
          /\ shown[b].gen \in Gen \cup {None} /\ shown[b].mandate \in Gen \cup {None}
    /\ \A c \in Starter : start[c].pc \in StartPc
    /\ \A h \in Halter : stop[h].pc \in StopPc
    /\ \A g \in Gen :
          worker[g].pc \in {"none", "begin", "poll", "recv", "ending", "remove",
                            "finish", "done"}
    /\ core \in {"stopped", "starting", "running", "stopping"}
    /\ loop.pc \in {"none", "begin", "publish", "spawn", "monitor", "stopping",
                    "crashed", "backoff", "done"}
    /\ events \in 0..MaxEvents

Runs(g) == worker[g].pc \notin {"none", "remove", "finish", "done"}

\* A bot never has two processes: the process of a generation is dead before
\* finish_controller or finish_stop lets the next one start.
OneProcess ==
    \A g, k \in Gen : Runs(g) /\ Runs(k) /\ worker[g].bot = worker[k].bot => g = k

\* From the moment a stop publishes "stopped" until it lets go of the bot, the
\* bot has no process, pending start or controller: reserve_stop waits for the
\* start it cancelled and joins the thread it took.
StopQuiesces ==
    \A h \in Halter : stop[h].pc \in {"show", "release"} =>
        LET b == stop[h].todo[1]
        IN  /\ controllers[b] = None
            /\ \A g \in Gen : Runs(g) => worker[g].bot # b
            /\ \A c \in Starter : start[c].bot # b

\* A process that nobody has cancelled belongs to the current generation of
\* the core: no start slips through a restart.
CoreFenced == \A g \in Gen : Runs(g) /\ g \notin cancelled => worker[g].core = coreGen

\* An active visible state, and the mandate shown with it, belong to the
\* generation that owns the bot.
ShownOwned ==
    \A b \in Bot :
        /\ shown[b].mandate \in {None, shown[b].gen}
        /\ shown[b].state \in ActiveState => shown[b].gen \in Pending(b)

\* The wallet of a bot is assigned only while no process of the bot runs and no
\* start has looked at its wallet.
AssignedIdle ==
    change # None =>
        /\ \A g \in Gen : Runs(g) => worker[g].bot # change.bot
        /\ \A c \in Starter : start[c].bot # change.bot

\* A terminal snapshot of the core is published only after process cleanup.
TerminalAfterCleanup == core = "stopped" => loop.pc \in {"none", "done"}

\* A stop command that was given returns: no wakeup is lost, and nobody it
\* waits for waits for it.
StopReturns == \A h \in Stopper : stop[h].pc # "idle" ~> stop[h].pc = "idle"

\* Every process of a cancelled generation ends, whatever phase the
\* cancellation found it in.
CancelledEnds ==
    (\E g \in cancelled : Runs(g)) ~> (\A g \in cancelled : ~Runs(g))
=============================================================================
