----------------------------- MODULE ThreadPool -----------------------------
(***************************************************************************)
(* The scheduling half of src/src/threading/ThreadPool.zig: the Sync word, *)
(* the idle Event and its futex, notify / wait / shutdown / register /     *)
(* unregister / join / warm, and the loop of Thread.run.                   *)
(*                                                                         *)
(* A cmpxchg loop on `sync` is the step of its successful cmpxchg, whose   *)
(* decision was taken on the value it replaced.  Tasks are counted, not    *)
(* named: `queue` is the length of the global run_queue, `buffer` that of  *)
(* each thread's run_buffer.  One external thread owns the pool.           *)
(***************************************************************************)
EXTENDS Integers, FiniteSets, Sequences

CONSTANTS Workers,      \* the OS threads that can be spawned
          Owner,        \* the thread that schedules, shuts down and joins
          None,
          MaxThreads,   \* max_threads
          Roots,        \* bound: tasks the owner schedules, one by one
          Children,     \* bound: tasks scheduled by running tasks
          WarmTo,       \* the count passed to warm(); 0 does nothing
          WaitFirst,    \* TRUE: waitAndDeinit; FALSE: deinit
          SpawnFailures,\* bound: failing calls of std.Thread.spawn
          WeakCas       \* TRUE: cmpxchgWeak may fail spuriously (LL/SC targets)

ASSUME PoolAssumption ==
  /\ IsFiniteSet(Workers)
  /\ Owner \notin Workers /\ None \notin Workers \cup {Owner}
  /\ MaxThreads \in Nat \ {0} /\ Roots \in Nat /\ Children \in Nat
  /\ WarmTo \in Nat /\ SpawnFailures \in Nat
  /\ WaitFirst \in BOOLEAN /\ WeakCas \in BOOLEAN

Threads == Workers \cup {Owner}

VARIABLES
  sync,        \* [idle, spawned, notified, state]
  idle_event,  \* the futex word of the idle Event
  join_event,  \* a token, or not, in the pool's join_event
  exit_event,  \* the same for each thread's own join_event
  registered,  \* `threads`: the stack of registered threads, newest first
  queue,       \* tasks in the global run_queue
  consumer,    \* the thread that holds the run_queue's IS_CONSUMING bit
  buffer,      \* tasks in each thread's run_buffer
  wait_group,  \* tasks scheduled and not finished
  roots, children, failures,  \* what is left of the bounds
  warmed,      \* history: has warm() counted or spawned a thread
  phantoms,    \* history: threads it has counted less those it has spawned
  late,        \* history: had a sleep's timeout expired when the pool was shut down
  pc,          \* where each thread is
  l            \* each thread's locals

queues == <<queue, consumer, buffer>>
events == <<idle_event, join_event, exit_event>>
warming == <<warmed, phantoms>>
bounds == <<roots, children, failures, warming, late>>
vars == <<sync, events, registered, queues, wait_group, bounds, pc, l>>

\* Words of an Event.
EMPTY == "empty"
WAITING == "waiting"
NOTIFIED == "notified"
SHUTDOWN == "shutdown"

Locals == [is_waking : BOOLEAN,  \* Thread.run's flag
           is_idle : BOOLEAN,    \* wait's flag
           acquire_with : {EMPTY, WAITING},
           shrunk : BOOLEAN,     \* has_shrunk_memory: the 10 s timeout is spent
           pushed : BOOLEAN,     \* Stole.pushed
           attempts : Nat,       \* num_threads in pop
           target : Workers \cup {None},
           ret : {"sched", "run", "finish"}]  \* where notify returns to

Start == [is_waking |-> FALSE, is_idle |-> FALSE, acquire_with |-> EMPTY,
          shrunk |-> FALSE, pushed |-> FALSE, attempts |-> 0, target |-> None,
          ret |-> "sched"]

Init ==
  /\ sync = [idle |-> 0, spawned |-> 0, notified |-> FALSE, state |-> "pending"]
  /\ idle_event = EMPTY /\ join_event = FALSE
  /\ exit_event = [w \in Workers |-> FALSE]
  /\ registered = <<>>
  /\ queue = 0 /\ consumer = None /\ buffer = [w \in Workers |-> 0]
  /\ wait_group = 0
  /\ roots = Roots /\ children = Children /\ failures = SpawnFailures
  /\ warmed = FALSE /\ phantoms = 0 /\ late = FALSE
  /\ pc = [t \in Threads |-> IF t = Owner THEN "warm" ELSE "unborn"]
  /\ l = [t \in Threads |-> Start]

Move(t, from, to, locals) == /\ pc[t] = from
                             /\ pc' = [pc EXCEPT ![t] = to]
                             /\ l' = [l EXCEPT ![t] = locals]
Goto(t, from, to) == Move(t, from, to, l[t])

-----------------------------------------------------------------------------
(* schedule, notify and warm *)

\* scheduleImpl by the owner: count the task, push it, notify.
Schedule == /\ roots > 0
            /\ Goto(Owner, "sched", "push")
            /\ roots' = roots - 1
            /\ wait_group' = wait_group + 1
            /\ UNCHANGED <<sync, events, registered, queues, children, failures,
                           warming, late>>

Push == /\ Goto(Owner, "push", "notify")
        /\ queue' = queue + 1
        /\ UNCHANGED <<sync, events, registered, consumer, buffer, wait_group, bounds>>

\* scheduleInsideThreadPool by a running task: into the worker's own buffer.
ScheduleInside(w) ==
  /\ children > 0
  /\ Move(w, "run", "notify", [l[w] EXCEPT !.ret = "finish"])
  /\ children' = children - 1
  /\ wait_group' = wait_group + 1
  /\ buffer' = [buffer EXCEPT ![w] = @ + 1]
  /\ UNCHANGED <<sync, events, registered, queue, consumer, roots, failures, warming,
                 late>>

\* What is_waking is where notify was called: forceSpawn passes false.
Waking(t) == l[t].is_waking /\ l[t].ret = "run"

\* notify's fast path.
Notify(t) ==
  /\ Goto(t, "notify", IF sync.notified /\ ~Waking(t) THEN l[t].ret ELSE "slow")
  /\ UNCHANGED <<sync, events, registered, queues, wait_group, bounds>>

StillWaking(t, locals) == locals  \* mutant: the flag is kept
\* The worker's `is_waking = false` once notify has returned.
Notified(t, locals) == [locals EXCEPT !.is_waking = @ /\ locals.ret # "run"]

CanAlwaysWake(t) == TRUE  \* mutant: the state is not looked at
CanWake(t) == Waking(t) \/ sync.state = "pending"

NotifySlow(t) ==
  /\ pc[t] = "slow"
  /\ \/ /\ sync.state = "shutdown"
        /\ Move(t, "slow", l[t].ret, Notified(t, l[t]))
        /\ UNCHANGED sync
     \/ /\ sync.state # "shutdown" /\ CanWake(t) /\ sync.idle > 0
        /\ sync' = [sync EXCEPT !.notified = TRUE, !.state = "signaled"]
        /\ Goto(t, "slow", "post")
     \/ /\ sync.state # "shutdown" /\ CanWake(t) /\ sync.idle = 0
        /\ sync.spawned < MaxThreads
        /\ sync' = [sync EXCEPT !.notified = TRUE, !.state = "signaled",
                                !.spawned = @ + 1]
        /\ Goto(t, "slow", "spawn")
     \/ /\ sync.state # "shutdown"
        /\ ~(CanWake(t) /\ (sync.idle > 0 \/ sync.spawned < MaxThreads))
        /\ sync' = [sync EXCEPT !.notified = TRUE,
                                !.state = IF Waking(t) THEN "pending" ELSE @]
        /\ Move(t, "slow", l[t].ret, Notified(t, l[t]))
  /\ UNCHANGED <<events, registered, queues, wait_group, bounds>>

PostNoWake(t) ==  \* mutant: the futex wake is forgotten
  /\ Move(t, "post", l[t].ret, Notified(t, l[t]))
  /\ idle_event' = NOTIFIED
  /\ UNCHANGED <<sync, join_event, exit_event, registered, queues, wait_group, bounds>>

\* idle_event.notify(): swap, then wake one sleeper if the word was WAITING.
Post(t) ==
  /\ IF idle_event = WAITING THEN Goto(t, "post", "wake")
     ELSE Move(t, "post", l[t].ret, Notified(t, l[t]))
  /\ idle_event' = NOTIFIED
  /\ UNCHANGED <<sync, join_event, exit_event, registered, queues, wait_group, bounds>>

Asleep == {w \in Workers : pc[w] = "asleep"}
Awoken(locals) == [locals EXCEPT !.acquire_with = WAITING]

Wake(t) ==
  /\ pc[t] = "wake"
  /\ \/ /\ Asleep = {}
        /\ Move(t, "wake", l[t].ret, Notified(t, l[t]))
     \/ \E w \in Asleep :
          /\ pc' = [pc EXCEPT ![t] = l[t].ret, ![w] = "event"]
          /\ l' = [l EXCEPT ![t] = Notified(t, @), ![w] = Awoken(@)]
  /\ UNCHANGED <<sync, events, registered, queues, wait_group, bounds>>

\* unregister's fetchSub: one thread less, either because it could not be
\* spawned or because it exits; the last one tells the joiner.  A build with
\* assertions panics when no thread was counted.
Unspawned == sync' = [sync EXCEPT !.spawned = IF @ = 0 THEN 0 ELSE @ - 1]
AfterUnspawn(next) == IF sync.spawned = 0 THEN "panic" ELSE next
Last == sync.state = "shutdown" /\ sync.spawned = 1

\* std.Thread.spawn by notifySlow; a failure calls unregister(null).
Spawn(t) ==
  /\ pc[t] = "spawn"
  /\ \/ /\ \E w \in Workers : /\ pc[w] = "unborn"
                              /\ pc' = [pc EXCEPT ![t] = l[t].ret, ![w] = "register"]
        /\ UNCHANGED <<sync, join_event, failures>>
     \/ /\ failures > 0
        /\ failures' = failures - 1
        /\ pc' = [pc EXCEPT ![t] = AfterUnspawn(l[t].ret)]
        /\ Unspawned
        /\ join_event' = (join_event \/ Last)
  /\ l' = [l EXCEPT ![t] = Notified(t, @)]
  /\ UNCHANGED <<idle_event, exit_event, registered, queues, wait_group, roots, children,
                 warming, late>>

\* warm(): the loop ends when the cmpxchg succeeds (`orelse break`), and the
\* spawn that follows it runs when the cmpxchg fails.
WarmTarget == IF WarmTo - sync.spawned < MaxThreads THEN WarmTo - sync.spawned
              ELSE MaxThreads

WarmCounts(n) == warmed' = TRUE /\ phantoms' = phantoms + n

Warm ==
  /\ \/ /\ sync.spawned < WarmTarget
        /\ sync' = [sync EXCEPT !.spawned = @ + 1]
        /\ Goto(Owner, "warm", "sched")
        /\ WarmCounts(1)
        /\ UNCHANGED failures
     \/ /\ sync.spawned >= WarmTarget
        /\ Goto(Owner, "warm", "sched")
        /\ UNCHANGED <<sync, failures, warming>>
     \/ /\ WeakCas /\ sync.spawned < WarmTarget
        /\ pc[Owner] = "warm"
        /\ \E w \in Workers : pc[w] = "unborn" /\ pc' = [pc EXCEPT ![w] = "register"]
        /\ WarmCounts(-1)
        /\ UNCHANGED <<sync, l, failures>>
     \/ /\ WeakCas /\ sync.spawned < WarmTarget
        /\ failures > 0
        /\ failures' = failures - 1
        /\ Goto(Owner, "warm", AfterUnspawn("sched"))
        /\ Unspawned
        /\ WarmCounts(-1)
  /\ UNCHANGED <<events, registered, queues, wait_group, roots, children, late>>

\* Or the owner does not call it.
NoWarm == /\ WarmTo > 0 /\ ~warmed
          /\ Goto(Owner, "warm", "sched")
          /\ UNCHANGED <<sync, events, registered, queues, wait_group, bounds>>

-----------------------------------------------------------------------------
(* The worker: register, wait, Event.wait *)

Register(w) == /\ Goto(w, "register", "wait")
               /\ registered' = <<w>> \o registered
               /\ UNCHANGED <<sync, events, queues, wait_group, bounds>>

\* An iteration of wait() leaves on shutdown, consumes a notification, becomes
\* idle, or sleeps on the idle event, in that order.  The one after the thread has
\* become idle goes by the value its cmpxchg replaced, so straight to the event.
LeaveOnShutdown(w) ==
  /\ sync.state = "shutdown"
  /\ Move(w, "wait", "unregister", [l[w] EXCEPT !.is_idle = FALSE])
  /\ UNCHANGED <<sync, events, registered, queues, wait_group, bounds>>

IdleKept(w) == sync.idle      \* mutant: the thread stays idle
IdleLess(w) == sync.idle - 1  \* mutant: is_idle is not looked at
IdleAfter(w) == IF l[w].is_idle THEN sync.idle - 1 ELSE sync.idle

ConsumeNotification(w) ==
  /\ sync.state # "shutdown" /\ sync.notified
  /\ Move(w, "wait", "pop",
          [l[w] EXCEPT !.is_waking = @ \/ sync.state = "signaled", !.is_idle = FALSE])
  /\ sync' = [sync EXCEPT !.notified = FALSE,
                          !.idle = IdleAfter(w),
                          !.state = IF @ = "signaled" THEN "waking" ELSE @]
  /\ UNCHANGED <<events, registered, queues, wait_group, bounds>>

BecomeIdle(w) ==
  /\ sync.state # "shutdown" /\ ~sync.notified /\ ~l[w].is_idle
  /\ Move(w, "wait", "event", [l[w] EXCEPT !.is_waking = FALSE, !.is_idle = TRUE,
                                         !.acquire_with = EMPTY, !.shrunk = FALSE])
  /\ sync' = [sync EXCEPT !.idle = @ + 1,
                          !.state = IF l[w].is_waking THEN "pending" ELSE @]
  /\ UNCHANGED <<events, registered, queues, wait_group, bounds>>

EnterEvent(w) ==
  /\ sync.state # "shutdown" /\ ~sync.notified /\ l[w].is_idle
  /\ Move(w, "wait", "event", [l[w] EXCEPT !.acquire_with = EMPTY, !.shrunk = FALSE])
  /\ UNCHANGED <<sync, events, registered, queues, wait_group, bounds>>

\* Event.wait on the idle event: leave on SHUTDOWN, consume NOTIFIED, or make
\* the word WAITING and sleep.
EventLoop(w) ==
  /\ \/ idle_event = SHUTDOWN /\ Goto(w, "event", "wait") /\ UNCHANGED idle_event
     \/ /\ idle_event = NOTIFIED
        /\ Goto(w, "event", "wait")
        /\ idle_event' = l[w].acquire_with
     \/ /\ idle_event \in {EMPTY, WAITING}
        /\ Goto(w, "event", "sleep")
        /\ idle_event' = WAITING
  /\ UNCHANGED <<sync, join_event, exit_event, registered, queues, wait_group, bounds>>

\* Futex.wait compares the word and blocks in one step.
Sleep(w) ==
  /\ IF idle_event = WAITING THEN Goto(w, "sleep", "asleep")
     ELSE Move(w, "sleep", "event", Awoken(l[w]))
  /\ UNCHANGED <<sync, events, registered, queues, wait_group, bounds>>

\* The kernel may wake a sleeper for no reason; the first sleep of a call ends
\* after ten seconds, the later ones have no timeout.
SpuriousWake(w) ==
  /\ Move(w, "asleep", "event", Awoken(l[w]))
  /\ UNCHANGED <<sync, events, registered, queues, wait_group, bounds>>

Timeout(w) ==
  /\ ~l[w].shrunk
  /\ Move(w, "asleep", "event", [Awoken(l[w]) EXCEPT !.shrunk = TRUE])
  /\ UNCHANGED <<sync, events, registered, queues, wait_group, bounds>>

-----------------------------------------------------------------------------
(* The worker: pop and the task *)

\* Thread.pop looks into its own buffer first.
PopBuffer(w) ==
  /\ IF buffer[w] > 0
     THEN /\ Move(w, "pop", "found", [l[w] EXCEPT !.pushed = FALSE])
          /\ buffer' = [buffer EXCEPT ![w] = @ - 1]
     ELSE /\ Goto(w, "pop", "global")
          /\ UNCHANGED buffer
  /\ UNCHANGED <<sync, events, registered, queue, consumer, wait_group, bounds>>

\* tryAcquireConsumer on the global queue; Empty and Contended look alike.
TryConsume(w) ==
  /\ IF queue > 0 /\ consumer = None
     THEN Goto(w, "global", "consume") /\ consumer' = w
     ELSE Goto(w, "global", "victims") /\ UNCHANGED consumer
  /\ UNCHANGED <<sync, events, registered, queue, buffer, wait_group, bounds>>

KeptAll(n) == n  \* mutant: the task that is returned stays in the buffer
\* Of n tasks taken, one is returned to run and the rest is buffered.
Kept(n) == n - 1

\* Buffer.consume: one task to run, the rest into the buffer.
Consume(w) ==
  /\ Move(w, "consume", "release", [l[w] EXCEPT !.pushed = queue > 1])
  /\ buffer' = [buffer EXCEPT ![w] = Kept(queue)]
  /\ queue' = 0
  /\ UNCHANGED <<sync, events, registered, consumer, wait_group, bounds>>

\* Its deferred releaseConsumer; what was pushed meanwhile stays in the queue.
ReleaseConsumer(w) ==
  /\ Goto(w, "release", "found")
  /\ consumer' = None
  /\ UNCHANGED <<sync, events, registered, queue, buffer, wait_group, bounds>>

\* Then as many victims as threads have been spawned, along the stack.
CountVictims(w) ==
  /\ Move(w, "victims", "steal", [l[w] EXCEPT !.attempts = sync.spawned])
  /\ UNCHANGED <<sync, events, registered, queues, wait_group, bounds>>

Below(v) == LET i == CHOOSE n \in 1..Len(registered) : registered[n] = v
            IN IF i = Len(registered) THEN None ELSE registered[i + 1]

Steal(w) ==
  LET victim == IF l[w].target = None THEN registered[1] ELSE l[w].target
      half == buffer[victim] - (buffer[victim] \div 2)
      next == [l[w] EXCEPT !.attempts = @ - 1, !.target = Below(victim)]
  IN /\ pc[w] = "steal"
     /\ \/ /\ l[w].attempts = 0
           /\ Goto(w, "steal", "wait")
           /\ UNCHANGED buffer
        \/ /\ l[w].attempts > 0 /\ (victim = w \/ half = 0)
           /\ Move(w, "steal", "steal", next)
           /\ UNCHANGED buffer
        \/ /\ l[w].attempts > 0 /\ victim # w /\ half > 0
           /\ Move(w, "steal", "found",
                   [next EXCEPT !.attempts = 0, !.pushed = half > 1])
           /\ buffer' = [buffer EXCEPT ![victim] = @ - half, ![w] = Kept(half)]
     /\ UNCHANGED <<sync, events, registered, queue, consumer, wait_group, bounds>>

\* A thread that moved tasks into its buffer, or is the waking one, notifies.
Found(w) ==
  /\ IF l[w].pushed \/ l[w].is_waking
     THEN Move(w, "found", "notify", [l[w] EXCEPT !.ret = "run"])
     ELSE Goto(w, "found", "run")
  /\ UNCHANGED <<sync, events, registered, queues, wait_group, bounds>>

\* The callback returns.
Run(w) == /\ Goto(w, "run", "finish")
          /\ UNCHANGED <<sync, events, registered, queues, wait_group, bounds>>

Finish(w) == /\ Goto(w, "finish", "pop")
             /\ wait_group' = wait_group - 1
             /\ UNCHANGED <<sync, events, registered, queues, bounds>>

-----------------------------------------------------------------------------
(* waitForAll, shutdown, join, unregister *)

Await == /\ roots = 0
         /\ WaitFirst => wait_group = 0
         /\ Goto(Owner, "sched", "shutdown")
         /\ UNCHANGED <<sync, events, registered, queues, wait_group, bounds>>

Shutdown == /\ sync' = [sync EXCEPT !.notified = TRUE, !.state = "shutdown", !.idle = 0]
            /\ Goto(Owner, "shutdown", IF sync.idle > 0 THEN "post_all" ELSE "join")
            /\ late' = \E w \in Workers : l[w].shrunk
            /\ UNCHANGED <<events, registered, queues, wait_group, roots, children,
                           failures, warming>>

\* idle_event.shutdown(): swap, then wake every sleeper if it was WAITING.
PostAll ==
  /\ Goto(Owner, "post_all", IF idle_event = WAITING THEN "wake_all" ELSE "join")
  /\ idle_event' = SHUTDOWN
  /\ UNCHANGED <<sync, join_event, exit_event, registered, queues, wait_group, bounds>>

WakeAll ==
  /\ pc[Owner] = "wake_all"
  /\ pc' = [t \in Threads |-> IF t = Owner THEN "join"
                              ELSE IF t \in Asleep THEN "event" ELSE pc[t]]
  /\ l' = [t \in Threads |-> IF t \in Asleep THEN Awoken(l[t]) ELSE l[t]]
  /\ UNCHANGED <<sync, events, registered, queues, wait_group, bounds>>

Join == /\ Goto(Owner, "join", IF sync.spawned = 0 THEN "kick" ELSE "join_wait")
        /\ UNCHANGED <<sync, events, registered, queues, wait_group, bounds>>

JoinWait == /\ join_event
            /\ Goto(Owner, "join_wait", "kick")
            /\ join_event' = FALSE
            /\ UNCHANGED <<sync, idle_event, exit_event, registered, queues,
                           wait_group, bounds>>

\* Start the chain of exits; deinit then gives up the pool's memory.
Kick == /\ Goto(Owner, "kick", "done")
        /\ exit_event' = IF registered = <<>> THEN exit_event
                         ELSE [exit_event EXCEPT ![registered[1]] = TRUE]
        /\ UNCHANGED <<sync, idle_event, join_event, registered, queues,
                       wait_group, bounds>>

PassOnNot(w) == exit_event  \* mutant: the chain of exits stops
\* next_thread.join_event.notify().
PassOn(w) == IF Below(w) = None THEN exit_event
             ELSE [exit_event EXCEPT ![Below(w)] = TRUE]

\* unregister(thread): drop out of `spawned`, tell the joiner if last, wait
\* for the own exit event, pass it on down the stack.
Unregister(w) ==
  /\ Goto(w, "unregister", AfterUnspawn(IF Last THEN "tell" ELSE "linger"))
  /\ Unspawned
  /\ UNCHANGED <<events, registered, queues, wait_group, bounds>>

Tell(w) == /\ Goto(w, "tell", "linger")
           /\ join_event' = TRUE
           /\ UNCHANGED <<sync, idle_event, exit_event, registered, queues,
                          wait_group, bounds>>

Linger(w) == /\ exit_event[w]
             /\ Goto(w, "linger", "exited")
             /\ exit_event' = PassOn(w)
             /\ UNCHANGED <<sync, idle_event, join_event, registered, queues,
                            wait_group, bounds>>

-----------------------------------------------------------------------------
NotifyStep(t) == Notify(t) \/ NotifySlow(t) \/ Post(t) \/ Wake(t) \/ Spawn(t)

OwnerStep == \/ Warm \/ NoWarm \/ Schedule \/ Push \/ Await \/ Shutdown \/ PostAll
             \/ WakeAll \/ Join \/ JoinWait \/ Kick

WorkerStep(w) ==
  \/ Register(w) \/ LeaveOnShutdown(w) \/ ConsumeNotification(w)
  \/ BecomeIdle(w) \/ EnterEvent(w) \/ EventLoop(w) \/ Sleep(w) \/ Timeout(w)
  \/ PopBuffer(w) \/ TryConsume(w) \/ Consume(w) \/ ReleaseConsumer(w)
  \/ CountVictims(w) \/ Steal(w) \/ Found(w) \/ Run(w) \/ Finish(w)
  \/ Unregister(w) \/ Tell(w) \/ Linger(w)

Next == \/ OwnerStep
        \/ \E t \in Threads : NotifyStep(t)
        \/ \E w \in Workers : WorkerStep(w) \/ ScheduleInside(w) \/ SpuriousWake(w)

\* Every thread keeps running: callbacks return, the owner goes on, the first
\* timeout of a sleep expires.  But no owner has to shut down a pool that has tasks.
MayRest == pc[Owner] = "sched" /\ roots = 0 /\ wait_group > 0

Fairness == /\ WF_vars(NotifyStep(Owner) \/ (OwnerStep /\ ~MayRest))
            /\ \A w \in Workers : WF_vars(NotifyStep(w) \/ WorkerStep(w))

Spec == Init /\ [][Next]_vars /\ Fairness

\* Bounds: after warm the owner schedules one task and that task none; a pool in
\* which a task has scheduled another is not followed through its shutdown.
PoolBound ==
  /\ warmed => roots >= Roots - 1 /\ children = Children
  /\ sync.state = "shutdown" => children = Children

-----------------------------------------------------------------------------
OwnerAt == {"warm", "panic", "sched", "push", "notify", "slow", "post", "wake",
            "spawn", "shutdown", "post_all", "wake_all", "join", "join_wait",
            "kick", "done"}
WorkerAt == {"unborn", "register", "wait", "event", "sleep", "asleep", "pop",
             "global", "consume", "release", "victims", "steal", "found",
             "notify", "slow", "post", "wake", "spawn", "run", "finish",
             "unregister", "tell", "linger", "exited", "panic"}

TypeOK ==
  /\ sync \in [idle : Nat, spawned : Nat, notified : BOOLEAN,
               state : {"pending", "signaled", "waking", "shutdown"}]
  /\ sync.spawned <= MaxThreads
  /\ idle_event \in {EMPTY, WAITING, NOTIFIED, SHUTDOWN}
  /\ join_event \in BOOLEAN /\ exit_event \in [Workers -> BOOLEAN]
  /\ registered \in Seq(Workers)
  /\ queue \in Nat /\ consumer \in Workers \cup {None}
  /\ buffer \in [Workers -> Nat] /\ wait_group \in Nat
  /\ roots \in 0..Roots /\ children \in 0..Children
  /\ failures \in 0..SpawnFailures
  /\ warmed \in BOOLEAN /\ phantoms \in Int /\ late \in BOOLEAN
  /\ \A w \in Workers : pc[w] \in WorkerAt
  /\ pc[Owner] \in OwnerAt
  /\ l \in [Threads -> Locals]

\* Until shutdown the four fields of `sync` say what the threads do.  There
\* is a waking thread exactly when the state says so, and never two; `idle`
\* is the number of threads inside wait()'s sleep.
Passed == {"post", "wake", "spawn"}  \* the status is already handed on
Wakers == {w \in Workers : l[w].is_waking /\ pc[w] \notin Passed}

OneWaker == sync.state # "shutdown" =>
              /\ sync.state = "waking" <=> Wakers # {}
              /\ Cardinality(Wakers) <= 1

Idlers == {w \in Workers : l[w].is_idle}
IdleCounted == sync.state # "shutdown" => sync.idle = Cardinality(Idlers)

\* Without asserts the code goes on with a wrong count; with them it panics, and ends.
Running == \A t \in Threads : pc[t] # "panic"

\* `spawned` is the number of threads that run, or are about to be spawned by
\* a notifier, and have not left through unregister(), but for the error that
\* warm() has made.
Gone == {"unborn", "tell", "linger", "exited", "panic"}
Live == {w \in Workers : pc[w] \notin Gone}
Spawning == {t \in Threads : pc[t] = "spawn"}
SpawnedCounted ==
  Running => sync.spawned = Cardinality(Live) + Cardinality(Spawning) + phantoms

\* Both counts of the word follow the threads.
SyncCounted == IdleCounted /\ SpawnedCounted

\* Nothing is lost and nothing runs twice between the queues: the tasks that
\* are waited for are queued, buffered or in a thread's hands.
InHand == {t \in Threads :
             \/ pc[t] \in {"push", "release", "found", "run", "finish"}
             \/ t \in Workers /\ pc[t] \in Passed \cup {"notify", "slow"}}
Buffered == UNION {{w} \X (1..buffer[w]) : w \in Workers}
TasksCounted ==
  Running => wait_group = queue + Cardinality(Buffered) + Cardinality(InHand)

\* The assertions of the code hold: is_waking implies state == .waking in
\* notifySlow and wait, a thread takes tasks only into an empty buffer, and
\* join() finds the pool shut down with no thread spawned, unless warm() has left
\* a thread uncounted.
AssertsHold == phantoms >= 0 =>
  /\ \A w \in Workers :
       /\ \/ pc[w] = "slow" /\ Waking(w)
          \/ pc[w] = "wait" /\ l[w].is_waking
         => sync.state \in {"waking", "shutdown"}
       /\ pc[w] \in {"consume", "victims", "steal"} => buffer[w] = 0
  /\ pc[Owner] = "kick" => sync.state = "shutdown" /\ sync.spawned = 0
  /\ \A t \in Threads : pc[t] # "panic"

\* deinit() gives the pool's memory up after join(): by then no thread has to
\* touch it any more.
NotTouchedAfterDeinit ==
  pc[Owner] = "done" => \A w \in Workers : pc[w] \in {"unborn", "linger", "exited"}

\* waitForAll returns: every task the owner schedules is run, whatever the workers
\* were doing when it was pushed, and with spurious wakes optional, unless the pool is
\* shut down before they have run or a spawn has failed.
TasksRun == <>[](\/ roots = 0 /\ wait_group = 0
                 \/ sync.state = "shutdown" \/ failures < SpawnFailures)

\* deinit() returns and every thread it had is gone.
AllGone == pc[Owner] = "done" /\ \A w \in Workers : pc[w] \in {"unborn", "exited"}
DeinitEnds == <>[]AllGone

\* deinit() ends at least when it comes before any sleeper's timeout has expired, for
\* that timeout then gets out the threads that shutdown did not wake, and when
\* neither warm() nor a failed spawn has upset the count of threads.
DeinitEndsInTime == <>[](AllGone \/ late \/ warmed \/ failures < SpawnFailures)
=============================================================================
