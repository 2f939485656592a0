------------------------------- MODULE IOLoop -------------------------------
(***************************************************************************)
(* The I/O thread: src/io/io.zig's Loop, which takes requests from an      *)
(* UnboundedQueue and waits in the kernel, and the Waker that other        *)
(* threads interrupt its wait with, an eventfd on Linux and a Mach port    *)
(* (src/io/io_darwin.cpp) on macOS.                                        *)
(*                                                                         *)
(* A step is one atomic access, one system call, or the handling of one    *)
(* request or event by the loop's thread.                                  *)
(***************************************************************************)
EXTENDS Naturals, Sequences, FiniteSets

CONSTANTS Requests,     \* Request objects, each with the poll of its file
          Threads,      \* threads that call Loop.schedule
          Backends,     \* which of "epoll" and "kqueue" to run on
          NoBuffers,    \* may the kernel run out of message buffers
          None

ASSUME IOLoopAssumption ==
    /\ Backends \subseteq {"epoll", "kqueue"} /\ NoBuffers \in BOOLEAN
    /\ None \notin Requests /\ IsFiniteSet(Requests)

VARIABLES
    backend,     \* the platform
    setup,       \* how far io_darwin_create_machport has come
    signal,      \* messages in the port, or the eventfd's count up to 1
    front, back, \* the queue's two ends
    next,        \* Request.next
    scheduled,   \* Request.scheduled
    wants,       \* what each request's callback will return: "poll" or "close"
    thread,      \* each scheduling thread: where it is, with what
    loop,        \* the loop's thread: where it is, with which cursor and batch
    changes,     \* the changelist of the next kevent64
    events,      \* what the last wait returned and is not handled yet
    armed,       \* polls the kernel watches (one shot)
    flagged,     \* Poll.flags: was_ever_registered; on kqueue, poll_readable or poll_writable
    client,      \* the owner of each request: "idle", "scheduled", "polling" or "done"
    late,        \* history: requests whose owner was called back after onDone
    starved      \* history: has a wake-up failed for want of a buffer

queueVars == <<front, back, next>>
ghostVars == <<late, starved>>
pollVars == <<changes, events, armed, flagged, client>>
vars == <<backend, setup, signal, queueVars, scheduled, wants, thread, loop, pollVars, ghostVars>>

IdleThread == [at |-> "idle", request |-> None, prev |-> None]
Loop(at) == [at |-> at, first |-> None, cursor |-> None, last |-> None, count |-> 0]

Init ==
    /\ backend \in Backends /\ signal = 0
    /\ setup = IF backend = "kqueue" THEN "allocate" ELSE "ready"
    /\ front = None /\ back = None /\ next = [r \in Requests |-> None]
    /\ scheduled = [r \in Requests |-> FALSE] /\ wants = [r \in Requests |-> "poll"]
    /\ thread = [t \in Threads |-> IdleThread] /\ loop = Loop("popFront")
    /\ changes = {} /\ events = {} /\ armed = {} /\ flagged = {}
    /\ client = [r \in Requests |-> "idle"]
    /\ late = {} /\ starved = FALSE

---------------------------------------------------------------------------
\* io_darwin_create_machport: four system calls; the last is retried on EINTR,
\* and any failure leaves no waker (the program panics).

SetupStep(from, to) ==
    /\ setup = from /\ setup' \in {to, "failed"}
    /\ UNCHANGED <<backend, signal, queueVars, scheduled, wants, thread, loop, pollVars, ghostVars>>

AllocatePort == SetupStep("allocate", "right")
InsertRight == SetupStep("right", "limit")
LimitQueue == SetupStep("limit", "register")
RegisterPort == SetupStep("register", "ready")

\* mpl_qlimit, and an eventfd that is not 0 reads as ready however often it was written.
QueueLimit == 1

---------------------------------------------------------------------------
\* Loop.schedule, on any thread: UnboundedQueue.push, then the waker.

Goto(t, at) == thread' = [thread EXCEPT ![t].at = at]

\* Its owner schedules a request again only after it was called back, or to close
\* the file it polls.
Schedule(t, r, action) ==
    /\ setup = "ready" /\ thread[t].at = "idle"
    /\ client[r] = "idle" \/ (client[r] = "polling" /\ action = "close")
    /\ scheduled' = [scheduled EXCEPT ![r] = TRUE] /\ wants' = [wants EXCEPT ![r] = action]
    /\ next' = [next EXCEPT ![r] = None] /\ client' = [client EXCEPT ![r] = "scheduled"]
    /\ thread' = [thread EXCEPT ![t] = [at |-> "swap", request |-> r, prev |-> None]]
    /\ UNCHANGED <<backend, setup, signal, front, back, loop, changes, events, armed, flagged,
                   late, starved>>

PushSwap(t) ==
    /\ thread[t].at = "swap" /\ back' = thread[t].request
    /\ thread' = [thread EXCEPT ![t].at = "link", ![t].prev = back]
    /\ UNCHANGED <<backend, setup, signal, front, next, scheduled, wants, loop, pollVars,
                   ghostVars>>

PushLink(t) ==
    /\ thread[t].at = "link" /\ Goto(t, "wake")
    /\ IF thread[t].prev = None THEN front' = thread[t].request /\ UNCHANGED next
       ELSE next' = [next EXCEPT ![thread[t].prev] = thread[t].request] /\ UNCHANGED front
    /\ UNCHANGED <<backend, setup, signal, back, scheduled, wants, loop, pollVars, ghostVars>>

WakeUnlimited(t) ==  \* mutant: the port's queue is not limited to one message
    /\ thread[t].at = "wake" /\ thread' = [thread EXCEPT ![t] = IdleThread]
    /\ signal' = signal + 1
    /\ UNCHANGED <<backend, setup, queueVars, scheduled, wants, loop, pollVars, ghostVars>>

WakeIfWaiting(t) ==  \* mutant: a loop that is not in the kernel is left alone
    /\ thread[t].at = "wake" /\ thread' = [thread EXCEPT ![t] = IdleThread]
    /\ signal' = IF loop.at = "wait" THEN QueueLimit ELSE signal
    /\ UNCHANGED <<backend, setup, queueVars, scheduled, wants, loop, pollVars, ghostVars>>

\* io_darwin_schedule_wakeup: sent, or the port is full already, or there is no
\* buffer; all three are reported as a success.  LinuxWaker.wake writes the eventfd.
Wake(t) ==
    /\ thread[t].at = "wake" /\ thread' = [thread EXCEPT ![t] = IdleThread]
    /\ \/ signal' = QueueLimit /\ UNCHANGED starved
       \/ backend = "kqueue" /\ NoBuffers /\ starved' = TRUE /\ UNCHANGED signal
    /\ UNCHANGED <<backend, setup, queueVars, scheduled, wants, loop, pollVars, late>>

---------------------------------------------------------------------------
\* The loop's thread: UnboundedQueue.popBatch.

LoopAt(at) == setup = "ready" /\ loop.at = at

PopFront ==
    /\ LoopAt("popFront") /\ front' = None
    /\ loop' = IF front = None THEN Loop("wait")
               ELSE [Loop("popBack") EXCEPT !.first = front, !.cursor = front, !.count = 1]
    /\ UNCHANGED <<backend, setup, signal, back, next, scheduled, wants, thread, pollVars,
                   ghostVars>>

PopBackFirst ==  \* mutant: the last item is taken to be the first
    /\ LoopAt("popBack") /\ back' = None
    /\ loop' = [loop EXCEPT !.at = "walk", !.last = loop.first]
    /\ UNCHANGED <<backend, setup, signal, front, next, scheduled, wants, thread, pollVars,
                   ghostVars>>

\* The batch ends at whatever was pushed last, linked yet or not.
PopBack ==
    /\ LoopAt("popBack") /\ back' = None
    /\ loop' = [loop EXCEPT !.at = "walk", !.last = back]
    /\ UNCHANGED <<backend, setup, signal, front, next, scheduled, wants, thread, pollVars,
                   ghostVars>>

\* Counting the batch, the loop spins on a `next' that its producer has yet to set.
Walk ==
    /\ LoopAt("walk")
    /\ IF loop.cursor = loop.last THEN loop' = [loop EXCEPT !.at = "handle"]
       ELSE /\ next[loop.cursor] # None
            /\ loop' = [loop EXCEPT !.cursor = next[loop.cursor], !.count = @ + 1]
    /\ UNCHANGED <<backend, setup, signal, queueVars, scheduled, wants, thread, pollVars,
                   ghostVars>>

---------------------------------------------------------------------------
\* tickEpoll and tickKqueue: the pending requests.

HandleDone ==
    /\ LoopAt("handle") /\ loop.count = 0 /\ loop' = Loop("wait")
    /\ UNCHANGED <<backend, setup, signal, queueVars, scheduled, wants, thread, pollVars,
                   ghostVars>>

\* Batch.Iterator.next, which reads `next' before the callback runs.
TakeNext ==
    /\ LoopAt("handle") /\ loop.count > 0
    /\ loop' = [loop EXCEPT !.first = next[loop.first], !.count = @ - 1]
    /\ UNCHANGED <<backend, setup, signal, queueVars, wants, thread, events, ghostVars>>

\* Poll.registerForEpoll, whose failure goes to onError.  Only here is the mark
\* that the request is scheduled taken off.
HandleEpollPoll ==
    LET r == loop.first IN
    /\ TakeNext /\ backend = "epoll" /\ wants[r] = "poll"
    /\ scheduled' = [scheduled EXCEPT ![r] = FALSE] /\ UNCHANGED changes
    /\ \/ /\ armed' = armed \cup {r} /\ flagged' = flagged \cup {r}
          /\ client' = [client EXCEPT ![r] = "polling"]
       \/ /\ client' = [client EXCEPT ![r] = "idle"] /\ UNCHANGED <<armed, flagged>>

CloseKeepsPoll ==  \* mutant: the poll is left in the interest list
    LET r == loop.first IN
    /\ TakeNext /\ backend = "epoll" /\ wants[r] = "close"
    /\ scheduled' = [scheduled EXCEPT ![r] = FALSE]
    /\ client' = [client EXCEPT ![r] = "done"] /\ UNCHANGED <<changes, armed, flagged>>

\* unregisterWithFd if the poll was ever registered, then onDone.
HandleEpollClose ==
    LET r == loop.first IN
    /\ TakeNext /\ backend = "epoll" /\ wants[r] = "close"
    /\ scheduled' = [scheduled EXCEPT ![r] = FALSE]
    /\ armed' = IF r \in flagged THEN armed \ {r} ELSE armed
    /\ client' = [client EXCEPT ![r] = "done"] /\ UNCHANGED <<changes, flagged>>

\* applyKQueue: the change waits for the next kevent64.
HandleKqueuePoll ==
    LET r == loop.first IN
    /\ TakeNext /\ backend = "kqueue" /\ wants[r] = "poll"
    /\ changes' = changes \cup {<<"add", r>>} /\ flagged' = flagged \cup {r}
    /\ client' = [client EXCEPT ![r] = "polling"] /\ UNCHANGED <<scheduled, armed>>

\* onDone comes before the kevent64 that cancels the poll; the flag is still set
\* when the one shot has fired.
HandleKqueueClose ==
    LET r == loop.first IN
    /\ TakeNext /\ backend = "kqueue" /\ wants[r] = "close"
    /\ changes' = IF r \in flagged THEN changes \cup {<<"cancel", r>>} ELSE changes
    /\ flagged' = flagged \ {r}
    /\ client' = [client EXCEPT ![r] = "done"] /\ UNCHANGED <<scheduled, armed>>

---------------------------------------------------------------------------
\* The kernel's part: the wait, and what it returns.

Changed(kind) == {r \in Requests : <<kind, r>> \in changes}

\* The polls watched once the changes are in, and the ones whose change failed:
\* an add that the kernel refuses, the cancelling of a poll it does not watch.
Applied(refused) == (armed \ Changed("cancel")) \cup (Changed("add") \ refused)
Errors(refused) == refused \cup (Changed("cancel") \ armed)

\* epoll_wait or kevent64 returns with the waker, if it is signalled, and any
\* polls that are ready, which are watched no longer.  kevent64 receives the
\* message itself.
Wait(ready, refused) ==
    /\ LoopAt("wait") /\ refused \subseteq Changed("add") /\ ready \subseteq Applied(refused)
    /\ events' = {<<"ready", r>> : r \in ready} \cup {<<"error", r>> : r \in Errors(refused)}
                   \cup (IF signal > 0 THEN {<<"waker", None>>} ELSE {})
    /\ events' # {} /\ armed' = Applied(refused) \ ready /\ changes' = {}
    /\ signal' = IF backend = "kqueue" THEN 0 ELSE signal
    /\ loop' = Loop("events")
    /\ UNCHANGED <<backend, setup, queueVars, scheduled, wants, thread, flagged, client, ghostVars>>

\* EINTR: the changes are in, and the loop looks at its queue again.
Interrupted ==
    /\ LoopAt("wait") /\ Errors({}) = {} /\ armed' = Applied({}) /\ changes' = {}
    /\ loop' = Loop("popFront")
    /\ UNCHANGED <<backend, setup, signal, queueVars, scheduled, wants, thread, events, flagged,
                   client, ghostVars>>

\* The waker's event: on Linux the eventfd is read, which sets it back.
WakerEvent ==
    /\ LoopAt("events") /\ <<"waker", None>> \in events
    /\ events' = events \ {<<"waker", None>>}
    /\ signal' = IF backend = "epoll" THEN 0 ELSE signal
    /\ UNCHANGED <<backend, setup, queueVars, scheduled, wants, thread, loop, changes, armed,
                   flagged, client, ghostVars>>

\* onUpdateEpoll and onUpdateKQueue: onReady or onIOError of the poll's owner.
PollEvent(kind, r) ==
    /\ LoopAt("events") /\ <<kind, r>> \in events /\ events' = events \ {<<kind, r>>}
    /\ client' = [client EXCEPT ![r] = IF @ = "polling" THEN "idle" ELSE @]
    /\ late' = IF client[r] = "done" THEN late \cup {r} ELSE late
    /\ UNCHANGED <<backend, setup, signal, queueVars, scheduled, wants, thread, loop, changes,
                   armed, flagged, starved>>

WaitAgain ==  \* mutant: back to the kernel without a look at the queue
    /\ LoopAt("events") /\ events = {} /\ loop' = Loop("wait")
    /\ UNCHANGED <<backend, setup, signal, queueVars, scheduled, wants, thread, pollVars,
                   ghostVars>>

EventsDone ==
    /\ LoopAt("events") /\ events = {} /\ loop' = Loop("popFront")
    /\ UNCHANGED <<backend, setup, signal, queueVars, scheduled, wants, thread, pollVars,
                   ghostVars>>

---------------------------------------------------------------------------
Create == AllocatePort \/ InsertRight \/ LimitQueue \/ RegisterPort
Push(t) == PushSwap(t) \/ PushLink(t) \/ Wake(t)
PopBatch == PopFront \/ PopBack \/ Walk
Handle == \/ HandleEpollPoll \/ HandleEpollClose \/ HandleKqueuePoll \/ HandleKqueueClose
          \/ HandleDone
Return == \E ready, refused \in SUBSET Requests : Wait(ready, refused)
Events == \/ WakerEvent \/ EventsDone
          \/ \E r \in Requests, kind \in {"ready", "error"} : PollEvent(kind, r)

Next ==
    \/ Create \/ PopBatch \/ Handle \/ Return \/ Interrupted \/ Events
    \/ \E t \in Threads : \/ Push(t)
                          \/ \E r \in Requests, action \in {"poll", "close"} :
                              Schedule(t, r, action)

\* Threads finish a push they have begun, and the loop's thread runs; the kernel
\* returns from a wait when there is something to return.  Nobody need schedule,
\* and no signal need interrupt.
Fairness ==
    /\ \A t \in Threads : WF_vars(Push(t))
    /\ WF_vars(PopBatch) /\ WF_vars(Handle) /\ WF_vars(Events) /\ WF_vars(Return)

Spec == Init /\ [][Next]_vars /\ Fairness

---------------------------------------------------------------------------
\* Properties.

TypeOK ==
    /\ backend \in Backends /\ signal \in 0..QueueLimit
    /\ setup \in {"allocate", "right", "limit", "register", "ready", "failed"}
    /\ {front, back} \subseteq Requests \cup {None} /\ next \in [Requests -> Requests \cup {None}]
    /\ scheduled \in [Requests -> BOOLEAN] /\ wants \in [Requests -> {"poll", "close"}]
    /\ thread \in [Threads -> [at : {"idle", "swap", "link", "wake"},
                               request : Requests \cup {None}, prev : Requests \cup {None}]]
    /\ loop.at \in {"popFront", "popBack", "walk", "handle", "wait", "events"}
    /\ {loop.first, loop.cursor, loop.last} \subseteq Requests \cup {None} /\ loop.count \in Nat
    /\ changes \subseteq {"add", "cancel"} \X Requests
    /\ events \subseteq {"ready", "error", "waker"} \X (Requests \cup {None})
    /\ armed \subseteq Requests /\ flagged \subseteq Requests
    /\ client \in [Requests -> {"idle", "scheduled", "polling", "done"}]
    /\ late \subseteq Requests /\ starved \in BOOLEAN

\* What stands behind r in the list: `next', or the request whose thread has yet to
\* set it.  Behind None stands the head of a list that `front' does not know yet.
Behind(r) ==
    LET linking == {t \in Threads : thread[t].at = "link" /\ thread[t].prev = r}
        known == IF r = None THEN front ELSE next[r]
    IN  IF known = None /\ linking # {} THEN thread[CHOOSE t \in linking : TRUE].request
        ELSE known

\* The list from one request to another, each of them once.
Path(from, to) ==
    LET lists == UNION {[1..n -> Requests] : n \in 1..Cardinality(Requests)}
        paths == {s \in lists :
                    /\ s[1] = from /\ s[Len(s)] = to
                    /\ \A i \in 1..(Len(s) - 1) : s[i] # to /\ s[i + 1] = Behind(s[i])}
    IN  IF paths = {} THEN <<>> ELSE CHOOSE s \in paths : TRUE

\* Until the loop takes `back', what it took from `front' is still in the queue.
Queued == IF back = None THEN <<>>
          ELSE Path(IF loop.at = "popBack" THEN loop.first ELSE Behind(None), back)
Popped == IF loop.at = "walk" \/ (loop.at = "handle" /\ loop.count > 0)
          THEN Path(loop.first, loop.last) ELSE <<>>

\* The linked list with its two ends, pushed to by many threads while it is popped,
\* behaves as a queue of batches: nothing is lost, doubled or overtaken.
Queue == INSTANCE BatchQueue WITH Items <- Requests, queue <- Queued, batch <- Popped
QueueInOrder == Queue!Spec

\* The loop sleeps only while nothing is in the queue or somebody is about to wake it.
NoLostWakeup ==
    loop.at = "wait" /\ back # None /\ ~starved
      => signal > 0 \/ \E t \in Threads : thread[t].at \in {"link", "wake"}

\* On Linux, the owner of a request hears nothing of it after onDone.
NothingAfterDone == backend = "epoll" => late = {}

\* Every request that is scheduled is handled, whatever else is scheduled meanwhile,
\* unless the kernel could not send the wake-up.
ScheduledIsHandled ==
    \A r \in Requests : client[r] = "scheduled" ~> client[r] # "scheduled" \/ starved
=============================================================================
