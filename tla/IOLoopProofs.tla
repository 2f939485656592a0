---------------------------- MODULE IOLoopProofs ----------------------------
(***************************************************************************)
(* Proofs about IOLoop, for any finite set of requests and any number of   *)
(* scheduling threads on both platforms: the loop does not sleep on a      *)
(* request, nothing is heard of a file after onDone, and the linked list   *)
(* that the requests are pushed to implements BatchQueue.                  *)
(***************************************************************************)
EXTENDS IOLoop, SequenceTheorems, FiniteSetTheorems, TLAPS

Typed ==
    /\ signal \in Nat /\ "at" \in DOMAIN loop
    /\ {front, back} \subseteq Requests \cup {None}
    /\ thread \in [Threads -> [at : {"idle", "swap", "link", "wake"},
                               request : Requests \cup {None}, prev : Requests \cup {None}]]
    /\ \A t \in Threads : thread[t].at \in {"swap", "link"} => thread[t].request \in Requests

\* Threads that have yet to link or to wake.
Linking(t) == thread[t].at = "link" /\ thread[t].prev = None
OnTheWay(t) == thread[t].at \in {"link", "wake"}

\* A list whose head `front' does not know has a thread that will tell it.
FrontComing ==
    loop.at # "popBack" /\ back # None /\ front = None => \E t \in Threads : Linking(t)

\* What was pushed after popBatch had taken `back' has its wake-up sent or on the way:
\* only the loop itself takes a signal back, and then it looks at the queue first.
WakeUpComing ==
    loop.at \in {"walk", "handle", "wait"} /\ back # None /\ ~starved
      => signal > 0 \/ \E t \in Threads : OnTheWay(t)

LInv == Typed /\ FrontComing /\ WakeUpComing

LEMMA LInvInit == Init => LInv
  BY DEF Init, LInv, Typed, FrontComing, WakeUpComing, IdleThread, Loop

-----------------------------------------------------------------------------
\* push() and the waker, on any thread.
LEMMA LInvSchedule ==
  ASSUME LInv, NEW t \in Threads, NEW r \in Requests, NEW action \in {"poll", "close"},
         Schedule(t, r, action)
  PROVE  LInv'
<1>. USE DEF LInv, Schedule
<1>1. Typed'  BY DEF Typed
<1>2. \A u \in Threads : (Linking(u) => Linking(u)') /\ (OnTheWay(u) => OnTheWay(u)')
  BY DEF Typed, Linking, OnTheWay
<1>3. FrontComing'  BY <1>2 DEF FrontComing
<1>4. WakeUpComing'  BY <1>2 DEF WakeUpComing
<1>. QED  BY <1>1, <1>3, <1>4

LEMMA LInvSwap == ASSUME LInv, NEW t \in Threads, PushSwap(t) PROVE LInv'
<1>. USE DEF LInv, PushSwap
<1>1. OnTheWay(t)'  BY DEF Typed, OnTheWay
<1>2. \A u \in Threads : Linking(u) => Linking(u)'  BY DEF Typed, Linking
<1>3. back = None => Linking(t)'  BY DEF Typed, Linking
<1>4. FrontComing'  BY <1>2, <1>3 DEF FrontComing
<1>5. WakeUpComing'  BY <1>1 DEF WakeUpComing
<1>6. Typed'  BY DEF Typed
<1>. QED  BY <1>4, <1>5, <1>6

LEMMA LInvLink == ASSUME LInv, NEW t \in Threads, PushLink(t) PROVE LInv'
<1>. USE DEF LInv, PushLink, Goto
<1>1. thread[t].request \in Requests /\ thread[t].request # None
  BY IOLoopAssumption DEF Typed, IOLoopAssumption
<1>2. OnTheWay(t)'  BY DEF Typed, OnTheWay
<1>3. \A u \in Threads \ {t} : Linking(u) => Linking(u)'  BY DEF Typed, Linking
<1>4. FrontComing'
  <2>1. CASE Linking(t)  BY <1>1, <2>1 DEF FrontComing, Linking
  <2>2. CASE ~Linking(t)
    <3>1. UNCHANGED <<front, back, loop>>
      BY <2>2 DEF Linking
    <3>. QED  BY <1>3, <2>2, <3>1 DEF FrontComing
  <2>. QED  BY <2>1, <2>2
<1>5. WakeUpComing'  BY <1>2 DEF WakeUpComing
<1>6. Typed'
  <2>1. {front, back}' \subseteq Requests \cup {None} /\ UNCHANGED <<signal, loop>>
    BY <1>1 DEF Typed
  <2>2. thread' = [thread EXCEPT ![t].at = "wake"]
    OBVIOUS
  <2>. QED  BY <2>1, <2>2 DEF Typed
<1>. QED  BY <1>4, <1>5, <1>6

LEMMA LInvWake == ASSUME LInv, NEW t \in Threads, Wake(t) PROVE LInv'
<1>. USE DEF LInv, Wake, IdleThread, QueueLimit, queueVars
<1>1. \A u \in Threads : Linking(u) => Linking(u)'  BY DEF Typed, Linking
<1>2. FrontComing'  BY <1>1 DEF FrontComing
<1>3. WakeUpComing'  BY DEF WakeUpComing
<1>4. Typed'  BY DEF Typed
<1>. QED  BY <1>2, <1>3, <1>4

-----------------------------------------------------------------------------
\* The loop's thread.  It changes no other thread's place.
LEMMA SameThreads ==
  ASSUME UNCHANGED thread
  PROVE  \A t \in Threads : (Linking(t) => Linking(t)') /\ (OnTheWay(t) => OnTheWay(t)')
  BY DEF Linking, OnTheWay

LEMMA LInvPop == ASSUME LInv, PopBatch PROVE LInv'
<1>. USE DEF LInv, Typed, FrontComing, WakeUpComing, LoopAt, Loop, queueVars, ghostVars
<1>1. CASE PopFront
  <2>1. CASE front = None
    <3>1. /\ back # None => \E t \in Threads : Linking(t)
          /\ UNCHANGED <<front, back, thread, signal, starved>>
          /\ loop'.at = "wait" /\ "at" \in DOMAIN loop'
      BY <1>1, <2>1 DEF PopFront
    <3>2. FrontComing' /\ Typed'
      BY <3>1, SameThreads
    <3>3. WakeUpComing'
      BY <3>1 DEF Linking, OnTheWay
    <3>. QED  BY <3>2, <3>3
  <2>2. CASE front # None  BY <1>1, <2>2 DEF PopFront
  <2>. QED  BY <2>1, <2>2
<1>2. CASE PopBack  BY <1>2 DEF PopBack
<1>3. CASE Walk  BY <1>3, SameThreads DEF Walk
<1>. QED  BY <1>1, <1>2, <1>3 DEF PopBatch

LEMMA LInvHandle == ASSUME LInv, Handle PROVE LInv'
<1>. USE DEF LInv, Typed, FrontComing, WakeUpComing, LoopAt, Loop, queueVars, ghostVars,
             pollVars
<1>1. CASE HandleDone  BY <1>1, SameThreads DEF HandleDone
<1>2. ASSUME TakeNext PROVE LInv'  BY <1>2, SameThreads DEF TakeNext
<1>. QED
  BY <1>1, <1>2 DEF Handle, HandleEpollPoll, HandleEpollClose, HandleKqueuePoll,
                    HandleKqueueClose

LEMMA LInvWait == ASSUME LInv, Return \/ Interrupted \/ Events PROVE LInv'
<1>. USE DEF LInv, Typed, FrontComing, WakeUpComing, LoopAt, Loop, queueVars, ghostVars,
             pollVars
<1>1. ASSUME NEW ready \in SUBSET Requests, NEW refused \in SUBSET Requests,
             Wait(ready, refused)
      PROVE  LInv'
  BY <1>1, SameThreads DEF Wait
<1>2. CASE Interrupted  BY <1>2, SameThreads DEF Interrupted
<1>3. CASE WakerEvent  BY <1>3, SameThreads DEF WakerEvent
<1>4. CASE EventsDone  BY <1>4, SameThreads DEF EventsDone
<1>5. ASSUME NEW r \in Requests, NEW kind \in {"ready", "error"}, PollEvent(kind, r)
      PROVE  LInv'
  BY <1>5, SameThreads DEF PollEvent
<1>. QED  BY <1>1, <1>2, <1>3, <1>4, <1>5 DEF Return, Events

LEMMA LInvCreate == ASSUME LInv, Create PROVE LInv'
  BY SameThreads
  DEF LInv, Typed, FrontComing, WakeUpComing, Create, AllocatePort, InsertRight, LimitQueue,
      RegisterPort, SetupStep, queueVars, ghostVars

LEMMA LInvStep == ASSUME LInv, [Next]_vars PROVE LInv'
<1>1. CASE Create  BY <1>1, LInvCreate
<1>2. CASE PopBatch  BY <1>2, LInvPop
<1>3. CASE Handle  BY <1>3, LInvHandle
<1>4. CASE Return \/ Interrupted \/ Events  BY <1>4, LInvWait
<1>5. ASSUME NEW t \in Threads, Push(t) PROVE LInv'
  BY <1>5, LInvSwap, LInvLink, LInvWake DEF Push
<1>6. ASSUME NEW t \in Threads, NEW r \in Requests, NEW action \in {"poll", "close"},
             Schedule(t, r, action)
      PROVE  LInv'
  BY <1>6, LInvSchedule
<1>7. CASE UNCHANGED vars
  BY <1>7, SameThreads DEF vars, queueVars, ghostVars, LInv, Typed, FrontComing, WakeUpComing
<1>. QED  BY <1>1, <1>2, <1>3, <1>4, <1>5, <1>6, <1>7 DEF Next

\* However many threads schedule while the loop pops, handles and is interrupted, it never
\* waits in the kernel on a queue with something in it, unless somebody is about to wake
\* it or the kernel had no buffer for a wake-up.
THEOREM WakeUpsKept == Spec => []NoLostWakeup
<1>1. LInv => NoLostWakeup
  BY DEF LInv, WakeUpComing, NoLostWakeup, OnTheWay
<1>2. Spec => []LInv
  BY LInvInit, LInvStep, PTL DEF Spec
<1>. QED  BY <1>1, <1>2, PTL

-----------------------------------------------------------------------------
\* The shape of the linked list: the sequences q, of what is in the queue, and b, of the
\* batch the loop is at work on, that `front', `back', `next', the threads' own variables
\* and the loop's cursor are pieces of.

Elements(s) == {s[i] : i \in 1..Len(s)}
Swapping(t) == thread[t].at = "swap"
Pushing(t) == thread[t].at \in {"swap", "link"}

\* A request is in one place, and only its owner's "scheduled" keeps it there.
Members(q, b) ==
    /\ \A i, j \in 1..Len(q) : i # j => q[i] # q[j]
    /\ \A i, j \in 1..Len(b) : i # j => b[i] # b[j]
    /\ Elements(q) \cap Elements(b) = {}
    /\ \A r \in Elements(q) \cup Elements(b) : client[r] = "scheduled"

Producers(q, b) ==
    /\ \A t, u \in Threads : Pushing(t) /\ Pushing(u) /\ t # u
                              => thread[t].request # thread[u].request
    /\ \A t \in Threads : Swapping(t) => /\ thread[t].request \notin Elements(q) \cup Elements(b)
                                         /\ client[thread[t].request] = "scheduled"
                                         /\ next[thread[t].request] = None

\* What a thread that has swapped `back' is about to link: two neighbours of a list.
JoinsIn(t, s) ==
    \E i \in 1..(Len(s) - 1) : /\ thread[t].prev = s[i] /\ thread[t].request = s[i + 1]
                              /\ next[s[i]] = None
JoinsFront(t, q) ==
    /\ thread[t].prev = None /\ q # <<>> /\ thread[t].request = q[1]
    /\ front = None /\ loop.at # "popBack"
Joins(q, b) ==
    \A t \in Threads : thread[t].at = "link"
                         => JoinsFront(t, q) \/ JoinsIn(t, q) \/ JoinsIn(t, b)

\* Neighbours are linked, or somebody is about to link them; nothing follows the last.
Links(s) ==
    /\ \A i \in 1..(Len(s) - 1) :
         \/ next[s[i]] = s[i + 1]
         \/ /\ next[s[i]] = None
            /\ \E t \in Threads : /\ thread[t].at = "link"
                                  /\ thread[t].prev = s[i] /\ thread[t].request = s[i + 1]
    /\ s # <<>> => next[s[Len(s)]] = None

Ends(q) ==
    /\ q = <<>> => back = None /\ front = None
    /\ q # <<>> => back = q[Len(q)]
    /\ loop.at = "popBack" =>
         /\ q # <<>> /\ front = None
         /\ loop.first = q[1] /\ loop.cursor = q[1] /\ loop.count = 1
    /\ q # <<>> /\ loop.at # "popBack" =>
         \/ front = q[1]
         \/ front = None /\ \E t \in Threads : Linking(t) /\ thread[t].request = q[1]

\* The batch, walked as far as the cursor.
Batch(b) ==
    /\ loop.at \notin {"walk", "handle"} => b = <<>>
    /\ loop.at = "walk" =>
         /\ loop.count \in 1..Len(b) /\ loop.first = b[1] /\ loop.last = b[Len(b)]
         /\ loop.cursor = b[loop.count]
         /\ \A i \in 1..(loop.count - 1) : next[b[i]] = b[i + 1]
    /\ loop.at = "handle" =>
         /\ loop.count = Len(b)
         /\ b # <<>> => loop.first = b[1] /\ loop.last = b[Len(b)]
         /\ \A i \in 1..(Len(b) - 1) : next[b[i]] = b[i + 1]

Shape(q, b) ==
    Members(q, b) /\ Producers(q, b) /\ Joins(q, b) /\ Links(q) /\ Links(b) /\ Ends(q) /\ Batch(b)

\* Types that the shape's proofs need: what a thread is about to push is a request.
ThreadsTyped ==
    /\ thread \in [Threads -> [at : {"idle", "swap", "link", "wake"},
                               request : Requests \cup {None}, prev : Requests \cup {None}]]
    /\ \A t \in Threads : Pushing(t) => thread[t].request \in Requests
    /\ next \in [Requests -> Requests \cup {None}]
    /\ client \in [Requests -> {"idle", "scheduled", "polling", "done"}]

LEMMA Sequence ==
  ASSUME NEW s \in Seq(Requests)
  PROVE  /\ Len(s) \in Nat
         /\ \A i \in 1..Len(s) : s[i] \in Requests /\ s[i] \in Elements(s) /\ s[i] # None
         /\ s = <<>> <=> Len(s) = 0
         /\ Elements(s) \subseteq Requests
  BY IOLoopAssumption, EmptySeq DEF IOLoopAssumption, Elements

\* Steps among the events and in the kernel.
LEMMA ShapeSame ==
  ASSUME ThreadsTyped, NEW q \in Seq(Requests), NEW b \in Seq(Requests), Shape(q, b),
         UNCHANGED <<front, back, next, thread>>,
         \A r \in Requests : client[r] = "scheduled" => client'[r] = "scheduled",
         \/ UNCHANGED loop
         \/ /\ loop.at \notin {"popBack", "walk", "handle"}
            /\ loop'.at \notin {"popBack", "walk", "handle"}
  PROVE  Shape(q, b)'
<1>. USE DEF Shape
<1>1. Members(q, b)'
  BY Sequence DEF Members
<1>2. Producers(q, b)'
  <2>1. \A t \in Threads : Swapping(t) => client'[thread[t].request] = "scheduled"
    BY DEF Producers, ThreadsTyped, Swapping, Pushing
  <2>. QED  BY <2>1 DEF Producers, Pushing, Swapping
<1>3. Joins(q, b)'  BY DEF Joins, JoinsFront, JoinsIn
<1>4. Links(q)' /\ Links(b)'  BY DEF Links
<1>5. Ends(q)'  BY DEF Ends, Linking
<1>6. Batch(b)'  BY DEF Batch
<1>. QED  BY <1>1, <1>2, <1>3, <1>4, <1>5, <1>6

\* Links are kept by a step that leaves the neighbours and those who link them alone.
LEMMA LinksKept ==
  ASSUME NEW s \in Seq(Requests), Links(s),
         \A i \in 1..Len(s) : next'[s[i]] = next[s[i]],
         \A u \in Threads : thread[u].at = "link" => thread'[u] = thread[u]
  PROVE  Links(s)'
<1>1. s # <<>> => next'[s[Len(s)]] = None
  BY Sequence DEF Links
<1>2. ASSUME NEW i \in 1..(Len(s) - 1)
      PROVE  \/ next'[s[i]] = s[i + 1]
             \/ /\ next'[s[i]] = None
                /\ \E u \in Threads : /\ thread'[u].at = "link" /\ thread'[u].prev = s[i]
                                      /\ thread'[u].request = s[i + 1]
  <2>1. next'[s[i]] = next[s[i]]
    BY Sequence
  <2>2. CASE next[s[i]] = s[i + 1]  BY <2>1, <2>2
  <2>3. CASE next[s[i]] # s[i + 1]
    <3>1. next[s[i]] = None
      BY <2>3 DEF Links
    <3>2. PICK u \in Threads : /\ thread[u].at = "link" /\ thread[u].prev = s[i]
                              /\ thread[u].request = s[i + 1]
      BY <2>3 DEF Links
    <3>3. thread'[u] = thread[u]
      BY <3>2
    <3>. QED  BY <2>1, <3>1, <3>2, <3>3
  <2>. QED  BY <2>2, <2>3
<1>. QED  BY <1>1, <1>2 DEF Links

LEMMA JoinKept ==
  ASSUME NEW s \in Seq(Requests), NEW u \in Threads, JoinsIn(u, s), thread'[u] = thread[u],
         \A i \in 1..Len(s) : s[i] = thread[u].prev => next'[s[i]] = next[s[i]]
  PROVE  JoinsIn(u, s)'
<1>1. PICK i \in 1..(Len(s) - 1) : /\ thread[u].prev = s[i] /\ thread[u].request = s[i + 1]
                                  /\ next[s[i]] = None
  BY DEF JoinsIn
<1>2. i \in 1..Len(s)
  BY Sequence
<1>3. next'[s[i]] = None
  BY <1>1, <1>2
<1>. QED  BY <1>1, <1>3 DEF JoinsIn

LEMMA ShapeSchedule ==
  ASSUME ThreadsTyped, NEW q \in Seq(Requests), NEW b \in Seq(Requests), Shape(q, b),
         NEW t \in Threads, NEW r \in Requests, NEW action \in {"poll", "close"},
         Schedule(t, r, action)
  PROVE  Shape(q, b)'
<1>. USE DEF Shape, Schedule
<1>1. client[r] # "scheduled" /\ r \notin Elements(q) \cup Elements(b)
  BY DEF Members
<1>2. /\ client'[r] = "scheduled" /\ \A x \in Requests \ {r} : client'[x] = client[x]
      /\ next'[r] = None /\ \A x \in Requests \ {r} : next'[x] = next[x]
  BY DEF ThreadsTyped
<1>3. /\ thread[t].at = "idle"
      /\ thread'[t] = [at |-> "swap", request |-> r, prev |-> None]
      /\ \A u \in Threads \ {t} : thread'[u] = thread[u]
      /\ UNCHANGED <<front, back, loop>>
  BY DEF ThreadsTyped
<1>4. \A u \in Threads : Pushing(u) => thread[u].request # r
  <2>. SUFFICES ASSUME NEW u \in Threads, Pushing(u), thread[u].request = r PROVE FALSE
    OBVIOUS
  <2>1. ~Swapping(u)
    BY <1>1 DEF Producers
  <2>2. JoinsFront(u, q) \/ JoinsIn(u, q) \/ JoinsIn(u, b)
    BY <2>1 DEF Joins, Pushing, Swapping
  <2>3. thread[u].request \in Elements(q) \cup Elements(b)
    BY <2>2, Sequence DEF JoinsFront, JoinsIn
  <2>. QED  BY <1>1, <2>3
<1>5. Members(q, b)'
  BY <1>1, <1>2, Sequence DEF Members
<1>6. Producers(q, b)'
  <2>1. \A u \in Threads : u # t => (Pushing(u)' <=> Pushing(u)) /\ (Swapping(u)' <=> Swapping(u))
    BY <1>3 DEF Pushing, Swapping
  <2>2. \A u, v \in Threads : Pushing(u)' /\ Pushing(v)' /\ u # v
                              => thread'[u].request # thread'[v].request
    BY <1>3, <1>4, <2>1 DEF Producers
  <2>3. ASSUME NEW u \in Threads, u # t, Swapping(u)'
        PROVE  /\ thread'[u].request \notin Elements(q) \cup Elements(b)
               /\ client'[thread'[u].request] = "scheduled"
               /\ next'[thread'[u].request] = None
    <3>1. Swapping(u) /\ thread'[u] = thread[u] /\ thread[u].request \in Requests \ {r}
      BY <1>3, <1>4, <2>1, <2>3 DEF ThreadsTyped, Pushing, Swapping
    <3>. QED  BY <1>2, <3>1 DEF Producers
  <2>4. /\ thread'[t].request \notin Elements(q) \cup Elements(b)
        /\ client'[thread'[t].request] = "scheduled" /\ next'[thread'[t].request] = None
    BY <1>1, <1>2, <1>3
  <2>. QED  BY <2>2, <2>3, <2>4 DEF Producers, Elements
<1>7. \A s \in {q, b} : \A i \in 1..Len(s) : s[i] \in Requests \ {r}
  BY <1>1, Sequence
<1>8. Joins(q, b)'
  <2>. SUFFICES ASSUME NEW u \in Threads, thread'[u].at = "link"
                PROVE  JoinsFront(u, q)' \/ JoinsIn(u, q)' \/ JoinsIn(u, b)'
    BY DEF Joins
  <2>1. u # t /\ thread'[u] = thread[u]
    BY <1>3
  <2>2. JoinsFront(u, q) => JoinsFront(u, q)'
    BY <1>3, <2>1 DEF JoinsFront
  <2>3. \A s \in {q, b} : JoinsIn(u, s) => JoinsIn(u, s)'
    BY <1>2, <1>7, <2>1, Sequence DEF JoinsIn
  <2>. QED  BY <2>1, <2>2, <2>3 DEF Joins
<1>9. ASSUME NEW s \in {q, b} PROVE Links(s)'
  <2>1. Links(s) /\ Len(s) \in Nat /\ (s # <<>> => Len(s) > 0)
    BY Sequence
  <2>2. \A u \in Threads : thread[u].at = "link" => thread'[u] = thread[u]
    BY <1>3
  <2>3. \A i \in 1..Len(s) : next'[s[i]] = next[s[i]]
    BY <1>2, <1>7
  <2>. QED  BY <2>1, <2>2, <2>3, LinksKept
<1>10. Ends(q)'
  <2>1. \A u \in Threads : Linking(u) => Linking(u)' /\ thread'[u] = thread[u]
    BY <1>3 DEF Linking
  <2>. QED  BY <1>3, <2>1 DEF Ends
<1>11. Batch(b)'
  <2>1. \A i \in 1..Len(b) : next'[b[i]] = next[b[i]]
    BY <1>2, <1>7
  <2>. QED  BY <1>3, <2>1, Sequence DEF Batch
<1>. QED  BY <1>5, <1>6, <1>8, <1>9, <1>10, <1>11

LEMMA ShapeSwap ==
  ASSUME ThreadsTyped, NEW q \in Seq(Requests), NEW b \in Seq(Requests), Shape(q, b),
         NEW t \in Threads, NEW r \in Requests, r = thread[t].request, PushSwap(t)
  PROVE  Shape(Append(q, r), b)'
<1>. DEFINE q2 == Append(q, r)
<1>. USE DEF Shape, PushSwap
<1>1. /\ q2 \in Seq(Requests) /\ q2 # <<>> /\ Len(q2) = Len(q) + 1 /\ Len(q) \in Nat
      /\ \A i \in 1..Len(q) : q2[i] = q[i] /\ q[i] \in Requests
      /\ q2[Len(q) + 1] = r
      /\ q = <<>> <=> Len(q) = 0
  BY AppendProperties, Sequence
<1>2. Elements(q2) = Elements(q) \cup {r}
  BY <1>1 DEF Elements
<1>. HIDE DEF q2
<1>3. /\ Swapping(t) /\ r \notin Elements(q) \cup Elements(b)
      /\ client[r] = "scheduled" /\ next[r] = None /\ r # None
  BY IOLoopAssumption DEF Producers, Swapping, IOLoopAssumption
<1>4. /\ thread'[t] = [at |-> "link", request |-> r, prev |-> back]
      /\ \A u \in Threads \ {t} : thread'[u] = thread[u]
      /\ back' = r /\ UNCHANGED <<front, next, loop, client>>
  BY DEF ThreadsTyped, pollVars
<1>5. Members(q2, b)'
  <2>1. ASSUME NEW i \in 1..Len(q2), NEW j \in 1..Len(q2), i # j PROVE q2[i] # q2[j]
    <3>1. \A k \in 1..Len(q2) : k \in 1..Len(q) \/ k = Len(q) + 1
      BY <1>1
    <3>2. \A k \in 1..Len(q) : q[k] # r
      BY <1>3, Sequence
    <3>3. \A k, m \in 1..Len(q) : k # m => q[k] # q[m]
      BY DEF Members
    <3>. QED  BY <1>1, <2>1, <3>1, <3>2, <3>3
  <2>2. Elements(q2) \cap Elements(b) = {}
    BY <1>2, <1>3 DEF Members
  <2>3. \A x \in Elements(q2) \cup Elements(b) : client'[x] = "scheduled"
    BY <1>2, <1>3, <1>4 DEF Members
  <2>. QED  BY <1>4, <2>1, <2>2, <2>3 DEF Members, Elements
<1>6. Producers(q2, b)'
  <2>1. \A u \in Threads : /\ thread'[u].request = thread[u].request
                           /\ Pushing(u)' <=> Pushing(u)
                           /\ Swapping(u)' => Swapping(u) /\ u # t
    <3>1. /\ thread'[t].request = thread[t].request /\ Pushing(t)' /\ Pushing(t)
          /\ ~Swapping(t)'
      BY <1>3, <1>4 DEF Pushing, Swapping
    <3>2. ASSUME NEW u \in Threads \ {t}
          PROVE  /\ thread'[u].request = thread[u].request /\ (Pushing(u)' <=> Pushing(u))
                 /\ (Swapping(u)' <=> Swapping(u))
      BY <1>4 DEF Pushing, Swapping
    <3>. QED  BY <3>1, <3>2
  <2>2. \A u \in Threads : Swapping(u) /\ u # t => thread[u].request # r
    BY <1>3 DEF Producers, Pushing, Swapping
  <2>3. \A u, v \in Threads : Pushing(u)' /\ Pushing(v)' /\ u # v
                             => thread'[u].request # thread'[v].request
    <3>1. \A u, v \in Threads : Pushing(u) /\ Pushing(v) /\ u # v
                                => thread[u].request # thread[v].request
      BY DEF Producers
    <3>. QED  BY <2>1, <3>1
  <2>4. ASSUME NEW u \in Threads, Swapping(u)'
        PROVE  /\ thread'[u].request \notin Elements(q2) \cup Elements(b)
               /\ client'[thread'[u].request] = "scheduled"
               /\ next'[thread'[u].request] = None
    <3>1. Swapping(u) /\ u # t /\ thread'[u].request = thread[u].request
      BY <2>1, <2>4
    <3>2. /\ thread[u].request \notin Elements(q) \cup Elements(b)
          /\ client[thread[u].request] = "scheduled" /\ next[thread[u].request] = None
      BY <3>1 DEF Producers
    <3>3. thread[u].request # r
      BY <2>2, <3>1
    <3>. QED  BY <1>2, <1>4, <3>1, <3>2, <3>3
  <2>. QED  BY <2>3, <2>4 DEF Producers, Elements
<1>7. q = <<>> => /\ back = None /\ front = None /\ loop.at # "popBack"
  BY DEF Ends
<1>8. q # <<>> => back = q[Len(q)] /\ next[q[Len(q)]] = None
  BY DEF Ends, Links
<1>9. ASSUME NEW u \in Threads, JoinsIn(u, q) PROVE JoinsIn(u, q2)
  <2>1. PICK i \in 1..(Len(q) - 1) : /\ thread[u].prev = q[i] /\ thread[u].request = q[i + 1]
                                    /\ next[q[i]] = None
    BY <1>9 DEF JoinsIn
  <2>2. i \in 1..Len(q) /\ i + 1 \in 1..Len(q) /\ i \in 1..(Len(q2) - 1)
    BY <1>1
  <2>3. q2[i] = q[i] /\ q2[i + 1] = q[i + 1]
    BY <1>1, <2>2
  <2>. QED  BY <2>1, <2>2, <2>3 DEF JoinsIn
<1>10. Joins(q2, b)'
  <2>1. ASSUME NEW u \in Threads \ {t}, thread'[u].at = "link"
        PROVE  JoinsFront(u, q2)' \/ JoinsIn(u, q2)' \/ JoinsIn(u, b)'
    <3>1. thread'[u] = thread[u]
      BY <1>4
    <3>2. CASE JoinsFront(u, q)
      <4>1. q # <<>> /\ q2[1] = q[1] /\ q2 # <<>>
        <5>1. q # <<>>
          BY <3>2 DEF JoinsFront
        <5>2. 1 \in 1..Len(q)
          BY <1>1, <5>1
        <5>. QED  BY <1>1, <5>1, <5>2
      <4>2. JoinsFront(u, q2)'
        BY <1>4, <3>1, <3>2, <4>1 DEF JoinsFront
      <4>. QED  BY <4>2
    <3>3. CASE JoinsIn(u, q)
      <4>1. JoinsIn(u, q2)
        BY <1>9, <3>3
      <4>2. \A i \in 1..Len(q2) : next'[q2[i]] = next[q2[i]]
        BY <1>4
      <4>3. q2 \in Seq(Requests)
        BY <1>1
      <4>. QED  BY <3>1, <4>1, <4>2, <4>3, JoinKept
    <3>4. CASE JoinsIn(u, b)
      BY <1>4, <3>1, <3>4, JoinKept
    <3>5. thread[u].at = "link"
      BY <2>1, <3>1
    <3>6. JoinsFront(u, q) \/ JoinsIn(u, q) \/ JoinsIn(u, b)
      BY <3>5 DEF Joins
    <3>. QED  BY <3>2, <3>3, <3>4, <3>6
  <2>2. JoinsFront(t, q2)' \/ JoinsIn(t, q2)'
    <3>1. CASE q = <<>>
      BY <1>1, <1>4, <1>7, <3>1 DEF JoinsFront
    <3>2. CASE q # <<>>
      <4>1. Len(q) \in 1..(Len(q2) - 1) /\ q2[Len(q)] = q[Len(q)]
        BY <1>1, <3>2
      <4>2. /\ thread'[t].prev = q2[Len(q)] /\ thread'[t].request = q2[Len(q) + 1]
            /\ next'[q2[Len(q)]] = None
        BY <1>1, <1>4, <1>8, <3>2, <4>1
      <4>. QED  BY <4>1, <4>2 DEF JoinsIn
    <3>. QED  BY <3>1, <3>2
  <2>. QED  BY <2>1, <2>2 DEF Joins
<1>11. Links(b)'
  <2>1. \A u \in Threads : thread[u].at = "link" => thread'[u] = thread[u]
    BY <1>3, <1>4 DEF Swapping
  <2>. QED  BY <1>4, <2>1, LinksKept
<1>12. Links(q2)'
  <2>1. next'[q2[Len(q2)]] = None
    BY <1>1, <1>3, <1>4
  <2>2. Links(q)'
    <3>1. \A u \in Threads : thread[u].at = "link" => thread'[u] = thread[u]
      BY <1>3, <1>4 DEF Swapping
    <3>. QED  BY <1>4, <3>1, LinksKept
  <2>3. ASSUME NEW i \in 1..(Len(q2) - 1)
        PROVE  \/ next'[q2[i]] = q2[i + 1]
               \/ /\ next'[q2[i]] = None
                  /\ \E u \in Threads : /\ thread'[u].at = "link" /\ thread'[u].prev = q2[i]
                                        /\ thread'[u].request = q2[i + 1]
    <3>1. CASE i = Len(q)
      <4>1. q # <<>> /\ q2[i] = q[Len(q)] /\ q2[i + 1] = r
        BY <1>1, <3>1
      <4>2. next'[q2[i]] = None /\ thread'[t].at = "link" /\ thread'[t].prev = q2[i]
            /\ thread'[t].request = q2[i + 1]
        BY <1>4, <1>8, <4>1
      <4>. QED  BY <4>2
    <3>2. CASE i # Len(q)
      <4>1. i \in 1..(Len(q) - 1) /\ q2[i] = q[i] /\ q2[i + 1] = q[i + 1]
        BY <1>1, <3>2
      <4>2. \/ next'[q[i]] = q[i + 1]
            \/ /\ next'[q[i]] = None
               /\ \E u \in Threads : /\ thread'[u].at = "link" /\ thread'[u].prev = q[i]
                                     /\ thread'[u].request = q[i + 1]
        BY <2>2, <4>1 DEF Links
      <4>. QED  BY <4>1, <4>2
    <3>. QED  BY <3>1, <3>2
  <2>. QED  BY <2>1, <2>3 DEF Links
<1>13. Ends(q2)'
  <2>1. back' = q2[Len(q2)]
    BY <1>1, <1>4
  <2>2. q # <<>> => q2[1] = q[1]
    BY <1>1
  <2>3. loop.at = "popBack" =>
          /\ front' = None
          /\ loop'.first = q2[1] /\ loop'.cursor = q2[1] /\ loop'.count = 1
    BY <1>4, <2>2 DEF Ends
  <2>4. loop.at # "popBack" =>
          \/ front' = q2[1]
          \/ front' = None /\ \E u \in Threads : Linking(u)' /\ thread'[u].request = q2[1]
    <3>1. CASE q = <<>>
      <4>1. q2[1] = r /\ front' = None
        BY <1>1, <1>4, <1>7, <3>1
      <4>2. Linking(t)' /\ thread'[t].request = r
        BY <1>4, <1>7, <3>1 DEF Linking
      <4>. QED  BY <4>1, <4>2
    <3>2. CASE q # <<>>
      <4>1. \A u \in Threads : Linking(u) => Linking(u)' /\ thread'[u] = thread[u]
        BY <1>3, <1>4 DEF Linking, Swapping
      <4>2. loop.at # "popBack" =>
              \/ front = q[1]
              \/ front = None /\ \E u \in Threads : Linking(u) /\ thread[u].request = q[1]
        BY <3>2 DEF Ends
      <4>. QED  BY <1>4, <2>2, <3>2, <4>1, <4>2
    <3>. QED  BY <3>1, <3>2
  <2>. QED  BY <1>1, <1>4, <2>1, <2>3, <2>4 DEF Ends
<1>14. Batch(b)'  BY <1>4 DEF Batch
<1>. QED  BY <1>5, <1>6, <1>10, <1>11, <1>12, <1>13, <1>14 DEF q2

\* A thread that links has its request in one of the lists, and for itself.
LEMMA LinkedRequest ==
  ASSUME NEW q \in Seq(Requests), NEW b \in Seq(Requests), Shape(q, b), NEW t \in Threads,
         thread[t].at = "link"
  PROVE  /\ thread[t].prev = None => JoinsFront(t, q)
         /\ thread[t].prev # None => JoinsIn(t, q) \/ JoinsIn(t, b)
         /\ \A u \in Threads \ {t} : Pushing(u) => thread[u].request # thread[t].request
<1>1. \A s \in {q, b} : JoinsIn(t, s) => thread[t].prev # None
  BY Sequence DEF JoinsIn
<1>2. JoinsFront(t, q) => thread[t].prev = None
  BY DEF JoinsFront
<1>. QED  BY <1>1, <1>2 DEF Shape, Joins, Producers, Pushing

\* Nobody else is to link what follows the same request.
LEMMA OnlyLinker ==
  ASSUME NEW q \in Seq(Requests), NEW b \in Seq(Requests), Shape(q, b),
         NEW t \in Threads, NEW u \in Threads, t # u,
         thread[t].at = "link", thread[u].at = "link"
  PROVE  thread[t].prev # thread[u].prev
<1>. SUFFICES ASSUME thread[t].prev = thread[u].prev PROVE FALSE
  OBVIOUS
<1>1. thread[t].request # thread[u].request
  BY LinkedRequest DEF Pushing
<1>2. CASE thread[t].prev = None
  BY <1>1, <1>2, LinkedRequest DEF JoinsFront
<1>3. CASE thread[t].prev # None
  <2>1. \E s \in {q, b} : JoinsIn(t, s)
    BY <1>3, LinkedRequest
  <2>2. \E s \in {q, b} : JoinsIn(u, s)
    BY <1>3, LinkedRequest
  <2>3. PICK s \in {q, b} : JoinsIn(t, s)
    BY <2>1
  <2>4. PICK z \in {q, b} : JoinsIn(u, z)
    BY <2>2
  <2>5. PICK i \in 1..(Len(s) - 1) : /\ thread[t].prev = s[i] /\ thread[t].request = s[i + 1]
    BY <2>3 DEF JoinsIn
  <2>6. PICK j \in 1..(Len(z) - 1) : /\ thread[u].prev = z[j] /\ thread[u].request = z[j + 1]
    BY <2>4 DEF JoinsIn
  <2>7. s[i] \in Elements(s) /\ z[j] \in Elements(z) /\ i \in 1..Len(s) /\ j \in 1..Len(z)
    BY Sequence
  <2>8. s = z
    <3>1. s[i] \in Elements(s) \cap Elements(z)
      BY <2>5, <2>6, <2>7
    <3>2. Elements(q) \cap Elements(b) = {}
      BY DEF Shape, Members
    <3>. QED  BY <3>1, <3>2
  <2>9. i = j
    BY <2>5, <2>6, <2>7, <2>8 DEF Shape, Members
  <2>. QED  BY <1>1, <2>5, <2>6, <2>8, <2>9
<1>. QED  BY <1>2, <1>3

\* The thread links: the front of the queue...
LEMMA ShapeLinkFront ==
  ASSUME ThreadsTyped, NEW q \in Seq(Requests), NEW b \in Seq(Requests), Shape(q, b),
         NEW t \in Threads, PushLink(t), thread[t].prev = None
  PROVE  Shape(q, b)'
<1>. USE DEF Shape, PushLink, Goto
<1>1. /\ thread[t].at = "link" /\ front' = thread[t].request
      /\ UNCHANGED <<back, next, loop, client>>
  BY DEF pollVars
<1>2. JoinsFront(t, q) /\ front' = q[1]
  BY <1>1, LinkedRequest DEF JoinsFront
<1>3. /\ thread'[t].at = "wake" /\ \A u \in Threads \ {t} : thread'[u] = thread[u]
  BY DEF ThreadsTyped
<1>4. \A u \in Threads : Swapping(u)' => Swapping(u) /\ thread'[u] = thread[u]
  BY <1>1, <1>3 DEF Swapping
<1>5. \A u \in Threads : Pushing(u)' => Pushing(u) /\ thread'[u] = thread[u]
  BY <1>1, <1>3 DEF Pushing
<1>6. Members(q, b)'  BY <1>1 DEF Members, Elements
<1>7. Producers(q, b)'
  BY <1>1, <1>4, <1>5 DEF Producers, Elements
<1>8. Joins(q, b)'
  <2>. SUFFICES ASSUME NEW u \in Threads, thread'[u].at = "link"
                PROVE  JoinsFront(u, q)' \/ JoinsIn(u, q)' \/ JoinsIn(u, b)'
    BY DEF Joins
  <2>1. u # t /\ thread'[u] = thread[u]
    BY <1>3
  <2>2. thread[u].prev # None
    BY <1>1, <2>1, OnlyLinker
  <2>3. JoinsIn(u, q) \/ JoinsIn(u, b)
    BY <2>1, <2>2, LinkedRequest
  <2>. QED  BY <1>1, <2>1, <2>3, JoinKept
<1>9. ASSUME NEW s \in {q, b} PROVE Links(s)'
  <2>1. s # <<>> => next'[s[Len(s)]] = None
    BY <1>1 DEF Links
  <2>2. ASSUME NEW i \in 1..(Len(s) - 1)
        PROVE  \/ next'[s[i]] = s[i + 1]
               \/ /\ next'[s[i]] = None
                  /\ \E u \in Threads : /\ thread'[u].at = "link" /\ thread'[u].prev = s[i]
                                        /\ thread'[u].request = s[i + 1]
    <3>1. CASE next[s[i]] = s[i + 1]  BY <1>1, <3>1
    <3>2. CASE next[s[i]] # s[i + 1]
      <4>1. next[s[i]] = None
        BY <3>2 DEF Links
      <4>2. PICK u \in Threads : /\ thread[u].at = "link" /\ thread[u].prev = s[i]
                                /\ thread[u].request = s[i + 1]
        BY <3>2 DEF Links
      <4>3. s[i] # None
        BY Sequence
      <4>4. thread'[u] = thread[u]
        BY <1>3, <4>2, <4>3
      <4>. QED  BY <1>1, <4>1, <4>2, <4>4
    <3>. QED  BY <3>1, <3>2
  <2>. QED  BY <2>1, <2>2 DEF Links
<1>10. Ends(q)'  BY <1>1, <1>2 DEF Ends, JoinsFront
<1>11. Batch(b)'  BY <1>1 DEF Batch
<1>. QED  BY <1>6, <1>7, <1>8, <1>9, <1>10, <1>11

\* ... or the request before its own.
LEMMA ShapeLinkNext ==
  ASSUME ThreadsTyped, NEW q \in Seq(Requests), NEW b \in Seq(Requests), Shape(q, b),
         NEW t \in Threads, PushLink(t), thread[t].prev # None
  PROVE  Shape(q, b)'
<1>. USE DEF Shape, PushLink, Goto
<1>1. /\ thread[t].at = "link"
      /\ next' = [next EXCEPT ![thread[t].prev] = thread[t].request]
      /\ UNCHANGED <<front, back, loop, client>>
  BY DEF pollVars
<1>2. PICK p \in {q, b} : JoinsIn(t, p)
  BY <1>1, LinkedRequest
<1>3. PICK k \in 1..(Len(p) - 1) : /\ thread[t].prev = p[k] /\ thread[t].request = p[k + 1]
                                  /\ next[p[k]] = None
  BY <1>2 DEF JoinsIn
<1>4. /\ p[k] \in Requests /\ p[k + 1] \in Requests /\ p[k] \in Elements(p)
      /\ k \in 1..Len(p) /\ k + 1 \in 1..Len(p) /\ Len(p) \in Nat
  <2>1. Len(p) \in Nat
    BY Sequence
  <2>2. k \in 1..Len(p) /\ k + 1 \in 1..Len(p)
    BY <2>1
  <2>. QED  BY <2>1, <2>2, Sequence
<1>5. next'[p[k]] = p[k + 1] /\ \A r \in Requests : r # p[k] => next'[r] = next[r]
  BY <1>1, <1>3, <1>4 DEF ThreadsTyped
<1>6. /\ thread'[t].at = "wake" /\ \A u \in Threads \ {t} : thread'[u] = thread[u]
  BY DEF ThreadsTyped
<1>7. \A u \in Threads : Swapping(u)' => Swapping(u) /\ thread'[u] = thread[u]
  BY <1>1, <1>6 DEF Swapping
<1>8. \A u \in Threads : Pushing(u)' => Pushing(u) /\ thread'[u] = thread[u]
  BY <1>1, <1>6 DEF Pushing
<1>9. Members(q, b)'  BY <1>1 DEF Members, Elements
<1>10. Producers(q, b)'
  <2>1. \A u, v \in Threads : Pushing(u)' /\ Pushing(v)' /\ u # v
                             => thread'[u].request # thread'[v].request
    BY <1>8 DEF Producers
  <2>2. ASSUME NEW u \in Threads, Swapping(u)'
        PROVE  /\ thread'[u].request \notin Elements(q) \cup Elements(b)
               /\ client'[thread'[u].request] = "scheduled"
               /\ next'[thread'[u].request] = None
    <3>1. Swapping(u) /\ thread'[u] = thread[u] /\ thread[u].request \in Requests
      BY <1>7, <2>2 DEF ThreadsTyped, Swapping, Pushing
    <3>2. thread[u].request \notin Elements(q) \cup Elements(b)
      BY <3>1 DEF Producers
    <3>3. thread[u].request # p[k]
      BY <1>4, <3>2
    <3>. QED  BY <1>1, <1>5, <3>1, <3>2, <3>3 DEF Producers
  <2>. QED  BY <2>1, <2>2 DEF Producers, Elements
<1>11. Joins(q, b)'
  <2>. SUFFICES ASSUME NEW u \in Threads, thread'[u].at = "link"
                PROVE  JoinsFront(u, q)' \/ JoinsIn(u, q)' \/ JoinsIn(u, b)'
    BY DEF Joins
  <2>1. u # t /\ thread'[u] = thread[u] /\ thread[u].at = "link"
    BY <1>6
  <2>2. thread[u].prev # p[k]
    BY <1>1, <1>3, <2>1, OnlyLinker
  <2>3. CASE JoinsFront(u, q)
    BY <1>1, <2>1, <2>3 DEF JoinsFront
  <2>4. CASE JoinsIn(u, q) \/ JoinsIn(u, b)
    <3>1. PICK s \in {q, b} : JoinsIn(u, s)
      BY <2>4
    <3>2. \A i \in 1..Len(s) : s[i] = thread[u].prev => next'[s[i]] = next[s[i]]
      BY <1>5, <2>2, Sequence
    <3>. QED  BY <2>1, <3>1, <3>2, JoinKept
  <2>. QED  BY <2>1, <2>3, <2>4 DEF Joins
<1>12. ASSUME NEW s \in {q, b}, NEW i \in 1..Len(s), s[i] = p[k]
       PROVE  s = p /\ i = k
  <2>1. s[i] \in Elements(s)
    BY Sequence
  <2>2. s = p
    BY <1>4, <1>12, <2>1 DEF Members
  <2>. QED  BY <1>4, <1>12, <2>2 DEF Members
<1>13. ASSUME NEW s \in {q, b}, NEW i \in 1..(Len(s) - 1), next[s[i]] = s[i + 1]
       PROVE  next'[s[i]] = s[i + 1]
  <2>1. i \in 1..Len(s) /\ s[i] \in Requests
    BY Sequence
  <2>2. CASE s[i] = p[k]  BY <1>5, <1>12, <2>1, <2>2
  <2>3. CASE s[i] # p[k]  BY <1>5, <1>13, <2>1, <2>3
  <2>. QED  BY <2>2, <2>3
<1>14. ASSUME NEW s \in {q, b} PROVE Links(s)'
  <2>1. s # <<>> => next'[s[Len(s)]] = None
    <3>. SUFFICES ASSUME s # <<>> PROVE next'[s[Len(s)]] = None
      OBVIOUS
    <3>1. Len(s) \in 1..Len(s) /\ s[Len(s)] \in Requests /\ next[s[Len(s)]] = None
      BY Sequence DEF Links
    <3>2. s[Len(s)] # p[k]
      <4>. SUFFICES ASSUME s[Len(s)] = p[k] PROVE FALSE
        OBVIOUS
      <4>1. s = p /\ Len(s) = k
        BY <1>12, <3>1
      <4>. QED  BY <1>4, <4>1
    <3>. QED  BY <1>5, <3>1, <3>2
  <2>2. ASSUME NEW i \in 1..(Len(s) - 1)
        PROVE  \/ next'[s[i]] = s[i + 1]
               \/ /\ next'[s[i]] = None
                  /\ \E u \in Threads : /\ thread'[u].at = "link" /\ thread'[u].prev = s[i]
                                        /\ thread'[u].request = s[i + 1]
    <3>0. i \in 1..Len(s) /\ s[i] \in Requests
      BY Sequence
    <3>1. CASE next[s[i]] = s[i + 1]  BY <1>13, <3>1
    <3>2. CASE s[i] = p[k]  BY <1>5, <1>12, <3>0, <3>2
    <3>3. CASE next[s[i]] # s[i + 1] /\ s[i] # p[k]
      <4>0. /\ next[s[i]] = None
            /\ \E u \in Threads : /\ thread[u].at = "link" /\ thread[u].prev = s[i]
                                  /\ thread[u].request = s[i + 1]
        <5>1. Links(s)
          OBVIOUS
        <5>. QED  BY <3>3, <5>1 DEF Links
      <4>1. next[s[i]] = None
        BY <4>0
      <4>2. PICK u \in Threads : /\ thread[u].at = "link" /\ thread[u].prev = s[i]
                                /\ thread[u].request = s[i + 1]
        BY <4>0
      <4>3. thread'[u] = thread[u]
        BY <1>3, <1>6, <3>3, <4>2
      <4>. QED  BY <1>5, <3>0, <3>3, <4>1, <4>2, <4>3
    <3>. QED  BY <3>1, <3>2, <3>3
  <2>. QED  BY <2>1, <2>2 DEF Links
<1>15. Ends(q)'
  <2>1. \A u \in Threads : Linking(u) => Linking(u)' /\ thread'[u] = thread[u]
    BY <1>6 DEF Linking
  <2>. QED  BY <1>1, <2>1 DEF Ends
<1>16. Batch(b)'
  <2>1. \A i \in 1..(Len(b) - 1) : next[b[i]] = b[i + 1] => next'[b[i]] = b[i + 1]
    BY <1>13
  <2>2. Len(b) \in Nat
    BY Sequence
  <2>. QED  BY <1>1, <2>1, <2>2 DEF Batch
<1>. QED  BY <1>9, <1>10, <1>11, <1>14, <1>15, <1>16

LEMMA ShapeWake ==
  ASSUME ThreadsTyped, NEW q \in Seq(Requests), NEW b \in Seq(Requests), Shape(q, b),
         NEW t \in Threads, Wake(t)
  PROVE  Shape(q, b)'
<1>. USE DEF Shape, Wake
<1>1. /\ thread[t].at = "wake" /\ thread'[t].at = "idle"
      /\ \A u \in Threads \ {t} : thread'[u] = thread[u]
      /\ UNCHANGED <<front, back, next, loop, client>>
  BY DEF ThreadsTyped, IdleThread, queueVars, pollVars
<1>2. \A u \in Threads : /\ Swapping(u)' => Swapping(u) /\ thread'[u] = thread[u]
                         /\ Pushing(u)' => Pushing(u) /\ thread'[u] = thread[u]
  BY <1>1 DEF Swapping, Pushing
<1>3. \A u \in Threads : thread[u].at = "link" <=> thread'[u].at = "link"
  BY <1>1
<1>4. \A u \in Threads : thread[u].at = "link" => thread'[u] = thread[u]
  BY <1>1
<1>5. Members(q, b)'  BY <1>1 DEF Members, Elements
<1>6. Producers(q, b)'  BY <1>1, <1>2 DEF Producers, Elements
<1>7. Joins(q, b)'
  <2>. SUFFICES ASSUME NEW u \in Threads, thread'[u].at = "link"
                PROVE  JoinsFront(u, q)' \/ JoinsIn(u, q)' \/ JoinsIn(u, b)'
    BY DEF Joins
  <2>1. thread'[u] = thread[u] /\ thread[u].at = "link"
    BY <1>3, <1>4
  <2>2. JoinsFront(u, q) => JoinsFront(u, q)'
    BY <1>1, <2>1 DEF JoinsFront
  <2>. QED  BY <1>1, <2>1, <2>2, JoinKept DEF Joins
<1>8. Links(q)' /\ Links(b)'  BY <1>1, <1>4, LinksKept
<1>9. Ends(q)'
  <2>1. \A u \in Threads : Linking(u) => Linking(u)' /\ thread'[u] = thread[u]
    BY <1>4, <1>3 DEF Linking
  <2>. QED  BY <1>1, <2>1 DEF Ends
<1>10. Batch(b)'  BY <1>1 DEF Batch
<1>. QED  BY <1>5, <1>6, <1>7, <1>8, <1>9, <1>10

-----------------------------------------------------------------------------
\* The loop pops, counts and hands out.
LoopTyped ==
    loop \in [at : {"popFront", "popBack", "walk", "handle", "wait", "events"},
              first : Requests \cup {None}, cursor : Requests \cup {None},
              last : Requests \cup {None}, count : Nat]

\* What the loop's own steps leave alone.
LEMMA ShapeLoop ==
  ASSUME NEW q, NEW b, Members(q, b), Producers(q, b), UNCHANGED <<thread, next, client>>
  PROVE  Members(q, b)' /\ Producers(q, b)'
  BY DEF Members, Producers, Elements, Swapping, Pushing

LEMMA LinksSame ==
  ASSUME NEW s, Links(s), UNCHANGED <<thread, next>>
  PROVE  Links(s)'
  BY DEF Links

LEMMA ShapePopFront ==
  ASSUME ThreadsTyped, LoopTyped, NEW q \in Seq(Requests), NEW b \in Seq(Requests), Shape(q, b),
         PopFront
  PROVE  Shape(q, b)'
<1>. USE DEF Shape, PopFront, LoopAt
<1>1. UNCHANGED <<back, next, thread, client>> /\ front' = None /\ loop.at = "popFront"
  BY DEF pollVars
<1>2. CASE front = None
  <2>1. loop'.at = "wait" /\ UNCHANGED front
    BY <1>2 DEF Loop
  <2>. QED  BY <1>1, <2>1, ShapeSame
<1>3. CASE front # None
  <2>1. q # <<>> /\ front = q[1]
    BY <1>1, <1>3 DEF Ends
  <2>2. /\ loop'.at = "popBack" /\ loop'.first = q[1] /\ loop'.cursor = q[1]
        /\ loop'.count = 1
    BY <1>3, <2>1 DEF Loop
  <2>3. Joins(q, b)'
    <3>. SUFFICES ASSUME NEW u \in Threads, thread[u].at = "link"
                  PROVE  JoinsIn(u, q)' \/ JoinsIn(u, b)'
      BY <1>1 DEF Joins
    <3>1. JoinsIn(u, q) \/ JoinsIn(u, b)
      BY <1>3 DEF Joins, JoinsFront
    <3>. QED  BY <1>1, <3>1 DEF JoinsIn
  <2>4. Ends(q)'  BY <1>1, <2>1, <2>2 DEF Ends
  <2>5. Batch(b)'  BY <1>1, <2>2 DEF Batch
  <2>. QED  BY <1>1, <2>3, <2>4, <2>5, ShapeLoop, LinksSame
<1>. QED  BY <1>2, <1>3

LEMMA ShapePopBack ==
  ASSUME ThreadsTyped, LoopTyped, NEW q \in Seq(Requests), NEW b \in Seq(Requests), Shape(q, b),
         PopBack
  PROVE  q # <<>> /\ b = <<>> /\ Shape(<<>>, q)'
<1>. USE DEF Shape, PopBack, LoopAt
<1>1. /\ UNCHANGED <<front, next, thread, client>> /\ back' = None /\ loop.at = "popBack"
      /\ q # <<>> /\ b = <<>> /\ front = None /\ Len(q) \in Nat \ {0}
  BY Sequence DEF pollVars, Ends, Batch
<1>2. /\ loop'.at = "walk" /\ loop'.first = q[1] /\ loop'.cursor = q[1]
      /\ loop'.count = 1 /\ loop'.last = q[Len(q)]
  BY <1>1 DEF Ends, LoopTyped
<1>3. Elements(<<>>) = {} /\ Len(<<>>) = 0
  BY DEF Elements
<1>4. Members(<<>>, q) /\ Producers(<<>>, q)
  BY <1>3, <1>1 DEF Members, Producers
<1>5. Joins(<<>>, q)'
  <2>. SUFFICES ASSUME NEW u \in Threads, thread[u].at = "link" PROVE JoinsIn(u, q)'
    BY <1>1 DEF Joins
  <2>1. JoinsIn(u, q)
    BY <1>1, <1>3 DEF Joins, JoinsFront, JoinsIn
  <2>. QED  BY <1>1, <2>1 DEF JoinsIn
<1>6. Links(<<>>)'  BY <1>3 DEF Links
<1>7. Ends(<<>>)'  BY <1>1, <1>2 DEF Ends
<1>8. Batch(q)'  BY <1>1, <1>2 DEF Batch
<1>. QED  BY <1>1, <1>4, <1>5, <1>6, <1>7, <1>8, ShapeLoop, LinksSame

LEMMA ShapeWalk ==
  ASSUME ThreadsTyped, LoopTyped, NEW q \in Seq(Requests), NEW b \in Seq(Requests), Shape(q, b),
         Walk
  PROVE  /\ Shape(q, b)' /\ loop.cursor \in Requests
         /\ loop.at = "walk" /\ loop'.at \in {"walk", "handle"} /\ b # <<>>
<1>. USE DEF Shape, Walk, LoopAt
<1>1. UNCHANGED <<front, back, next, thread, client>> /\ loop.at = "walk"
  BY DEF queueVars, pollVars
<1>2. /\ loop.count \in 1..Len(b) /\ loop.first = b[1] /\ loop.last = b[Len(b)]
      /\ loop.cursor = b[loop.count] /\ Len(b) \in Nat \ {0} /\ loop.count \in Nat
      /\ \A i \in 1..(loop.count - 1) : next[b[i]] = b[i + 1]
      /\ b # <<>>
  BY <1>1, Sequence DEF Batch
<1>3. Batch(b)' /\ loop'.at \in {"walk", "handle"}
  <2>1. CASE loop.cursor = loop.last
    <3>1. loop.count = Len(b)
      <4>1. b[loop.count] = b[Len(b)] /\ loop.count \in 1..Len(b) /\ Len(b) \in 1..Len(b)
        BY <1>2, <2>1
      <4>2. \A i, j \in 1..Len(b) : i # j => b[i] # b[j]
        BY DEF Members
      <4>. QED  BY <4>1, <4>2
    <3>2. /\ loop'.at = "handle" /\ loop'.count = loop.count /\ loop'.first = loop.first
          /\ loop'.last = loop.last
      BY <2>1 DEF LoopTyped
    <3>. QED  BY <1>1, <1>2, <3>1, <3>2 DEF Batch
  <2>2. CASE loop.cursor # loop.last
    <3>1. loop.count \in 1..(Len(b) - 1)
      BY <1>2, <2>2
    <3>2. next[b[loop.count]] = b[loop.count + 1]
      BY <1>2, <2>2, <3>1 DEF Links
    <3>3. /\ loop'.at = "walk" /\ loop'.count = loop.count + 1 /\ loop'.first = loop.first
          /\ loop'.last = loop.last /\ loop'.cursor = b[loop.count + 1]
      BY <1>1, <1>2, <2>2, <3>2 DEF LoopTyped
    <3>4. \A i \in 1..(loop'.count - 1) : next'[b[i]] = b[i + 1]
      BY <1>1, <1>2, <3>1, <3>2, <3>3
    <3>. QED  BY <1>2, <3>1, <3>3, <3>4 DEF Batch
  <2>. QED  BY <2>1, <2>2
<1>4. Joins(q, b)'  BY <1>1, <1>3 DEF Joins, JoinsFront, JoinsIn
<1>5. Ends(q)'  BY <1>1, <1>3 DEF Ends, Linking
<1>6. b[loop.count] \in Requests
  BY <1>2, Sequence
<1>. QED  BY <1>1, <1>2, <1>3, <1>4, <1>5, <1>6, ShapeLoop, LinksSame

LEMMA ShapeHandleDone ==
  ASSUME ThreadsTyped, LoopTyped, NEW q \in Seq(Requests), NEW b \in Seq(Requests), Shape(q, b),
         HandleDone
  PROVE  b = <<>> /\ Shape(q, b)'
<1>. USE DEF Shape, HandleDone, LoopAt
<1>1. /\ UNCHANGED <<front, back, next, thread, client>> /\ loop.at = "handle"
      /\ loop'.at = "wait"
  BY DEF queueVars, pollVars, Loop
<1>2. b = <<>>
  BY Sequence DEF Batch
<1>3. Joins(q, b)'  BY <1>1 DEF Joins, JoinsFront, JoinsIn
<1>4. Ends(q)'  BY <1>1 DEF Ends, Linking
<1>5. Batch(b)'  BY <1>1, <1>2 DEF Batch
<1>. QED  BY <1>1, <1>2, <1>3, <1>4, <1>5, ShapeLoop, LinksSame

\* The first request of the batch is handed out, and belongs to nobody's list any more.
LEMMA ShapeTake ==
  ASSUME ThreadsTyped, LoopTyped, NEW q \in Seq(Requests), NEW b \in Seq(Requests), Shape(q, b),
         TakeNext, \A r \in Requests : r # loop.first => client'[r] = client[r]
  PROVE  /\ b # <<>> /\ loop.first = b[1] /\ loop.first \in Requests
         /\ Shape(q, Tail(b))'
<1>. DEFINE c == Tail(b)
<1>. USE DEF Shape, TakeNext, LoopAt
<1>1. /\ UNCHANGED <<front, back, next, thread>> /\ loop.at = "handle"
      /\ loop.count > 0 /\ loop.count = Len(b)
  BY DEF queueVars, Batch
<1>2. /\ b # <<>> /\ loop.first = b[1] /\ loop.last = b[Len(b)] /\ Len(b) \in Nat \ {0}
      /\ \A i \in 1..(Len(b) - 1) : next[b[i]] = b[i + 1]
      /\ b[1] \in Requests
  BY <1>1, Sequence DEF Batch
<1>3. /\ c \in Seq(Requests) /\ Len(c) = Len(b) - 1
      /\ \A i \in 1..Len(c) : c[i] = b[i + 1]
      /\ c = <<>> <=> Len(c) = 0
  BY <1>2, HeadTailProperties, Sequence
<1>4. Elements(c) \subseteq Elements(b) \ {b[1]}
  <2>1. ASSUME NEW i \in 1..Len(c) PROVE c[i] \in Elements(b) /\ c[i] # b[1]
    <3>1. i + 1 \in 1..Len(b) /\ c[i] = b[i + 1] /\ i + 1 # 1
      BY <1>2, <1>3
    <3>. QED  BY <1>2, <3>1, Sequence DEF Members
  <2>. QED  BY <2>1 DEF Elements
<1>. HIDE DEF c
<1>5. b[1] \in Elements(b) /\ b[1] \notin Elements(q)
  BY <1>2, Sequence DEF Members
<1>6. /\ loop'.at = "handle" /\ loop'.count = Len(c) /\ loop'.last = b[Len(b)]
      /\ loop'.first = next[b[1]]
  BY <1>1, <1>2, <1>3 DEF LoopTyped
<1>7. Members(q, c)'
  <2>1. ASSUME NEW i \in 1..Len(c), NEW j \in 1..Len(c), i # j PROVE c[i] # c[j]
    <3>1. /\ i + 1 \in 1..Len(b) /\ j + 1 \in 1..Len(b) /\ i + 1 # j + 1
          /\ c[i] = b[i + 1] /\ c[j] = b[j + 1]
      BY <1>2, <1>3, <2>1
    <3>2. \A k, m \in 1..Len(b) : k # m => b[k] # b[m]
      BY DEF Members
    <3>. QED  BY <3>1, <3>2
  <2>2. Elements(q) \cap Elements(c) = {}
    BY <1>4 DEF Members
  <2>3. ASSUME NEW r \in Elements(q) \cup Elements(c) PROVE client'[r] = "scheduled"
    <3>1. r \in Requests /\ r # b[1] /\ r \in Elements(q) \cup Elements(b)
      BY <1>3, <1>4, <1>5, Sequence
    <3>. QED  BY <1>2, <3>1 DEF Members
  <2>. QED  BY <2>1, <2>2, <2>3 DEF Members, Elements
<1>8. Producers(q, c)'
  <2>1. \A t, u \in Threads : Pushing(t)' /\ Pushing(u)' /\ t # u
                              => thread'[t].request # thread'[u].request
    BY <1>1 DEF Producers, Pushing
  <2>2. ASSUME NEW t \in Threads, Swapping(t)
        PROVE  /\ thread[t].request \notin Elements(q) \cup Elements(c)
               /\ client'[thread[t].request] = "scheduled" /\ next[thread[t].request] = None
    <3>1. /\ thread[t].request \in Requests
          /\ thread[t].request \notin Elements(q) \cup Elements(b)
          /\ client[thread[t].request] = "scheduled" /\ next[thread[t].request] = None
      BY <2>2 DEF Producers, ThreadsTyped, Swapping, Pushing
    <3>2. thread[t].request # b[1]
      BY <1>5, <3>1
    <3>. QED  BY <1>2, <1>4, <3>1, <3>2
  <2>. QED  BY <1>1, <2>1, <2>2 DEF Producers, Elements, Swapping
<1>9. Joins(q, c)'
  <2>. SUFFICES ASSUME NEW u \in Threads, thread[u].at = "link"
                PROVE  JoinsFront(u, q)' \/ JoinsIn(u, q)'
    BY <1>1 DEF Joins
  <2>1. ~JoinsIn(u, b)
    <3>. SUFFICES ASSUME JoinsIn(u, b) PROVE FALSE
      OBVIOUS
    <3>1. PICK i \in 1..(Len(b) - 1) : next[b[i]] = None
      BY DEF JoinsIn
    <3>2. i + 1 \in 1..Len(b) /\ next[b[i]] = b[i + 1]
      BY <1>2, <3>1
    <3>. QED  BY <3>1, <3>2, Sequence
  <2>2. JoinsFront(u, q) \/ JoinsIn(u, q)
    BY <2>1 DEF Joins
  <2>. QED  BY <1>1, <1>6, <2>2 DEF JoinsFront, JoinsIn
<1>10. \A i \in 1..(Len(c) - 1) : next'[c[i]] = c[i + 1]
  <2>. SUFFICES ASSUME NEW i \in 1..(Len(c) - 1) PROVE next[c[i]] = c[i + 1]
    BY <1>1
  <2>1. /\ i + 1 \in 1..(Len(b) - 1) /\ i \in 1..Len(c) /\ i + 1 \in 1..Len(c)
    BY <1>2, <1>3
  <2>. QED  BY <1>2, <1>3, <2>1
<1>11. ASSUME c # <<>> PROVE c[Len(c)] = b[Len(b)] /\ next[b[1]] = c[1]
  <2>1. Len(c) \in Nat \ {0}
    BY <1>2, <1>3, <1>11
  <2>2. Len(c) \in 1..Len(c) /\ 1 \in 1..Len(c) /\ 1 \in 1..(Len(b) - 1) /\ Len(c) + 1 = Len(b)
    BY <1>2, <1>3, <2>1
  <2>3. c[Len(c)] = b[Len(c) + 1] /\ c[1] = b[1 + 1]
    BY <1>3, <2>2
  <2>. QED  BY <1>2, <2>2, <2>3
<1>12. Links(c)'
  <2>1. c # <<>> => next'[c[Len(c)]] = None
    BY <1>1, <1>2, <1>11 DEF Links
  <2>. QED  BY <1>10, <2>1 DEF Links
<1>13. Ends(q)'  BY <1>1, <1>6 DEF Ends, Linking
<1>14. Batch(c)'  BY <1>6, <1>10, <1>11 DEF Batch
<1>. QED
  BY <1>1, <1>2, <1>7, <1>8, <1>9, <1>12, <1>13, <1>14, LinksSame DEF c

-----------------------------------------------------------------------------
\* What a step does to the two sequences.
Moves(q, b, q2, b2) ==
    \/ q2 = q /\ b2 = b
    \/ b2 = b /\ \E r \in Requests : q2 = Append(q, r)
    \/ b = <<>> /\ b2 = q /\ q2 = <<>>
    \/ b # <<>> /\ b2 = Tail(b) /\ q2 = q

LEMMA ShapeStep ==
  ASSUME ThreadsTyped, LoopTyped, [Next]_vars,
         NEW q \in Seq(Requests), NEW b \in Seq(Requests), Shape(q, b)
  PROVE  \E q2, b2 \in Seq(Requests) : Shape(q2, b2)' /\ Moves(q, b, q2, b2)
<1>. USE DEF Moves
<1>1. ASSUME Shape(q, b)' PROVE \E q2, b2 \in Seq(Requests) : Shape(q2, b2)' /\ Moves(q, b, q2, b2)
  BY <1>1
<1>2. CASE Create
  BY <1>1, <1>2, ShapeSame
  DEF Create, AllocatePort, InsertRight, LimitQueue, RegisterPort, SetupStep, queueVars, pollVars
<1>3. CASE PopBatch
  <2>1. <<>> \in Seq(Requests)
    BY EmptySeq
  <2>2. CASE PopFront  BY <1>1, <2>2, ShapePopFront
  <2>3. CASE PopBack  BY <2>1, <2>3, ShapePopBack
  <2>4. CASE Walk  BY <1>1, <2>4, ShapeWalk
  <2>. QED  BY <1>3, <2>2, <2>3, <2>4 DEF PopBatch
<1>4. CASE Handle
  <2>1. CASE HandleDone  BY <1>1, <2>1, ShapeHandleDone
  <2>2. CASE HandleEpollPoll \/ HandleEpollClose \/ HandleKqueuePoll \/ HandleKqueueClose
    <3>1. TakeNext /\ \A r \in Requests : r # loop.first => client'[r] = client[r]
      BY <2>2
      DEF HandleEpollPoll, HandleEpollClose, HandleKqueuePoll, HandleKqueueClose, ThreadsTyped
    <3>2. b # <<>> /\ Shape(q, Tail(b))'
      BY <3>1, ShapeTake
    <3>3. Tail(b) \in Seq(Requests)
      BY <3>2, HeadTailProperties
    <3>. QED  BY <3>2, <3>3
  <2>. QED  BY <1>4, <2>1, <2>2 DEF Handle
<1>5. CASE Return \/ Interrupted \/ Events
  <2>1. /\ UNCHANGED <<front, back, next, thread>>
        /\ \/ UNCHANGED loop
           \/ /\ loop.at \notin {"popBack", "walk", "handle"}
              /\ loop'.at \notin {"popBack", "walk", "handle"}
    <3>. USE DEF LoopAt, Loop, queueVars
    <3>1. CASE Return  BY <3>1 DEF Return, Wait
    <3>2. CASE Interrupted  BY <3>2 DEF Interrupted
    <3>3. CASE WakerEvent  BY <3>3 DEF WakerEvent
    <3>4. CASE EventsDone
      <4>1. loop.at = "events" /\ loop'.at = "popFront" /\ UNCHANGED <<front, back, next, thread>>
        BY <3>4 DEF EventsDone
      <4>. QED  BY <4>1
    <3>5. ASSUME NEW r \in Requests, NEW kind \in {"ready", "error"}, PollEvent(kind, r)
          PROVE  UNCHANGED <<front, back, next, thread, loop>>
      BY <3>5 DEF PollEvent
    <3>. QED  BY <1>5, <3>1, <3>2, <3>3, <3>4, <3>5 DEF Events
  <2>2. \A r \in Requests : client[r] = "scheduled" => client'[r] = "scheduled"
    BY <1>5
    DEF Return, Interrupted, Events, Wait, WakerEvent, EventsDone, PollEvent, pollVars,
        ThreadsTyped
  <2>. QED  BY <1>1, <2>1, <2>2, ShapeSame
<1>6. ASSUME NEW t \in Threads, Push(t)
      PROVE  \E q2, b2 \in Seq(Requests) : Shape(q2, b2)' /\ Moves(q, b, q2, b2)
  <2>1. CASE PushSwap(t)
    <3>1. thread[t].request \in Requests
      BY <2>1 DEF PushSwap, ThreadsTyped, Pushing
    <3>2. PICK r \in Requests : r = thread[t].request
      BY <3>1
    <3>3. Append(q, r) \in Seq(Requests)
      BY AppendProperties
    <3>. QED  BY <2>1, <3>2, <3>3, ShapeSwap
  <2>2. CASE PushLink(t)  BY <1>1, <2>2, ShapeLinkFront, ShapeLinkNext
  <2>3. CASE Wake(t)  BY <1>1, <2>3, ShapeWake
  <2>. QED  BY <1>6, <2>1, <2>2, <2>3 DEF Push
<1>7. ASSUME NEW t \in Threads, NEW r \in Requests, NEW action \in {"poll", "close"},
             Schedule(t, r, action)
      PROVE  \E q2, b2 \in Seq(Requests) : Shape(q2, b2)' /\ Moves(q, b, q2, b2)
  BY <1>1, <1>7, ShapeSchedule
<1>8. CASE UNCHANGED vars
  BY <1>1, <1>8, ShapeSame DEF vars, queueVars, pollVars
<1>. QED  BY <1>2, <1>3, <1>4, <1>5, <1>6, <1>7, <1>8 DEF Next

-----------------------------------------------------------------------------
\* The rest of the types, and who may hear of a request.

OthersTyped ==
    /\ backend \in Backends /\ signal \in 0..QueueLimit
    /\ setup \in {"allocate", "right", "limit", "register", "ready", "failed"}
    /\ front \in Requests \cup {None} /\ back \in Requests \cup {None}
    /\ scheduled \in [Requests -> BOOLEAN] /\ wants \in [Requests -> {"poll", "close"}]
    /\ changes \subseteq {"add", "cancel"} \X Requests
    /\ events \subseteq {"ready", "error", "waker"} \X (Requests \cup {None})
    /\ armed \subseteq Requests /\ flagged \subseteq Requests
    /\ late \subseteq Requests /\ starved \in BOOLEAN

\* On Linux a poll is watched, and its event handled, only until onDone: close takes the
\* poll off the interest list, and runs while no event of an earlier wait is left.
Heard ==
    /\ loop.at # "events" => events = {}
    /\ backend = "epoll" =>
         /\ late = {} /\ changes = {} /\ armed \subseteq flagged
         /\ \A r \in armed : client[r] # "done"
         /\ \A r \in Requests, kind \in {"ready", "error"} :
              <<kind, r>> \in events => client[r] # "done"

FInv == ThreadsTyped /\ LoopTyped /\ OthersTyped /\ Heard
Shaped == \E q, b \in Seq(Requests) : Shape(q, b)
QInv == FInv /\ Shaped

LEMMA QInvInit == Init => QInv
<1>. SUFFICES ASSUME Init PROVE QInv
  OBVIOUS
<1>. USE DEF Init
<1>1. ThreadsTyped  BY DEF ThreadsTyped, IdleThread, Pushing
<1>2. LoopTyped  BY DEF LoopTyped, Loop
<1>3. OthersTyped
  <2>1. /\ backend \in Backends
        /\ setup \in {"allocate", "right", "limit", "register", "ready", "failed"}
    OBVIOUS
  <2>4. signal \in 0..QueueLimit
    BY DEF QueueLimit
  <2>5. front \in Requests \cup {None} /\ back \in Requests \cup {None} /\ starved = FALSE
    OBVIOUS
  <2>2. scheduled \in [Requests -> BOOLEAN] /\ wants \in [Requests -> {"poll", "close"}]
    OBVIOUS
  <2>3. /\ changes = {} /\ events = {} /\ armed = {} /\ flagged = {} /\ late = {}
    OBVIOUS
  <2>. QED  BY <2>1, <2>2, <2>3, <2>4, <2>5 DEF OthersTyped
<1>4. Heard  BY DEF Heard
<1>5. Shape(<<>>, <<>>)
  <2>1. Len(<<>>) = 0 /\ Elements(<<>>) = {}
    BY DEF Elements
  <2>. QED
    BY <2>1
    DEF Shape, Members, Producers, Joins, Links, Ends, Batch, IdleThread, Loop, Pushing, Swapping
<1>6. <<>> \in Seq(Requests)
  BY EmptySeq
<1>. QED  BY <1>1, <1>2, <1>3, <1>4, <1>5, <1>6 DEF QInv, FInv, Shaped

LEMMA FInvCreate == ASSUME FInv, Create PROVE FInv'
<1>1. /\ setup' \in {"allocate", "right", "limit", "register", "ready", "failed"}
      /\ UNCHANGED <<backend, signal, queueVars, scheduled, wants, thread, loop, pollVars,
                     ghostVars>>
  BY DEF Create, AllocatePort, InsertRight, LimitQueue, RegisterPort, SetupStep
<1>. QED
  BY <1>1
  DEF FInv, ThreadsTyped, LoopTyped, OthersTyped, Heard, queueVars, pollVars, ghostVars, Pushing

LEMMA FInvSchedule ==
  ASSUME FInv, NEW t \in Threads, NEW r \in Requests, NEW action \in {"poll", "close"},
         Schedule(t, r, action)
  PROVE  FInv'
<1>. USE DEF FInv, Schedule
<1>1. ThreadsTyped'
  <2>. USE DEF ThreadsTyped
  <2>1. next' \in [Requests -> Requests \cup {None}]
    OBVIOUS
  <2>2. client' \in [Requests -> {"idle", "scheduled", "polling", "done"}]
    OBVIOUS
  <2>3. /\ thread' \in [Threads -> [at : {"idle", "swap", "link", "wake"},
                                    request : Requests \cup {None},
                                    prev : Requests \cup {None}]]
        /\ \A u \in Threads : Pushing(u)' => thread'[u].request \in Requests
    BY DEF Pushing
  <2>. QED  BY <2>1, <2>2, <2>3
<1>2. LoopTyped'  BY DEF LoopTyped
<1>3. OthersTyped'
  <2>1. scheduled' \in [Requests -> BOOLEAN] /\ wants' \in [Requests -> {"poll", "close"}]
    BY DEF OthersTyped
  <2>. QED  BY <2>1 DEF OthersTyped
<1>4. Heard'
  <2>1. \A x \in Requests : client'[x] = "done" => client[x] = "done"
    BY DEF ThreadsTyped
  <2>. QED  BY <2>1 DEF Heard, OthersTyped
<1>. QED  BY <1>1, <1>2, <1>3, <1>4

LEMMA FInvPush == ASSUME FInv, NEW t \in Threads, Push(t) PROVE FInv'
<1>. USE DEF FInv, PushSwap, PushLink, Wake, Goto, IdleThread, queueVars, pollVars, ghostVars
<1>1. CASE PushSwap(t)
  <2>1. ThreadsTyped'
    <3>. USE DEF ThreadsTyped
    <3>1. back \in Requests \cup {None}
      BY DEF OthersTyped
    <3>2. /\ thread' \in [Threads -> [at : {"idle", "swap", "link", "wake"},
                                      request : Requests \cup {None},
                                      prev : Requests \cup {None}]]
          /\ \A u \in Threads : thread'[u].request = thread[u].request
      BY <1>1, <3>1
    <3>3. \A u \in Threads : Pushing(u)' => Pushing(u)
      BY <1>1 DEF Pushing
    <3>. QED  BY <1>1, <3>2, <3>3
  <2>2. OthersTyped'  BY <1>1 DEF OthersTyped, ThreadsTyped, Pushing
  <2>. QED  BY <1>1, <2>1, <2>2 DEF LoopTyped, Heard
<1>2. CASE PushLink(t)
  <2>1. thread[t].request \in Requests
    BY <1>2 DEF ThreadsTyped, Pushing
  <2>2. ThreadsTyped'
    <3>. USE DEF ThreadsTyped
    <3>1. next' \in [Requests -> Requests \cup {None}]
      BY <1>2, <2>1
    <3>2. /\ thread' \in [Threads -> [at : {"idle", "swap", "link", "wake"},
                                      request : Requests \cup {None},
                                      prev : Requests \cup {None}]]
          /\ \A u \in Threads : Pushing(u)' => thread'[u].request \in Requests
      BY <1>2 DEF Pushing
    <3>. QED  BY <1>2, <3>1, <3>2
  <2>3. OthersTyped'  BY <1>2, <2>1 DEF OthersTyped
  <2>. QED  BY <1>2, <2>2, <2>3 DEF LoopTyped, Heard
<1>3. CASE Wake(t)
  <2>1. ThreadsTyped'  BY <1>3 DEF ThreadsTyped, Pushing
  <2>2. /\ signal' \in {signal, QueueLimit} /\ starved' \in BOOLEAN
        /\ UNCHANGED <<backend, setup, front, back, scheduled, wants, changes, events, armed,
                       flagged, late>>
    <3>1. starved' = starved \/ starved' = TRUE
      BY <1>3
    <3>2. starved' \in BOOLEAN
      BY <3>1 DEF OthersTyped
    <3>. QED  BY <1>3, <3>2
  <2>3. signal' \in 0..QueueLimit
    BY <2>2 DEF OthersTyped, QueueLimit
  <2>4. OthersTyped'  BY <2>2, <2>3 DEF OthersTyped
  <2>. QED  BY <1>3, <2>1, <2>4 DEF LoopTyped, Heard
<1>. QED  BY <1>1, <1>2, <1>3 DEF Push

LEMMA FInvPop == ASSUME QInv, PopBatch PROVE FInv'
<1>. PICK q \in Seq(Requests), b \in Seq(Requests) : Shape(q, b)
  BY DEF QInv, Shaped
<1>. USE DEF QInv, FInv, LoopAt, Loop, queueVars, pollVars, ghostVars
<1>1. ThreadsTyped'
  BY DEF PopBatch, PopFront, PopBack, Walk, ThreadsTyped, Pushing
<1>2. OthersTyped'
  <2>1. /\ front' \in {front, None} /\ back' \in {back, None}
        /\ UNCHANGED <<backend, setup, signal, scheduled, wants, pollVars, ghostVars>>
    BY DEF PopBatch, PopFront, PopBack, Walk
  <2>. QED  BY <2>1 DEF OthersTyped
<1>3. Heard'  BY DEF PopBatch, PopFront, PopBack, Walk, Heard
<1>4. LoopTyped'
  <2>. USE DEF LoopTyped
  <2>1. CASE PopFront  BY <2>1 DEF PopFront, OthersTyped
  <2>2. CASE PopBack  BY <2>2 DEF PopBack, OthersTyped
  <2>3. CASE Walk
    <3>1. loop.cursor \in Requests
      BY <2>3, ShapeWalk
    <3>2. next[loop.cursor] \in Requests \cup {None}
      BY <3>1 DEF ThreadsTyped
    <3>3. CASE loop.cursor = loop.last  BY <2>3, <3>3 DEF Walk
    <3>4. CASE loop.cursor # loop.last
      <4>1. PICK c \in Requests \cup {None} : c = next[loop.cursor]
        BY <3>2
      <4>2. loop' = [loop EXCEPT !.cursor = c, !.count = @ + 1]
        BY <2>3, <3>4, <4>1 DEF Walk
      <4>3. loop.count + 1 \in Nat
        OBVIOUS
      <4>. QED  BY <4>2, <4>3
    <3>. QED  BY <3>3, <3>4
  <2>. QED  BY <2>1, <2>2, <2>3 DEF PopBatch
<1>. QED  BY <1>1, <1>2, <1>3, <1>4

LEMMA FInvHandle == ASSUME QInv, Handle PROVE FInv'
<1>. PICK q \in Seq(Requests), b \in Seq(Requests) : Shape(q, b)
  BY DEF QInv, Shaped
<1>. USE DEF QInv, FInv, LoopAt, Loop, queueVars, pollVars, ghostVars
<1>1. CASE HandleDone
  BY <1>1 DEF HandleDone, ThreadsTyped, Pushing, OthersTyped, Heard, LoopTyped
<1>2. CASE HandleEpollPoll \/ HandleEpollClose \/ HandleKqueuePoll \/ HandleKqueueClose
  <2>1. TakeNext
    BY <1>2 DEF HandleEpollPoll, HandleEpollClose, HandleKqueuePoll, HandleKqueueClose
  <2>2. loop.first \in Requests
    <3>1. \A r \in Requests : r # loop.first => client'[r] = client[r]
      BY <1>2
      DEF HandleEpollPoll, HandleEpollClose, HandleKqueuePoll, HandleKqueueClose, ThreadsTyped
    <3>. QED  BY <2>1, <3>1, ShapeTake
  <2>3. PICK r \in Requests : r = loop.first
    BY <2>2
  <2>4. /\ UNCHANGED <<backend, setup, signal, front, back, next, wants, thread, events, late,
                       starved>>
        /\ loop.at = "handle" /\ loop' = [loop EXCEPT !.first = next[r], !.count = @ - 1]
        /\ loop.count > 0
    BY <2>1, <2>3 DEF TakeNext
  <2>5. LoopTyped' /\ loop'.at = "handle"
    <3>1. next[r] \in Requests \cup {None} /\ loop.count - 1 \in Nat
      BY <2>4 DEF LoopTyped, ThreadsTyped
    <3>. QED  BY <2>4, <3>1 DEF LoopTyped
  <2>6. /\ client' \in [Requests -> {"idle", "scheduled", "polling", "done"}]
        /\ \A x \in Requests \ {r} : client'[x] = client[x]
    BY <1>2, <2>3
    DEF HandleEpollPoll, HandleEpollClose, HandleKqueuePoll, HandleKqueueClose, ThreadsTyped
  <2>7. ThreadsTyped'  BY <2>4, <2>6 DEF ThreadsTyped, Pushing
  <2>8. OthersTyped'
    <3>1. scheduled' \in [Requests -> BOOLEAN]
      BY <1>2, <2>3
      DEF HandleEpollPoll, HandleEpollClose, HandleKqueuePoll, HandleKqueueClose, OthersTyped
    <3>2. armed' \subseteq Requests /\ flagged' \subseteq Requests
      BY <1>2, <2>3
      DEF HandleEpollPoll, HandleEpollClose, HandleKqueuePoll, HandleKqueueClose, OthersTyped
    <3>3. changes' \subseteq changes \cup {<<"add", r>>, <<"cancel", r>>}
      BY <1>2, <2>3 DEF HandleEpollPoll, HandleEpollClose, HandleKqueuePoll, HandleKqueueClose
    <3>4. changes' \subseteq {"add", "cancel"} \X Requests
      BY <2>3, <3>3 DEF OthersTyped
    <3>. QED  BY <2>4, <3>1, <3>2, <3>4 DEF OthersTyped
  <2>9. Heard'
    <3>1. events' = {}
      BY <2>4 DEF Heard
    <3>2. SUFFICES ASSUME backend = "epoll"
                   PROVE  /\ late' = {} /\ changes' = {} /\ armed' \subseteq flagged'
                          /\ \A x \in armed' : client'[x] # "done"
      BY <2>4, <2>5, <3>1 DEF Heard
    <3>3. late' = {} /\ changes' = {}
      BY <1>2, <2>4, <3>2
      DEF Heard, HandleEpollPoll, HandleEpollClose, HandleKqueuePoll, HandleKqueueClose
    <3>4. CASE HandleEpollPoll
      <4>1. client'[r] # "done"
        BY <2>3, <3>4 DEF HandleEpollPoll, ThreadsTyped
      <4>2. armed' \subseteq armed \cup {r} /\ armed' \subseteq flagged'
        BY <2>3, <3>2, <3>4 DEF HandleEpollPoll, Heard
      <4>3. \A x \in armed : x # r => client'[x] # "done"
        BY <2>6, <3>2 DEF Heard, OthersTyped
      <4>. QED  BY <3>3, <4>1, <4>2, <4>3
    <3>5. CASE HandleEpollClose
      <4>1. armed' = armed \ {r} /\ flagged' = flagged
        BY <2>3, <3>2, <3>5 DEF HandleEpollClose, Heard
      <4>2. \A x \in armed : x # r => client'[x] # "done"
        BY <2>6, <3>2 DEF Heard, OthersTyped
      <4>. QED  BY <3>2, <3>3, <4>1, <4>2 DEF Heard
    <3>. QED  BY <1>2, <3>2, <3>4, <3>5 DEF HandleKqueuePoll, HandleKqueueClose
  <2>. QED  BY <2>5, <2>7, <2>8, <2>9
<1>. QED  BY <1>1, <1>2 DEF Handle

LEMMA FInvWait == ASSUME FInv, Return \/ Interrupted PROVE FInv'
<1>. USE DEF FInv, LoopAt, Loop, queueVars, ghostVars
<1>1. /\ UNCHANGED <<backend, setup, queueVars, scheduled, wants, thread, flagged, client, late,
                     starved>>
      /\ loop' \in {Loop("events"), Loop("popFront")} /\ changes' = {}
      /\ signal' \in {signal, 0}
  BY DEF Return, Wait, Interrupted
<1>2. ThreadsTyped'  BY <1>1 DEF ThreadsTyped, Pushing
<1>3. LoopTyped'  BY <1>1 DEF LoopTyped
<1>4. \A k \in {"add", "cancel"} : Changed(k) \subseteq Requests
  BY DEF Changed
<1>5. /\ armed' \subseteq Requests
      /\ events' \subseteq {"ready", "error", "waker"} \X (Requests \cup {None})
      /\ loop'.at # "events" => events' = {}
  <2>1. CASE Interrupted
    <3>1. events' = {}
      BY <2>1 DEF Interrupted, Heard
    <3>2. armed' \subseteq Requests
      BY <1>4, <2>1 DEF Interrupted, Applied, OthersTyped
    <3>. QED  BY <3>1, <3>2
  <2>2. ASSUME NEW ready \in SUBSET Requests, NEW refused \in SUBSET Requests,
               Wait(ready, refused)
        PROVE  /\ armed' \subseteq Requests
               /\ events' \subseteq {"ready", "error", "waker"} \X (Requests \cup {None})
               /\ loop'.at = "events"
    <3>1. armed' \subseteq Requests
      BY <1>4, <2>2 DEF Wait, Applied, OthersTyped
    <3>2. Errors(refused) \subseteq Requests
      BY <1>4 DEF Errors
    <3>3. events' \subseteq {<<"ready", r>> : r \in Requests}
                            \cup {<<"error", r>> : r \in Requests} \cup {<<"waker", None>>}
      BY <2>2, <3>2 DEF Wait
    <3>4. loop'.at = "events"
      BY <2>2 DEF Wait
    <3>. QED  BY <3>1, <3>3, <3>4
  <2>. QED  BY <2>1, <2>2 DEF Return
<1>6. OthersTyped'
  <2>1. signal' \in 0..QueueLimit
    BY <1>1 DEF OthersTyped, QueueLimit
  <2>2. changes' \subseteq {"add", "cancel"} \X Requests
    BY <1>1
  <2>. QED  BY <1>1, <1>5, <2>1, <2>2 DEF OthersTyped
<1>7. Heard'
  <2>. SUFFICES ASSUME backend = "epoll"
                PROVE  /\ armed' \subseteq armed
                       /\ \A r \in Requests, kind \in {"ready", "error"} :
                            <<kind, r>> \in events' => client[r] # "done"
    BY <1>1, <1>5 DEF Heard
  <2>1. \A k \in {"add", "cancel"} : Changed(k) = {}
    BY DEF Changed, Heard
  <2>2. \A refused : refused \subseteq Changed("add")
                     => Applied(refused) = armed /\ Errors(refused) = {}
    BY <2>1 DEF Applied, Errors
  <2>3. CASE Interrupted
    <3>1. armed' = Applied({}) /\ events' = {}
      BY <2>3 DEF Interrupted, Heard
    <3>. QED  BY <2>2, <3>1
  <2>4. ASSUME NEW ready \in SUBSET Requests, NEW refused \in SUBSET Requests,
               Wait(ready, refused)
        PROVE  /\ armed' \subseteq armed
               /\ \A r \in Requests, kind \in {"ready", "error"} :
                    <<kind, r>> \in events' => client[r] # "done"
    <3>1. ready \subseteq armed /\ armed' \subseteq armed
      BY <2>2, <2>4 DEF Wait
    <3>2. events' \subseteq {<<"ready", r>> : r \in ready} \cup {<<"waker", None>>}
      BY <2>2, <2>4 DEF Wait
    <3>. QED  BY <3>1, <3>2 DEF Heard
  <2>. QED  BY <2>3, <2>4 DEF Return
<1>. QED  BY <1>2, <1>3, <1>6, <1>7

LEMMA FInvEvents == ASSUME FInv, Events PROVE FInv'
<1>. USE DEF FInv, LoopAt, Loop, queueVars, pollVars, ghostVars
<1>1. CASE WakerEvent
  <2>1. /\ UNCHANGED <<backend, setup, queueVars, scheduled, wants, thread, loop, changes, armed,
                       flagged, client, ghostVars>>
        /\ events' \subseteq events /\ signal' \in {signal, 0} /\ loop.at = "events"
    BY <1>1 DEF WakerEvent
  <2>2. signal' \in 0..QueueLimit
    BY <2>1 DEF OthersTyped, QueueLimit
  <2>3. OthersTyped'  BY <2>1, <2>2 DEF OthersTyped
  <2>. QED  BY <2>1, <2>3 DEF ThreadsTyped, Pushing, LoopTyped, Heard
<1>2. CASE EventsDone
  BY <1>2 DEF EventsDone, ThreadsTyped, Pushing, LoopTyped, OthersTyped, Heard
<1>3. ASSUME NEW r \in Requests, NEW kind \in {"ready", "error"}, PollEvent(kind, r)
      PROVE  FInv'
  <2>1. /\ UNCHANGED <<backend, setup, signal, queueVars, scheduled, wants, thread, loop, changes,
                       armed, flagged, starved>>
        /\ loop.at = "events" /\ <<kind, r>> \in events /\ events' \subseteq events
        /\ client' = [client EXCEPT ![r] = IF @ = "polling" THEN "idle" ELSE @]
        /\ late' = IF client[r] = "done" THEN late \cup {r} ELSE late
    BY <1>3 DEF PollEvent
  <2>2. ThreadsTyped'  BY <2>1 DEF ThreadsTyped, Pushing
  <2>3. OthersTyped'
    <3>1. late' \subseteq Requests /\ events' \subseteq events
      BY <2>1 DEF OthersTyped
    <3>. QED  BY <2>1, <3>1 DEF OthersTyped
  <2>4. \A x \in Requests : client'[x] = "done" => client[x] = "done"
    BY <2>1 DEF ThreadsTyped
  <2>5. Heard'
    <3>1. backend = "epoll" => late' = {}
      BY <2>1 DEF Heard
    <3>. QED  BY <2>1, <2>4, <3>1 DEF Heard, OthersTyped
  <2>. QED  BY <2>1, <2>2, <2>3, <2>5 DEF LoopTyped
<1>. QED  BY <1>1, <1>2, <1>3 DEF Events

LEMMA QInvStep == QInv /\ [Next]_vars => QInv'
<1>. SUFFICES ASSUME QInv, [Next]_vars PROVE QInv'
  OBVIOUS
<1>1. FInv'
  <2>1. CASE UNCHANGED vars
    BY <2>1
    DEF QInv, FInv, ThreadsTyped, Pushing, LoopTyped, OthersTyped, Heard, vars, queueVars,
        pollVars, ghostVars
  <2>. QED
    BY <2>1, FInvCreate, FInvPop, FInvHandle, FInvWait, FInvEvents, FInvPush, FInvSchedule
    DEF QInv, Next
<1>2. Shaped'
  <2>1. PICK q \in Seq(Requests), b \in Seq(Requests) : Shape(q, b)
    BY DEF QInv, Shaped
  <2>. QED  BY <2>1, ShapeStep DEF QInv, FInv, Shaped
<1>. QED  BY <1>1, <1>2 DEF QInv

LEMMA QInvAlways == Spec => []QInv
<1>. QED  BY QInvInit, QInvStep, PTL DEF Spec

\* Types, for every set of requests and threads.
THEOREM TypeCorrect == Spec => []TypeOK
<1>1. QInv => TypeOK
  BY DEF QInv, FInv, ThreadsTyped, LoopTyped, OthersTyped, TypeOK
<1>. QED  BY <1>1, QInvAlways, PTL

\* On Linux nobody is called back about a file after onDone: neither an event of the wait
\* that the close ended nor one of a poll that the kernel still watches is left.
THEOREM DoneIsLast == Spec => []NothingAfterDone
<1>1. QInv => NothingAfterDone
  BY DEF QInv, FInv, Heard, NothingAfterDone
<1>. QED  BY <1>1, QInvAlways, PTL

-----------------------------------------------------------------------------
\* That `Queued' and `Popped' read the two sequences off the list.

LEMMA LeastNat ==
  ASSUME NEW T \in SUBSET Nat, T # {}
  PROVE  \E n \in T : \A m \in T : n <= m
<1>1. IsWellFoundedOn(OpToRel(<, Nat), Nat)
  BY NatLessThanWellFounded
<1>2. \E n \in T : \A m \in T : <<m, n>> \notin OpToRel(<, Nat)
  BY <1>1, WFMin
<1>3. PICK n \in T : \A m \in T : <<m, n>> \notin OpToRel(<, Nat)
  BY <1>2
<1>4. \A m \in T : ~(m < n)
  BY <1>3 DEF OpToRel
<1>. QED  BY <1>4

Distinct(s) == \A i, j \in 1..Len(s) : i # j => s[i] # s[j]
Chained(s) == \A i \in 1..(Len(s) - 1) : Behind(s[i]) = s[i + 1]

LEMMA Short ==
  ASSUME NEW s \in Seq(Requests), Distinct(s)
  PROVE  Len(s) <= Cardinality(Requests)
<1>1. IsFiniteSet(Requests) /\ Cardinality(Requests) \in Nat
  BY IOLoopAssumption, FS_CardinalityType DEF IOLoopAssumption
<1>2. IsFiniteSet(1..Len(s)) /\ Cardinality(1..Len(s)) = Len(s)
  <2>1. Len(s) \in Nat /\ Len(s) \in Int /\ 1 \in Int
    BY Sequence
  <2>2. /\ IsFiniteSet(1..Len(s))
        /\ Cardinality(1..Len(s)) = IF 1 > Len(s) THEN 0 ELSE Len(s) - 1 + 1
    BY <2>1, FS_Interval
  <2>. QED  BY <2>1, <2>2
<1>3. s \in [1..Len(s) -> Requests]
  OBVIOUS
<1>4. CASE Cardinality(Requests) < Len(s)
  <2>1. \E i, j \in 1..Len(s) : i # j /\ s[i] = s[j]
    BY <1>1, <1>2, <1>3, <1>4, FS_PigeonHole
  <2>. QED  BY <2>1 DEF Distinct
<1>. QED  BY <1>1, <1>4, Sequence

\* Two walks from the same request along `Behind' agree as far as both go.
LEMMA SameWalk ==
  ASSUME NEW s \in Seq(Requests), NEW t \in Seq(Requests), s[1] = t[1], Chained(s), Chained(t)
  PROVE  \A i \in 1..Len(s) : i <= Len(t) => t[i] = s[i]
<1>. DEFINE T == {i \in 1..Len(s) : i <= Len(t) /\ t[i] # s[i]}
<1>. SUFFICES ASSUME T # {} PROVE FALSE
  OBVIOUS
<1>1. T \in SUBSET Nat /\ Len(s) \in Nat /\ Len(t) \in Nat
  BY Sequence
<1>2. PICK n \in T : \A m \in T : n <= m
  <2>. HIDE DEF T
  <2>. QED  BY <1>1, LeastNat
<1>3. n \in Nat /\ n # 1 /\ n >= 1
  BY <1>1
<1>4. n - 1 \in 1..(Len(s) - 1) /\ n - 1 \in 1..(Len(t) - 1) /\ n - 1 \notin T
  BY <1>1, <1>2, <1>3
<1>5. t[n - 1] = s[n - 1]
  BY <1>1, <1>4
<1>6. Behind(s[n - 1]) = s[(n - 1) + 1] /\ Behind(t[n - 1]) = t[(n - 1) + 1]
  BY <1>4 DEF Chained
<1>7. (n - 1) + 1 = n
  BY <1>3
<1>. QED  BY <1>5, <1>6, <1>7

\* A chain of distinct requests is the path between its ends.
LEMMA PathIs ==
  ASSUME NEW s \in Seq(Requests), s # <<>>, Distinct(s), Chained(s)
  PROVE  Path(s[1], s[Len(s)]) = s
<1>. DEFINE from == s[1]
            to == s[Len(s)]
            lists == UNION {[1..n -> Requests] : n \in 1..Cardinality(Requests)}
            paths == {p \in lists :
                        /\ p[1] = from /\ p[Len(p)] = to
                        /\ \A i \in 1..(Len(p) - 1) : p[i] # to /\ p[i + 1] = Behind(p[i])}
<1>1. /\ Len(s) \in 1..Cardinality(Requests) /\ Len(s) \in Nat
      /\ s \in [1..Len(s) -> Requests]
  <2>1. Cardinality(Requests) \in Nat
    BY IOLoopAssumption, FS_CardinalityType DEF IOLoopAssumption
  <2>. QED  BY <2>1, Short, Sequence
<1>2. \A i \in 1..(Len(s) - 1) : s[i] # to /\ s[i + 1] = Behind(s[i])
  BY <1>1 DEF Distinct, Chained
<1>3. s \in lists
  BY <1>1
<1>4. s \in paths
  BY <1>2, <1>3
<1>5. ASSUME NEW p \in paths PROVE p = s
  <2>1. p \in Seq(Requests)
    <3>1. PICK n \in 1..Cardinality(Requests) : p \in [1..n -> Requests]
      OBVIOUS
    <3>2. n \in Nat
      OBVIOUS
    <3>. QED  BY <3>1, <3>2, SeqDef
  <2>2. p[1] = s[1] /\ p[Len(p)] = to /\ Len(p) \in Nat
    BY <2>1, Sequence
  <2>3. \A i \in 1..(Len(p) - 1) : p[i] # to /\ p[i + 1] = Behind(p[i])
    OBVIOUS
  <2>. HIDE DEF paths
  <2>4. Chained(p)
    BY <2>3 DEF Chained
  <2>5. \A i \in 1..Len(s) : i <= Len(p) => p[i] = s[i]
    BY <2>1, <2>2, <2>4, SameWalk
  <2>6. ~(Len(s) < Len(p))
    <3>. SUFFICES ASSUME Len(s) < Len(p) PROVE FALSE
      OBVIOUS
    <3>1. Len(s) \in 1..(Len(p) - 1) /\ Len(s) \in 1..Len(s)
      BY <1>1, <2>2
    <3>. QED  BY <2>3, <2>5, <3>1
  <2>7. Len(p) # 0
    <3>. SUFFICES ASSUME Len(p) = 0 PROVE FALSE
      OBVIOUS
    <3>1. DOMAIN p = 1..Len(p)
      BY <2>1
    <3>2. PICK n \in 1..Cardinality(Requests) : p \in [1..n -> Requests]
      BY DEF paths
    <3>. QED  BY <3>1, <3>2
  <2>8. ~(Len(p) < Len(s))
    <3>. SUFFICES ASSUME Len(p) < Len(s) PROVE FALSE
      OBVIOUS
    <3>1. Len(p) \in 1..Len(s) /\ Len(s) \in 1..Len(s) /\ Len(p) # Len(s)
      BY <1>1, <2>2, <2>7
    <3>2. s[Len(p)] = s[Len(s)]
      BY <2>2, <2>5, <3>1
    <3>. QED  BY <3>1, <3>2 DEF Distinct
  <2>9. Len(p) = Len(s)
    BY <1>1, <2>2, <2>6, <2>8
  <2>. QED  BY <1>1, <2>1, <2>5, <2>9, SeqEqual
<1>. HIDE DEF paths
<1>6. (CHOOSE p \in paths : TRUE) = s /\ paths # {}
  BY <1>4, <1>5
<1>. QED  BY <1>6 DEF Path, paths

\* Between two neighbours of a list there is a link, or there are only threads that are
\* about to make it.
LEMMA BehindNeighbour ==
  ASSUME NEW s \in Seq(Requests), Links(s), NEW i \in 1..(Len(s) - 1),
         \A u \in Threads : thread[u].at = "link" /\ thread[u].prev = s[i]
                             => thread[u].request = s[i + 1]
  PROVE  Behind(s[i]) = s[i + 1]
<1>. DEFINE linking == {u \in Threads : thread[u].at = "link" /\ thread[u].prev = s[i]}
<1>1. s[i] # None /\ s[i + 1] # None
  BY Sequence
<1>2. CASE next[s[i]] = s[i + 1]  BY <1>1, <1>2 DEF Behind
<1>3. CASE next[s[i]] # s[i + 1]
  <2>1. next[s[i]] = None /\ linking # {}
    BY <1>3 DEF Links
  <2>2. (CHOOSE u \in linking : TRUE) \in linking
    BY <2>1
  <2>3. thread[CHOOSE u \in linking : TRUE].request = s[i + 1]
    BY <2>2
  <2>. QED  BY <1>1, <2>1, <2>3 DEF Behind
<1>. QED  BY <1>2, <1>3

LEMMA BehindFront ==
  ASSUME NEW q \in Seq(Requests), NEW b \in Seq(Requests), Shape(q, b), q # <<>>,
         loop.at # "popBack"
  PROVE  Behind(None) = q[1]
<1>. DEFINE linking == {u \in Threads : thread[u].at = "link" /\ thread[u].prev = None}
<1>1. q[1] # None
  BY Sequence
<1>2. CASE front = q[1]  BY <1>1, <1>2 DEF Behind
<1>3. CASE front # q[1]
  <2>1. front = None /\ linking # {}
    BY <1>3 DEF Shape, Ends, Linking
  <2>2. ASSUME NEW u \in linking PROVE thread[u].request = q[1]
    <3>1. ~JoinsIn(u, q) /\ ~JoinsIn(u, b)
      BY Sequence DEF JoinsIn
    <3>2. JoinsFront(u, q)
      BY <3>1 DEF Shape, Joins
    <3>. QED  BY <3>2 DEF JoinsFront
  <2>3. (CHOOSE u \in linking : TRUE) \in linking
    BY <2>1
  <2>4. thread[CHOOSE u \in linking : TRUE].request = q[1]
    BY <2>2, <2>3
  <2>. QED  BY <1>1, <2>1, <2>4 DEF Behind
<1>. QED  BY <1>2, <1>3

LEMMA ShapeChains ==
  ASSUME NEW q \in Seq(Requests), NEW b \in Seq(Requests), Shape(q, b)
  PROVE  /\ Distinct(q) /\ Chained(q)
         /\ Distinct(b) /\ Chained(b)
<1>. USE DEF Shape
<1>1. Distinct(q) /\ Distinct(b)
  BY DEF Members, Distinct
<1>2. ASSUME NEW s \in Seq(Requests), NEW o \in Seq(Requests), Links(s), Distinct(s),
             Elements(s) \cap Elements(o) = {},
             \A u \in Threads : thread[u].at = "link"
                => JoinsFront(u, q) \/ JoinsIn(u, s) \/ JoinsIn(u, o)
      PROVE  Chained(s)
  <2>. SUFFICES ASSUME NEW i \in 1..(Len(s) - 1),
                       NEW u \in Threads, thread[u].at = "link", thread[u].prev = s[i]
                PROVE  thread[u].request = s[i + 1]
    BY <1>2, BehindNeighbour DEF Chained
  <2>1. i \in 1..Len(s) /\ s[i] \in Elements(s) /\ s[i] # None
    BY Sequence
  <2>2. ~JoinsFront(u, q)
    BY <2>1 DEF JoinsFront
  <2>3. ~JoinsIn(u, o)
    <3>. SUFFICES ASSUME NEW j \in 1..(Len(o) - 1), s[i] = o[j] PROVE FALSE
      BY DEF JoinsIn
    <3>1. o[j] \in Elements(o)
      BY Sequence
    <3>. QED  BY <1>2, <2>1, <3>1
  <2>4. PICK j \in 1..(Len(s) - 1) : s[i] = s[j] /\ thread[u].request = s[j + 1]
    BY <1>2, <2>2, <2>3 DEF JoinsIn
  <2>5. j = i
    BY <1>2, <2>1, <2>4, Sequence DEF Distinct
  <2>. QED  BY <2>4, <2>5
<1>3. Elements(q) \cap Elements(b) = {} /\ Elements(b) \cap Elements(q) = {}
  BY DEF Members
<1>4. Chained(q)
  BY <1>1, <1>2, <1>3 DEF Joins
<1>5. Chained(b)
  BY <1>1, <1>2, <1>3 DEF Joins
<1>. QED  BY <1>1, <1>4, <1>5

ReadOff == \A q, b \in Seq(Requests) : Shape(q, b) => Queued = q /\ Popped = b

LEMMA ShapeReadOff == ReadOff
<1>. SUFFICES ASSUME NEW q \in Seq(Requests), NEW b \in Seq(Requests), Shape(q, b)
              PROVE  Queued = q /\ Popped = b
  BY DEF ReadOff
<1>1. /\ q # <<>> => Path(q[1], q[Len(q)]) = q
      /\ b # <<>> => Path(b[1], b[Len(b)]) = b
  BY ShapeChains, PathIs
<1>2. Queued = q
  <2>1. CASE q = <<>>  BY <2>1 DEF Shape, Ends, Queued
  <2>2. CASE q # <<>>
    <3>1. back = q[Len(q)] /\ back # None
      BY <2>2, Sequence DEF Shape, Ends
    <3>2. (IF loop.at = "popBack" THEN loop.first ELSE Behind(None)) = q[1]
      BY <2>2, BehindFront DEF Shape, Ends
    <3>. QED  BY <1>1, <2>2, <3>1, <3>2 DEF Queued
  <2>. QED  BY <2>1, <2>2
<1>3. Popped = b
  <2>1. CASE b = <<>>
    <3>1. Len(b) = 0
      BY <2>1
    <3>2. loop.at # "walk" /\ (loop.at = "handle" => ~(loop.count > 0))
      BY <3>1 DEF Shape, Batch
    <3>. QED  BY <2>1, <3>2 DEF Popped
  <2>2. CASE b # <<>>
    <3>1. Len(b) > 0
      BY <2>2, Sequence
    <3>2. /\ loop.at = "walk" \/ (loop.at = "handle" /\ loop.count > 0)
          /\ loop.first = b[1] /\ loop.last = b[Len(b)]
      BY <2>2, <3>1 DEF Shape, Batch
    <3>. QED  BY <1>1, <2>2, <3>2 DEF Popped
  <2>. QED  BY <2>1, <2>2
<1>. QED  BY <1>2, <1>3

\* The list and its two ends are a queue of batches for any number of producers: in
\* particular `back' taken before a producer's link is made loses nothing, and no request
\* is handed out twice or before one that was pushed earlier.
THEOREM ListIsAQueue == Spec => QueueInOrder
<1>1. Init /\ ReadOff => Queue!Init
  <2>. SUFFICES ASSUME Init, ReadOff PROVE Queued = <<>> /\ Popped = <<>>
    BY DEF Queue!Init
  <2>. QED  BY DEF Init, Queued, Popped, Loop
<1>2. QInv /\ ReadOff /\ ReadOff' /\ [Next]_vars => [Queue!Next]_<<Queued, Popped>>
  <2>. SUFFICES ASSUME QInv, ReadOff, ReadOff', [Next]_vars
                PROVE  [Queue!Next]_<<Queued, Popped>>
    OBVIOUS
  <2>1. PICK q \in Seq(Requests), b \in Seq(Requests) : Shape(q, b)
    BY DEF QInv, Shaped
  <2>2. PICK q2 \in Seq(Requests), b2 \in Seq(Requests) : Shape(q2, b2)' /\ Moves(q, b, q2, b2)
    BY <2>1, ShapeStep DEF QInv, FInv
  <2>3. Queued = q /\ Popped = b
    BY <2>1 DEF ReadOff
  <2>4. Queued' = q2 /\ Popped' = b2
    BY <2>2 DEF ReadOff
  <2>. QED  BY <2>2, <2>3, <2>4 DEF Moves, Queue!Next, Queue!Push, Queue!PopBatch, Queue!Hand
<1>3. ReadOff
  BY ShapeReadOff
<1>. QED  BY <1>1, <1>2, <1>3, QInvAlways, PTL DEF Spec, QueueInOrder, Queue!Spec
=============================================================================
