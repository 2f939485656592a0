-------------------------- MODULE ThreadPoolProofs --------------------------
(***************************************************************************)
(* Proofs about ThreadPool for any finite set of threads, any numbers of   *)
(* tasks, any outcome of warm() and of the spawns, and a shutdown at any   *)
(* time.                                                                   *)
(***************************************************************************)
EXTENDS ThreadPool, FiniteSetTheorems, TLAPS

States == {"pending", "signaled", "waking", "shutdown"}

\* What TypeOK says, but that the counts are not known yet to stay above zero.
VarsTyped ==
  /\ sync \in [idle : Int, spawned : Nat, notified : BOOLEAN, state : States]
  /\ idle_event \in {EMPTY, WAITING, NOTIFIED, SHUTDOWN}
  /\ join_event \in BOOLEAN /\ exit_event \in [Workers -> BOOLEAN]
  /\ registered \in Seq(Workers)
  /\ queue \in Nat /\ consumer \in Workers \cup {None}
  /\ buffer \in [Workers -> Nat] /\ wait_group \in Int
  /\ roots \in 0..Roots /\ children \in 0..Children
  /\ failures \in 0..SpawnFailures
  /\ warmed \in BOOLEAN /\ phantoms \in Int /\ late \in BOOLEAN
PlacesTyped ==
  /\ pc \in [Threads -> OwnerAt \cup WorkerAt]
  /\ pc[Owner] \in OwnerAt /\ \A w \in Workers : pc[w] \in WorkerAt
  /\ l \in [Threads -> Locals]

\* How each worker's locals, its buffer and its claim on the run queue go with where
\* it is.  The owner always notifies as forceSpawn does.
Notifying == Passed \cup {"notify", "slow"}
Listed == {registered[i] : i \in 1..Len(registered)}

OwnerPlain == ~l[Owner].is_waking /\ l[Owner].ret = "sched"
WorkerFits(w) ==
  /\ pc[w] \in Notifying => l[w].ret \in {"run", "finish"}
  /\ l[w].is_waking =>
       /\ pc[w] \notin {"unborn", "register", "event", "sleep", "asleep", "run", "finish"}
       /\ pc[w] \in Notifying => l[w].ret = "run"
  /\ l[w].is_idle => pc[w] \in {"wait", "event", "sleep", "asleep"} /\ ~l[w].is_waking
  /\ pc[w] \in {"global", "consume", "victims", "steal"} => buffer[w] = 0
  /\ pc[w] \in {"consume", "release"} <=> consumer = w
  /\ pc[w] = "consume" => queue > 0
  /\ pc[w] \notin {"unborn", "register"} => w \in Listed
  /\ l[w].target # None => l[w].target \in Listed
Fits == OwnerPlain /\ \A w \in Workers : WorkerFits(w)

\* Nothing happens before warm() is over but workers going to sleep; after
\* shutdown() only `spawned` changes, down to zero, and that stays.
Warming == pc[Owner] = "warm" =>
  /\ sync.state = "pending" /\ ~sync.notified
  /\ \A w \in Workers : pc[w] \in {"unborn", "register", "wait", "event", "sleep", "asleep"}
Ending ==
  /\ pc[Owner] \in {"post_all", "wake_all", "join", "join_wait", "kick", "done"} =>
       sync.state = "shutdown"
  /\ pc[Owner] = "kick" => sync.spawned = 0
  /\ join_event => sync.state = "shutdown" /\ sync.spawned = 0
  /\ \A w \in Workers : pc[w] = "tell" => sync.state = "shutdown" /\ sync.spawned = 0

CInv == VarsTyped /\ PlacesTyped /\ Fits /\ Warming /\ Ending

\* The word's state follows the waking thread.
Woken == sync.state # "shutdown" =>
           /\ sync.state = "waking" <=> Wakers # {}
           /\ \A u, v \in Wakers : u = v

IdleKnown == sync.idle = IF sync.state = "shutdown" THEN 0 ELSE Cardinality(Idlers)

\* warm() may leave `spawned` too high for ever; only too low makes a thread panic.
Safe == phantoms >= 0 => Running

\* What a thread that panics had in its hands is lost.
Lost == wait_group - (queue + Cardinality(Buffered) + Cardinality(InHand))
LostKnown == Lost >= 0 /\ (Running => Lost = 0)

PInv == CInv /\ Woken /\ IdleKnown /\ SpawnedCounted /\ Safe /\ LostKnown

-----------------------------------------------------------------------------
\* Sets of threads, and the places of the buffers.

LEMMA Distinct == IsFiniteSet(Workers) /\ Owner \notin Workers /\ None \notin Threads
                  /\ IsFiniteSet(Threads) /\ MaxThreads \in Nat
<1>1. IsFiniteSet(Workers \cup {Owner})
  BY PoolAssumption, FS_AddElement
<1> QED
  BY <1>1, PoolAssumption DEF Threads

\* How the size of a set that loses or wins at most t changes.
Bit(b) == IF b THEN 1 ELSE 0
Changed(S, T, t) == Cardinality(T) = Cardinality(S) + Bit(t \in T) - Bit(t \in S)

LEMMA OneChange ==
  ASSUME NEW S, IsFiniteSet(S), NEW T, NEW t, \A u : u # t => (u \in S <=> u \in T)
  PROVE  Changed(S, T, t) /\ IsFiniteSet(T) /\ Cardinality(S) \in Nat /\ Cardinality(T) \in Nat
<1>1. Cardinality(S) \in Nat
  BY FS_CardinalityType
<1>2. CASE t \in T /\ t \notin S
  <2>1. T = S \cup {t}
    BY <1>2
  <2> QED
    BY <1>1, <1>2, <2>1, FS_AddElement DEF Changed, Bit
<1>3. CASE t \notin T /\ t \in S
  <2>1. T = S \ {t}
    BY <1>3
  <2>2. IsFiniteSet(T) /\ Cardinality(T) = Cardinality(S) - 1
    BY <1>3, <2>1, FS_RemoveElement
  <2>3. Cardinality(T) \in Nat
    BY <2>2, FS_CardinalityType
  <2> QED
    BY <1>1, <1>3, <2>2, <2>3 DEF Changed, Bit
<1>4. CASE t \in T <=> t \in S
  <2>1. T = S
    BY <1>4
  <2> QED
    BY <1>1, <2>1 DEF Changed, Bit
<1> QED
  BY <1>2, <1>3, <1>4

LEMMA SetsFinite ==
  /\ IsFiniteSet(Idlers) /\ IsFiniteSet(Live) /\ IsFiniteSet(Spawning) /\ IsFiniteSet(InHand)
  /\ Cardinality(Idlers) \in Nat /\ Cardinality(Live) \in Nat
  /\ Cardinality(Spawning) \in Nat /\ Cardinality(InHand) \in Nat
<1>1. /\ Idlers \subseteq Workers /\ Live \subseteq Workers
      /\ Spawning \subseteq Threads /\ InHand \subseteq Threads
  BY DEF Idlers, Live, Spawning, InHand
<1>2. /\ IsFiniteSet(Idlers) /\ IsFiniteSet(Live)
      /\ IsFiniteSet(Spawning) /\ IsFiniteSet(InHand)
  BY <1>1, Distinct, FS_Subset
<1> QED
  BY <1>2, FS_CardinalityType

\* Only t moves, but for sleepers that it wakes.
Stays(u) == pc'[u] = pc[u] /\ l'[u] = l[u]
Roused(u) == pc[u] = "asleep" /\ pc'[u] = "event" /\ l'[u] = Awoken(l[u])
Alone(t) == \A u \in Threads \ {t} : Stays(u) \/ Roused(u)

LEMMA Keeps ==
  ASSUME PlacesTyped, NEW u \in Threads, Stays(u) \/ Roused(u)
  PROVE  /\ u \in Idlers <=> u \in Idlers'
         /\ u \in Wakers <=> u \in Wakers'
         /\ u \in Live <=> u \in Live'
         /\ u \in Spawning <=> u \in Spawning'
         /\ u \in InHand <=> u \in InHand'
<1>1. l[u] \in Locals
  BY DEF PlacesTyped
<1>2. l'[u].is_idle = l[u].is_idle /\ l'[u].is_waking = l[u].is_waking
  BY <1>1 DEF Stays, Roused, Awoken, Locals
<1>3. CASE Stays(u)
  BY <1>3 DEF Stays, Idlers, Wakers, Live, Spawning, InHand
<1>4. CASE Roused(u)
  BY <1>2, <1>4 DEF Roused, Idlers, Wakers, Live, Spawning, InHand, Gone, Passed
<1> QED
  BY <1>3, <1>4

LEMMA AloneChanges ==
  ASSUME PlacesTyped, NEW t \in Threads, Alone(t)
  PROVE  /\ Changed(Idlers, Idlers', t) /\ Changed(Live, Live', t)
         /\ Changed(Spawning, Spawning', t) /\ Changed(InHand, InHand', t)
         /\ Wakers' \ {t} = Wakers \ {t}
<1>1. \A u \in Threads \ {t} : /\ u \in Idlers <=> u \in Idlers'
                               /\ u \in Wakers <=> u \in Wakers'
                               /\ u \in Live <=> u \in Live'
                               /\ u \in Spawning <=> u \in Spawning'
                               /\ u \in InHand <=> u \in InHand'
  BY Keeps DEF Alone
<1>2. /\ Idlers \subseteq Threads /\ Idlers' \subseteq Threads
      /\ Wakers \subseteq Threads /\ Wakers' \subseteq Threads
      /\ Live \subseteq Threads /\ Live' \subseteq Threads
      /\ Spawning \subseteq Threads /\ Spawning' \subseteq Threads
      /\ InHand \subseteq Threads /\ InHand' \subseteq Threads
  BY DEF Idlers, Wakers, Live, Spawning, InHand, Threads
<1>3. \A u : u # t => /\ u \in Idlers <=> u \in Idlers'
                      /\ u \in Live <=> u \in Live'
                      /\ u \in Spawning <=> u \in Spawning'
                      /\ u \in InHand <=> u \in InHand'
  BY <1>1, <1>2
<1>4. Wakers' \ {t} = Wakers \ {t}
  BY <1>1, <1>2
<1> QED
  BY <1>3, <1>4, SetsFinite, OneChange

\* The places of the buffers b: as many as there are tasks in them.
Row(b, w) == {w} \X (1..b[w])
Rows(b) == UNION {Row(b, w) : w \in Workers}

LEMMA RowSize ==
  ASSUME NEW b \in [Workers -> Nat], NEW w \in Workers
  PROVE  IsFiniteSet(Row(b, w)) /\ Cardinality(Row(b, w)) = b[w]
<1>1. IsFiniteSet({w}) /\ Cardinality({w}) = 1
  BY FS_Singleton
<1>2. b[w] \in Nat
  OBVIOUS
<1>3. IsFiniteSet(1..b[w]) /\ Cardinality(1..b[w]) = b[w]
  BY <1>2, FS_Interval
<1>4. /\ IsFiniteSet({w} \X (1..b[w]))
      /\ Cardinality({w} \X (1..b[w])) = Cardinality({w}) * Cardinality(1..b[w])
  BY <1>1, <1>3, FS_Product
<1> QED
  BY <1>1, <1>2, <1>3, <1>4 DEF Row

LEMMA RowsFinite ==
  ASSUME NEW b \in [Workers -> Nat], NEW W \in SUBSET Workers
  PROVE  IsFiniteSet(UNION {Row(b, w) : w \in W})
<1> DEFINE T == {Row(b, w) : w \in W}
           f == [w \in W |-> Row(b, w)]
<1>1. f \in Surjection(W, T)
  BY DEF Surjection
<1>2. IsFiniteSet(W)
  BY Distinct, FS_Subset
<1>3. IsFiniteSet(T)
  BY <1>1, <1>2, FS_Surjection
<1>4. \A r \in T : IsFiniteSet(r)
  BY RowSize
<1> QED
  BY <1>3, <1>4, FS_UNION

LEMMA RowsChange ==
  ASSUME NEW b \in [Workers -> Nat], NEW w \in Workers, NEW n \in Nat
  PROVE  /\ IsFiniteSet(Rows(b)) /\ Cardinality(Rows(b)) \in Nat
         /\ Cardinality(Rows([b EXCEPT ![w] = n])) = Cardinality(Rows(b)) + n - b[w]
<1> DEFINE c == [b EXCEPT ![w] = n]
           Rest == UNION {Row(b, v) : v \in Workers \ {w}}
<1>1. c \in [Workers -> Nat] /\ c[w] = n /\ \A v \in Workers \ {w} : Row(c, v) = Row(b, v)
  BY DEF Row
<1>2. IsFiniteSet(Rest) /\ Cardinality(Rest) \in Nat
  BY RowsFinite, FS_CardinalityType
<1>3. ASSUME NEW d \in [Workers -> Nat], \A v \in Workers \ {w} : Row(d, v) = Row(b, v)
      PROVE  /\ IsFiniteSet(Rows(d)) /\ Cardinality(Rows(d)) = Cardinality(Rest) + d[w]
  <2>1. Rows(d) = Rest \cup Row(d, w)
    BY <1>3 DEF Rows
  <2>2. Rest \cap Row(d, w) = {}
    BY DEF Row
  <2>3. IsFiniteSet(Row(d, w)) /\ Cardinality(Row(d, w)) = d[w] /\ d[w] \in Nat
    BY RowSize
  <2> HIDE DEF Rest
  <2> QED
    BY <1>2, <2>1, <2>2, <2>3, FS_Union, FS_EmptySet
<1>4. IsFiniteSet(Rows(b)) /\ Cardinality(Rows(b)) = Cardinality(Rest) + b[w]
  BY <1>3
<1>5. Cardinality(Rows(c)) = Cardinality(Rest) + n
  BY <1>1, <1>3
<1>6. b[w] \in Nat
  OBVIOUS
<1> HIDE DEF Rest, c
<1> QED
  BY <1>2, <1>4, <1>5, <1>6 DEF c

LEMMA BufferedRows == Buffered = Rows(buffer)
BY DEF Buffered, Rows, Row

-----------------------------------------------------------------------------
\* Who moves in a step, and where to.

LEMMA Moves ==
  ASSUME PlacesTyped, NEW t \in Threads, NEW from, NEW to, NEW locals \in Locals,
         Move(t, from, to, locals),
         t = Owner => to \in OwnerAt, t # Owner => to \in WorkerAt
  PROVE  /\ PlacesTyped' /\ Alone(t)
         /\ pc[t] = from /\ pc'[t] = to /\ l'[t] = locals
BY Distinct DEF Move, PlacesTyped, Threads, Alone, Stays

LEMMA LocalsExcept ==
  ASSUME NEW m \in Locals
  PROVE  /\ \A x, y \in BOOLEAN : [m EXCEPT !.is_waking = x, !.is_idle = y] \in Locals
         /\ \A x \in BOOLEAN : /\ [m EXCEPT !.is_idle = x] \in Locals
                               /\ [m EXCEPT !.is_waking = x] \in Locals
                               /\ [m EXCEPT !.pushed = x] \in Locals
                               /\ [m EXCEPT !.shrunk = x] \in Locals
         /\ \A x \in {EMPTY, WAITING} : [m EXCEPT !.acquire_with = x] \in Locals
         /\ \A x \in {EMPTY, WAITING}, y \in BOOLEAN :
              [m EXCEPT !.acquire_with = x, !.shrunk = y] \in Locals
         /\ \A x \in Nat : [m EXCEPT !.attempts = x] \in Locals
         /\ \A x \in Nat, y \in Workers \cup {None} :
              [m EXCEPT !.attempts = x, !.target = y] \in Locals
         /\ \A x \in {"sched", "run", "finish"} : [m EXCEPT !.ret = x] \in Locals
BY DEF Locals

LEMMA LocalsAfter ==
  ASSUME NEW m \in Locals, NEW t
  PROVE  /\ Notified(t, m) \in Locals /\ Awoken(m) \in Locals
         /\ [Awoken(m) EXCEPT !.shrunk = TRUE] \in Locals
         /\ Notified(t, m).is_idle = m.is_idle
         /\ Notified(t, m).is_waking = (m.is_waking /\ m.ret # "run")
         /\ Notified(t, m).target = m.target /\ Notified(t, m).ret = m.ret
         /\ Awoken(m).is_idle = m.is_idle /\ Awoken(m).is_waking = m.is_waking
         /\ Awoken(m).target = m.target /\ Awoken(m).ret = m.ret
BY DEF Locals, Notified, Awoken

\* The stack of registered threads below a registered one.
LEMMA BelowListed ==
  ASSUME VarsTyped, NEW v \in Listed
  PROVE  Below(v) \in Listed \cup {None} /\ Below(v) \in Workers \cup {None}
<1> DEFINE i == CHOOSE n \in 1..Len(registered) : registered[n] = v
<1>1. i \in 1..Len(registered)
  BY DEF Listed
<1>2. Len(registered) \in Nat /\ \A n \in 1..Len(registered) : registered[n] \in Workers
  BY DEF VarsTyped
<1>3. i # Len(registered) => i + 1 \in 1..Len(registered)
  BY <1>1, <1>2
<1> HIDE DEF i
<1>4. Below(v) = IF i = Len(registered) THEN None ELSE registered[i + 1]
  BY DEF Below, i
<1> QED
  BY <1>2, <1>3, <1>4 DEF Listed

LEMMA Victims ==
  ASSUME CInv, NEW w \in Workers, pc[w] = "steal",
         NEW v, v = IF l[w].target = None THEN registered[1] ELSE l[w].target
  PROVE  v \in Listed /\ v \in Workers
<1>1. w \in Listed
  BY DEF CInv, Fits, WorkerFits
<1>2. Len(registered) \in Nat /\ \A n \in 1..Len(registered) : registered[n] \in Workers
  BY DEF CInv, VarsTyped
<1>3. 1 \in 1..Len(registered)
  BY <1>1, <1>2 DEF Listed
<1>4. l[w].target # None => l[w].target \in Listed
  BY DEF CInv, Fits, WorkerFits
<1> QED
  BY <1>2, <1>3, <1>4 DEF Listed

LEMMA WorkerMoves ==
  ASSUME CInv, NEW w \in Workers, WorkerStep(w) \/ ScheduleInside(w) \/ SpuriousWake(w)
  PROVE  PlacesTyped' /\ Alone(w)
<1> DEFINE Goes == \E from, to, m : m \in Locals /\ to \in WorkerAt /\ Move(w, from, to, m)
<1>a. PlacesTyped /\ l[w] \in Locals /\ w # Owner /\ w \in Threads
  BY Distinct DEF CInv, PlacesTyped, Threads
<1>b. Goes => PlacesTyped' /\ Alone(w)
  BY <1>a, Moves
<1>c. \A from, to : Goto(w, from, to) /\ to \in WorkerAt => Goes
  BY <1>a DEF Goto
<1> USE DEF WorkerAt
<1>1. Register(w) \/ Run(w) \/ Finish(w) \/ Tell(w) \/ Linger(w) \/ ReleaseConsumer(w) => Goes
  BY <1>c DEF Register, Run, Finish, Tell, Linger, ReleaseConsumer
<1>2. EventLoop(w) \/ TryConsume(w) => Goes
  BY <1>c DEF EventLoop, TryConsume
<1>3. Unregister(w) => Goes
  <2>1. AfterUnspawn(IF Last THEN "tell" ELSE "linger") \in WorkerAt
    BY DEF AfterUnspawn
  <2> QED
    BY <1>c, <2>1 DEF Unregister
<1>4. Sleep(w) \/ SpuriousWake(w) \/ Timeout(w) => Goes
  BY <1>a, <1>c, LocalsAfter DEF Sleep, SpuriousWake, Timeout
<1>5. LeaveOnShutdown(w) \/ BecomeIdle(w) \/ EnterEvent(w) => Goes
  BY <1>a, LocalsExcept DEF LeaveOnShutdown, BecomeIdle, EnterEvent
<1>6. ConsumeNotification(w) => Goes
  <2>1. (l[w].is_waking \/ sync.state = "signaled") \in BOOLEAN
    OBVIOUS
  <2>2. [l[w] EXCEPT !.is_waking = @ \/ sync.state = "signaled", !.is_idle = FALSE] \in Locals
    BY <1>a, <2>1, LocalsExcept
  <2> QED
    BY <2>2 DEF ConsumeNotification
<1>7. PopBuffer(w) \/ Consume(w) => Goes
  <2>1. [l[w] EXCEPT !.pushed = FALSE] \in Locals
    BY <1>a, LocalsExcept
  <2>2. (queue > 1) \in BOOLEAN
    OBVIOUS
  <2>3. [l[w] EXCEPT !.pushed = queue > 1] \in Locals
    BY <1>a, <2>2, LocalsExcept
  <2>4. PopBuffer(w) => Goes
    BY <1>c, <2>1 DEF PopBuffer
  <2>5. Consume(w) => Goes
    BY <2>3 DEF Consume
  <2> QED
    BY <2>4, <2>5
<1>8. Found(w) \/ ScheduleInside(w) => Goes
  BY <1>a, <1>c, LocalsExcept DEF Found, ScheduleInside
<1>9. CountVictims(w) => Goes
  <2>1. sync.spawned \in Nat
    BY DEF CInv, VarsTyped
  <2> QED
    BY <1>a, <2>1, LocalsExcept DEF CountVictims
<1>10. Steal(w) => Goes
  <2> SUFFICES ASSUME Steal(w) PROVE Goes
    OBVIOUS
  <2> DEFINE victim == IF l[w].target = None THEN registered[1] ELSE l[w].target
             half == buffer[victim] - (buffer[victim] \div 2)
             next == [l[w] EXCEPT !.attempts = @ - 1, !.target = Below(victim)]
  <2>1. pc[w] = "steal"
    BY DEF Steal
  <2>2. Below(victim) \in Workers \cup {None}
    BY <2>1, Victims, BelowListed DEF CInv
  <2>3. l[w].attempts \in Nat
    BY <1>a DEF Locals
  <2>4. l[w].attempts > 0 => next \in Locals
    <3>1. l[w].attempts > 0 => l[w].attempts - 1 \in Nat
      BY <2>3
    <3> HIDE DEF victim
    <3> QED
      BY <1>a, <2>2, <3>1, LocalsExcept
  <2>5. l[w].attempts > 0 => [next EXCEPT !.attempts = 0, !.pushed = half > 1] \in Locals
    <3>1. \A m \in Locals, b \in BOOLEAN : [m EXCEPT !.attempts = 0, !.pushed = b] \in Locals
      BY DEF Locals
    <3>2. (half > 1) \in BOOLEAN
      OBVIOUS
    <3> HIDE DEF next, half
    <3> QED
      BY <2>4, <3>1, <3>2
  <2> HIDE DEF next
  <2>6. \/ Goto(w, "steal", "wait")
        \/ l[w].attempts > 0 /\ Move(w, "steal", "steal", next)
        \/ /\ l[w].attempts > 0
           /\ Move(w, "steal", "found", [next EXCEPT !.attempts = 0, !.pushed = half > 1])
    BY Zenon DEF Steal, next
  <2> QED
    BY <1>c, <2>4, <2>5, <2>6
<1> QED
  BY <1>b, <1>1, <1>2, <1>3, <1>4, <1>5, <1>6, <1>7, <1>8, <1>9, <1>10 DEF WorkerStep

\* notify() spawns the thread w.
Bears(t, w) == /\ pc[t] = "spawn" /\ pc[w] = "unborn"
               /\ pc' = [pc EXCEPT ![t] = l[t].ret, ![w] = "register"]
               /\ l' = [l EXCEPT ![t] = Notified(t, @)]

LEMMA Returns ==
  ASSUME CInv, NEW t \in Threads, pc[t] \in Notifying
  PROVE  /\ l[t].ret \in {"sched", "run", "finish"}
         /\ t = Owner => l[t].ret \in OwnerAt /\ l[t].ret = "sched"
         /\ t # Owner => l[t].ret \in WorkerAt /\ l[t].ret \in {"run", "finish"}
BY DEF CInv, Fits, OwnerPlain, WorkerFits, Threads, OwnerAt, WorkerAt

LEMMA NotifyMoves ==
  ASSUME CInv, NEW t \in Threads, NotifyStep(t)
  PROVE  PlacesTyped' /\ (Alone(t) \/ \E w \in Workers : Bears(t, w))
<1> DEFINE Fit(p) == (t = Owner => p \in OwnerAt) /\ (t # Owner => p \in WorkerAt)
           Goes == \E from, to, m : m \in Locals /\ Fit(to) /\ Move(t, from, to, m)
<1>a. PlacesTyped /\ l[t] \in Locals /\ Notified(t, l[t]) \in Locals
  BY LocalsAfter DEF CInv, PlacesTyped
<1>b. Goes => PlacesTyped' /\ Alone(t)
  BY <1>a, Moves
<1>c. \A from, to : Goto(t, from, to) /\ Fit(to) => Goes
  BY <1>a DEF Goto
<1>d. pc[t] \in Notifying => Fit(l[t].ret)
  BY Returns
<1>e. \A p \in {"slow", "post", "wake", "spawn", "panic"} : Fit(p)
  BY DEF OwnerAt, WorkerAt
<1> HIDE DEF Fit
<1> USE DEF Notifying, Passed
<1>1. Notify(t) => Goes
  BY <1>c, <1>d, <1>e DEF Notify, Goto, Move
<1>2. NotifySlow(t) => Goes
  <2> HIDE DEF Goes
  <2>1. ASSUME pc[t] = "slow", Goto(t, "slow", "post") \/ Goto(t, "slow", "spawn") PROVE Goes
    BY <1>c, <1>e, <2>1
  <2>2. ASSUME pc[t] = "slow", Move(t, "slow", l[t].ret, Notified(t, l[t])) PROVE Goes
    BY <1>a, <1>d, <2>2 DEF Goes
  <2> QED
    BY <2>1, <2>2 DEF NotifySlow
<1>3. Post(t) => Goes
  BY <1>a, <1>c, <1>d, <1>e DEF Post, Goto, Move
<1>4. Wake(t) => PlacesTyped' /\ Alone(t)
  <2> SUFFICES ASSUME Wake(t) PROVE PlacesTyped' /\ Alone(t)
    OBVIOUS
  <2>1. pc[t] = "wake" /\ Fit(l[t].ret)
    BY <1>d DEF Wake
  <2>2. CASE Move(t, "wake", l[t].ret, Notified(t, l[t]))
    BY <1>a, <1>b, <2>1, <2>2
  <2>3. ASSUME NEW w \in Asleep,
               pc' = [pc EXCEPT ![t] = l[t].ret, ![w] = "event"],
               l' = [l EXCEPT ![t] = Notified(t, @), ![w] = Awoken(@)]
        PROVE  PlacesTyped' /\ Alone(t)
    <3>1. w \in Workers /\ w \in Threads /\ w # Owner /\ pc[w] = "asleep" /\ w # t
      BY <2>1, Distinct DEF Asleep, Threads
    <3>2. Awoken(l[w]) \in Locals
      BY <1>a, <3>1, LocalsAfter DEF PlacesTyped
    <3>3. pc'[t] = l[t].ret /\ pc'[w] = "event" /\ l'[w] = Awoken(l[w])
          /\ \A u \in Threads \ {t, w} : pc'[u] = pc[u] /\ l'[u] = l[u]
      BY <1>a, <2>3, <3>1 DEF PlacesTyped
    <3>4. l' \in [Threads -> Locals] /\ DOMAIN pc' = Threads
      BY <1>a, <2>3, <3>1, <3>2 DEF PlacesTyped
    <3>5. pc'[Owner] \in OwnerAt /\ \A u \in Workers : pc'[u] \in WorkerAt
      BY <1>a, <2>1, <3>1, <3>3, Distinct DEF PlacesTyped, Fit, Threads, WorkerAt
    <3>6. pc' \in [Threads -> OwnerAt \cup WorkerAt]
      BY <1>a, <2>3, <3>1, <3>5 DEF PlacesTyped, Threads
    <3> QED
      BY <3>1, <3>3, <3>4, <3>5, <3>6 DEF PlacesTyped, Alone, Stays, Roused
  <2> QED
    BY <2>2, <2>3 DEF Wake
<1>5. Spawn(t) => PlacesTyped' /\ (Alone(t) \/ \E w \in Workers : Bears(t, w))
  <2> SUFFICES ASSUME Spawn(t)
               PROVE  PlacesTyped' /\ (Alone(t) \/ \E w \in Workers : Bears(t, w))
    OBVIOUS
  <2>1. pc[t] = "spawn" /\ Fit(l[t].ret) /\ l' = [l EXCEPT ![t] = Notified(t, @)]
    BY <1>d DEF Spawn
  <2>2. CASE pc' = [pc EXCEPT ![t] = AfterUnspawn(l[t].ret)]
    <3>1. Fit(AfterUnspawn(l[t].ret))
      BY <1>e, <2>1 DEF AfterUnspawn
    <3>2. Move(t, "spawn", AfterUnspawn(l[t].ret), Notified(t, l[t]))
      BY <2>1, <2>2 DEF Move
    <3> QED
      BY <1>a, <1>b, <3>1, <3>2
  <2>3. ASSUME NEW w \in Workers, pc[w] = "unborn",
               pc' = [pc EXCEPT ![t] = l[t].ret, ![w] = "register"]
        PROVE  PlacesTyped' /\ Bears(t, w)
    <3>1. w \in Threads /\ w # Owner /\ w # t
      BY <2>1, <2>3, Distinct DEF Threads
    <3>2. l' \in [Threads -> Locals]
      BY <1>a, <2>1 DEF PlacesTyped
    <3>3. pc'[Owner] \in OwnerAt /\ \A u \in Workers : pc'[u] \in WorkerAt
      BY <1>a, <2>1, <2>3, <3>1, Distinct DEF PlacesTyped, Fit, Threads, WorkerAt
    <3>4. pc' \in [Threads -> OwnerAt \cup WorkerAt]
      BY <1>a, <2>3, <3>1, <3>3 DEF PlacesTyped, Threads
    <3> QED
      BY <2>1, <2>3, <3>2, <3>3, <3>4 DEF PlacesTyped, Bears
  <2> QED
    BY <2>2, <2>3 DEF Spawn
<1> HIDE DEF Goes
<1> QED
  BY <1>b, <1>1, <1>2, <1>3, <1>4, <1>5 DEF NotifyStep

LEMMA OwnerMoves ==
  ASSUME CInv, OwnerStep
  PROVE  /\ PlacesTyped'
         /\ \/ Alone(Owner)
            \/ \E w \in Workers : Warm /\ pc[w] = "unborn" /\ pc'[w] = "register"
                                /\ Alone(w) /\ l' = l
<1> DEFINE Goes == \E from, to : to \in OwnerAt /\ Goto(Owner, from, to)
<1>a. PlacesTyped /\ Owner \in Threads /\ l[Owner] \in Locals
  BY DEF CInv, PlacesTyped, Threads
<1>b. Goes => PlacesTyped' /\ Alone(Owner)
  BY <1>a, Moves DEF Goto
<1> USE DEF OwnerAt
<1>1. NoWarm \/ Schedule \/ Push \/ Await \/ Shutdown => Goes
  BY DEF NoWarm, Schedule, Push, Await, Shutdown
<1>2. PostAll \/ Join \/ JoinWait \/ Kick => Goes
  BY DEF PostAll, Join, JoinWait, Kick
<1>3. WakeAll => PlacesTyped' /\ Alone(Owner)
  <2> SUFFICES ASSUME WakeAll PROVE PlacesTyped' /\ Alone(Owner)
    OBVIOUS
  <2>1. \A t \in Threads : l[t] \in Locals /\ Awoken(l[t]) \in Locals
    BY <1>a, LocalsAfter DEF PlacesTyped
  <2>2. l' \in [Threads -> Locals]
    BY <2>1 DEF WakeAll
  <2>3. Owner \notin Asleep /\ Asleep \subseteq Threads /\ \A t \in Asleep : pc[t] = "asleep"
    BY Distinct DEF Asleep, Threads
  <2>4. \A t \in Threads \ {Owner} : IF t \in Asleep THEN pc'[t] = "event" /\ l'[t] = Awoken(l[t])
                                      ELSE pc'[t] = pc[t] /\ l'[t] = l[t]
    BY DEF WakeAll
  <2>5. pc'[Owner] \in OwnerAt /\ \A w \in Workers : pc'[w] \in WorkerAt
    <3>1. pc'[Owner] = "join"
      BY <1>a DEF WakeAll
    <3>2. "event" \in WorkerAt
      BY DEF WorkerAt
    <3> QED
      BY <1>a, <2>4, <3>1, <3>2, Distinct DEF PlacesTyped, Threads
  <2>6. pc' \in [Threads -> OwnerAt \cup WorkerAt]
    <3>1. \A t \in Threads : pc'[t] \in OwnerAt \cup WorkerAt
      BY <2>5 DEF Threads
    <3> QED
      BY <3>1 DEF WakeAll
  <2> QED
    BY <2>2, <2>3, <2>4, <2>5, <2>6 DEF PlacesTyped, Alone, Stays, Roused
<1>4. ASSUME Warm
      PROVE  \/ Goes
             \/ \E w \in Workers : /\ pc[w] = "unborn" /\ pc' = [pc EXCEPT ![w] = "register"]
                                 /\ l' = l
  <2>1. AfterUnspawn("sched") \in OwnerAt
    BY DEF AfterUnspawn
  <2> QED
    BY <1>4, <2>1 DEF Warm
<1>5. ASSUME NEW w \in Workers, pc[w] = "unborn", pc' = [pc EXCEPT ![w] = "register"], l' = l
      PROVE  PlacesTyped' /\ Alone(w) /\ pc'[w] = "register"
  <2>1. Move(w, "unborn", "register", l[w]) /\ w \in Threads /\ w # Owner
    BY <1>a, <1>5, Distinct DEF Move, PlacesTyped, Threads
  <2>2. l[w] \in Locals /\ "register" \in WorkerAt
    BY <1>a, <2>1 DEF PlacesTyped, WorkerAt
  <2> QED
    BY <1>a, <2>1, <2>2, Moves
<1> HIDE DEF Goes
<1> QED
  BY <1>b, <1>1, <1>2, <1>3, <1>4, <1>5 DEF OwnerStep

-----------------------------------------------------------------------------
\* The types.

SyncType == [idle : Int, spawned : Nat, notified : BOOLEAN, state : States]

LEMMA SyncExcept ==
  ASSUME NEW s \in SyncType
  PROVE  /\ [s EXCEPT !.notified = TRUE, !.state = "shutdown", !.idle = 0] \in SyncType
         /\ [s EXCEPT !.notified = TRUE, !.state = "signaled"] \in SyncType
         /\ [s EXCEPT !.notified = TRUE, !.state = "signaled", !.spawned = @ + 1] \in SyncType
         /\ [s EXCEPT !.spawned = @ + 1] \in SyncType
         /\ [s EXCEPT !.spawned = IF @ = 0 THEN 0 ELSE @ - 1] \in SyncType
<1>1. [s EXCEPT !.notified = TRUE, !.state = "shutdown", !.idle = 0] \in SyncType
  BY "shutdown" \in States, TRUE \in BOOLEAN, 0 \in Int DEF SyncType, States
<1>2. [s EXCEPT !.notified = TRUE, !.state = "signaled"] \in SyncType
  BY "signaled" \in States, TRUE \in BOOLEAN DEF SyncType, States
<1>3. [s EXCEPT !.notified = TRUE, !.state = "signaled", !.spawned = @ + 1] \in SyncType
  <2>1. s.spawned + 1 \in Nat
    BY DEF SyncType
  <2> QED
    BY <2>1, "signaled" \in States, TRUE \in BOOLEAN DEF SyncType, States
<1>4. [s EXCEPT !.spawned = @ + 1] \in SyncType
  BY DEF SyncType
<1>5. [s EXCEPT !.spawned = IF @ = 0 THEN 0 ELSE @ - 1] \in SyncType
  BY DEF SyncType
<1> QED
  BY <1>1, <1>2, <1>3, <1>4, <1>5

LEMMA SyncTurned ==
  ASSUME NEW s \in SyncType, NEW x \in BOOLEAN, NEW y \in States, NEW n \in Int
  PROVE  /\ [s EXCEPT !.notified = x, !.state = y] \in SyncType
         /\ [s EXCEPT !.notified = x, !.idle = n, !.state = y] \in SyncType
         /\ [s EXCEPT !.idle = n, !.state = y] \in SyncType
BY DEF SyncType

LEMMA WorkerVars ==
  ASSUME CInv, NEW w \in Workers, WorkerStep(w) \/ ScheduleInside(w) \/ SpuriousWake(w)
  PROVE  VarsTyped'
<1>a. VarsTyped /\ WorkerFits(w) /\ l[w] \in Locals
  BY DEF CInv, Fits, PlacesTyped, Threads
<1>b. ASSUME UNCHANGED <<sync, events, registered, queues, wait_group, bounds>>
      PROVE  VarsTyped'
  BY <1>a, <1>b DEF VarsTyped, events, queues, bounds, warming
<1>1. SpuriousWake(w) \/ LeaveOnShutdown(w) \/ EnterEvent(w) \/ Sleep(w) => VarsTyped'
  BY <1>b DEF SpuriousWake, LeaveOnShutdown, EnterEvent, Sleep
<1>2. Timeout(w) \/ CountVictims(w) \/ Found(w) \/ Run(w) => VarsTyped'
  BY <1>b DEF Timeout, CountVictims, Found, Run
<1>3. ScheduleInside(w) => VarsTyped'
  <2>1. ScheduleInside(w) => children' \in 0..Children
    <3>1. children \in 0..Children /\ Children \in Nat
      BY <1>a, PoolAssumption DEF VarsTyped
    <3>2. children > 0 => children - 1 \in 0..Children
      BY <3>1
    <3> QED
      BY <3>2 DEF ScheduleInside
  <2>2. ScheduleInside(w) => buffer' \in [Workers -> Nat]
    BY <1>a DEF ScheduleInside, VarsTyped
  <2>3. ScheduleInside(w) => /\ UNCHANGED <<sync, idle_event, join_event, exit_event, registered,
                                             queue, consumer, roots, failures, warmed, phantoms,
                                             late>>
                             /\ wait_group' = wait_group + 1
    BY DEF ScheduleInside, events, warming
  <2> QED
    BY <1>a, <2>1, <2>2, <2>3 DEF VarsTyped
<1>4. Register(w) => VarsTyped'
  <2>1. Register(w) => registered' \in Seq(Workers)
    BY <1>a DEF Register, VarsTyped
  <2> QED
    BY <1>a, <2>1 DEF Register, VarsTyped, events, queues, bounds, warming
<1>5. ConsumeNotification(w) \/ BecomeIdle(w) => VarsTyped'
  <2>1. sync \in SyncType /\ IdleAfter(w) \in Int
    BY <1>a DEF IdleAfter, VarsTyped, SyncType
  <2>2. /\ (IF sync.state = "signaled" THEN "waking" ELSE sync.state) \in States
        /\ (IF l[w].is_waking THEN "pending" ELSE sync.state) \in States
        /\ sync.idle + 1 \in Int
    BY <2>1 DEF SyncType, States
  <2>3. ConsumeNotification(w) => sync' \in SyncType
    <3>1. [sync EXCEPT !.notified = FALSE, !.idle = IdleAfter(w),
             !.state = IF @ = "signaled" THEN "waking" ELSE @] \in SyncType
      BY <2>1, <2>2, FALSE \in BOOLEAN, SyncTurned
    <3> QED
      BY <3>1 DEF ConsumeNotification
  <2>4. BecomeIdle(w) => sync' \in SyncType
    <3>1. [sync EXCEPT !.idle = @ + 1, !.state = IF l[w].is_waking THEN "pending" ELSE @]
            \in SyncType
      BY <2>1, <2>2, FALSE \in BOOLEAN, SyncTurned
    <3> QED
      BY <3>1 DEF BecomeIdle
  <2> QED
    BY <1>a, <2>3, <2>4 DEF ConsumeNotification, BecomeIdle, VarsTyped, SyncType, events,
                            queues, bounds, warming
<1>6. EventLoop(w) => VarsTyped'
  BY <1>a DEF EventLoop, VarsTyped, Locals, queues, bounds, warming
<1>7. PopBuffer(w) \/ TryConsume(w) \/ ReleaseConsumer(w) => VarsTyped'
  <2>1. buffer[w] > 0 => buffer[w] - 1 \in Nat
    BY <1>a DEF VarsTyped
  <2>2. PopBuffer(w) => buffer' \in [Workers -> Nat]
    BY <1>a, <2>1 DEF PopBuffer, VarsTyped
  <2> QED
    BY <1>a, <2>2 DEF PopBuffer, TryConsume, ReleaseConsumer, VarsTyped, events, bounds,
                      warming
<1>8. Consume(w) => VarsTyped'
  <2>1. Consume(w) => Kept(queue) \in Nat
    BY <1>a DEF Consume, Move, WorkerFits, VarsTyped, Kept
  <2> QED
    BY <1>a, <2>1 DEF Consume, VarsTyped, events, bounds, warming
<1>9. Steal(w) => VarsTyped'
  <2> SUFFICES ASSUME Steal(w) PROVE VarsTyped'
    OBVIOUS
  <2> DEFINE victim == IF l[w].target = None THEN registered[1] ELSE l[w].target
             half == buffer[victim] - (buffer[victim] \div 2)
  <2>1. victim \in Workers
    BY Victims DEF Steal
  <2>2. buffer[victim] \in Nat
    BY <1>a, <2>1 DEF VarsTyped
  <2>3. half \in Nat /\ half <= buffer[victim]
    BY <2>2
  <2>4. UNCHANGED <<sync, events, registered, queue, consumer, wait_group, bounds>>
        /\ \/ UNCHANGED buffer
           \/ half > 0 /\ buffer' = [buffer EXCEPT ![victim] = @ - half, ![w] = Kept(half)]
    BY DEF Steal
  <2> HIDE DEF victim, half
  <2>5. buffer' \in [Workers -> Nat]
    <3>1. buffer[victim] - half \in Nat /\ (half > 0 => Kept(half) \in Nat)
      BY <2>2, <2>3 DEF Kept
    <3> QED
      BY <1>a, <2>1, <2>4, <3>1 DEF VarsTyped
  <2> QED
    BY <1>a, <2>4, <2>5 DEF VarsTyped, events, bounds, warming
<1>10. Finish(w) => VarsTyped'
  BY <1>a DEF Finish, VarsTyped, events, queues, bounds, warming
<1>11. Unregister(w) => VarsTyped'
  <2>1. Unregister(w) => sync' \in SyncType
    <3>1. sync \in SyncType
      BY <1>a DEF VarsTyped, SyncType
    <3> QED
      BY <3>1, SyncExcept DEF Unregister, Unspawned
  <2> QED
    BY <1>a, <2>1 DEF Unregister, SyncType, VarsTyped, events, queues, bounds, warming
<1>12. Tell(w) => VarsTyped'
  BY <1>a DEF Tell, VarsTyped, queues, bounds, warming
<1>13. Linger(w) => VarsTyped'
  <2>1. Linger(w) => w \in Listed
    BY <1>a DEF Linger, Goto, Move, WorkerFits
  <2>2. Linger(w) => exit_event' \in [Workers -> BOOLEAN]
    BY <1>a, <2>1, BelowListed DEF Linger, PassOn, VarsTyped
  <2> QED
    BY <1>a, <2>2 DEF Linger, VarsTyped, queues, bounds, warming
<1> QED
  BY <1>1, <1>2, <1>3, <1>4, <1>5, <1>6, <1>7, <1>8, <1>9, <1>10, <1>11, <1>12, <1>13
     DEF WorkerStep

LEMMA OtherVars ==
  ASSUME CInv, OwnerStep \/ \E t \in Threads : NotifyStep(t)
  PROVE  VarsTyped'
<1>a. VarsTyped /\ sync \in SyncType
  BY DEF CInv, VarsTyped, SyncType
<1> USE DEF events, queues, bounds, warming
<1>1. NoWarm \/ Schedule \/ Push \/ Await => VarsTyped'
  <2>1. roots > 0 => roots - 1 \in 0..Roots
    BY <1>a, PoolAssumption DEF VarsTyped
  <2>2. NoWarm \/ Push \/ Await => VarsTyped'
    BY <1>a DEF NoWarm, Push, Await, VarsTyped
  <2>3. Schedule => VarsTyped'
    BY <1>a, <2>1 DEF Schedule, VarsTyped
  <2> QED
    BY <2>2, <2>3
<1>2. Shutdown => VarsTyped'
  <2>1. Shutdown => sync' \in SyncType
    BY <1>a, SyncExcept DEF Shutdown
  <2> QED
    BY <1>a, <2>1 DEF Shutdown, VarsTyped, SyncType
<1>3. PostAll \/ WakeAll \/ Join \/ JoinWait => VarsTyped'
  BY <1>a DEF PostAll, WakeAll, Join, JoinWait, VarsTyped
<1>4. Kick => VarsTyped'
  BY <1>a DEF Kick, VarsTyped
<1>5. Warm => VarsTyped'
  <2>1. Warm => sync' \in SyncType
    BY <1>a, SyncExcept DEF Warm, Unspawned
  <2>2. Warm => /\ UNCHANGED <<events, registered, queues, wait_group, roots, children, late>>
                /\ failures' = failures \/ (failures > 0 /\ failures' = failures - 1)
                /\ UNCHANGED warming \/ WarmCounts(1) \/ WarmCounts(-1)
    BY DEF Warm
  <2>3. Warm => failures' \in 0..SpawnFailures /\ warmed' \in BOOLEAN /\ phantoms' \in Int
    <3>1. failures \in 0..SpawnFailures /\ phantoms \in Int /\ warmed \in BOOLEAN
      BY <1>a DEF VarsTyped
    <3>2. failures > 0 => failures - 1 \in 0..SpawnFailures
      BY <3>1, PoolAssumption
    <3>3. phantoms + 1 \in Int /\ phantoms + (-1) \in Int
      BY <3>1
    <3> QED
      BY <2>2, <3>1, <3>2, <3>3 DEF WarmCounts
  <2> QED
    BY <1>a, <2>1, <2>2, <2>3 DEF SyncType, VarsTyped
<1>6. ASSUME NEW t \in Threads, NotifyStep(t) PROVE VarsTyped'
  <2>1. Notify(t) \/ Post(t) \/ Wake(t) => VarsTyped'
    BY <1>a DEF Notify, Post, Wake, VarsTyped
  <2>2. NotifySlow(t) => VarsTyped'
    <3>1. [sync EXCEPT !.notified = TRUE, !.state = IF Waking(t) THEN "pending" ELSE @]
            \in SyncType
      <4>1. (IF Waking(t) THEN "pending" ELSE sync.state) \in States
        BY <1>a DEF SyncType, States
      <4> QED
        BY <1>a, <4>1, TRUE \in BOOLEAN, 0 \in Int, SyncTurned
    <3>2. NotifySlow(t) => sync' \in SyncType
      BY <1>a, <3>1, SyncExcept DEF NotifySlow
    <3> QED
      BY <1>a, <3>2 DEF NotifySlow, VarsTyped, SyncType
  <2>3. Spawn(t) => VarsTyped'
    <3>1. Spawn(t) => sync' \in SyncType
      BY <1>a, SyncExcept DEF Spawn, Unspawned
    <3>2. Spawn(t) => join_event' \in BOOLEAN /\ failures' \in 0..SpawnFailures
      <4>1. (join_event \/ Last) \in BOOLEAN
        OBVIOUS
      <4>2. failures > 0 => failures - 1 \in 0..SpawnFailures
        BY <1>a, PoolAssumption DEF VarsTyped
      <4> QED
        BY <1>a, <4>1, <4>2 DEF Spawn, VarsTyped
    <3> QED
      BY <1>a, <3>1, <3>2 DEF Spawn, VarsTyped, SyncType
  <2> QED
    BY <1>6, <2>1, <2>2, <2>3 DEF NotifyStep
<1> QED
  BY <1>1, <1>2, <1>3, <1>4, <1>5, <1>6 DEF OwnerStep

-----------------------------------------------------------------------------
\* Locals, buffers and the claim on the run queue.

\* The step leaves u's buffer and claim as WorkerFits wants them.
Spares(u) == /\ buffer[u] = 0 => buffer'[u] = 0
             /\ consumer' = u <=> consumer = u
             /\ pc[u] = "consume" => queue' > 0
Quiet == UNCHANGED <<registered, queues>>

LEMMA OthersFit ==
  ASSUME CInv, NEW t \in Threads, Alone(t), Listed \subseteq Listed',
         \A u \in Workers \ {t} : Spares(u)
  PROVE  /\ \A u \in Workers \ {t} : WorkerFits(u)'
         /\ t # Owner => OwnerPlain'
<1>1. PlacesTyped /\ Fits
  BY DEF CInv
<1>2. ASSUME NEW u \in Workers \ {t} PROVE WorkerFits(u)'
  <2>1. WorkerFits(u) /\ Spares(u) /\ l[u] \in Locals /\ u \in Threads
    BY <1>1, <1>2 DEF Fits, PlacesTyped, Threads
  <2>2. CASE Stays(u)
    BY <2>1, <2>2 DEF Stays, WorkerFits, Spares
  <2>3. CASE Roused(u)
    <3>1. l'[u].is_waking = l[u].is_waking /\ l'[u].is_idle = l[u].is_idle
          /\ l'[u].target = l[u].target
      <4>1. l[u] \in Locals /\ l'[u] = Awoken(l[u])
        BY <2>1, <2>3 DEF Roused
      <4> QED
        BY <4>1 DEF Awoken, Locals
    <3> QED
      BY <2>1, <2>3, <3>1 DEF Roused, WorkerFits, Spares, Notifying, Passed
  <2> QED
    BY <2>1, <2>2, <2>3 DEF Alone
<1>3. t # Owner => OwnerPlain'
  <2>1. pc[Owner] # "asleep"
    BY <1>1 DEF PlacesTyped, OwnerAt
  <2> QED
    BY <1>1, <2>1 DEF Alone, Stays, Roused, Fits, OwnerPlain, Threads
<1> QED
  BY <1>2, <1>3

LEMMA QuietSpares ==
  ASSUME CInv, Quiet
  PROVE  Listed' = Listed /\ \A u \in Workers : Spares(u)
BY DEF CInv, Fits, WorkerFits, Quiet, queues, Listed, Spares

LEMMA WorkerFitsStep ==
  ASSUME CInv, NEW w \in Workers, WorkerStep(w) \/ ScheduleInside(w) \/ SpuriousWake(w)
  PROVE  Fits'
<1>a. /\ PlacesTyped /\ Fits /\ WorkerFits(w) /\ l[w] \in Locals /\ Alone(w)
      /\ w \in Threads /\ w # Owner /\ VarsTyped
  BY WorkerMoves, Distinct DEF CInv, Fits, PlacesTyped, Threads
<1>b. ASSUME NEW from, NEW to, NEW m, Move(w, from, to, m)
      PROVE  pc[w] = from /\ pc'[w] = to /\ l'[w] = m
  BY <1>a, <1>b DEF PlacesTyped, Move
<1>c. ASSUME NEW from, NEW to, Goto(w, from, to)
      PROVE  pc[w] = from /\ pc'[w] = to /\ l'[w] = l[w]
  BY <1>b, <1>c DEF Goto
<1>d. ASSUME WorkerFits(w)', Listed \subseteq Listed', \A u \in Workers \ {w} : Spares(u)
      PROVE  Fits'
  BY <1>a, <1>d, OthersFit DEF Fits
<1>e. ASSUME Quiet, WorkerFits(w)' PROVE Fits'
  BY <1>d, <1>e, QuietSpares
<1>1. ASSUME SpuriousWake(w) \/ Timeout(w) \/ Sleep(w) PROVE Fits'
  <2>1. Quiet /\ pc[w] \in {"sleep", "asleep"} /\ pc'[w] \in {"event", "asleep"}
    BY <1>1, <1>b, <1>c DEF SpuriousWake, Timeout, Sleep, Quiet
  <2>2. l'[w].is_waking = l[w].is_waking /\ l'[w].is_idle = l[w].is_idle
        /\ l'[w].target = l[w].target
    <3>1. [Awoken(l[w]) EXCEPT !.shrunk = TRUE].is_waking = l[w].is_waking
          /\ [Awoken(l[w]) EXCEPT !.shrunk = TRUE].is_idle = l[w].is_idle
          /\ [Awoken(l[w]) EXCEPT !.shrunk = TRUE].target = l[w].target
      BY <1>a DEF Awoken, Locals
    <3>2. l'[w] \in {l[w], Awoken(l[w]), [Awoken(l[w]) EXCEPT !.shrunk = TRUE]}
      BY <1>1, <1>b, <1>c DEF SpuriousWake, Timeout, Sleep
    <3> QED
      BY <1>a, <3>1, <3>2, LocalsAfter
  <2> QED
    BY <1>a, <1>e, <2>1, <2>2 DEF WorkerFits, Quiet, queues, Listed, Notifying, Passed
<1>2. ASSUME LeaveOnShutdown(w) \/ ConsumeNotification(w) \/ BecomeIdle(w) \/ EnterEvent(w)
      PROVE  Fits'
  <2>1. Quiet /\ pc[w] = "wait" /\ pc'[w] \in {"unregister", "pop", "wait", "event"}
    BY <1>2, <1>b DEF LeaveOnShutdown, ConsumeNotification, BecomeIdle, EnterEvent, Quiet
  <2>2. /\ pc'[w] \in {"unregister", "pop"} => ~l'[w].is_idle
        /\ pc'[w] = "wait" => ~l'[w].is_waking
        /\ pc'[w] = "event" => ~l'[w].is_waking
        /\ l'[w].target = l[w].target
    <3>1. CASE LeaveOnShutdown(w)
      BY <1>a, <1>b, <3>1 DEF LeaveOnShutdown, Locals
    <3>2. CASE ConsumeNotification(w)
      <4> DEFINE b == l[w].is_waking \/ sync.state = "signaled"
                 m == [l[w] EXCEPT !.is_waking = b, !.is_idle = FALSE]
      <4>1. m.is_idle = FALSE /\ m.target = l[w].target
        BY <1>a DEF Locals
      <4>2. pc'[w] = "pop" /\ l'[w] = m
        BY <1>b, <3>2 DEF ConsumeNotification
      <4> HIDE DEF m
      <4> QED
        BY <4>1, <4>2
    <3>3. CASE BecomeIdle(w)
      <4> DEFINE m == [l[w] EXCEPT !.is_waking = FALSE, !.is_idle = TRUE,
                               !.acquire_with = EMPTY, !.shrunk = FALSE]
      <4>1. m.is_waking = FALSE /\ m.target = l[w].target
        BY <1>a DEF Locals
      <4>2. pc'[w] = "event" /\ l'[w] = m
        BY <1>b, <3>3 DEF BecomeIdle
      <4> HIDE DEF m
      <4> QED
        BY <4>1, <4>2
    <3>4. CASE EnterEvent(w)
      <4> DEFINE m == [l[w] EXCEPT !.acquire_with = EMPTY, !.shrunk = FALSE]
      <4>1. m.is_waking = l[w].is_waking /\ m.target = l[w].target
        BY <1>a DEF Locals
      <4>2. pc'[w] = "event" /\ l'[w] = m /\ l[w].is_idle
        BY <1>b, <3>4 DEF EnterEvent
      <4> HIDE DEF m
      <4> QED
        BY <1>a, <4>1, <4>2 DEF WorkerFits
    <3> QED
      BY <1>2, <3>1, <3>2, <3>3, <3>4
  <2> QED
    BY <1>a, <1>e, <2>1, <2>2 DEF WorkerFits, Quiet, queues, Listed, Notifying, Passed
<1>3. ASSUME Register(w) PROVE Fits'
  <2>1. pc[w] = "register" /\ pc'[w] = "wait" /\ l'[w] = l[w] /\ UNCHANGED queues
    BY <1>3, <1>c DEF Register
  <2>2. Listed' = Listed \cup {w}
    <3>1. registered \in Seq(Workers) /\ registered' = <<w>> \o registered
      BY <1>3, <1>a DEF Register, VarsTyped
    <3>2. Len(registered') = Len(registered) + 1 /\ Len(registered) \in Nat
          /\ \A i \in 1..Len(registered') :
               registered'[i] = IF i = 1 THEN w ELSE registered[i - 1]
      BY <3>1
    <3>3. registered'[1] = w /\ \A i \in 1..Len(registered) : registered'[i + 1] = registered[i]
      BY <3>2
    <3> QED
      BY <3>2, <3>3 DEF Listed
  <2>3. WorkerFits(w)'
    BY <1>a, <2>1, <2>2 DEF WorkerFits, queues, Notifying, Passed
  <2>4. \A u \in Workers : Spares(u)
    BY <1>a, <2>1 DEF Spares, queues, Fits, WorkerFits
  <2> QED
    BY <1>d, <2>2, <2>3, <2>4
<1>4. ASSUME EventLoop(w) PROVE Fits'
  <2>1. Quiet /\ pc[w] = "event" /\ pc'[w] \in {"wait", "sleep"} /\ l'[w] = l[w]
    BY <1>4, <1>c DEF EventLoop, Quiet
  <2> QED
    BY <1>a, <1>e, <2>1 DEF WorkerFits, Quiet, queues, Listed, Notifying, Passed
<1>5. ASSUME PopBuffer(w) PROVE Fits'
  <2>1. /\ pc[w] = "pop" /\ UNCHANGED <<registered, queue, consumer>>
        /\ \/ /\ pc'[w] = "found" /\ buffer' = [buffer EXCEPT ![w] = @ - 1]
              /\ l'[w] = [l[w] EXCEPT !.pushed = FALSE]
           \/ pc'[w] = "global" /\ l'[w] = l[w] /\ buffer' = buffer /\ buffer[w] = 0
    <3>1. buffer[w] \in Nat
      BY <1>a DEF VarsTyped
    <3> QED
      BY <1>5, <1>b, <1>c, <3>1 DEF PopBuffer
  <2>2. l'[w].is_waking = l[w].is_waking /\ l'[w].is_idle = l[w].is_idle
        /\ l'[w].target = l[w].target
    BY <1>a, <2>1 DEF Locals
  <2>3. Listed' = Listed /\ \A u \in Workers \ {w} : Spares(u)
    <3>1. \A u \in Workers \ {w} : buffer'[u] = buffer[u]
      BY <1>a, <2>1 DEF VarsTyped
    <3> QED
      BY <1>a, <2>1, <3>1 DEF Listed, Spares, Fits, WorkerFits
  <2>4. WorkerFits(w)'
    BY <1>a, <2>1, <2>2, <2>3 DEF WorkerFits, Notifying, Passed
  <2> QED
    BY <1>d, <2>3, <2>4
<1>6. ASSUME TryConsume(w) PROVE Fits'
  <2>1. /\ pc[w] = "global" /\ UNCHANGED <<registered, queue, buffer>> /\ l'[w] = l[w]
        /\ \/ pc'[w] = "consume" /\ consumer' = w /\ consumer = None /\ queue > 0
           \/ pc'[w] = "victims" /\ consumer' = consumer
    BY <1>6, <1>c DEF TryConsume
  <2>2. Listed' = Listed /\ \A u \in Workers \ {w} : Spares(u)
    BY <1>a, <2>1, Distinct DEF Listed, Spares, Fits, WorkerFits, Threads
  <2>3. WorkerFits(w)'
    BY <1>a, <2>1, <2>2 DEF WorkerFits, Notifying, Passed
  <2> QED
    BY <1>d, <2>2, <2>3
<1>7. ASSUME Consume(w) \/ ReleaseConsumer(w) PROVE Fits'
  <2>1. /\ UNCHANGED registered
        /\ \/ /\ pc[w] = "consume" /\ pc'[w] = "release" /\ UNCHANGED consumer
              /\ l'[w] = [l[w] EXCEPT !.pushed = queue > 1]
              /\ buffer' = [buffer EXCEPT ![w] = Kept(queue)]
           \/ /\ pc[w] = "release" /\ pc'[w] = "found" /\ l'[w] = l[w] /\ consumer' = None
              /\ UNCHANGED <<queue, buffer>>
    BY <1>7, <1>b, <1>c DEF Consume, ReleaseConsumer
  <2>2. l'[w].is_waking = l[w].is_waking /\ l'[w].is_idle = l[w].is_idle
        /\ l'[w].target = l[w].target
    BY <1>a, <2>1 DEF Locals
  <2>3. consumer = w /\ w # None
    BY <1>a, <2>1, Distinct DEF WorkerFits
  <2>4. Listed' = Listed /\ \A u \in Workers \ {w} : Spares(u)
    <3>1. \A u \in Workers \ {w} : buffer'[u] = buffer[u] /\ consumer # u /\ consumer' # u
      BY <1>a, <2>1, <2>3, Distinct DEF VarsTyped, Threads
    <3>2. \A u \in Workers \ {w} : pc[u] # "consume"
      BY <1>a, <3>1 DEF Fits, WorkerFits
    <3> QED
      BY <2>1, <3>1, <3>2 DEF Listed, Spares
  <2>5. WorkerFits(w)'
    BY <1>a, <2>1, <2>2, <2>3, <2>4 DEF WorkerFits, Notifying, Passed
  <2> QED
    BY <1>d, <2>4, <2>5
<1>8. ASSUME CountVictims(w) PROVE Fits'
  <2>1. Quiet /\ pc[w] = "victims" /\ pc'[w] = "steal"
        /\ l'[w] = [l[w] EXCEPT !.attempts = sync.spawned]
    BY <1>8, <1>b DEF CountVictims, Quiet
  <2>2. l'[w].is_waking = l[w].is_waking /\ l'[w].is_idle = l[w].is_idle
        /\ l'[w].target = l[w].target
    BY <1>a, <2>1 DEF Locals
  <2> QED
    BY <1>a, <1>e, <2>1, <2>2 DEF WorkerFits, Quiet, queues, Listed, Notifying, Passed
<1>9. ASSUME Steal(w) PROVE Fits'
  <2> DEFINE victim == IF l[w].target = None THEN registered[1] ELSE l[w].target
             half == buffer[victim] - (buffer[victim] \div 2)
             next == [l[w] EXCEPT !.attempts = @ - 1, !.target = Below(victim)]
             last == [next EXCEPT !.attempts = 0, !.pushed = half > 1]
  <2>1. pc[w] = "steal" /\ UNCHANGED <<registered, queue, consumer>>
    BY <1>9 DEF Steal
  <2>2. victim \in Workers /\ Below(victim) \in Listed \cup {None}
    BY <2>1, Victims, BelowListed DEF CInv
  <2>3. /\ next.is_waking = l[w].is_waking /\ next.is_idle = l[w].is_idle
        /\ next.target = Below(victim)
        /\ last.is_waking = l[w].is_waking /\ last.is_idle = l[w].is_idle
        /\ last.target = Below(victim)
    <3> HIDE DEF victim, half
    <3> QED
      BY <1>a DEF Locals
  <2>4. buffer[victim] \in Nat /\ (buffer[victim] = 0 => half = 0)
    BY <1>a, <2>2 DEF VarsTyped
  <2>5. \/ pc'[w] = "wait" /\ l'[w] = l[w] /\ UNCHANGED buffer
        \/ pc'[w] = "steal" /\ l'[w] = next /\ UNCHANGED buffer
        \/ /\ pc'[w] = "found" /\ l'[w] = last /\ victim # w /\ half > 0
           /\ buffer' = [buffer EXCEPT ![victim] = @ - half, ![w] = Kept(half)]
    <3>1. \/ Goto(w, "steal", "wait") /\ UNCHANGED buffer
          \/ Move(w, "steal", "steal", next) /\ UNCHANGED buffer
          \/ /\ Move(w, "steal", "found", last) /\ victim # w /\ half > 0
             /\ buffer' = [buffer EXCEPT ![victim] = @ - half, ![w] = Kept(half)]
      BY <1>9, Zenon DEF Steal
    <3> HIDE DEF victim, half, next, last
    <3> QED
      BY <3>1, <1>b, <1>c
  <2> HIDE DEF victim, half, next, last
  <2>6. /\ l'[w].is_waking = l[w].is_waking /\ l'[w].is_idle = l[w].is_idle
        /\ l'[w].target # None => l'[w].target \in Listed
    BY <1>a, <2>2, <2>3, <2>5 DEF WorkerFits
  <2>7. Listed' = Listed
    BY <2>1 DEF Listed
  <2>8. ASSUME NEW u \in Workers \ {w} PROVE Spares(u)
    <3>1. WorkerFits(u) /\ (buffer[u] = 0 => buffer'[u] = 0)
      BY <1>a, <2>2, <2>4, <2>5 DEF Fits, VarsTyped
    <3> QED
      BY <2>1, <3>1 DEF Spares, WorkerFits
  <2>9. pc'[w] = "steal" => buffer'[w] = 0
    BY <1>a, <2>1, <2>5 DEF WorkerFits
  <2>10. pc'[w] \in {"wait", "steal", "found"}
    BY <2>5
  <2>11. WorkerFits(w)'
    BY <1>a, <2>1, <2>6, <2>7, <2>9, <2>10 DEF WorkerFits, Notifying, Passed
  <2> QED
    BY <1>d, <2>7, <2>8, <2>11
<1>10. ASSUME Found(w) \/ Run(w) \/ Finish(w) PROVE Fits'
  <2>1. /\ Quiet /\ pc[w] \in {"found", "run", "finish"}
        /\ \/ /\ pc[w] = "found" /\ pc'[w] = "notify" /\ l'[w] = [l[w] EXCEPT !.ret = "run"]
           \/ /\ pc[w] = "found" /\ pc'[w] = "run" /\ l'[w] = l[w] /\ ~l[w].is_waking
           \/ /\ pc[w] # "found" /\ pc'[w] \in {"finish", "pop"} /\ l'[w] = l[w]
    BY <1>10, <1>b, <1>c DEF Found, Run, Finish, Quiet
  <2>2. /\ l'[w].is_waking = l[w].is_waking /\ l'[w].is_idle = l[w].is_idle
        /\ l'[w].target = l[w].target
        /\ pc'[w] = "notify" => l'[w].ret = "run"
    BY <1>a, <2>1 DEF Locals
  <2> QED
    BY <1>a, <1>e, <2>1, <2>2 DEF WorkerFits, Quiet, queues, Listed, Notifying, Passed
<1>11. ASSUME ScheduleInside(w) PROVE Fits'
  <2>1. /\ pc[w] = "run" /\ pc'[w] = "notify" /\ l'[w] = [l[w] EXCEPT !.ret = "finish"]
        /\ buffer' = [buffer EXCEPT ![w] = @ + 1] /\ UNCHANGED <<registered, queue, consumer>>
    BY <1>11, <1>b DEF ScheduleInside
  <2>2. /\ l'[w].is_waking = l[w].is_waking /\ l'[w].is_idle = l[w].is_idle
        /\ l'[w].target = l[w].target /\ l'[w].ret = "finish"
    BY <1>a, <2>1 DEF Locals
  <2>3. Listed' = Listed /\ \A u \in Workers \ {w} : Spares(u)
    <3>1. \A u \in Workers \ {w} : buffer'[u] = buffer[u]
      BY <1>a, <2>1 DEF VarsTyped
    <3> QED
      BY <1>a, <2>1, <3>1 DEF Listed, Spares, Fits, WorkerFits
  <2>4. WorkerFits(w)'
    BY <1>a, <2>1, <2>2, <2>3 DEF WorkerFits, Notifying, Passed
  <2> QED
    BY <1>d, <2>3, <2>4
<1>12. ASSUME Unregister(w) \/ Tell(w) \/ Linger(w) PROVE Fits'
  <2>1. Quiet /\ pc[w] \in {"unregister", "tell", "linger"} /\ l'[w] = l[w]
        /\ pc'[w] \in {"panic", "tell", "linger", "exited"}
    BY <1>12, <1>c DEF Unregister, Tell, Linger, Quiet, AfterUnspawn
  <2> QED
    BY <1>a, <1>e, <2>1 DEF WorkerFits, Quiet, queues, Listed, Notifying, Passed
<1> QED
  BY <1>1, <1>2, <1>3, <1>4, <1>5, <1>6, <1>7, <1>8, <1>9, <1>10, <1>11, <1>12 DEF WorkerStep

\* What notify() does to the thread that calls it.
LEMMA NotifyEffect ==
  ASSUME CInv, NEW t \in Threads, NotifyStep(t)
  PROVE  /\ Quiet /\ wait_group' = wait_group /\ pc[t] \in Notifying
         /\ pc'[t] \in {"slow", "post", "wake", "spawn", l[t].ret, "panic"}
         /\ l'[t].ret = l[t].ret /\ l'[t].is_idle = l[t].is_idle /\ l'[t].target = l[t].target
         /\ l'[t].is_waking = IF pc'[t] \in Notifying THEN l[t].is_waking
                              ELSE l[t].is_waking /\ l[t].ret # "run"
<1>a. /\ PlacesTyped /\ l[t] \in Locals
      /\ pc[t] \in Notifying => l[t].ret \in {"sched", "run", "finish"}
  BY Returns DEF CInv, PlacesTyped
<1>b. l[t] \in Locals
  BY <1>a
<1>c. ASSUME NEW from, NEW to, NEW m, Move(t, from, to, m)
      PROVE  pc[t] = from /\ pc'[t] = to /\ l'[t] = m
  BY <1>a, <1>c DEF PlacesTyped, Move
<1>d. ASSUME NEW from, NEW to, Goto(t, from, to)
      PROVE  pc[t] = from /\ pc'[t] = to /\ l'[t] = l[t]
  BY <1>c, <1>d DEF Goto
<1>1. Quiet /\ wait_group' = wait_group /\ pc[t] \in Notifying
  <2>1. Notify(t) \/ Post(t) => pc[t] \in {"notify", "post"} /\ Quiet /\ wait_group' = wait_group
    BY <1>c, <1>d DEF Notify, Post, Quiet
  <2>2. NotifySlow(t) \/ Wake(t) \/ Spawn(t)
          => pc[t] \in {"slow", "wake", "spawn"} /\ Quiet /\ wait_group' = wait_group
    BY DEF NotifySlow, Wake, Spawn, Quiet
  <2> QED
    BY <2>1, <2>2 DEF NotifyStep, Notifying, Passed
<1>2. \/ pc'[t] \in {"slow", "post", "wake", "spawn"} /\ l'[t] = l[t]
      \/ pc'[t] = l[t].ret /\ l'[t] = l[t] /\ ~Waking(t)
      \/ pc'[t] \in {l[t].ret, "panic"} /\ l'[t] = Notified(t, l[t])
  <2>1. CASE Notify(t)
    BY <1>d, <2>1 DEF Notify
  <2>2. CASE NotifySlow(t)
    BY <1>c, <1>d, <2>2 DEF NotifySlow
  <2>3. CASE Post(t)
    BY <1>c, <1>d, <2>3 DEF Post
  <2>4. CASE Wake(t)
    <3>1. ASSUME NEW w \in Asleep, pc[t] = "wake",
                 pc' = [pc EXCEPT ![t] = l[t].ret, ![w] = "event"],
                 l' = [l EXCEPT ![t] = Notified(t, @), ![w] = Awoken(@)]
          PROVE  pc'[t] = l[t].ret /\ l'[t] = Notified(t, l[t])
      <4>1. w # t
        BY <3>1 DEF Asleep
      <4> QED
        BY <1>a, <3>1, <4>1 DEF PlacesTyped
    <3> QED
      BY <1>c, <2>4, <3>1 DEF Wake
  <2>5. CASE Spawn(t)
    <3>1. l'[t] = Notified(t, l[t])
      BY <1>a, <2>5 DEF Spawn, PlacesTyped
    <3>2. ASSUME NEW w \in Workers, pc[t] = "spawn", pc[w] = "unborn",
                 pc' = [pc EXCEPT ![t] = l[t].ret, ![w] = "register"]
          PROVE  pc'[t] = l[t].ret
      BY <1>a, <3>2 DEF PlacesTyped
    <3>3. pc' = [pc EXCEPT ![t] = AfterUnspawn(l[t].ret)] => pc'[t] \in {l[t].ret, "panic"}
      BY <1>a DEF PlacesTyped, AfterUnspawn
    <3> QED
      BY <2>5, <3>1, <3>2, <3>3 DEF Spawn
  <2> QED
    BY <2>1, <2>2, <2>3, <2>4, <2>5 DEF NotifyStep
<1>3. l[t].is_waking \in BOOLEAN
  BY <1>a DEF Locals
<1>4. pc'[t] \in {l[t].ret, "panic"} => pc'[t] \notin Notifying
  BY <1>1, <1>a DEF Notifying, Passed
<1>5. pc'[t] \in {"slow", "post", "wake", "spawn"} => pc'[t] \in Notifying
  BY DEF Notifying, Passed
<1>6. CASE pc'[t] \in {"slow", "post", "wake", "spawn"} /\ l'[t] = l[t]
  BY <1>1, <1>5, <1>6
<1>7. CASE pc'[t] = l[t].ret /\ l'[t] = l[t] /\ ~Waking(t)
  <2>1. pc'[t] \notin Notifying
    BY <1>4, <1>7
  <2>2. l[t].is_waking = (l[t].is_waking /\ l[t].ret # "run")
    BY <1>3, <1>7 DEF Waking
  <2> QED
    BY <1>1, <1>7, <2>1, <2>2
<1>8. CASE pc'[t] \in {l[t].ret, "panic"} /\ l'[t] = Notified(t, l[t])
  <2>1. pc'[t] \notin Notifying
    BY <1>4, <1>8
  <2>2. /\ l'[t].ret = l[t].ret /\ l'[t].is_idle = l[t].is_idle /\ l'[t].target = l[t].target
        /\ l'[t].is_waking = (l[t].is_waking /\ l[t].ret # "run")
    <3>1. /\ Notified(t, l[t]).ret = l[t].ret /\ Notified(t, l[t]).is_idle = l[t].is_idle
          /\ Notified(t, l[t]).target = l[t].target
      BY <1>b DEF Locals, Notified
    <3>2. Notified(t, l[t]).is_waking = (l[t].is_waking /\ l[t].ret # "run")
      BY <1>b DEF Locals, Notified
    <3> QED
      BY <1>8, <3>1, <3>2
  <2> QED
    BY <1>1, <1>8, <2>1, <2>2
<1> QED
  BY <1>2, <1>6, <1>7, <1>8

LEMMA NotifyFitsStep ==
  ASSUME CInv, NEW t \in Threads, NotifyStep(t)
  PROVE  Fits'
<1>1. PlacesTyped /\ Fits /\ Quiet /\ pc[t] \in Notifying /\ Owner \in Threads
  BY NotifyEffect DEF CInv, Threads
<1>2. Listed' = Listed /\ \A u \in Workers : Spares(u)
  BY <1>1, QuietSpares
<1>3. t = Owner => OwnerPlain'
  BY <1>1, NotifyEffect DEF Fits, OwnerPlain
<1>4. t \in Workers => WorkerFits(t)'
  <2> SUFFICES ASSUME t \in Workers PROVE WorkerFits(t)'
    OBVIOUS
  <2>1. WorkerFits(t) /\ l[t].ret \in {"run", "finish"}
    BY <1>1 DEF Fits, WorkerFits
  <2>2. /\ pc'[t] \notin {"global", "consume", "victims", "steal", "release"}
        /\ pc'[t] \notin {"unborn", "register", "event", "sleep", "asleep"}
        /\ pc[t] \notin {"consume", "release"}
        /\ consumer' = consumer /\ l[t].is_idle = FALSE
    <3>1. l[t].is_idle \in BOOLEAN
      BY <1>1 DEF PlacesTyped, Locals
    <3> QED
      BY <1>1, <2>1, <3>1, NotifyEffect DEF WorkerFits, Notifying, Passed, Quiet, queues
  <2> QED
    BY <1>1, <1>2, <2>1, <2>2, NotifyEffect DEF WorkerFits, Notifying, Passed
<1>5. CASE Alone(t)
  BY <1>2, <1>3, <1>4, <1>5, OthersFit DEF Fits, Threads
<1>6. ASSUME NEW w \in Workers, Bears(t, w) PROVE Fits'
  <2>1. w # t /\ w \in Threads /\ \A u \in Threads \ {t, w} : Stays(u)
    BY <1>1, <1>6 DEF Bears, PlacesTyped, Threads, Stays
  <2>2. pc[w] = "unborn" /\ pc'[w] = "register" /\ l'[w] = l[w]
    BY <1>1, <1>6, <2>1 DEF Bears, PlacesTyped
  <2>3. \A u \in Workers \ {t, w} : WorkerFits(u)'
    BY <1>1, <1>2, <2>1 DEF Fits, WorkerFits, Spares, Stays, Threads
  <2>4. WorkerFits(w)'
    BY <1>1, <1>2, <2>2 DEF Fits, WorkerFits, Spares, Quiet, queues, Notifying, Passed
  <2>5. OwnerPlain'
    BY <1>1, <1>3, <2>1, Distinct DEF Fits, OwnerPlain, Stays
  <2> QED
    BY <1>4, <2>3, <2>4, <2>5 DEF Fits
<1> QED
  BY <1>5, <1>6, NotifyMoves

LEMMA OwnerFitsStep ==
  ASSUME CInv, OwnerStep
  PROVE  Fits'
<1>1. PlacesTyped /\ Fits /\ Owner \in Threads
  BY DEF CInv, Threads
<1>2. /\ UNCHANGED <<registered, consumer, buffer>> /\ queue' \in {queue, queue + 1}
      /\ l'[Owner] = l[Owner]
  <2>1. \A from, to : Goto(Owner, from, to) => l'[Owner] = l[Owner]
    BY <1>1 DEF Goto, Move, PlacesTyped
  <2>2. NoWarm \/ Schedule \/ Push \/ Await \/ Shutdown
          => /\ UNCHANGED <<registered, consumer, buffer>>
             /\ queue' \in {queue, queue + 1} /\ l'[Owner] = l[Owner]
    BY <2>1 DEF NoWarm, Schedule, Push, Await, Shutdown, queues
  <2>3. PostAll \/ Join \/ JoinWait \/ Kick => Quiet /\ l'[Owner] = l[Owner]
    BY <2>1 DEF PostAll, Join, JoinWait, Kick, Quiet
  <2>4. WakeAll => Quiet /\ l'[Owner] = l[Owner]
    BY Distinct DEF WakeAll, Quiet, Asleep, Threads
  <2>5. Warm => Quiet /\ l'[Owner] = l[Owner]
    BY <2>1 DEF Warm, Quiet
  <2> QED
    BY <2>2, <2>3, <2>4, <2>5 DEF OwnerStep, Quiet, queues
<1>3. Listed' = Listed /\ \A u \in Workers : Spares(u)
  <2>1. queue \in Nat
    BY DEF CInv, VarsTyped
  <2> QED
    BY <1>1, <1>2, <2>1 DEF Fits, WorkerFits, Listed, Spares
<1>4. OwnerPlain'
  BY <1>1, <1>2 DEF Fits, OwnerPlain
<1>5. CASE Alone(Owner)
  BY <1>1, <1>3, <1>4, <1>5, OthersFit, Distinct DEF Fits
<1>6. ASSUME NEW w \in Workers, pc[w] = "unborn", pc'[w] = "register", Alone(w), l' = l
      PROVE  Fits'
  <2>1. WorkerFits(w)'
    BY <1>1, <1>2, <1>3, <1>6 DEF Fits, WorkerFits, Notifying, Passed
  <2> QED
    BY <1>1, <1>3, <1>4, <1>6, <2>1, OthersFit DEF Fits, Threads
<1> QED
  BY <1>5, <1>6, OwnerMoves

-----------------------------------------------------------------------------
\* Before warm() is over, and after shutdown().

LEMMA NextSteps ==
  ASSUME Next
  PROVE  \/ OwnerStep
         \/ \E t \in Threads : NotifyStep(t)
         \/ \E w \in Workers : WorkerStep(w) \/ ScheduleInside(w) \/ SpuriousWake(w)
BY DEF Next

LEMMA ShutKept ==
  ASSUME CInv, Next, sync.state = "shutdown"
  PROVE  sync'.state = "shutdown" /\ (sync.spawned = 0 => sync'.spawned = 0)
<1>1. sync \in SyncType
  BY DEF CInv, VarsTyped, SyncType
<1>2. Unspawned => sync'.state = "shutdown" /\ (sync.spawned = 0 => sync'.spawned = 0)
  BY <1>1 DEF Unspawned, SyncType
<1>3. CASE OwnerStep
  <2>1. Warm => pc[Owner] = "warm"
    BY DEF Warm, Goto, Move
  <2>2. ~Warm
    BY <2>1 DEF CInv, Warming
  <2>3. Shutdown => sync'.state = "shutdown" /\ sync'.spawned = sync.spawned
    BY <1>1 DEF Shutdown, SyncType
  <2>4. ~Shutdown => sync' = sync
    BY <1>3, <2>2 DEF OwnerStep, NoWarm, Schedule, Push, Await, PostAll, WakeAll, Join, JoinWait,
                      Kick
  <2> QED
    BY <2>3, <2>4
<1>4. ASSUME NEW t \in Threads, NotifyStep(t)
      PROVE  sync' = sync \/ Unspawned
  BY <1>4 DEF NotifyStep, Notify, NotifySlow, Post, Wake, Spawn
<1>5. ASSUME NEW w \in Workers, WorkerStep(w) \/ ScheduleInside(w) \/ SpuriousWake(w)
      PROVE  sync' = sync \/ Unspawned
  <2>1. ~ConsumeNotification(w) /\ ~BecomeIdle(w) /\ ~EnterEvent(w)
    BY DEF ConsumeNotification, BecomeIdle, EnterEvent
  <2>2. ScheduleInside(w) \/ SpuriousWake(w) \/ Register(w) \/ LeaveOnShutdown(w) \/ EventLoop(w)
          => sync' = sync
    BY DEF ScheduleInside, SpuriousWake, Register, LeaveOnShutdown, EventLoop
  <2>3. Sleep(w) \/ Timeout(w) \/ PopBuffer(w) \/ TryConsume(w) \/ Consume(w) \/ ReleaseConsumer(w)
          => sync' = sync
    BY DEF Sleep, Timeout, PopBuffer, TryConsume, Consume, ReleaseConsumer
  <2>4. CountVictims(w) \/ Steal(w) \/ Found(w) \/ Run(w) \/ Finish(w) \/ Tell(w) \/ Linger(w)
          => sync' = sync
    BY DEF CountVictims, Steal, Found, Run, Finish, Tell, Linger
  <2>5. Unregister(w) => Unspawned
    BY DEF Unregister
  <2> QED
    BY <1>5, <2>1, <2>2, <2>3, <2>4, <2>5 DEF WorkerStep
<1> QED
  BY <1>2, <1>3, <1>4, <1>5, NextSteps

Early == {"unborn", "register", "wait", "event", "sleep", "asleep"}

LEMMA WarmingStep ==
  ASSUME CInv, Next
  PROVE  Warming'
<1> SUFFICES ASSUME pc'[Owner] = "warm" PROVE Warming'
  BY DEF Warming
<1>1. PlacesTyped /\ Owner \in Threads /\ sync \in SyncType
  BY DEF CInv, VarsTyped, SyncType, Threads
<1>2. pc[Owner] = "warm" /\ \A t \in Threads : ~NotifyStep(t)
  <2>1. ASSUME NEW t \in Threads, NotifyStep(t) PROVE FALSE
    <3>1. pc[t] \in Notifying /\ pc'[t] # "warm"
      BY <2>1, NotifyEffect, Returns
    <3>2. t # Owner /\ pc'[Owner] = pc[Owner]
      <4>1. CASE Alone(t)
        BY <1>1, <3>1, <4>1 DEF Alone, Stays, Roused
      <4>2. ASSUME NEW w \in Workers, Bears(t, w) PROVE t # Owner /\ pc'[Owner] = pc[Owner]
        BY <1>1, <3>1, <4>2, Distinct DEF Bears, PlacesTyped
      <4> QED
        BY <2>1, <4>1, <4>2, NotifyMoves
    <3>3. t \in Workers /\ pc[t] \in Early
      BY <3>2 DEF CInv, Warming, Early, Threads
    <3> QED
      BY <3>1, <3>3 DEF Notifying, Passed, Early
  <2>2. CASE OwnerStep
    <3>1. ASSUME NEW from, NEW to, Goto(Owner, from, to) PROVE pc'[Owner] = to
      BY <1>1, <3>1 DEF PlacesTyped, Goto, Move
    <3>2. ~(NoWarm \/ Schedule \/ Push \/ Await \/ Shutdown \/ PostAll \/ Join \/ JoinWait \/ Kick)
      BY <3>1 DEF NoWarm, Schedule, Push, Await, Shutdown, PostAll, Join, JoinWait, Kick
    <3>3. ~WakeAll
      BY <1>1 DEF WakeAll
    <3>4. Warm => pc[Owner] = "warm"
      BY DEF Warm, Goto, Move
    <3> QED
      BY <2>1, <2>2, <3>2, <3>3, <3>4 DEF OwnerStep
  <2>3. ASSUME NEW w \in Workers, WorkerStep(w) \/ ScheduleInside(w) \/ SpuriousWake(w)
        PROVE  pc[Owner] = "warm"
    BY <2>3, WorkerMoves, Distinct DEF Alone, Stays, Roused, Threads
  <2> QED
    BY <2>1, <2>2, <2>3, NextSteps
<1>3. sync.state = "pending" /\ ~sync.notified /\ \A w \in Workers : pc[w] \in Early
  BY <1>2 DEF CInv, Warming, Early
<1>4. CASE OwnerStep
  <2>1. Warm
    <3>1. ~(NoWarm \/ Schedule \/ Push \/ Await \/ Shutdown \/ PostAll \/ Join \/ JoinWait \/ Kick)
      <4>1. ASSUME NEW from, NEW to, Goto(Owner, from, to) PROVE pc'[Owner] = to
        BY <1>1, <4>1 DEF PlacesTyped, Goto, Move
      <4> QED
        BY <4>1 DEF NoWarm, Schedule, Push, Await, Shutdown, PostAll, Join, JoinWait, Kick
    <3>2. ~WakeAll
      BY <1>1 DEF WakeAll
    <3> QED
      BY <1>4, <3>1, <3>2 DEF OwnerStep
  <2>2. sync'.state = sync.state /\ sync'.notified = sync.notified
    BY <1>1, <2>1 DEF Warm, Unspawned, SyncType
  <2>3. \A u \in Workers : pc'[u] \in Early
    <3>1. CASE Alone(Owner)
      BY <1>3, <3>1, Distinct DEF Alone, Stays, Roused, Threads, Early
    <3>2. ASSUME NEW w \in Workers, pc'[w] = "register", Alone(w)
          PROVE  \A u \in Workers : pc'[u] \in Early
      BY <1>3, <3>2 DEF Alone, Stays, Roused, Threads, Early
    <3> QED
      BY <1>4, <3>1, <3>2, OwnerMoves
  <2> QED
    BY <1>3, <2>2, <2>3 DEF Warming, Early
<1>5. ASSUME NEW w \in Workers, WorkerStep(w) \/ ScheduleInside(w) \/ SpuriousWake(w)
      PROVE  Warming'
  <2>1. ASSUME NEW from, NEW to, NEW m, Move(w, from, to, m) PROVE pc[w] = from /\ pc'[w] = to
    BY <1>1, <2>1 DEF PlacesTyped, Move, Threads
  <2>2. ASSUME NEW from, NEW to, Goto(w, from, to) PROVE pc[w] = from /\ pc'[w] = to
    BY <2>1, <2>2 DEF Goto
  <2>3. pc[w] \in Early
    BY <1>3
  <2>4. ~ScheduleInside(w) /\ ~LeaveOnShutdown(w) /\ ~ConsumeNotification(w)
    BY <1>3, <2>1, <2>3 DEF ScheduleInside, LeaveOnShutdown, ConsumeNotification, Early
  <2>5. ~(PopBuffer(w) \/ TryConsume(w) \/ Consume(w) \/ ReleaseConsumer(w) \/ CountVictims(w)
          \/ Steal(w))
    BY <2>1, <2>2, <2>3 DEF PopBuffer, TryConsume, Consume, ReleaseConsumer, CountVictims, Steal,
                            Early
  <2>6. ~(Found(w) \/ Run(w) \/ Finish(w) \/ Unregister(w) \/ Tell(w) \/ Linger(w))
    BY <2>1, <2>2, <2>3 DEF Found, Run, Finish, Unregister, Tell, Linger, Early
  <2>7. pc'[w] \in Early /\ sync'.state = sync.state /\ sync'.notified = sync.notified
    <3>1. Register(w) \/ EventLoop(w) \/ Sleep(w) \/ SpuriousWake(w) \/ Timeout(w) \/ EnterEvent(w)
            => pc'[w] \in Early /\ sync' = sync
      BY <2>1, <2>2 DEF Register, EventLoop, Sleep, SpuriousWake, Timeout, EnterEvent, Early
    <3>2. BecomeIdle(w)
            => pc'[w] \in Early /\ sync'.state = sync.state /\ sync'.notified = sync.notified
      BY <1>1, <1>3, <2>1 DEF BecomeIdle, SyncType, Early
    <3> QED
      BY <1>5, <2>4, <2>5, <2>6, <3>1, <3>2 DEF WorkerStep
  <2>8. \A u \in Workers : pc'[u] \in Early
    BY <1>3, <1>5, <2>7, WorkerMoves DEF Alone, Stays, Roused, Threads, Early
  <2> QED
    BY <1>3, <2>7, <2>8 DEF Warming, Early
<1> QED
  BY <1>2, <1>4, <1>5, NextSteps

Closing == {"post_all", "wake_all", "join", "join_wait", "kick", "done"}

LEMMA EndingStep ==
  ASSUME CInv, Next
  PROVE  Ending'
<1>1. PlacesTyped /\ Ending /\ Owner \in Threads /\ sync \in SyncType
  BY DEF CInv, VarsTyped, SyncType, Threads
<1>2. Last /\ Unspawned => sync'.spawned = 0
  BY <1>1 DEF Last, Unspawned, SyncType
<1>3. ASSUME OwnerStep PROVE Ending'
  <2>1. pc'[Owner] \in Closing => sync'.state = "shutdown"
    <3>1. pc[Owner] \in Closing \/ Shutdown \/ pc'[Owner] \notin Closing
      <4>1. ASSUME NEW from, NEW to, Goto(Owner, from, to)
            PROVE  pc[Owner] = from /\ pc'[Owner] = to
        BY <1>1, <4>1 DEF PlacesTyped, Goto, Move
      <4>2. PostAll \/ Join \/ JoinWait \/ Kick => pc[Owner] \in Closing
        BY <4>1 DEF PostAll, Join, JoinWait, Kick, Closing
      <4>3. NoWarm \/ Schedule \/ Push \/ Await => pc'[Owner] \notin Closing
        BY <4>1 DEF NoWarm, Schedule, Push, Await, Closing
      <4>4. WakeAll => pc[Owner] \in Closing
        BY DEF WakeAll, Closing
      <4>5. Warm => pc'[Owner] \notin Closing
        <5>1. ASSUME NEW w \in Workers, pc[Owner] = "warm", pc[w] = "unborn",
                     pc' = [pc EXCEPT ![w] = "register"]
              PROVE  pc'[Owner] \notin Closing
          BY <1>1, <5>1, Distinct DEF PlacesTyped, Closing
        <5> QED
          BY <4>1, <5>1 DEF Warm, AfterUnspawn, Closing
      <4> QED
        BY <1>3, <4>2, <4>3, <4>4, <4>5 DEF OwnerStep
    <3>2. Shutdown => sync'.state = "shutdown"
      BY <1>1 DEF Shutdown, SyncType
    <3>3. pc[Owner] \in Closing => sync'.state = "shutdown"
      BY <1>1, <1>3, ShutKept DEF Ending, Closing, Next
    <3> QED
      BY <3>1, <3>2, <3>3
  <2>2. pc'[Owner] = "kick" => sync'.spawned = 0
    <3>1. ASSUME NEW from, NEW to, Goto(Owner, from, to)
          PROVE  pc'[Owner] = to
      BY <1>1, <3>1 DEF PlacesTyped, Goto, Move
    <3>2. NoWarm \/ Schedule \/ Push \/ Await \/ Shutdown \/ PostAll \/ Kick => pc'[Owner] # "kick"
      BY <3>1 DEF NoWarm, Schedule, Push, Await, Shutdown, PostAll, Kick
    <3>3. WakeAll => pc'[Owner] # "kick"
      BY <1>1 DEF WakeAll
    <3>4. Join \/ JoinWait => (pc'[Owner] = "kick" => sync.spawned = 0 /\ sync' = sync)
      BY <1>1, <3>1 DEF Join, JoinWait, Ending
    <3>5. Warm => pc'[Owner] # "kick"
      <4>1. ASSUME NEW w \in Workers, pc[Owner] = "warm", pc[w] = "unborn",
                   pc' = [pc EXCEPT ![w] = "register"]
            PROVE  pc'[Owner] # "kick"
        BY <1>1, <4>1, Distinct DEF PlacesTyped
      <4> QED
        BY <3>1, <4>1 DEF Warm, AfterUnspawn
    <3> QED
      BY <1>3, <3>2, <3>3, <3>4, <3>5 DEF OwnerStep
  <2>3. join_event' => join_event
    BY <1>3 DEF OwnerStep, Warm, NoWarm, Schedule, Push, Await, Shutdown, PostAll, WakeAll, Join,
                JoinWait, Kick, events
  <2>4. \A u \in Workers : pc'[u] = "tell" => pc[u] = "tell"
    BY <1>3, OwnerMoves, Distinct DEF Alone, Stays, Roused, Threads
  <2> QED
    BY <1>1, <1>3, <2>1, <2>2, <2>3, <2>4, ShutKept DEF Ending, Closing, Next
<1>4. ASSUME NEW t \in Threads, NotifyStep(t) PROVE Ending'
  <2>1. pc'[t] \notin Closing \cup {"tell"}
    BY <1>1, <1>4, NotifyEffect, Returns DEF Closing
  <2>2. \A u \in Threads \ {t} : pc'[u] \in Closing \cup {"tell"} => pc'[u] = pc[u]
    <3>1. CASE Alone(t)
      BY <3>1 DEF Alone, Stays, Roused, Closing
    <3>2. ASSUME NEW w \in Workers, Bears(t, w), NEW u \in Threads \ {t}
          PROVE  pc'[u] \in Closing \cup {"tell"} => pc'[u] = pc[u]
      BY <1>1, <3>2 DEF Bears, PlacesTyped, Closing
    <3> QED
      BY <1>4, <3>1, <3>2, NotifyMoves
  <2>3. join_event' => join_event \/ (sync.state = "shutdown" /\ sync'.spawned = 0)
    <3>1. Notify(t) \/ NotifySlow(t) \/ Post(t) \/ Wake(t) => join_event' = join_event
      BY DEF Notify, NotifySlow, Post, Wake, events
    <3>2. Spawn(t) => (join_event' => join_event \/ (Last /\ Unspawned))
      BY DEF Spawn
    <3> QED
      BY <1>2, <1>4, <3>1, <3>2 DEF NotifyStep, Last
  <2>4. /\ pc'[Owner] \in Closing => pc'[Owner] = pc[Owner]
        /\ \A u \in Workers : pc'[u] = "tell" => pc[u] = "tell"
    BY <2>1, <2>2 DEF Threads
  <2> QED
    BY <1>1, <1>4, <2>3, <2>4, ShutKept DEF Ending, Closing, Next
<1>5. ASSUME NEW w \in Workers, WorkerStep(w) \/ ScheduleInside(w) \/ SpuriousWake(w)
      PROVE  Ending'
  <2>1. Alone(w) /\ w # Owner /\ w \in Threads
    BY <1>5, WorkerMoves, Distinct DEF Threads
  <2>2. /\ pc'[Owner] \in Closing => pc'[Owner] = pc[Owner]
        /\ \A u \in Workers \ {w} : pc'[u] = "tell" => pc[u] = "tell"
    BY <2>1 DEF Alone, Stays, Roused, Closing, Threads
  <2>3. join_event' => join_event \/ Tell(w)
    <3>1. ScheduleInside(w) \/ SpuriousWake(w) \/ Register(w) \/ LeaveOnShutdown(w) \/ EventLoop(w)
          \/ ConsumeNotification(w) \/ BecomeIdle(w) \/ EnterEvent(w) => join_event' = join_event
      BY DEF ScheduleInside, SpuriousWake, Register, LeaveOnShutdown, EventLoop,
             ConsumeNotification, BecomeIdle, EnterEvent, events
    <3>2. Sleep(w) \/ Timeout(w) \/ PopBuffer(w) \/ TryConsume(w) \/ Consume(w)
          \/ ReleaseConsumer(w) => join_event' = join_event
      BY DEF Sleep, Timeout, PopBuffer, TryConsume, Consume, ReleaseConsumer, events
    <3>3. CountVictims(w) \/ Steal(w) \/ Found(w) \/ Run(w) \/ Finish(w) \/ Unregister(w)
          \/ Linger(w) => join_event' = join_event
      BY DEF CountVictims, Steal, Found, Run, Finish, Unregister, Linger, events
    <3> QED
      BY <1>5, <3>1, <3>2, <3>3 DEF WorkerStep
  <2>4. Tell(w) => sync.state = "shutdown" /\ sync.spawned = 0
    BY <1>1 DEF Tell, Goto, Move, Ending
  <2>5. pc'[w] = "tell" => sync.state = "shutdown" /\ sync'.spawned = 0
    <3>1. ASSUME NEW from, NEW to, NEW m, Move(w, from, to, m) PROVE pc'[w] = to
      BY <1>1, <2>1, <3>1 DEF PlacesTyped, Move
    <3>2. ASSUME NEW from, NEW to, Goto(w, from, to) PROVE pc'[w] = to
      BY <3>1, <3>2 DEF Goto
    <3>3. ScheduleInside(w) \/ SpuriousWake(w) \/ Register(w) \/ LeaveOnShutdown(w) \/ EventLoop(w)
          \/ ConsumeNotification(w) \/ BecomeIdle(w) \/ EnterEvent(w) => pc'[w] # "tell"
      BY <3>1, <3>2 DEF ScheduleInside, SpuriousWake, Register, LeaveOnShutdown, EventLoop,
             ConsumeNotification, BecomeIdle, EnterEvent
    <3>4. Sleep(w) \/ Timeout(w) \/ PopBuffer(w) \/ TryConsume(w) \/ Consume(w)
          \/ ReleaseConsumer(w) => pc'[w] # "tell"
      BY <3>1, <3>2 DEF Sleep, Timeout, PopBuffer, TryConsume, Consume, ReleaseConsumer
    <3>5. CountVictims(w) \/ Found(w) \/ Run(w) \/ Finish(w) \/ Tell(w) \/ Linger(w)
          => pc'[w] # "tell"
      BY <3>1, <3>2 DEF CountVictims, Found, Run, Finish, Tell, Linger
    <3>6. Steal(w) => pc'[w] # "tell"
      BY <3>1, <3>2 DEF Steal
    <3>7. Unregister(w) => (pc'[w] = "tell" => Last /\ Unspawned)
      BY <3>2 DEF Unregister, AfterUnspawn
    <3> QED
      BY <1>2, <1>5, <3>3, <3>4, <3>5, <3>6, <3>7 DEF WorkerStep, Last
  <2> QED
    BY <1>1, <1>5, <2>2, <2>3, <2>4, <2>5, ShutKept DEF Ending, Closing, Next
<1> QED
  BY <1>3, <1>4, <1>5, NextSteps

-----------------------------------------------------------------------------
\* The counts: what a step does to who wakes, who is idle, and who lives.

\* The step leaves t's flags alone, and leaves it as alive as it was.
Steady(m, n) == n.is_waking = m.is_waking /\ n.is_idle = m.is_idle
Plain(t) == /\ Steady(l[t], l'[t])
            /\ pc[t] \notin Passed \cup {"panic"} /\ pc'[t] \notin Passed \cup {"panic"}
            /\ pc'[t] \in Gone <=> pc[t] \in Gone

LEMMA SteadyForms ==
  ASSUME NEW m \in Locals
  PROVE  /\ Steady(m, Awoken(m)) /\ Steady(m, [Awoken(m) EXCEPT !.shrunk = TRUE])
         /\ Steady(m, [m EXCEPT !.acquire_with = EMPTY, !.shrunk = FALSE])
         /\ \A x : /\ Steady(m, [m EXCEPT !.pushed = x])
                   /\ Steady(m, [m EXCEPT !.ret = x])
                   /\ Steady(m, [m EXCEPT !.attempts = x])
         /\ \A x, y : Steady(m, [m EXCEPT !.attempts = x, !.target = y])
         /\ \A x, y, z : Steady(m, [[m EXCEPT !.attempts = x, !.target = y]
                                      EXCEPT !.attempts = 0, !.pushed = z])
BY DEF Locals, Steady, Awoken

LEMMA WorkerEffect ==
  ASSUME CInv, NEW w \in Workers, WorkerStep(w) \/ ScheduleInside(w) \/ SpuriousWake(w)
  PROVE  \/ ConsumeNotification(w) \/ BecomeIdle(w) \/ LeaveOnShutdown(w) \/ Unregister(w)
         \/ sync' = sync /\ phantoms' = phantoms /\ Plain(w)
<1>1. PlacesTyped /\ w \in Threads /\ l[w] \in Locals
  BY DEF CInv, PlacesTyped, Threads
<1>2. ASSUME NEW from, NEW to, NEW m, Move(w, from, to, m)
      PROVE  pc[w] = from /\ pc'[w] = to /\ l'[w] = m
  BY <1>1, <1>2 DEF PlacesTyped, Move
<1>3. ASSUME NEW from, NEW to, Goto(w, from, to)
      PROVE  pc[w] = from /\ pc'[w] = to /\ l'[w] = l[w]
  BY <1>2, <1>3 DEF Goto
<1>4. Steady(l[w], l[w])
  BY DEF Steady
<1> DEFINE Steadily == sync' = sync /\ phantoms' = phantoms /\ Plain(w)
<1>5. Register(w) \/ EventLoop(w) \/ TryConsume(w) \/ ReleaseConsumer(w) => Steadily
  BY <1>3, <1>4 DEF Register, EventLoop, TryConsume, ReleaseConsumer, Plain, Passed, Gone,
                    bounds, warming
<1>6. Run(w) \/ Finish(w) \/ Tell(w) \/ Linger(w) => Steadily
  BY <1>3, <1>4 DEF Run, Finish, Tell, Linger, Plain, Passed, Gone, bounds, warming
<1>a. ASSUME NEW from, NEW to, NEW m, Move(w, from, to, m), Steady(l[w], m),
             {from, to} \cap (Passed \cup Gone) = {}, sync' = sync, UNCHANGED warming
      PROVE  Steadily
  BY <1>2, <1>a DEF Plain, Gone, warming
<1>b. \A from, to : Goto(w, from, to) => Move(w, from, to, l[w])
  BY DEF Goto
<1> HIDE DEF Steadily
<1>7. Sleep(w) \/ SpuriousWake(w) \/ Timeout(w) => Steadily
  <2>1. Steady(l[w], Awoken(l[w])) /\ Steady(l[w], [Awoken(l[w]) EXCEPT !.shrunk = TRUE])
    BY <1>1, SteadyForms
  <2> QED
    BY <1>a, <1>b, <1>4, <2>1 DEF Sleep, SpuriousWake, Timeout, Passed, Gone, bounds
<1>8. EnterEvent(w) => Steadily
  <2>1. Steady(l[w], [l[w] EXCEPT !.acquire_with = EMPTY, !.shrunk = FALSE])
    BY <1>1, SteadyForms
  <2> QED
    BY <1>a, <2>1 DEF EnterEvent, Passed, Gone, bounds
<1>9. PopBuffer(w) \/ Consume(w) => Steadily
  <2>1. Steady(l[w], [l[w] EXCEPT !.pushed = FALSE])
        /\ Steady(l[w], [l[w] EXCEPT !.pushed = queue > 1])
    BY <1>1, SteadyForms
  <2>2. PopBuffer(w) => Steadily
    BY <1>a, <1>b, <1>4, <2>1 DEF PopBuffer, Passed, Gone, bounds
  <2>3. Consume(w) => Steadily
    BY <1>a, <2>1 DEF Consume, Passed, Gone, bounds
  <2> QED
    BY <2>2, <2>3
<1>10. CountVictims(w) \/ Found(w) \/ ScheduleInside(w) => Steadily
  <2>1. /\ Steady(l[w], [l[w] EXCEPT !.attempts = sync.spawned])
        /\ Steady(l[w], [l[w] EXCEPT !.ret = "run"])
        /\ Steady(l[w], [l[w] EXCEPT !.ret = "finish"])
    BY <1>1, SteadyForms
  <2>2. CountVictims(w) => Steadily
    BY <1>a, <2>1 DEF CountVictims, Passed, Gone, bounds
  <2>3. Found(w) => Steadily
    BY <1>a, <1>b, <1>4, <2>1 DEF Found, Passed, Gone, bounds
  <2>4. ScheduleInside(w) => Steadily
    BY <1>a, <2>1 DEF ScheduleInside, Passed, Gone, bounds
  <2> QED
    BY <2>2, <2>3, <2>4
<1>11. Steal(w) => Steadily
  <2> SUFFICES ASSUME Steal(w) PROVE Steadily
    OBVIOUS
  <2> DEFINE victim == IF l[w].target = None THEN registered[1] ELSE l[w].target
             half == buffer[victim] - (buffer[victim] \div 2)
             next == [l[w] EXCEPT !.attempts = @ - 1, !.target = Below(victim)]
             last == [next EXCEPT !.attempts = 0, !.pushed = half > 1]
  <2>1. \/ Goto(w, "steal", "wait") \/ Move(w, "steal", "steal", next)
        \/ Move(w, "steal", "found", last)
    BY Zenon DEF Steal
  <2>2. Steady(l[w], next)
    BY <1>1, SteadyForms
  <2>3. Steady(l[w], last)
    BY <1>1, SteadyForms
  <2>4. sync' = sync /\ phantoms' = phantoms
    BY DEF Steal, bounds, warming
  <2> HIDE DEF victim, half, next, last
  <2> QED
    BY <1>2, <1>3, <1>4, <2>1, <2>2, <2>3, <2>4 DEF Steadily, Plain, Passed, Gone
<1> QED
  BY <1>5, <1>6, <1>7, <1>8, <1>9, <1>10, <1>11 DEF WorkerStep, Steadily

LEMMA PlainKeeps ==
  ASSUME PlacesTyped, PlacesTyped', NEW w \in Workers, Alone(w), Plain(w)
  PROVE  /\ Cardinality(Idlers') = Cardinality(Idlers) /\ Cardinality(Live') = Cardinality(Live)
         /\ Cardinality(Spawning') = Cardinality(Spawning) /\ Wakers' = Wakers
         /\ Running' <=> Running
<1>1. w \in Threads /\ l[w] \in Locals /\ l'[w] \in Locals
  BY DEF PlacesTyped, Threads
<1>2. /\ w \in Idlers <=> w \in Idlers'
      /\ w \in Live <=> w \in Live'
      /\ w \in Spawning <=> w \in Spawning'
      /\ w \in Wakers <=> w \in Wakers'
  BY DEF Plain, Steady, Passed, Idlers, Live, Spawning, Wakers
<1>3. Wakers' = Wakers
  BY <1>1, <1>2, AloneChanges
<1>4. /\ Cardinality(Idlers') = Cardinality(Idlers) /\ Cardinality(Live') = Cardinality(Live)
      /\ Cardinality(Spawning') = Cardinality(Spawning)
  <2>1. /\ Cardinality(Idlers) \in Nat /\ Cardinality(Live) \in Nat
        /\ Cardinality(Spawning) \in Nat
    BY SetsFinite
  <2> QED
    BY <1>1, <1>2, <2>1, AloneChanges DEF Changed, Bit
<1>5. \A u \in Threads : pc'[u] = "panic" <=> pc[u] = "panic"
  BY DEF Alone, Stays, Roused, Plain, Passed
<1> QED
  BY <1>3, <1>4, <1>5 DEF Running

\* No step undoes a panic.
LEMMA PanicStays ==
  ASSUME CInv, Next, Running'
  PROVE  Running
<1>1. PlacesTyped /\ Owner \in Threads /\ \A w \in Workers : w \in Threads /\ w # Owner
  BY Distinct DEF CInv, Threads
<1>2. ASSUME OwnerStep, NEW u \in Threads, pc[u] = "panic" PROVE pc'[u] = "panic"
  <2>1. pc[Owner] # "panic"
    BY <1>2 DEF OwnerStep, Warm, NoWarm, Schedule, Push, Await, Shutdown, PostAll, WakeAll, Join,
                JoinWait, Kick, Goto, Move
  <2> QED
    BY <1>1, <1>2, <2>1, OwnerMoves DEF Alone, Stays, Roused
<1>3. ASSUME NEW t \in Threads, NotifyStep(t), NEW u \in Threads, pc[u] = "panic"
      PROVE  pc'[u] = "panic"
  <2>1. pc[t] # "panic"
    BY <1>3, NotifyEffect DEF Notifying, Passed
  <2>2. CASE Alone(t)
    BY <1>3, <2>1, <2>2 DEF Alone, Stays, Roused
  <2>3. ASSUME NEW w \in Workers, Bears(t, w) PROVE pc'[u] = "panic"
    BY <1>1, <1>3, <2>1, <2>3 DEF Bears, PlacesTyped
  <2> QED
    BY <1>3, <2>2, <2>3, NotifyMoves
<1>4. ASSUME NEW w \in Workers, WorkerStep(w) \/ ScheduleInside(w) \/ SpuriousWake(w),
             NEW u \in Threads, pc[u] = "panic"
      PROVE  pc'[u] = "panic"
  <2>1. Alone(w) /\ w \in Threads
    BY <1>1, <1>4, WorkerMoves
  <2>2. pc[w] # "panic"
    <3>1. ConsumeNotification(w) \/ BecomeIdle(w) \/ LeaveOnShutdown(w) \/ Unregister(w)
            => pc[w] # "panic"
      BY DEF ConsumeNotification, BecomeIdle, LeaveOnShutdown, Unregister, Goto, Move
    <3>2. Plain(w) => pc[w] # "panic"
      BY DEF Plain
    <3> QED
      BY <1>4, <3>1, <3>2, WorkerEffect
  <2> QED
    BY <1>4, <2>1, <2>2 DEF Alone, Stays, Roused
<1>5. \A u \in Threads : pc[u] = "panic" => pc'[u] = "panic"
  BY <1>2, <1>3, <1>4, NextSteps
<1> QED
  BY <1>5 DEF Running

LEMMA WokenStep ==
  ASSUME CInv, Woken, Next
  PROVE  Woken'
<1> SUFFICES ASSUME sync'.state # "shutdown"
             PROVE  /\ sync'.state = "waking" <=> Wakers' # {}
                    /\ \A u, v \in Wakers' : u = v
  BY DEF Woken
<1>1. PlacesTyped /\ sync \in SyncType /\ Owner \in Threads /\ Owner \notin Wakers
      /\ Owner \notin Wakers' /\ Fits
  BY Distinct DEF CInv, VarsTyped, SyncType, Threads, Wakers
<1>2. sync.state # "shutdown" /\ (sync.state = "waking" <=> Wakers # {})
      /\ \A u, v \in Wakers : u = v
  BY ShutKept DEF Woken
<1>3. CASE sync'.state = sync.state /\ Wakers' = Wakers
  BY <1>2, <1>3
<1>4. CASE OwnerStep
  <2>1. sync'.state = sync.state
    <3>1. Warm => sync'.state = sync.state
      BY <1>1 DEF Warm, Unspawned, SyncType
    <3>2. ~Shutdown
      BY <1>1 DEF Shutdown, SyncType
    <3> QED
      BY <1>4, <3>1, <3>2 DEF OwnerStep, NoWarm, Schedule, Push, Await, PostAll, WakeAll, Join,
                              JoinWait, Kick
  <2>2. CASE Alone(Owner)
    BY <1>1, <1>3, <2>1, <2>2, AloneChanges
  <2>3. ASSUME NEW w \in Workers, pc[w] = "unborn", pc'[w] = "register", Alone(w), l' = l
        PROVE  Wakers' = Wakers
    <3>1. w \notin Wakers /\ w \notin Wakers' /\ w \in Threads
      BY <1>1, <2>3 DEF Fits, WorkerFits, Wakers, Threads
    <3> QED
      BY <1>1, <2>3, <3>1, AloneChanges
  <2> QED
    BY <1>3, <1>4, <2>1, <2>2, <2>3, OwnerMoves
<1>5. ASSUME NEW w \in Workers, WorkerStep(w) \/ ScheduleInside(w) \/ SpuriousWake(w)
      PROVE  /\ sync'.state = "waking" <=> Wakers' # {}
             /\ \A u, v \in Wakers' : u = v
  <2>1. Alone(w) /\ PlacesTyped' /\ w \in Threads /\ l[w] \in Locals
    BY <1>1, <1>5, WorkerMoves DEF PlacesTyped, Threads
  <2>2. Wakers' \ {w} = Wakers \ {w}
    BY <1>1, <2>1, AloneChanges
  <2>3. ASSUME NEW from, NEW to, NEW m, Move(w, from, to, m)
        PROVE  pc[w] = from /\ pc'[w] = to /\ l'[w] = m
    BY <1>1, <2>1, <2>3 DEF PlacesTyped, Move
  <2>4. CASE ConsumeNotification(w)
    <3> DEFINE b == l[w].is_waking \/ sync.state = "signaled"
               m == [l[w] EXCEPT !.is_waking = b, !.is_idle = FALSE]
    <3>1. m.is_waking = b
      BY <2>1 DEF Locals
    <3>2. pc[w] = "wait" /\ pc'[w] = "pop" /\ l'[w] = m
      BY <2>3, <2>4 DEF ConsumeNotification
    <3>3. sync'.state = IF sync.state = "signaled" THEN "waking" ELSE sync.state
      BY <1>1, <2>4 DEF ConsumeNotification, SyncType
    <3> HIDE DEF m
    <3>4. w \in Wakers' <=> (w \in Wakers \/ sync.state = "signaled")
      BY <3>1, <3>2 DEF Wakers, Passed
    <3> QED
      BY <1>2, <2>2, <3>3, <3>4
  <2>5. CASE BecomeIdle(w)
    <3> DEFINE m == [l[w] EXCEPT !.is_waking = FALSE, !.is_idle = TRUE,
                               !.acquire_with = EMPTY, !.shrunk = FALSE]
    <3>1. m.is_waking = FALSE
      BY <2>1 DEF Locals
    <3>2. pc[w] = "wait" /\ pc'[w] = "event" /\ l'[w] = m
      BY <2>3, <2>5 DEF BecomeIdle
    <3>3. sync'.state = IF l[w].is_waking THEN "pending" ELSE sync.state
      BY <1>1, <2>5 DEF BecomeIdle, SyncType
    <3> HIDE DEF m
    <3>4. w \notin Wakers' /\ (w \in Wakers <=> l[w].is_waking)
      BY <3>1, <3>2 DEF Wakers, Passed
    <3> QED
      BY <1>2, <2>2, <3>3, <3>4
  <2>6. CASE LeaveOnShutdown(w)
    BY <1>2, <2>6 DEF LeaveOnShutdown
  <2>7. CASE Unregister(w)
    <3>1. sync'.state = sync.state
      BY <1>1, <2>7 DEF Unregister, Unspawned, SyncType
    <3>2. pc[w] = "unregister" /\ pc'[w] \in {"panic", "tell", "linger"} /\ l'[w] = l[w]
      BY <2>3, <2>7 DEF Unregister, Goto, AfterUnspawn
    <3>3. w \in Wakers <=> w \in Wakers'
      BY <3>2 DEF Wakers, Passed
    <3> QED
      BY <1>2, <2>2, <3>1, <3>3
  <2>8. CASE sync' = sync /\ Plain(w)
    BY <1>1, <1>3, <2>1, <2>8, PlainKeeps
  <2> QED
    BY <1>5, <2>4, <2>5, <2>6, <2>7, <2>8, WorkerEffect
<1>6. ASSUME NEW t \in Threads, NotifyStep(t)
      PROVE  /\ sync'.state = "waking" <=> Wakers' # {}
             /\ \A u, v \in Wakers' : u = v
  <2>1. Wakers' \ {t} = Wakers \ {t}
    <3>1. CASE Alone(t)
      BY <1>1, <3>1, AloneChanges
    <3>2. ASSUME NEW w \in Workers, Bears(t, w) PROVE Wakers' \ {t} = Wakers \ {t}
      <4>1. w # t /\ w \notin Wakers /\ w \notin Wakers'
        BY <1>1, <3>2 DEF Bears, Fits, WorkerFits, Wakers, PlacesTyped, Threads
      <4>2. \A u \in Workers \ {t, w} : u \in Wakers <=> u \in Wakers'
        BY <1>1, <3>2, <4>1 DEF Bears, PlacesTyped, Wakers, Threads
      <4> QED
        BY <4>1, <4>2 DEF Wakers
    <3> QED
      BY <1>6, <3>1, <3>2, NotifyMoves
  <2>2. ASSUME NEW from, NEW to, NEW m, Move(t, from, to, m)
        PROVE  pc[t] = from /\ pc'[t] = to /\ l'[t] = m
    BY <1>1, <2>2 DEF PlacesTyped, Move
  <2>3. ASSUME NEW from, NEW to, Goto(t, from, to)
        PROVE  pc[t] = from /\ pc'[t] = to /\ l'[t] = l[t]
    BY <2>2, <2>3 DEF Goto
  <2>4. /\ pc[t] \in Notifying /\ l[t] \in Locals
        /\ t # Owner => t \in Workers /\ WorkerFits(t) /\ l[t].ret \in {"run", "finish"}
        /\ t = Owner => t \notin Workers /\ ~l[t].is_waking /\ l[t].ret = "sched"
    BY <1>1, <1>6, NotifyEffect, Returns, Distinct DEF Fits, OwnerPlain, PlacesTyped, Threads
  <2>5. l[t].is_waking => l[t].ret = "run" /\ t \in Workers
    BY <2>4 DEF WorkerFits
  <2>6. CASE pc[t] \in Passed
    <3>1. Post(t) \/ Wake(t) \/ Spawn(t)
      BY <1>6, <2>3, <2>6 DEF NotifyStep, Notify, NotifySlow, Passed
    <3>2. sync'.state = sync.state
      BY <1>1, <3>1 DEF Post, Wake, Spawn, Unspawned, SyncType
    <3>3. pc'[t] \in Passed \/ pc'[t] \notin Notifying
      <4>1. Post(t) => pc'[t] \in {"wake", l[t].ret}
        BY <2>2, <2>3 DEF Post
      <4>2. Wake(t) => pc'[t] \in {l[t].ret}
        <5>1. ASSUME NEW w \in Asleep, pc[t] = "wake",
                     pc' = [pc EXCEPT ![t] = l[t].ret, ![w] = "event"]
              PROVE  pc'[t] = l[t].ret
          BY <1>1, <5>1 DEF Asleep, PlacesTyped
        <5> QED
          BY <2>2, <5>1 DEF Wake
      <4>3. Spawn(t) => pc'[t] \in {l[t].ret, "panic"}
        <5>1. ASSUME NEW w \in Workers, pc[t] = "spawn", pc[w] = "unborn",
                     pc' = [pc EXCEPT ![t] = l[t].ret, ![w] = "register"]
              PROVE  pc'[t] = l[t].ret
          BY <1>1, <5>1 DEF PlacesTyped
        <5>2. pc' = [pc EXCEPT ![t] = AfterUnspawn(l[t].ret)] => pc'[t] \in {l[t].ret, "panic"}
          BY <1>1 DEF PlacesTyped, AfterUnspawn
        <5> QED
          BY <5>1, <5>2 DEF Spawn
      <4>4. l[t].ret \notin Notifying
        BY <2>4 DEF Notifying, Passed
      <4> QED
        BY <3>1, <4>1, <4>2, <4>3, <4>4 DEF Notifying, Passed
    <3>4. t \notin Wakers /\ t \notin Wakers'
      BY <1>6, <2>5, <2>6, <3>3, NotifyEffect DEF Wakers
    <3> QED
      BY <1>3, <2>1, <3>2, <3>4
  <2>7. CASE Notify(t)
    <3>1. pc[t] = "notify" /\ pc'[t] \in {"slow", l[t].ret} /\ l'[t] = l[t] /\ sync' = sync
      BY <2>3, <2>7 DEF Notify
    <3>2. t \in Wakers <=> t \in Wakers'
      BY <2>4, <3>1 DEF Wakers, Passed
    <3> QED
      BY <1>3, <2>1, <3>1, <3>2
  <2>8. CASE NotifySlow(t)
    <3>1. pc[t] = "slow" /\ (t \in Wakers <=> l[t].is_waking) /\ (Waking(t) <=> l[t].is_waking)
      BY <2>4, <2>5, <2>8 DEF NotifySlow, Wakers, Passed, Waking
    <3>2. t \notin Wakers'
      <4>1. pc'[t] \in {"post", "spawn", l[t].ret}
        BY <1>2, <2>2, <2>3, <2>8 DEF NotifySlow
      <4>2. pc'[t] \in Passed \/ pc'[t] \notin Notifying
        BY <2>4, <4>1 DEF Notifying, Passed
      <4> QED
        BY <1>6, <2>5, <4>2, NotifyEffect DEF Wakers
    <3>3. sync'.state = "signaled" \/ sync'.state = IF Waking(t) THEN "pending" ELSE sync.state
      BY <1>1, <1>2, <2>8 DEF NotifySlow, SyncType
    <3>4. sync'.state = "signaled" => Waking(t) \/ sync.state \in {"pending", "signaled"}
      BY <1>1, <1>2, <2>8 DEF NotifySlow, SyncType, CanWake
    <3> QED
      BY <1>2, <2>1, <3>1, <3>2, <3>3, <3>4
  <2> QED
    BY <1>6, <2>6, <2>7, <2>8 DEF NotifyStep, Post, Wake, Spawn, Goto, Move, Passed
<1> QED
  BY <1>4, <1>5, <1>6, NextSteps

LEMMA BearsChanges ==
  ASSUME CInv, NEW t \in Threads, NotifyStep(t), NEW w \in Workers, Bears(t, w)
  PROVE  /\ Cardinality(Idlers') = Cardinality(Idlers)
         /\ Cardinality(Live') = Cardinality(Live) + 1
         /\ Cardinality(Spawning') = Cardinality(Spawning) - 1
         /\ Cardinality(InHand') = Cardinality(InHand)
<1>1. /\ PlacesTyped /\ w \in Threads /\ w # t /\ w # Owner
      /\ pc[t] = "spawn" /\ pc[w] = "unborn" /\ l[t] \in Locals
  BY Distinct DEF CInv, Bears, PlacesTyped, Threads
<1>2. /\ t = Owner => l[t].ret = "sched" /\ t \notin Workers
      /\ t # Owner => l[t].ret \in {"run", "finish"} /\ t \in Workers
  BY <1>1, Returns, Distinct DEF Notifying, Passed, Threads
<1>3. /\ pc'[t] = l[t].ret /\ pc'[w] = "register" /\ l'[w] = l[w]
      /\ l'[t].is_idle = l[t].is_idle
      /\ \A u \in Threads \ {t, w} : Stays(u)
  BY <1>1, NotifyEffect DEF Bears, PlacesTyped, Stays
<1>4. Idlers' = Idlers
  BY <1>3 DEF Idlers, Stays, Threads
<1>5. Live' = Live \cup {w} /\ w \notin Live
  BY <1>1, <1>2, <1>3 DEF Live, Gone, Stays, Threads
<1>6. Spawning' = Spawning \ {t} /\ t \in Spawning
  BY <1>1, <1>2, <1>3 DEF Spawning, Stays
<1>7. InHand' = InHand
  BY <1>1, <1>2, <1>3 DEF InHand, Passed, Stays
<1> QED
  BY <1>4, <1>5, <1>6, <1>7, SetsFinite, FS_AddElement, FS_RemoveElement

LEMMA IdleStep ==
  ASSUME CInv, IdleKnown, Next
  PROVE  IdleKnown'
<1>1. PlacesTyped /\ sync \in SyncType /\ Owner \in Threads /\ Owner \notin Idlers
      /\ Owner \notin Idlers' /\ Cardinality(Idlers) \in Nat
  BY Distinct, SetsFinite DEF CInv, VarsTyped, SyncType, Threads, Idlers
<1>2. CASE /\ sync'.idle = sync.idle /\ (sync'.state = "shutdown" <=> sync.state = "shutdown")
           /\ Cardinality(Idlers') = Cardinality(Idlers)
  BY <1>2 DEF IdleKnown
<1>3. CASE OwnerStep
  <2>1. CASE Shutdown
    <3>1. sync'.idle = 0 /\ sync'.state = "shutdown"
      BY <1>1, <2>1 DEF Shutdown, SyncType
    <3> QED
      BY <3>1 DEF IdleKnown
  <2>2. CASE ~Shutdown
    <3>1. sync'.idle = sync.idle /\ sync'.state = sync.state
      <4>1. Warm => sync'.idle = sync.idle /\ sync'.state = sync.state
        BY <1>1 DEF Warm, Unspawned, SyncType
      <4> QED
        BY <1>3, <2>2, <4>1 DEF OwnerStep, NoWarm, Schedule, Push, Await, PostAll, WakeAll, Join,
                                JoinWait, Kick
    <3>2. CASE Alone(Owner)
      BY <1>1, <1>2, <3>1, <3>2, AloneChanges DEF Changed, Bit
    <3>3. CASE l' = l
      BY <1>2, <3>1, <3>3 DEF Idlers
    <3> QED
      BY <1>3, <3>2, <3>3, OwnerMoves
  <2> QED
    BY <2>1, <2>2
<1>4. ASSUME NEW t \in Threads, NotifyStep(t) PROVE IdleKnown'
  <2>1. sync'.idle = sync.idle /\ (sync'.state = "shutdown" <=> sync.state = "shutdown")
    <3>1. CASE NotifySlow(t)
      <4>1. CASE sync.state = "shutdown"
        BY <3>1, <4>1 DEF NotifySlow
      <4>2. CASE sync.state # "shutdown"
        <5>1. sync'.idle = sync.idle
          BY <1>1, <3>1, <4>2 DEF NotifySlow, SyncType
        <5>2. sync'.state \in {"signaled", "pending", sync.state}
          BY <1>1, <3>1, <4>2 DEF NotifySlow, SyncType
        <5> QED
          BY <4>2, <5>1, <5>2
      <4> QED
        BY <4>1, <4>2
    <3>2. Spawn(t) => /\ sync'.idle = sync.idle
                      /\ sync'.state = "shutdown" <=> sync.state = "shutdown"
      BY <1>1 DEF Spawn, Unspawned, SyncType
    <3> QED
      BY <1>4, <3>1, <3>2 DEF NotifyStep, Notify, Post, Wake
  <2>2. CASE Alone(t)
    <3>1. t \in Idlers <=> t \in Idlers'
      BY <1>4, NotifyEffect DEF Idlers
    <3> QED
      BY <1>1, <1>2, <2>1, <2>2, <3>1, AloneChanges DEF Changed, Bit
  <2>3. ASSUME NEW w \in Workers, Bears(t, w) PROVE IdleKnown'
    BY <1>2, <1>4, <2>1, <2>3, BearsChanges
  <2> QED
    BY <1>4, <2>2, <2>3, NotifyMoves
<1>5. ASSUME NEW w \in Workers, WorkerStep(w) \/ ScheduleInside(w) \/ SpuriousWake(w)
      PROVE  IdleKnown'
  <2>1. Alone(w) /\ PlacesTyped' /\ w \in Threads /\ l[w] \in Locals
    BY <1>1, <1>5, WorkerMoves DEF PlacesTyped, Threads
  <2>2. Cardinality(Idlers') = Cardinality(Idlers) + Bit(w \in Idlers') - Bit(w \in Idlers)
    BY <1>1, <2>1, AloneChanges DEF Changed
  <2>3. ASSUME NEW from, NEW to, NEW m, Move(w, from, to, m)
        PROVE  l'[w] = m
    BY <1>1, <2>1, <2>3 DEF PlacesTyped, Move
  <2>4. (w \in Idlers <=> l[w].is_idle) /\ (w \in Idlers' <=> l'[w].is_idle)
    BY DEF Idlers
  <2>5. CASE ConsumeNotification(w)
    <3> DEFINE b == l[w].is_waking \/ sync.state = "signaled"
               m == [l[w] EXCEPT !.is_waking = b, !.is_idle = FALSE]
    <3>1. m.is_idle = FALSE
      BY <2>1 DEF Locals
    <3>2. l'[w] = m
      BY <2>3, <2>5 DEF ConsumeNotification
    <3>3. sync'.idle = IdleAfter(w) /\ sync.state # "shutdown" /\ sync'.state # "shutdown"
      BY <1>1, <2>5 DEF ConsumeNotification, SyncType
    <3> HIDE DEF m
    <3> QED
      BY <1>1, <2>2, <2>4, <3>1, <3>2, <3>3 DEF IdleKnown, IdleAfter, Bit
  <2>6. CASE BecomeIdle(w)
    <3> DEFINE m == [l[w] EXCEPT !.is_waking = FALSE, !.is_idle = TRUE,
                               !.acquire_with = EMPTY, !.shrunk = FALSE]
    <3>1. m.is_idle = TRUE
      BY <2>1 DEF Locals
    <3>2. l'[w] = m /\ ~l[w].is_idle
      BY <2>3, <2>6 DEF BecomeIdle
    <3>3. sync'.idle = sync.idle + 1 /\ sync.state # "shutdown" /\ sync'.state # "shutdown"
      BY <1>1, <2>6 DEF BecomeIdle, SyncType
    <3> HIDE DEF m
    <3> QED
      BY <1>1, <2>2, <2>4, <3>1, <3>2, <3>3 DEF IdleKnown, Bit
  <2>7. CASE LeaveOnShutdown(w)
    BY <2>7 DEF LeaveOnShutdown, IdleKnown
  <2>8. CASE Unregister(w)
    <3>1. sync'.state = sync.state /\ sync'.idle = sync.idle
      BY <1>1, <2>8 DEF Unregister, Unspawned, SyncType
    <3>2. l'[w] = l[w]
      BY <2>3, <2>8 DEF Unregister, Goto
    <3> QED
      BY <1>1, <1>2, <2>2, <2>4, <3>1, <3>2 DEF Bit
  <2>9. CASE sync' = sync /\ Plain(w)
    BY <1>1, <1>2, <2>1, <2>9, PlainKeeps
  <2> QED
    BY <1>5, <2>5, <2>6, <2>7, <2>8, <2>9, WorkerEffect
<1> QED
  BY <1>3, <1>4, <1>5, NextSteps

\* The owner's steps neither start nor end at "spawn".
LEMMA OwnerElsewhere ==
  ASSUME CInv, OwnerStep
  PROVE  /\ pc[Owner] \notin {"spawn", "panic"} /\ pc'[Owner] # "spawn"
         /\ ~Warm => pc'[Owner] # "panic" /\ sync'.spawned = sync.spawned /\ phantoms' = phantoms
<1>1. PlacesTyped /\ Owner \in Threads /\ sync \in SyncType
  BY DEF CInv, VarsTyped, SyncType, Threads
<1>2. ASSUME NEW from, NEW to, Goto(Owner, from, to)
      PROVE  pc[Owner] = from /\ pc'[Owner] = to
  BY <1>1, <1>2 DEF PlacesTyped, Goto, Move
<1>3. NoWarm \/ Schedule \/ Push \/ Await \/ Shutdown \/ PostAll \/ Join \/ JoinWait \/ Kick
        => /\ pc[Owner] \notin {"spawn", "panic"} /\ pc'[Owner] \notin {"spawn", "panic"}
           /\ phantoms' = phantoms
  <2>1. NoWarm \/ Schedule \/ Push \/ Await \/ PostAll \/ Join \/ JoinWait \/ Kick
          => /\ pc[Owner] \notin {"spawn", "panic"} /\ pc'[Owner] \notin {"spawn", "panic"}
             /\ phantoms' = phantoms
    BY <1>2 DEF NoWarm, Schedule, Push, Await, PostAll, Join, JoinWait, Kick, bounds, warming
  <2>2. Shutdown => /\ pc[Owner] \notin {"spawn", "panic"} /\ pc'[Owner] \notin {"spawn", "panic"}
                    /\ phantoms' = phantoms
    BY <1>2 DEF Shutdown, warming
  <2> QED
    BY <2>1, <2>2
<1>4. WakeAll => /\ pc[Owner] \notin {"spawn", "panic"} /\ pc'[Owner] \notin {"spawn", "panic"}
                 /\ phantoms' = phantoms
  BY <1>1 DEF WakeAll, bounds, warming
<1>5. Warm => pc[Owner] \notin {"spawn", "panic"} /\ pc'[Owner] # "spawn"
  <2>1. ASSUME NEW w \in Workers, pc[Owner] = "warm", pc' = [pc EXCEPT ![w] = "register"]
        PROVE  pc'[Owner] = "warm"
    BY <1>1, <2>1, Distinct DEF PlacesTyped
  <2> QED
    BY <1>2, <2>1 DEF Warm, AfterUnspawn
<1>6. Shutdown => sync'.spawned = sync.spawned
  BY <1>1 DEF Shutdown, SyncType
<1>7. ~Shutdown /\ ~Warm => sync' = sync
  BY DEF OwnerStep, NoWarm, Schedule, Push, Await, PostAll, WakeAll, Join, JoinWait, Kick
<1> QED
  BY <1>3, <1>4, <1>5, <1>6, <1>7 DEF OwnerStep

LEMMA SpawnedStep ==
  ASSUME CInv, SpawnedCounted, Next
  PROVE  SpawnedCounted'
<1> SUFFICES ASSUME Running'
             PROVE  sync'.spawned = Cardinality(Live') + Cardinality(Spawning') + phantoms'
  BY DEF SpawnedCounted
<1>1. /\ PlacesTyped /\ sync \in SyncType /\ Owner \in Threads /\ Owner \notin Workers
      /\ Cardinality(Live) \in Nat /\ Cardinality(Spawning) \in Nat
      /\ phantoms \in Int /\ sync.spawned \in Nat
  BY Distinct, SetsFinite DEF CInv, VarsTyped, SyncType, Threads
<1>2. /\ sync.spawned = Cardinality(Live) + Cardinality(Spawning) + phantoms
      /\ \A u \in Threads : pc'[u] # "panic"
  BY PanicStays DEF SpawnedCounted, Running
<1>3. CASE OwnerStep
  <2>1. CASE Alone(Owner)
    <3>1. Cardinality(Live') = Cardinality(Live) /\ Cardinality(Spawning') = Cardinality(Spawning)
      <4>1. Owner \notin Live /\ Owner \notin Live' /\ Owner \notin Spawning
            /\ Owner \notin Spawning'
        BY <1>1, <1>3, OwnerElsewhere DEF Live, Spawning
      <4> QED
        BY <1>1, <2>1, <4>1, AloneChanges DEF Changed, Bit
    <3>2. CASE ~Warm
      BY <1>2, <1>3, <3>1, <3>2, OwnerElsewhere
    <3>3. CASE Warm
      <4>1. Unspawned => sync'.spawned = IF sync.spawned = 0 THEN 0 ELSE sync.spawned - 1
        BY <1>1 DEF Unspawned, SyncType
      <4>2. sync' = [sync EXCEPT !.spawned = @ + 1] => sync'.spawned = sync.spawned + 1
        BY <1>1 DEF SyncType
      <4>3. Goto(Owner, "warm", AfterUnspawn("sched")) => sync.spawned # 0
        BY <1>1, <1>2 DEF Goto, Move, AfterUnspawn, PlacesTyped
      <4>4. ASSUME NEW w \in Workers, pc[w] = "unborn", pc' = [pc EXCEPT ![w] = "register"],
                   pc[Owner] = "warm"
            PROVE  FALSE
        BY <1>1, <2>1, <4>4 DEF Alone, Stays, Roused, PlacesTyped, Threads
      <4>5. sync'.spawned = sync.spawned + phantoms' - phantoms
        BY <1>1, <3>3, <4>1, <4>2, <4>3, <4>4 DEF Warm, WarmCounts, warming
      <4>6. phantoms' \in Int
        BY <1>1, <3>3 DEF Warm, WarmCounts, warming
      <4> QED
        BY <1>1, <1>2, <3>1, <4>5, <4>6
    <3> QED
      BY <3>2, <3>3
  <2>2. ASSUME NEW w \in Workers, Warm, pc[w] = "unborn", pc'[w] = "register", Alone(w)
        PROVE  sync'.spawned = Cardinality(Live') + Cardinality(Spawning') + phantoms'
    <3>1. pc[Owner] = "warm" /\ pc'[Owner] = "warm"
      <4>1. pc[Owner] = "warm"
        BY <2>2 DEF Warm, Goto, Move
      <4> QED
        BY <1>1, <2>2, <4>1 DEF Alone, Stays, Roused
    <3>2. sync' = sync /\ phantoms' = phantoms - 1
      <4>1. ASSUME NEW to, Goto(Owner, "warm", to) PROVE pc'[Owner] = to
        BY <1>1, <4>1 DEF PlacesTyped, Goto, Move
      <4>2. ~Goto(Owner, "warm", "sched") /\ ~Goto(Owner, "warm", AfterUnspawn("sched"))
        BY <3>1, <4>1 DEF AfterUnspawn
      <4> QED
        BY <1>1, <2>2, <4>2 DEF Warm, WarmCounts
    <3>3. /\ w \notin Live /\ w \in Live' /\ w \notin Spawning /\ w \notin Spawning'
          /\ w \in Threads
      BY <2>2 DEF Live, Spawning, Gone, Threads
    <3> QED
      BY <1>1, <1>2, <2>2, <3>2, <3>3, AloneChanges DEF Changed, Bit
  <2> QED
    BY <1>3, <2>1, <2>2, OwnerMoves
<1>4. ASSUME NEW t \in Threads, NotifyStep(t)
      PROVE  sync'.spawned = Cardinality(Live') + Cardinality(Spawning') + phantoms'
  <2>1. phantoms' = phantoms
    BY <1>4 DEF NotifyStep, Notify, NotifySlow, Post, Wake, Spawn, bounds, warming
  <2>2. CASE Alone(t)
    <3>1. t \in Live <=> t \in Live'
      BY <1>2, <1>4, NotifyEffect, Returns DEF Live, Gone, Notifying, Passed
    <3>2. Cardinality(Live') = Cardinality(Live)
      BY <1>1, <2>2, <3>1, AloneChanges DEF Changed, Bit
    <3>3. Cardinality(Spawning')
            = Cardinality(Spawning) + Bit(pc'[t] = "spawn") - Bit(pc[t] = "spawn")
      BY <1>1, <2>2, AloneChanges DEF Changed, Bit, Spawning
    <3>4. sync'.spawned = sync.spawned + Bit(pc'[t] = "spawn") - Bit(pc[t] = "spawn")
      <4>1. ASSUME NEW from, NEW to, NEW m, Move(t, from, to, m)
            PROVE  pc[t] = from /\ pc'[t] = to
        BY <1>1, <4>1 DEF PlacesTyped, Move
      <4>2. ASSUME NEW from, NEW to, Goto(t, from, to)
            PROVE  pc[t] = from /\ pc'[t] = to
        BY <4>1, <4>2 DEF Goto
      <4>3. pc[t] \in Notifying /\ l[t].ret # "spawn"
        BY <1>4, NotifyEffect, Returns
      <4>4. CASE Notify(t) \/ Post(t)
        BY <1>1, <4>1, <4>2, <4>3, <4>4 DEF Notify, Post, Bit
      <4>5. CASE NotifySlow(t)
        <5>1. pc[t] = "slow"
          BY <4>5 DEF NotifySlow
        <5>2. \/ pc'[t] # "spawn" /\ sync'.spawned = sync.spawned
              \/ pc'[t] = "spawn" /\ sync'.spawned = sync.spawned + 1
          <6>1. [sync EXCEPT !.notified = TRUE, !.state = "signaled"].spawned = sync.spawned
            BY <1>1 DEF SyncType
          <6>2. [sync EXCEPT !.notified = TRUE, !.state = "signaled", !.spawned = @ + 1].spawned
                  = sync.spawned + 1
            BY <1>1 DEF SyncType
          <6>3. [sync EXCEPT !.notified = TRUE,
                            !.state = IF Waking(t) THEN "pending" ELSE @].spawned = sync.spawned
            BY <1>1 DEF SyncType
          <6>4. \/ pc'[t] \in {"post", l[t].ret} /\ sync'.spawned = sync.spawned
                \/ pc'[t] = "spawn" /\ sync'.spawned = sync.spawned + 1
            BY <4>1, <4>2, <4>5, <6>1, <6>2, <6>3 DEF NotifySlow
          <6> QED
            BY <4>3, <6>4
        <5> QED
          BY <1>1, <5>1, <5>2 DEF Bit
      <4>6. CASE Wake(t)
        <5>1. pc[t] = "wake" /\ sync' = sync
          BY <4>6 DEF Wake
        <5>2. pc'[t] # "spawn"
          BY <1>1, <4>1, <4>3, <4>6 DEF Wake, Asleep, PlacesTyped
        <5> QED
          BY <1>1, <5>1, <5>2 DEF Bit
      <4>7. CASE Spawn(t)
        <5>1. pc[t] = "spawn"
          BY <4>7 DEF Spawn
        <5>2. ASSUME NEW w \in Workers, pc[w] = "unborn",
                     pc' = [pc EXCEPT ![t] = l[t].ret, ![w] = "register"]
              PROVE  FALSE
          <6>1. w # t /\ w \in Threads /\ pc'[w] = "register"
            BY <1>1, <5>1, <5>2 DEF PlacesTyped, Threads
          <6> QED
            BY <2>2, <5>2, <6>1 DEF Alone, Stays, Roused
        <5>3. pc' = [pc EXCEPT ![t] = AfterUnspawn(l[t].ret)] /\ Unspawned
          BY <4>7, <5>2 DEF Spawn
        <5>4. sync.spawned # 0 /\ pc'[t] = l[t].ret
          BY <1>1, <1>2, <5>3 DEF AfterUnspawn, PlacesTyped
        <5>5. sync'.spawned = sync.spawned - 1
          BY <1>1, <5>3, <5>4 DEF Unspawned, SyncType
        <5> QED
          BY <1>1, <4>3, <5>1, <5>4, <5>5 DEF Bit
      <4> QED
        BY <1>4, <4>4, <4>5, <4>6, <4>7 DEF NotifyStep
    <3> QED
      BY <1>1, <1>2, <2>1, <3>2, <3>3, <3>4 DEF Bit
  <2>3. ASSUME NEW w \in Workers, Bears(t, w)
        PROVE  sync'.spawned = Cardinality(Live') + Cardinality(Spawning') + phantoms'
    <3>1. sync' = sync
      <4>1. pc[t] = "spawn" /\ w # t /\ pc[w] = "unborn" /\ pc'[w] = "register"
        BY <1>1, <2>3 DEF Bears, PlacesTyped, Threads
      <4>2. Spawn(t)
        BY <1>4, <4>1 DEF NotifyStep, Notify, NotifySlow, Post, Wake, Goto, Move
      <4>3. pc' # [pc EXCEPT ![t] = AfterUnspawn(l[t].ret)]
        BY <1>1, <4>1 DEF PlacesTyped, Threads
      <4> QED
        BY <4>2, <4>3 DEF Spawn
    <3> QED
      BY <1>1, <1>2, <1>4, <2>1, <2>3, <3>1, BearsChanges
  <2> QED
    BY <1>4, <2>2, <2>3, NotifyMoves
<1>5. ASSUME NEW w \in Workers, WorkerStep(w) \/ ScheduleInside(w) \/ SpuriousWake(w)
      PROVE  sync'.spawned = Cardinality(Live') + Cardinality(Spawning') + phantoms'
  <2>1. Alone(w) /\ PlacesTyped' /\ w \in Threads
    BY <1>5, WorkerMoves DEF Threads
  <2>2. /\ Cardinality(Live') = Cardinality(Live) + Bit(w \in Live') - Bit(w \in Live)
        /\ Cardinality(Spawning')
              = Cardinality(Spawning) + Bit(w \in Spawning') - Bit(w \in Spawning)
    BY <1>1, <2>1, AloneChanges DEF Changed
  <2>3. ASSUME NEW from, NEW to, NEW m, Move(w, from, to, m)
        PROVE  pc[w] = from /\ pc'[w] = to
    BY <1>1, <2>1, <2>3 DEF PlacesTyped, Move
  <2>4. CASE ConsumeNotification(w) \/ BecomeIdle(w) \/ LeaveOnShutdown(w)
    <3>1. phantoms' = phantoms /\ sync'.spawned = sync.spawned
      BY <1>1, <2>4 DEF ConsumeNotification, BecomeIdle, LeaveOnShutdown, SyncType, bounds, warming
    <3>2. pc[w] = "wait" /\ pc'[w] \in {"pop", "event", "unregister"}
      BY <2>3, <2>4 DEF ConsumeNotification, BecomeIdle, LeaveOnShutdown
    <3>3. w \in Live /\ w \in Live' /\ w \notin Spawning /\ w \notin Spawning'
      BY <3>2 DEF Live, Spawning, Gone
    <3> QED
      BY <1>1, <1>2, <2>2, <3>1, <3>3 DEF Bit
  <2>5. CASE Unregister(w)
    <3>1. /\ pc[w] = "unregister" /\ phantoms' = phantoms /\ sync.spawned # 0
          /\ pc'[w] \in {"tell", "linger"}
      BY <1>2, <2>1, <2>3, <2>5 DEF Unregister, Goto, AfterUnspawn, bounds, warming
    <3>2. sync'.spawned = sync.spawned - 1
      BY <1>1, <2>5, <3>1 DEF Unregister, Unspawned, SyncType
    <3>3. w \in Live /\ w \notin Live' /\ w \notin Spawning /\ w \notin Spawning'
      BY <3>1 DEF Live, Spawning, Gone
    <3> QED
      BY <1>1, <1>2, <2>2, <3>1, <3>2, <3>3 DEF Bit
  <2>6. CASE sync' = sync /\ phantoms' = phantoms /\ Plain(w)
    BY <1>1, <1>2, <2>1, <2>6, PlainKeeps
  <2> QED
    BY <1>5, <2>4, <2>5, <2>6, WorkerEffect
<1> QED
  BY <1>3, <1>4, <1>5, NextSteps

LEMMA SafeStep ==
  ASSUME CInv, SpawnedCounted, Safe, Next
  PROVE  Safe'
<1> SUFFICES ASSUME phantoms' >= 0, NEW u \in Threads, pc'[u] = "panic" PROVE FALSE
  BY DEF Safe, Running
<1>1. /\ PlacesTyped /\ Owner \in Threads /\ Owner \notin Workers
      /\ Cardinality(Live) \in Nat /\ Cardinality(Spawning) \in Nat
      /\ IsFiniteSet(Live) /\ IsFiniteSet(Spawning)
      /\ phantoms \in Int /\ sync.spawned \in Nat
  BY Distinct, SetsFinite DEF CInv, VarsTyped, Threads
<1>2. /\ Live # {} => Cardinality(Live) > 0
      /\ Spawning # {} => Cardinality(Spawning) > 0
  BY <1>1, FS_EmptySet
<1>3. Running => sync.spawned = Cardinality(Live) + Cardinality(Spawning) + phantoms
  BY DEF SpawnedCounted
<1>4. ASSUME phantoms >= 0 PROVE \A t \in Threads : pc[t] # "panic"
  BY <1>4 DEF Safe, Running
<1>5. CASE OwnerStep
  <2>1. CASE ~Warm
    <3>1. phantoms >= 0 /\ pc'[Owner] # "panic"
      BY <1>5, <2>1, OwnerElsewhere
    <3>2. CASE Alone(Owner)
      BY <1>4, <3>1, <3>2 DEF Alone, Stays, Roused
    <3> QED
      BY <1>5, <2>1, <3>2, OwnerMoves
  <2>2. CASE Warm
    <3>1. pc[Owner] = "warm"
      BY <2>2 DEF Warm, Goto, Move
    <3>2. \A t \in Threads : pc[t] # "panic"
      BY <3>1 DEF CInv, Warming, Threads
    <3>3. CASE Alone(Owner) /\ u # Owner
      BY <3>2, <3>3 DEF Alone, Stays, Roused
    <3>4. ASSUME NEW w \in Workers, pc'[w] = "register", Alone(w) PROVE FALSE
      BY <3>2, <3>4 DEF Alone, Stays, Roused
    <3>5. CASE u = Owner
      <4>1. sync.spawned >= phantoms
        BY <1>1, <1>3, <3>2 DEF Running
      <4>2. AfterUnspawn("sched") = "panic" /\ phantoms' = phantoms - 1
        <5>1. ASSUME NEW to, Goto(Owner, "warm", to) PROVE to = "panic"
          BY <1>1, <3>5, <5>1 DEF PlacesTyped, Goto, Move
        <5>2. ASSUME NEW w \in Workers, pc' = [pc EXCEPT ![w] = "register"] PROVE FALSE
          BY <1>1, <3>1, <3>5, <5>2 DEF PlacesTyped
        <5> QED
          BY <1>1, <2>2, <5>1, <5>2 DEF Warm, WarmCounts
      <4>3. sync.spawned = 0
        BY <4>2 DEF AfterUnspawn
      <4> QED
        BY <1>1, <4>1, <4>2, <4>3
    <3> QED
      BY <1>5, <3>3, <3>4, <3>5, OwnerMoves
  <2> QED
    BY <2>1, <2>2
<1>6. ASSUME NEW t \in Threads, NotifyStep(t) PROVE FALSE
  <2>1. phantoms' = phantoms
    BY <1>6 DEF NotifyStep, Notify, NotifySlow, Post, Wake, Spawn, bounds, warming
  <2>2. pc[u] # "panic" /\ Running
    BY <1>4, <2>1 DEF Running
  <2>3. u = t
    <3>1. CASE Alone(t)
      BY <2>2, <3>1 DEF Alone, Stays, Roused
    <3>2. ASSUME NEW w \in Workers, Bears(t, w) PROVE u = t
      BY <1>1, <2>2, <3>2 DEF Bears, PlacesTyped, Threads
    <3> QED
      BY <1>6, <3>1, <3>2, NotifyMoves
  <2>4. pc[t] \in Notifying /\ l[t].ret # "panic"
    BY <1>6, NotifyEffect, Returns
  <2>5. Spawn(t) /\ AfterUnspawn(l[t].ret) = "panic"
    <3>1. ASSUME NEW from, NEW to, NEW m, Move(t, from, to, m) PROVE to = "panic"
      BY <1>1, <2>3, <3>1 DEF PlacesTyped, Move
    <3>2. ASSUME NEW from, NEW to, Goto(t, from, to) PROVE to = "panic"
      BY <3>1, <3>2 DEF Goto
    <3>3. ~Notify(t) /\ ~Post(t)
      BY <2>4, <3>1, <3>2 DEF Notify, Post
    <3>4. ~NotifySlow(t)
      BY <2>4, <3>1, <3>2 DEF NotifySlow
    <3>5. ~Wake(t)
      BY <1>1, <2>3, <2>4, <3>1 DEF Wake, PlacesTyped, Asleep
    <3>6. Spawn(t)
      BY <1>6, <3>3, <3>4, <3>5 DEF NotifyStep
    <3>7. ASSUME NEW w \in Workers, pc' = [pc EXCEPT ![t] = l[t].ret, ![w] = "register"]
          PROVE FALSE
      BY <1>1, <2>3, <2>4, <3>7 DEF PlacesTyped
    <3>8. pc' = [pc EXCEPT ![t] = AfterUnspawn(l[t].ret)]
      BY <3>6, <3>7 DEF Spawn
    <3> QED
      BY <1>1, <2>3, <3>6, <3>8 DEF PlacesTyped
  <2>6. sync.spawned = 0 /\ Spawning # {}
    BY <2>4, <2>5 DEF AfterUnspawn, Spawn, Spawning
  <2>7. Cardinality(Spawning) > 0 /\ phantoms >= 0
        /\ sync.spawned = Cardinality(Live) + Cardinality(Spawning) + phantoms
    BY <1>2, <1>3, <2>1, <2>2, <2>6
  <2>8. Cardinality(Live) + Cardinality(Spawning) + phantoms # 0
    BY <1>1, <2>7
  <2> QED
    BY <2>6, <2>7, <2>8
<1>7. ASSUME NEW w \in Workers, WorkerStep(w) \/ ScheduleInside(w) \/ SpuriousWake(w)
      PROVE  FALSE
  <2>1. Alone(w) /\ w \in Threads
    BY <1>7, WorkerMoves DEF Threads
  <2>2. phantoms' = phantoms
    BY <1>7, WorkerEffect DEF ConsumeNotification, BecomeIdle, LeaveOnShutdown, Unregister, bounds,
                              warming
  <2>3. pc[u] # "panic" /\ Running
    BY <1>4, <2>2 DEF Running
  <2>4. u = w
    BY <2>1, <2>3 DEF Alone, Stays, Roused
  <2>5. ASSUME NEW from, NEW to, NEW m, Move(w, from, to, m) PROVE to = "panic" /\ pc[w] = from
    BY <1>1, <2>1, <2>4, <2>5 DEF PlacesTyped, Move
  <2>6. ~ConsumeNotification(w) /\ ~BecomeIdle(w) /\ ~LeaveOnShutdown(w)
    BY <2>5 DEF ConsumeNotification, BecomeIdle, LeaveOnShutdown
  <2>7. ~Plain(w)
    BY <2>4 DEF Plain
  <2>8. Unregister(w)
    BY <1>7, <2>6, <2>7, WorkerEffect
  <2>9. sync.spawned = 0 /\ w \in Live
    BY <2>5, <2>8 DEF Unregister, Goto, AfterUnspawn, Live, Gone
  <2>10. Cardinality(Live) > 0 /\ phantoms >= 0
         /\ sync.spawned = Cardinality(Live) + Cardinality(Spawning) + phantoms
    BY <1>2, <1>3, <2>2, <2>3, <2>9
  <2>11. Cardinality(Live) + Cardinality(Spawning) + phantoms # 0
    BY <1>1, <2>10
  <2> QED
    BY <2>9, <2>10, <2>11
<1> QED
  BY <1>5, <1>6, <1>7, NextSteps

-----------------------------------------------------------------------------
\* The tasks.

LEMMA Balance ==
  ASSUME CInv, PlacesTyped', VarsTyped', NEW t \in Threads, Alone(t)
  PROVE  /\ Lost \in Int
         /\ Lost' = Lost + (wait_group' - wait_group) - (queue' - queue)
                       - (Cardinality(Rows(buffer')) - Cardinality(Rows(buffer)))
                       - Bit(t \in InHand') + Bit(t \in InHand)
         /\ Cardinality(Rows(buffer')) \in Nat /\ Cardinality(Rows(buffer)) \in Nat
<1>1. /\ wait_group \in Int /\ wait_group' \in Int /\ queue \in Nat /\ queue' \in Nat
      /\ buffer \in [Workers -> Nat] /\ buffer' \in [Workers -> Nat]
  BY DEF CInv, VarsTyped
<1>2. \A b \in [Workers -> Nat] : Cardinality(Rows(b)) \in Nat
  BY RowsFinite, FS_CardinalityType DEF Rows
<1>3. /\ Cardinality(InHand) \in Nat
      /\ Cardinality(InHand') = Cardinality(InHand) + Bit(t \in InHand') - Bit(t \in InHand)
  BY SetsFinite, AloneChanges DEF CInv, Changed
<1>4. /\ Lost = wait_group - (queue + Cardinality(Rows(buffer)) + Cardinality(InHand))
      /\ Lost' = wait_group' - (queue' + Cardinality(Rows(buffer')) + Cardinality(InHand'))
  BY DEF Lost, Buffered, Rows, Row
<1>5. Cardinality(Rows(buffer)) \in Nat /\ Cardinality(Rows(buffer')) \in Nat
  BY <1>1, <1>2
<1>6. Bit(t \in InHand') \in Int /\ Bit(t \in InHand) \in Int
  BY DEF Bit
<1> QED
  BY <1>1, <1>3, <1>4, <1>5, <1>6

Hands == {"push", "release", "found", "run", "finish"} \cup Notifying

LEMMA WorkerLost ==
  ASSUME CInv, VarsTyped', NEW w \in Workers,
         WorkerStep(w) \/ ScheduleInside(w) \/ SpuriousWake(w)
  PROVE  Lost' = Lost
<1>1. /\ PlacesTyped /\ PlacesTyped' /\ w \in Threads /\ Alone(w) /\ buffer \in [Workers -> Nat]
      /\ wait_group \in Int /\ queue \in Nat /\ WorkerFits(w) /\ l[w] \in Locals
  BY WorkerMoves DEF CInv, VarsTyped, Threads, Fits, PlacesTyped
<1>2. /\ Lost \in Int
      /\ Lost' = Lost + (wait_group' - wait_group) - (queue' - queue)
                    - (Cardinality(Rows(buffer')) - Cardinality(Rows(buffer)))
                    - Bit(w \in InHand') + Bit(w \in InHand)
      /\ Cardinality(Rows(buffer')) \in Nat /\ Cardinality(Rows(buffer)) \in Nat
  BY <1>1, Balance
<1>3. (w \in InHand <=> pc[w] \in Hands) /\ (w \in InHand' <=> pc'[w] \in Hands)
  BY <1>1 DEF InHand, Hands, Notifying, Passed
<1>4. ASSUME NEW from, NEW to, NEW m, Move(w, from, to, m) PROVE pc[w] = from /\ pc'[w] = to
  BY <1>1, <1>4 DEF PlacesTyped, Move
<1>5. ASSUME NEW from, NEW to, Goto(w, from, to) PROVE pc[w] = from /\ pc'[w] = to
  BY <1>4, <1>5 DEF Goto
<1>6. ASSUME UNCHANGED <<queue, buffer, wait_group>>, pc[w] \in Hands <=> pc'[w] \in Hands
      PROVE  Lost' = Lost
  BY <1>1, <1>2, <1>3, <1>6 DEF Bit
<1> USE DEF queues, Hands, Notifying, Passed
<1>7. Register(w) \/ EnterEvent(w) \/ EventLoop(w) \/ Sleep(w) => Lost' = Lost
  BY <1>4, <1>5, <1>6 DEF Register, EnterEvent, EventLoop, Sleep
<1>8. SpuriousWake(w) \/ Timeout(w) \/ TryConsume(w) \/ ReleaseConsumer(w) => Lost' = Lost
  BY <1>4, <1>5, <1>6 DEF SpuriousWake, Timeout, TryConsume, ReleaseConsumer
<1>9. CountVictims(w) \/ Found(w) \/ Run(w) \/ LeaveOnShutdown(w) => Lost' = Lost
  BY <1>4, <1>5, <1>6 DEF CountVictims, Found, Run, LeaveOnShutdown
<1>10. ConsumeNotification(w) \/ BecomeIdle(w) \/ Tell(w) \/ Linger(w) => Lost' = Lost
  BY <1>4, <1>5, <1>6 DEF ConsumeNotification, BecomeIdle, Tell, Linger
<1>11. Unregister(w) => Lost' = Lost
  BY <1>5, <1>6 DEF Unregister, AfterUnspawn
<1>12. CASE Finish(w)
  <2>1. wait_group' = wait_group - 1 /\ UNCHANGED <<queue, buffer>>
        /\ pc[w] \in Hands /\ pc'[w] \notin Hands
    BY <1>5, <1>12 DEF Finish
  <2> QED
    BY <1>1, <1>2, <1>3, <2>1 DEF Bit
<1>13. CASE ScheduleInside(w)
  <2>1. wait_group' = wait_group + 1 /\ UNCHANGED queue /\ buffer' = [buffer EXCEPT ![w] = @ + 1]
        /\ pc[w] \in Hands /\ pc'[w] \in Hands
    BY <1>4, <1>13 DEF ScheduleInside
  <2>2. buffer[w] \in Nat /\ buffer[w] + 1 \in Nat
    BY <1>1
  <2>3. Cardinality(Rows(buffer')) = Cardinality(Rows(buffer)) + 1
    <3>1. Cardinality(Rows(buffer')) = Cardinality(Rows(buffer)) + (buffer[w] + 1) - buffer[w]
      BY <1>1, <2>1, <2>2, RowsChange
    <3> QED
      BY <1>2, <2>2, <3>1
  <2> QED
    BY <1>1, <1>2, <1>3, <2>1, <2>3 DEF Bit
<1>14. CASE PopBuffer(w)
  <2>1. CASE buffer[w] > 0
    <3>1. UNCHANGED <<queue, wait_group>> /\ buffer' = [buffer EXCEPT ![w] = @ - 1]
          /\ pc[w] \notin Hands /\ pc'[w] \in Hands
      BY <1>4, <1>14, <2>1 DEF PopBuffer
    <3>2. buffer[w] \in Nat /\ buffer[w] - 1 \in Nat
      BY <1>1, <2>1
    <3>3. Cardinality(Rows(buffer')) = Cardinality(Rows(buffer)) + (buffer[w] - 1) - buffer[w]
      BY <1>1, <3>1, <3>2, RowsChange
    <3>4. Cardinality(Rows(buffer')) = Cardinality(Rows(buffer)) - 1
      BY <1>2, <3>2, <3>3
    <3> QED
      BY <1>1, <1>2, <1>3, <3>1, <3>4 DEF Bit
  <2>2. CASE ~(buffer[w] > 0)
    BY <1>5, <1>6, <1>14, <2>2 DEF PopBuffer
  <2> QED
    BY <2>1, <2>2
<1>15. CASE Consume(w)
  <2>1. UNCHANGED wait_group /\ queue' = 0 /\ buffer' = [buffer EXCEPT ![w] = Kept(queue)]
        /\ pc[w] = "consume" /\ pc'[w] \in Hands
    BY <1>4, <1>15 DEF Consume
  <2>2. buffer[w] = 0 /\ Kept(queue) = queue - 1 /\ queue - 1 \in Nat
    BY <1>1, <2>1 DEF WorkerFits, Kept
  <2>3. Cardinality(Rows(buffer')) = Cardinality(Rows(buffer)) + (queue - 1) - 0
    BY <1>1, <2>1, <2>2, RowsChange
  <2> QED
    BY <1>1, <1>2, <1>3, <2>1, <2>2, <2>3 DEF Bit
<1>16. CASE Steal(w)
  <2> DEFINE victim == IF l[w].target = None THEN registered[1] ELSE l[w].target
             half == buffer[victim] - (buffer[victim] \div 2)
             next == [l[w] EXCEPT !.attempts = @ - 1, !.target = Below(victim)]
             last == [next EXCEPT !.attempts = 0, !.pushed = half > 1]
  <2>1. /\ pc[w] = "steal" /\ UNCHANGED <<queue, wait_group>>
        /\ \/ Goto(w, "steal", "wait") /\ UNCHANGED buffer
           \/ Move(w, "steal", "steal", next) /\ UNCHANGED buffer
           \/ /\ Move(w, "steal", "found", last) /\ victim # w /\ half > 0
              /\ buffer' = [buffer EXCEPT ![victim] = @ - half, ![w] = Kept(half)]
    BY <1>16, Zenon DEF Steal
  <2>2. victim \in Workers /\ buffer[w] = 0
    BY <1>1, <2>1, Victims DEF WorkerFits
  <2>3. buffer[victim] \in Nat
    BY <1>1, <2>2
  <2>4. half \in Int /\ half <= buffer[victim]
    BY <2>3
  <2> HIDE DEF victim, half, next, last
  <2>5. CASE UNCHANGED buffer /\ pc'[w] \in {"wait", "steal"}
    BY <1>6, <2>1, <2>5
  <2>6. CASE /\ pc'[w] = "found" /\ victim # w /\ half > 0
             /\ buffer' = [buffer EXCEPT ![victim] = @ - half, ![w] = Kept(half)]
    <3> DEFINE mid == [buffer EXCEPT ![victim] = @ - half]
    <3>1. buffer[victim] - half \in Nat /\ Kept(half) = half - 1 /\ half - 1 \in Nat
      BY <2>3, <2>4, <2>6 DEF Kept
    <3>2. mid \in [Workers -> Nat] /\ mid[w] = 0
      BY <1>1, <2>2, <2>6, <3>1
    <3>3. Cardinality(Rows(mid))
            = Cardinality(Rows(buffer)) + (buffer[victim] - half) - buffer[victim]
      BY <1>1, <2>2, <3>1, RowsChange
    <3>4. buffer' = [mid EXCEPT ![w] = half - 1]
      BY <2>6, <3>1
    <3> HIDE DEF mid
    <3>5. Cardinality(Rows(buffer')) = Cardinality(Rows(mid)) + (half - 1) - 0
      BY <3>1, <3>2, <3>4, RowsChange
    <3>6. Cardinality(Rows(buffer')) = Cardinality(Rows(buffer)) - 1
      BY <1>2, <2>3, <2>4, <3>3, <3>5
    <3> QED
      BY <1>1, <1>2, <1>3, <2>1, <2>6, <3>6 DEF Bit
  <2> QED
    BY <1>4, <1>5, <2>1, <2>5, <2>6
<1> QED
  BY <1>7, <1>8, <1>9, <1>10, <1>11, <1>12, <1>13, <1>14, <1>15, <1>16 DEF WorkerStep

\* Only a thread that panics in notify() loses a task, the one it has in its hands.
LEMMA NotifyLost ==
  ASSUME CInv, VarsTyped', NEW t \in Threads, NotifyStep(t)
  PROVE  Lost' = Lost \/ (Lost' = Lost + 1 /\ ~Running')
<1>1. /\ PlacesTyped /\ PlacesTyped' /\ Quiet /\ wait_group' = wait_group
      /\ wait_group \in Int /\ queue \in Nat /\ pc[t] \in Notifying
  BY NotifyMoves, NotifyEffect DEF CInv, VarsTyped
<1>2. CASE Alone(t)
  <2>1. /\ Lost \in Int
        /\ Lost' = Lost + (wait_group' - wait_group) - (queue' - queue)
                      - (Cardinality(Rows(buffer')) - Cardinality(Rows(buffer)))
                      - Bit(t \in InHand') + Bit(t \in InHand)
        /\ Cardinality(Rows(buffer)) \in Nat
    BY <1>1, <1>2, Balance
  <2>2. CASE t = Owner
    <3>1. l[t].ret = "sched" /\ t \notin Workers
      BY <1>1, <2>2, Returns, Distinct
    <3>2. pc'[t] \in {"slow", "post", "wake", "spawn", "sched", "panic"}
      BY <3>1, NotifyEffect
    <3>3. t \notin InHand /\ t \notin InHand'
      BY <1>1, <3>1, <3>2 DEF InHand, Notifying, Passed
    <3> QED
      BY <1>1, <2>1, <3>3 DEF Quiet, queues, Bit
  <2>3. CASE t # Owner
    <3>1. l[t].ret \in {"run", "finish"} /\ t \in Workers
      BY <1>1, <2>3, Returns DEF Threads
    <3>2. pc'[t] \in {"slow", "post", "wake", "spawn", "run", "finish", "panic"}
      BY <3>1, NotifyEffect
    <3>3. t \in InHand /\ (t \in InHand' <=> pc'[t] # "panic")
      BY <1>1, <3>1, <3>2 DEF InHand, Notifying, Passed
    <3> QED
      BY <1>1, <2>1, <3>3 DEF Quiet, queues, Bit, Running
  <2> QED
    BY <2>2, <2>3
<1>3. ASSUME NEW w \in Workers, Bears(t, w) PROVE Lost' = Lost
  <2>1. Cardinality(InHand') = Cardinality(InHand) /\ Buffered' = Buffered
    BY <1>1, <1>3, BearsChanges DEF Buffered, Quiet, queues
  <2> QED
    BY <1>1, <2>1 DEF Lost, Quiet, queues
<1> QED
  BY <1>2, <1>3, NotifyMoves

LEMMA OwnerLost ==
  ASSUME CInv, VarsTyped', OwnerStep
  PROVE  Lost' = Lost
<1>1. /\ PlacesTyped /\ PlacesTyped' /\ Owner \in Threads /\ Owner \notin Workers
      /\ wait_group \in Int /\ queue \in Nat /\ buffer' = buffer
  BY OwnerMoves, Distinct DEF CInv, VarsTyped, Threads, OwnerStep, Warm, NoWarm, Schedule, Push,
     Await, Shutdown, PostAll, WakeAll, Join, JoinWait, Kick, queues
<1>2. CASE Alone(Owner)
  <2>1. /\ Lost \in Int
        /\ Lost' = Lost + (wait_group' - wait_group) - (queue' - queue)
                      - (Cardinality(Rows(buffer')) - Cardinality(Rows(buffer)))
                      - Bit(Owner \in InHand') + Bit(Owner \in InHand)
        /\ Cardinality(Rows(buffer)) \in Nat
    BY <1>1, <1>2, Balance
  <2>2. /\ Owner \in InHand <=> pc[Owner] \in {"push", "release", "found", "run", "finish"}
        /\ Owner \in InHand' <=> pc'[Owner] \in {"push", "release", "found", "run", "finish"}
    BY <1>1 DEF InHand
  <2>3. ASSUME NEW from, NEW to, Goto(Owner, from, to)
        PROVE  pc[Owner] = from /\ pc'[Owner] = to
    BY <1>1, <2>3 DEF PlacesTyped, Goto, Move
  <2>4. CASE Schedule
    <3>1. pc[Owner] = "sched" /\ pc'[Owner] = "push" /\ wait_group' = wait_group + 1
          /\ queue' = queue
      BY <2>3, <2>4 DEF Schedule, queues
    <3> QED
      BY <1>1, <2>1, <2>2, <3>1 DEF Bit
  <2>5. CASE Push
    <3>1. pc[Owner] = "push" /\ pc'[Owner] = "notify" /\ queue' = queue + 1
          /\ wait_group' = wait_group
      BY <2>3, <2>5 DEF Push
    <3> QED
      BY <1>1, <2>1, <2>2, <3>1 DEF Bit
  <2>6. CASE ~Schedule /\ ~Push
    <3>1. queue' = queue /\ wait_group' = wait_group
      BY <2>6 DEF OwnerStep, Warm, NoWarm, Await, Shutdown, PostAll, WakeAll, Join, JoinWait, Kick,
                  queues
    <3>2. Owner \notin InHand /\ Owner \notin InHand'
      <4>1. NoWarm \/ Await \/ PostAll \/ Join \/ JoinWait \/ Kick
              => Owner \notin InHand /\ Owner \notin InHand'
        BY <2>2, <2>3 DEF NoWarm, Await, PostAll, Join, JoinWait, Kick
      <4>2. Shutdown => Owner \notin InHand /\ Owner \notin InHand'
        BY <2>2, <2>3 DEF Shutdown
      <4>3. WakeAll => Owner \notin InHand /\ Owner \notin InHand'
        BY <1>1, <2>2 DEF WakeAll
      <4>4. Warm => Owner \notin InHand /\ Owner \notin InHand'
        <5>1. ASSUME NEW w \in Workers, pc' = [pc EXCEPT ![w] = "register"], pc[Owner] = "warm"
              PROVE  pc'[Owner] = "warm"
          BY <1>1, <5>1 DEF PlacesTyped
        <5> QED
          BY <2>2, <2>3, <5>1 DEF Warm, AfterUnspawn
      <4> QED
        BY <2>6, <4>1, <4>2, <4>3, <4>4 DEF OwnerStep
    <3> QED
      BY <1>1, <2>1, <3>1, <3>2 DEF Bit
  <2> QED
    BY <2>4, <2>5, <2>6
<1>3. ASSUME NEW w \in Workers, Warm, pc[w] = "unborn", pc'[w] = "register", Alone(w)
      PROVE  Lost' = Lost
  <2>1. /\ Lost \in Int
        /\ Lost' = Lost + (wait_group' - wait_group) - (queue' - queue)
                      - (Cardinality(Rows(buffer')) - Cardinality(Rows(buffer)))
                      - Bit(w \in InHand') + Bit(w \in InHand)
        /\ Cardinality(Rows(buffer)) \in Nat
    BY <1>1, <1>3, Balance DEF Threads
  <2>2. w \notin InHand /\ w \notin InHand' /\ queue' = queue /\ wait_group' = wait_group
    BY <1>3 DEF InHand, Passed, Warm, queues
  <2> QED
    BY <1>1, <2>1, <2>2 DEF Bit
<1> QED
  BY <1>2, <1>3, OwnerMoves

-----------------------------------------------------------------------------
\* The whole invariant, and the theorems.

LEMMA PoolInit ==
  ASSUME Init
  PROVE  PInv
<1>1. VarsTyped
  <2>1. sync \in [idle : Int, spawned : Nat, notified : BOOLEAN, state : States]
    BY DEF Init, States
  <2>2. registered \in Seq(Workers)
    BY DEF Init
  <2>3. /\ queue = 0 /\ wait_group = 0 /\ phantoms = 0 /\ consumer = None
        /\ idle_event = EMPTY /\ join_event = FALSE /\ warmed = FALSE /\ late = FALSE
    BY DEF Init
  <2>4. roots \in 0..Roots /\ children \in 0..Children /\ failures \in 0..SpawnFailures
    BY PoolAssumption DEF Init
  <2>5. buffer \in [Workers -> Nat] /\ exit_event \in [Workers -> BOOLEAN]
    BY DEF Init
  <2>6. join_event \in BOOLEAN /\ warmed \in BOOLEAN /\ late \in BOOLEAN
    BY <2>3
  <2>7. /\ queue \in Nat /\ wait_group \in Int /\ phantoms \in Int
        /\ consumer \in Workers \cup {None} /\ idle_event \in {EMPTY, WAITING, NOTIFIED, SHUTDOWN}
    BY <2>3
  <2> QED
    BY <2>1, <2>2, <2>4, <2>5, <2>6, <2>7 DEF VarsTyped
<1>2. Start \in Locals /\ Start.is_idle = FALSE /\ Start.is_waking = FALSE /\ Start.target = None
      /\ Start.ret = "sched"
  BY DEF Start, Locals
<1>3. /\ pc[Owner] = "warm" /\ \A w \in Workers : pc[w] = "unborn"
      /\ \A t \in Threads : l[t] = Start
      /\ pc \in [Threads -> {"warm", "unborn"}] /\ l \in [Threads -> Locals]
  BY <1>2, Distinct DEF Init, Threads
<1>4. PlacesTyped
  BY <1>3 DEF PlacesTyped, OwnerAt, WorkerAt
<1>5. Fits
  <2>1. Owner \in Threads /\ \A w \in Workers : w \in Threads
    BY DEF Threads
  <2>2. consumer = None /\ \A w \in Workers : consumer # w
    BY Distinct DEF Init, Threads
  <2> QED
    BY <1>2, <1>3, <2>1, <2>2 DEF Fits, OwnerPlain, WorkerFits, Notifying, Passed
<1>6. Warming /\ Ending
  BY <1>3 DEF Warming, Ending, Init
<1>7. Wakers = {} /\ Idlers = {} /\ Live = {} /\ Spawning = {} /\ InHand = {} /\ Buffered = {}
  <2>1. \A w \in Workers : w \in Threads
    BY DEF Threads
  <2>2. Wakers = {} /\ Idlers = {}
    BY <1>2, <1>3, <2>1 DEF Wakers, Idlers
  <2>3. Live = {} /\ Spawning = {}
    BY <1>3, <2>1, Distinct DEF Live, Spawning, Gone, Threads
  <2>4. InHand = {}
    BY <1>3, <2>1, Distinct DEF InHand, Passed, Threads
  <2>5. \A w \in Workers : 1..buffer[w] = {}
    BY DEF Init
  <2> QED
    BY <2>2, <2>3, <2>4, <2>5 DEF Buffered
<1>8. Running
  BY <1>3 DEF Running, Threads
<1>9. Woken /\ IdleKnown /\ SpawnedCounted /\ Safe /\ LostKnown
  BY <1>7, <1>8, FS_EmptySet DEF Woken, IdleKnown, SpawnedCounted, Safe, LostKnown, Lost, Init
<1> QED
  BY <1>1, <1>4, <1>5, <1>6, <1>9 DEF PInv, CInv

LEMMA PoolStep ==
  ASSUME PInv, [Next]_vars
  PROVE  PInv'
<1>1. CASE Next
  <2>1. CInv /\ Woken /\ IdleKnown /\ SpawnedCounted /\ Safe /\ LostKnown
    BY DEF PInv
  <2>2. VarsTyped'
    BY <1>1, <2>1, WorkerVars, OtherVars, NextSteps
  <2>3. PlacesTyped'
    BY <1>1, <2>1, WorkerMoves, NotifyMoves, OwnerMoves, NextSteps
  <2>4. Fits'
    BY <1>1, <2>1, WorkerFitsStep, NotifyFitsStep, OwnerFitsStep, NextSteps
  <2>5. Warming' /\ Ending'
    BY <1>1, <2>1, WarmingStep, EndingStep
  <2>6. Woken' /\ IdleKnown' /\ SpawnedCounted' /\ Safe'
    BY <1>1, <2>1, WokenStep, IdleStep, SpawnedStep, SafeStep
  <2>7. LostKnown'
    <3>1. Lost' = Lost \/ (Lost' = Lost + 1 /\ ~Running')
      BY <1>1, <2>1, <2>2, WorkerLost, NotifyLost, OwnerLost, NextSteps
    <3>2. Lost \in Int
      <4>1. Cardinality(InHand) \in Nat
        BY SetsFinite
      <4>2. buffer \in [Workers -> Nat] /\ queue \in Nat /\ wait_group \in Int
        BY <2>1 DEF CInv, VarsTyped
      <4>3. Cardinality(Buffered) \in Nat
        BY <4>2, BufferedRows, RowsFinite, FS_CardinalityType DEF Rows
      <4> QED
        BY <4>1, <4>2, <4>3 DEF Lost
    <3>3. Running' => Running
      BY <1>1, <2>1, PanicStays
    <3> QED
      BY <2>1, <3>1, <3>2, <3>3 DEF LostKnown
  <2> QED
    BY <2>2, <2>3, <2>4, <2>5, <2>6, <2>7 DEF PInv, CInv
<1>2. CASE UNCHANGED vars
  <2> USE <1>2 DEF vars, events, queues, bounds, warming
  <2>1. VarsTyped' <=> VarsTyped
    BY DEF VarsTyped
  <2>2. PlacesTyped' <=> PlacesTyped
    BY DEF PlacesTyped
  <2>3. Fits' <=> Fits
    BY DEF Fits, OwnerPlain, WorkerFits, Listed
  <2>4. (Warming' <=> Warming) /\ (Ending' <=> Ending)
    BY DEF Warming, Ending
  <2>5. (Woken' <=> Woken) /\ (IdleKnown' <=> IdleKnown)
    BY DEF Woken, IdleKnown, Wakers, Idlers
  <2>6. (SpawnedCounted' <=> SpawnedCounted) /\ (Safe' <=> Safe)
    BY DEF SpawnedCounted, Safe, Running, Live, Spawning
  <2>7. LostKnown' <=> LostKnown
    BY DEF LostKnown, Lost, Running, Buffered, InHand
  <2> QED
    BY <2>1, <2>2, <2>3, <2>4, <2>5, <2>6, <2>7 DEF PInv, CInv
<1> QED
  BY <1>1, <1>2

\* What every worker and the owner hold, at each place in the code, and what the counts
\* say of them, is kept by every step: the invariant that the theorems below read off.
THEOREM PoolInvariant == Spec => []PInv
BY PoolInit, PoolStep, PTL DEF Spec

\* Each step that counts a thread has looked at max_threads.
LEMMA SpawnedBelow ==
  ASSUME CInv, sync.spawned <= MaxThreads, Next PROVE sync'.spawned <= MaxThreads
<1>1. sync \in SyncType /\ MaxThreads \in Nat \ {0} /\ WarmTo \in Nat
  BY PoolAssumption DEF CInv, VarsTyped, SyncType
<1>2. Unspawned => sync'.spawned <= MaxThreads
  BY <1>1 DEF Unspawned, SyncType
<1>3. CASE Warm
  <2>1. sync.spawned < WarmTarget => sync.spawned + 1 <= MaxThreads
    BY <1>1 DEF WarmTarget, SyncType
  <2> QED
    BY <1>1, <1>2, <1>3, <2>1 DEF Warm, SyncType
<1>4. CASE OwnerStep /\ ~Warm
  BY <1>1, <1>4 DEF OwnerStep, NoWarm, Schedule, Push, Await, Shutdown, PostAll, WakeAll, Join,
     JoinWait, Kick, SyncType
<1>5. ASSUME NEW t \in Threads, NotifyStep(t) PROVE sync'.spawned <= MaxThreads
  <2>1. CASE Notify(t) \/ Post(t) \/ Wake(t)
    BY <2>1 DEF Notify, Post, Wake
  <2>2. CASE NotifySlow(t)
    <3>1. \/ sync' = sync
          \/ \E n \in {sync.spawned} \cup (IF sync.spawned < MaxThreads
                                           THEN {sync.spawned + 1} ELSE {}) :
               sync'.spawned = n
      BY <1>1, <2>2 DEF NotifySlow, SyncType
    <3> QED
      BY <1>1, <3>1 DEF SyncType
  <2>3. CASE Spawn(t)
    BY <1>1, <1>2, <2>3 DEF Spawn
  <2> QED
    BY <1>5, <2>1, <2>2, <2>3 DEF NotifyStep
<1>6. ASSUME NEW w \in Workers, WorkerStep(w) \/ ScheduleInside(w) \/ SpuriousWake(w)
      PROVE sync'.spawned <= MaxThreads
  <2>1. \/ ConsumeNotification(w) \/ BecomeIdle(w) \/ LeaveOnShutdown(w) \/ Unregister(w)
        \/ sync' = sync
    BY <1>6, WorkerEffect
  <2> QED
    BY <1>1, <1>2, <2>1 DEF ConsumeNotification, BecomeIdle, LeaveOnShutdown, Unregister,
       SyncType
<1>7. OwnerStep => sync'.spawned <= MaxThreads
  BY <1>3, <1>4
<1> QED
  BY <1>5, <1>6, <1>7, NextSteps

LEMMA SpawnedAlways == Spec => [](sync.spawned <= MaxThreads)
<1>1. Init => sync.spawned <= MaxThreads
  BY PoolAssumption DEF Init
<1>2. PInv /\ sync.spawned <= MaxThreads /\ [Next]_vars => (sync.spawned <= MaxThreads)'
  <2> SUFFICES ASSUME PInv, sync.spawned <= MaxThreads, [Next]_vars
               PROVE  sync'.spawned <= MaxThreads
    OBVIOUS
  <2>1. CASE Next
    BY <2>1, SpawnedBelow DEF PInv
  <2>2. CASE UNCHANGED vars
    BY <2>2 DEF vars
  <2> QED
    BY <2>1, <2>2
<1> QED
  BY <1>1, <1>2, PoolInvariant, PTL DEF Spec

\* The types: no count of the word or of the wait group ever goes below zero, and the
\* word never counts more threads than max_threads.
THEOREM TypeCorrect == Spec => []TypeOK
<1>1. PInv /\ sync.spawned <= MaxThreads => TypeOK
  <2> SUFFICES ASSUME PInv, sync.spawned <= MaxThreads PROVE TypeOK
    OBVIOUS
  <2>1. VarsTyped /\ PlacesTyped /\ IdleKnown /\ LostKnown
    BY DEF PInv, CInv
  <2>2. Cardinality(Idlers) \in Nat /\ Cardinality(InHand) \in Nat
    BY SetsFinite
  <2>3. sync \in [idle : Nat, spawned : Nat, notified : BOOLEAN,
                 state : {"pending", "signaled", "waking", "shutdown"}]
    <3>1. sync \in SyncType /\ sync.idle \in Nat
      BY <2>1, <2>2 DEF VarsTyped, SyncType, IdleKnown
    <3> QED
      BY <3>1 DEF SyncType, States
  <2>4. wait_group \in Nat
    <3>1. Cardinality(Buffered) \in Nat
      BY <2>1, BufferedRows, RowsFinite, FS_CardinalityType DEF VarsTyped, Rows
    <3>2. queue \in Nat /\ wait_group \in Int
      BY <2>1 DEF VarsTyped
    <3>3. wait_group - (queue + Cardinality(Buffered) + Cardinality(InHand)) >= 0
      BY <2>1 DEF LostKnown, Lost
    <3> QED
      BY <2>2, <3>1, <3>2, <3>3
  <2> QED
    BY <2>1, <2>3, <2>4 DEF VarsTyped, PlacesTyped, TypeOK
<1> QED
  BY <1>1, PoolInvariant, SpawnedAlways, PTL

\* Until shutdown there is a waking thread exactly when the word says so, and never two.
THEOREM WakerUnique == Spec => []OneWaker
<1>1. PInv => OneWaker
  <2> SUFFICES ASSUME PInv, sync.state # "shutdown"
               PROVE  (sync.state = "waking" <=> Wakers # {}) /\ Cardinality(Wakers) <= 1
    BY DEF OneWaker
  <2>1. (sync.state = "waking" <=> Wakers # {}) /\ \A u, v \in Wakers : u = v
    BY DEF PInv, Woken
  <2>2. CASE Wakers = {}
    BY <2>1, <2>2, FS_EmptySet
  <2>3. ASSUME NEW u \in Wakers PROVE Cardinality(Wakers) = 1
    <3>1. Wakers = {u}
      BY <2>1
    <3> QED
      BY <3>1, FS_Singleton
  <2> QED
    BY <2>1, <2>2, <2>3
<1> QED
  BY <1>1, PoolInvariant, PTL

\* `idle` and `spawned` follow the threads.
THEOREM SyncFollowsThreads == Spec => []SyncCounted
<1>1. PInv => SyncCounted
  BY DEF PInv, SyncCounted, IdleCounted, IdleKnown
<1> QED
  BY <1>1, PoolInvariant, PTL

\* A task that is waited for is queued, buffered or in a thread's hands, and in one of
\* these places only.
THEOREM TasksNeverLost == Spec => []TasksCounted
<1>1. PInv => TasksCounted
  <2> SUFFICES ASSUME PInv, Running
               PROVE  wait_group = queue + Cardinality(Buffered) + Cardinality(InHand)
    BY DEF TasksCounted
  <2>1. Cardinality(InHand) \in Nat /\ queue \in Nat /\ wait_group \in Int
        /\ buffer \in [Workers -> Nat]
    BY SetsFinite DEF PInv, CInv, VarsTyped
  <2>2. Cardinality(Buffered) \in Nat
    BY <2>1, BufferedRows, RowsFinite, FS_CardinalityType DEF Rows
  <2>3. wait_group - (queue + Cardinality(Buffered) + Cardinality(InHand)) = 0
    BY DEF PInv, LostKnown, Lost
  <2> QED
    BY <2>1, <2>2, <2>3
<1> QED
  BY <1>1, PoolInvariant, PTL

\* The code's assertions hold whenever warm() has counted no thread too few.
THEOREM AssertionsHold == Spec => []AssertsHold
<1>1. PInv => AssertsHold
  <2> SUFFICES ASSUME PInv, phantoms >= 0
               PROVE  /\ \A w \in Workers :
                           /\ \/ pc[w] = "slow" /\ Waking(w)
                              \/ pc[w] = "wait" /\ l[w].is_waking
                             => sync.state \in {"waking", "shutdown"}
                           /\ pc[w] \in {"consume", "victims", "steal"} => buffer[w] = 0
                      /\ pc[Owner] = "kick" => sync.state = "shutdown" /\ sync.spawned = 0
                      /\ Running
    BY DEF AssertsHold, Running
  <2>1. ASSUME NEW w \in Workers,
               (pc[w] = "slow" /\ Waking(w)) \/ (pc[w] = "wait" /\ l[w].is_waking)
        PROVE  sync.state \in {"waking", "shutdown"}
    <3>1. w \in Wakers
      BY <2>1 DEF Wakers, Passed, Waking
    <3> QED
      BY <3>1 DEF PInv, Woken
  <2>2. \A w \in Workers : pc[w] \in {"consume", "victims", "steal"} => buffer[w] = 0
    BY DEF PInv, CInv, Fits, WorkerFits
  <2>3. pc[Owner] = "kick" => sync.state = "shutdown" /\ sync.spawned = 0
    BY DEF PInv, CInv, Ending
  <2>4. Running
    BY DEF PInv, Safe
  <2> QED
    BY <2>1, <2>2, <2>3, <2>4
<1> QED
  BY <1>1, PoolInvariant, PTL
=============================================================================
