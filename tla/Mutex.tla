------------------------------- MODULE Mutex -------------------------------
(***************************************************************************)
(* The futex mutex of src/src/threading/Mutex.zig (FutexImpl) under the    *)
(* bookkeeping of its debug build (DebugImpl).  Every atomic access to     *)
(* `state` or `locking_thread` is a step of its own.                       *)
(***************************************************************************)
EXTENDS Naturals

CONSTANTS Threads,
          NoThread,  \* thread id 0: "not locked"
          UseBts,    \* TRUE: the x86 tryLock (lock bts); FALSE: cmpxchgWeak
          Debug      \* TRUE: Impl = DebugImpl; FALSE: Impl = ReleaseImpl

ASSUME MutexAssumption == /\ NoThread \notin Threads
                          /\ UseBts \in BOOLEAN
                          /\ Debug \in BOOLEAN

Unlocked  == 0
Locked    == 1
Contended == 3

VARIABLES state,           \* the futex word
          locking_thread,  \* DebugImpl.locking_thread
          pc               \* where each thread is

vars == <<state, locking_thread, pc>>

(***************************************************************************)
(* idle: outside; lock / trylock: before the fast path; check: the load in *)
(* lockSlow; swap: before the swap; wait: before the futex wait; asleep:   *)
(* in the kernel; enter: acquired, before DebugImpl's store; cs: the       *)
(* critical section; release: before the swap of unlock; wake: before the  *)
(* futex wake; panic: an assertion of DebugImpl failed.                    *)
(***************************************************************************)
Locations == {"idle", "lock", "trylock", "check", "swap", "wait", "asleep",
              "enter", "cs", "release", "wake", "panic"}
Critical  == {"enter", "cs", "release"}
Trying    == {"lock", "trylock", "check", "swap", "wait", "asleep"}

Init == /\ state = Unlocked
        /\ locking_thread = NoThread
        /\ pc = [t \in Threads |-> "idle"]

Goto(t, from, to) == pc[t] = from /\ pc' = [pc EXCEPT ![t] = to]

\* lock(): DebugImpl first looks whether the caller already holds the lock.
BeginLock(t) ==
  /\ Goto(t, "idle", IF Debug /\ locking_thread = t THEN "panic" ELSE "lock")
  /\ UNCHANGED <<state, locking_thread>>

BeginTryLock(t) == /\ Goto(t, "idle", "trylock")
                   /\ UNCHANGED <<state, locking_thread>>

\* FutexImpl.tryLock: `lock bts` sets bit 0 whatever the word holds;
\* cmpxchgWeak may fail although the word is Unlocked.
TryAcquire(ok) ==
  IF UseBts
  THEN /\ ok = (state = Unlocked)
       /\ state' = IF state = Unlocked THEN Locked ELSE state
  ELSE \/ ok /\ state = Unlocked /\ state' = Locked
       \/ ~ok /\ UNCHANGED state

FastPath(t) ==
  \E ok \in BOOLEAN : /\ TryAcquire(ok)
                      /\ Goto(t, "lock", IF ok THEN "enter" ELSE "check")
                      /\ UNCHANGED locking_thread

TryPath(t) ==
  \E ok \in BOOLEAN : /\ TryAcquire(ok)
                      /\ Goto(t, "trylock", IF ok THEN "enter" ELSE "idle")
                      /\ UNCHANGED locking_thread

\* lockSlow: sleep at once if the word already says Contended.
Check(t) == /\ Goto(t, "check", IF state = Contended THEN "wait" ELSE "swap")
            /\ UNCHANGED <<state, locking_thread>>

SwapWaitBit(t) ==  \* mutant: Contended without its Locked bit
  /\ Goto(t, "swap", IF state = Unlocked THEN "enter" ELSE "wait")
  /\ state' = 2
  /\ UNCHANGED locking_thread

SwapForgets(t) ==  \* mutant: the woken thread forgets the other sleepers
  /\ Goto(t, "swap", IF state = Unlocked THEN "enter" ELSE "wait")
  /\ state' = IF state = Unlocked THEN Locked ELSE Contended
  /\ UNCHANGED locking_thread

SwapBarge(t) ==  \* mutant: Locked counts as free
  /\ Goto(t, "swap", IF state # Contended THEN "enter" ELSE "wait")
  /\ state' = Contended
  /\ UNCHANGED locking_thread

\* lockSlow's loop: swap in Contended, own the lock if it was Unlocked.
Swap(t) == /\ Goto(t, "swap", IF state = Unlocked THEN "enter" ELSE "wait")
           /\ state' = Contended
           /\ UNCHANGED locking_thread

\* Futex.wait compares the word and blocks in one step.
Sleep(t) == /\ Goto(t, "wait", IF state = Contended THEN "asleep" ELSE "swap")
            /\ UNCHANGED <<state, locking_thread>>

SpuriousWake(t) == /\ Goto(t, "asleep", "swap")
                   /\ UNCHANGED <<state, locking_thread>>

\* DebugImpl stores the owner after the acquisition.
Enter(t) == /\ Goto(t, "enter", "cs")
            /\ locking_thread' = IF Debug THEN t ELSE locking_thread
            /\ UNCHANGED state

UnlockKeepsOwner(t) ==  \* mutant: locking_thread is not cleared
  /\ Goto(t, "cs", IF Debug /\ locking_thread # t THEN "panic" ELSE "release")
  /\ UNCHANGED <<state, locking_thread>>

\* DebugImpl.unlock asserts the owner and clears it before the release.
BeginUnlock(t) ==
  /\ Goto(t, "cs", IF Debug /\ locking_thread # t THEN "panic" ELSE "release")
  /\ locking_thread' = IF Debug /\ locking_thread = t THEN NoThread
                       ELSE locking_thread
  /\ UNCHANGED state

ReleaseSilent(t) ==  \* mutant: nobody is woken
  /\ Goto(t, "release", "idle")
  /\ state' = Unlocked
  /\ UNCHANGED locking_thread

\* FutexImpl.unlock: swap, then wake one sleeper if the word was Contended.
Release(t) == /\ Goto(t, "release", IF state = Contended THEN "wake" ELSE "idle")
              /\ state' = Unlocked
              /\ UNCHANGED locking_thread

Asleep == {t \in Threads : pc[t] = "asleep"}

Wake(t) == /\ pc[t] = "wake"
           /\ \/ /\ Asleep = {}
                 /\ pc' = [pc EXCEPT ![t] = "idle"]
              \/ \E w \in Asleep : pc' = [pc EXCEPT ![t] = "idle", ![w] = "swap"]
           /\ UNCHANGED <<state, locking_thread>>

\* The steps a running thread takes once it is inside lock() or unlock().
Step(t) == \/ FastPath(t) \/ TryPath(t) \/ Check(t) \/ Swap(t) \/ Sleep(t)
           \/ Enter(t) \/ BeginUnlock(t) \/ Release(t) \/ Wake(t)

Next == \E t \in Threads :
          \/ BeginLock(t) \/ BeginTryLock(t) \/ SpuriousWake(t)
          \/ FastPath(t) \/ TryPath(t) \/ Check(t) \/ Swap(t) \/ Sleep(t)
          \/ Enter(t) \/ BeginUnlock(t) \/ Release(t) \/ Wake(t)

\* The scheduler runs every thread that is not asleep; nobody has to call
\* lock(), and the kernel never has to wake a sleeper on its own.
Fairness == \A t \in Threads : WF_vars(Step(t))

Spec == Init /\ [][Next]_vars /\ Fairness

-----------------------------------------------------------------------------
TypeOK == /\ state \in {Unlocked, Locked, Contended}
          /\ locking_thread \in Threads \cup {NoThread}
          /\ pc \in [Threads -> Locations]

\* The lock excludes: two threads are never between acquisition and release,
\* and the word is Unlocked exactly when nobody is.
MutualExclusion ==
  /\ \A t, u \in Threads : pc[t] \in Critical /\ pc[u] \in Critical => t = u
  /\ state = Unlocked <=> \A t \in Threads : pc[t] \notin Critical

\* A sleeper is never forgotten: while one sleeps, either the word makes the
\* next unlock wake somebody, or a thread is on its way to wake a sleeper or
\* to put Contended back.
NoLostWakeup ==
  Asleep # {} => \/ state = Contended
                 \/ \E t \in Threads : pc[t] \in {"wake", "swap"}

\* DebugImpl's checks accuse nobody who follows the protocol: neither
\* "Deadlock detected" nor unlock's owner assertion fires.
NoFalsePanic == \A t \in Threads : pc[t] # "panic"

\* What callers rely on, with progress: Mutex implements AbstractLock.
Lock == INSTANCE AbstractLock
          WITH wanting <- {t \in Threads : pc[t] \in Trying},
               holding <- {t \in Threads : pc[t] \in Critical}
LockSpec == Lock!Spec
LockSafeSpec == Lock!SafeSpec
=============================================================================
