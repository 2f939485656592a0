----------------------------- MODULE WaitGroup -----------------------------
(***************************************************************************)
(* src/src/threading/WaitGroup.zig on top of its mutex and its condition   *)
(* variable, both of which other calls may use as well: what they promise  *)
(* must not depend on who else locks, waits or signals.                    *)
(***************************************************************************)
EXTENDS Condition

CONSTANTS Tasks,  \* initWithCount; bound: the most tasks at a time
          Uses    \* the entry points each thread calls

EntryPoints == {"lock", "tryLock", "wait", "timedWait", "signal", "broadcast",
                "add", "finish", "waitGroup"}

ASSUME WaitGroupAssumption == /\ Tasks \in Nat
                              /\ Uses \in [Threads -> SUBSET EntryPoints]

VARIABLES raw_count,
          op  \* where each thread is inside WaitGroup

wgVars == <<raw_count, op>>
all == <<vars, condVars, wgVars>>

(***************************************************************************)
(* none: not inside WaitGroup.  In finish, after the last task: sync       *)
(* (before mutex.lock), unsync (before unlock), signal.  In wait: check    *)
(* (before the load of raw_count), park (before cond.wait), leave (before  *)
(* the deferred unlock).                                                   *)
(***************************************************************************)
Ops == {"none", "sync", "unsync", "signal", "check", "park", "leave"}

WgInit == /\ Init
          /\ CondInit
          /\ raw_count = Tasks
          /\ op = [t \in Threads |-> "none"]

Become(t, from, to) == op[t] = from /\ op' = [op EXCEPT ![t] = to]
Free(t) == op[t] = "none" /\ Outside(t)
May(t, what) == Free(t) /\ what \in Uses[t]

-----------------------------------------------------------------------------
\* Plain users of the mutex and the condition variable.
CallLock(t) == May(t, "lock") /\ BeginLock(t) /\ UNCHANGED <<condVars, wgVars>>
CallTryLock(t) == May(t, "tryLock") /\ BeginTryLock(t) /\ UNCHANGED <<condVars, wgVars>>
CallUnlock(t) == Free(t) /\ BeginUnlock(t) /\ UNCHANGED <<condVars, wgVars>>
CallWait(t) == /\ \E how \in {"wait", "timedWait"} : May(t, how) /\ BeginWait(t, how)
               /\ UNCHANGED wgVars
CallWake(t) == /\ \E how \in {"signal", "broadcast"} : May(t, how) /\ BeginWake(t, how)
               /\ UNCHANGED wgVars

-----------------------------------------------------------------------------
Add(t) == /\ May(t, "add") /\ pc[t] = "idle"
          /\ raw_count < Tasks
          /\ raw_count' = raw_count + 1
          /\ UNCHANGED <<vars, condVars, op>>

FinishNoLock(t) ==  \* mutant: the signal does not wait for the mutex
  /\ May(t, "finish") /\ pc[t] = "idle"
  /\ raw_count > 0
  /\ raw_count' = raw_count - 1
  /\ Become(t, "none", IF raw_count > 1 THEN "none" ELSE "signal")
  /\ UNCHANGED <<vars, condVars>>

\* finish(), once for each task added.
Finish(t) == /\ May(t, "finish") /\ pc[t] = "idle"
             /\ raw_count > 0
             /\ raw_count' = raw_count - 1
             /\ Become(t, "none", IF raw_count > 1 THEN "none" ELSE "sync")
             /\ UNCHANGED <<vars, condVars>>

FinishLock(t) == /\ Become(t, "sync", "unsync")
                 /\ BeginLock(t)
                 /\ UNCHANGED <<condVars, raw_count>>

FinishUnlock(t) == /\ Become(t, "unsync", "signal")
                   /\ BeginUnlock(t)
                   /\ UNCHANGED <<condVars, raw_count>>

FinishSignal(t) == /\ pc[t] = "idle"
                   /\ Become(t, "signal", "none")
                   /\ BeginWake(t, "signal")
                   /\ UNCHANGED raw_count

WaitLock(t) == /\ May(t, "waitGroup")
               /\ Become(t, "none", "check")
               /\ BeginLock(t)
               /\ UNCHANGED <<condVars, raw_count>>

WaitCheck(t) == /\ Outside(t) /\ pc[t] = "cs"
                /\ Become(t, "check", IF raw_count > 0 THEN "park" ELSE "leave")
                /\ UNCHANGED <<vars, condVars, raw_count>>

WaitPark(t) == /\ Become(t, "park", "check")
               /\ BeginWait(t, "wait")
               /\ UNCHANGED raw_count

WaitLeave(t) == /\ Become(t, "leave", "none")
                /\ BeginUnlock(t)
                /\ UNCHANGED <<condVars, raw_count>>

-----------------------------------------------------------------------------
\* What a thread inside a call goes on to do.
InMutex(t) == /\ \/ FastPath(t) \/ TryPath(t) \/ Check(t) \/ Swap(t) \/ Sleep(t)
                 \/ Enter(t) \/ Release(t) \/ Wake(t)
              /\ UNCHANGED <<condVars, wgVars>>
InCondition(t) == /\ \/ AddWaiter(t) \/ GiveBack(t) \/ FutexWait(t) \/ LoadEpoch(t)
                     \/ LoadWord(t) \/ Consume(t) \/ Expire(t) \/ Relock(t)
                     \/ Reserve(t) \/ Bump(t) \/ FutexWake(t)
                  /\ UNCHANGED wgVars
GoOn(t) == \/ InMutex(t) \/ InCondition(t) \/ CallUnlock(t)
           \/ FinishLock(t) \/ FinishUnlock(t) \/ FinishSignal(t)
           \/ WaitCheck(t) \/ WaitPark(t) \/ WaitLeave(t)

\* What only the kernel or the clock does.
WakeMutexSleeper(t) == SpuriousWake(t) /\ UNCHANGED <<condVars, wgVars>>
WakeWaiter(t) == (SpuriousReturn(t) \/ Timeout(t)) /\ UNCHANGED wgVars

WgNext == \E t \in Threads :
            \/ CallLock(t) \/ CallTryLock(t) \/ CallWait(t) \/ CallWake(t)
            \/ Add(t) \/ Finish(t) \/ WaitLock(t)
            \/ WakeMutexSleeper(t) \/ WakeWaiter(t)
            \/ InMutex(t) \/ InCondition(t) \/ CallUnlock(t)
            \/ FinishLock(t) \/ FinishUnlock(t) \/ FinishSignal(t)
            \/ WaitCheck(t) \/ WaitPark(t) \/ WaitLeave(t)

\* The scheduler runs every thread that is not asleep, and a caller that holds
\* the mutex gives it back; nobody has to call anything.
WgSpec == /\ WgInit /\ [][WgNext]_all
          /\ \A t \in Threads : WF_all(GoOn(t))

-----------------------------------------------------------------------------
WgTypeOK == /\ TypeOK
            /\ word \in [waiters : Nat, signals : Nat]
            /\ current \subseteq Threads
            /\ at \in [Threads -> Places]
            /\ call \in [Threads -> Calls]
            /\ seen \in [Threads -> [waiters : Nat, signals : Nat]]
            /\ reserved \in [Threads -> Nat]
            /\ raw_count \in 0..Tasks
            /\ op \in [Threads -> Ops]

\* The word counts the threads that wait, whichever way they leave (signalled
\* or timed out), and no more signals are out than waiters to take them.
Waiters == {t \in Threads : at[t] \in Waiting}
WaitersCounted == /\ word.waiters = Cardinality(Waiters)
                  /\ word.signals <= word.waiters

\* While a signal is out, some thread is bound to notice: the one that posted
\* it has yet to change the epoch or to wake, a waiter is up, or one has an
\* old epoch and will not fall asleep on it.
NoMissedSignal ==
  Signalled(word) =>
    \E t \in Threads :
      \/ at[t] \in {"bump", "fwake", "woken", "reload", "consume", "expired"}
      \/ at[t] \in {"unlock", "sleep"} /\ t \notin current

\* WaitGroup.wait() returns once the count is down to zero, if the mutex is
\* left to the wait group in the end (Mutex promises no thread its turn) and
\* the waiter is the only one: finish() signals once, and any waiter takes it.
Alone == \A t \in Threads : op[t] = "none" => pc[t] = "idle" /\ Outside(t)
OneWaiter == Cardinality(Waiters) <= 1
WaitReturns ==
  []OneWaiter /\ <>[]Alone =>
    \A t \in Threads :
      (op[t] \in {"check", "park"} /\ raw_count = 0) ~> (op[t] = "none" \/ raw_count > 0)
=============================================================================
