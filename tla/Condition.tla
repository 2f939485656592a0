----------------------------- MODULE Condition -----------------------------
(***************************************************************************)
(* The condition variable of src/src/threading/Condition.zig (FutexImpl)   *)
(* over the mutex of Mutex.tla.  Every atomic access to its two words is a *)
(* step of its own, and the mutex is taken and given back step by step.    *)
(*                                                                         *)
(* Of the epoch only one thing is ever asked: has it changed since this    *)
(* thread read it?  The model keeps the answer and not the number, so it   *)
(* leaves out the wrap-around after 2^32 wake()s that wake's NOTE accepts. *)
(***************************************************************************)
EXTENDS Mutex, FiniteSets

VARIABLES word,      \* FutexImpl.state: [waiters, signals]
          current,   \* the threads whose copy of the epoch is up to date
          at,        \* where each thread is inside Condition
          call,      \* the function it is in
          seen,      \* its copy of `word`
          reserved   \* how many waiters it has reserved and not yet woken

ASSUME ConditionAssumption == IsFiniteSet(Threads)

condVars == <<word, current, at, call, seen, reserved>>

(***************************************************************************)
(* out: not inside Condition.  In wait: add (the epoch is read), unlock,   *)
(* sleep (before the futex wait), asleep, woken (before the two loads),    *)
(* reload (between them), consume, expired, relock.  In wake: reserve,     *)
(* bump, fwake.                                                            *)
(***************************************************************************)
Places == {"out", "add", "unlock", "sleep", "asleep", "woken", "reload",
           "consume", "expired", "relock", "reserve", "bump", "fwake"}
\* The places between counting oneself as a waiter and taking that back.
Waiting == {"unlock", "sleep", "asleep", "woken", "reload", "consume", "expired"}
Calls == {"none", "wait", "timedWait", "signal", "broadcast"}

NoWord == [waiters |-> 0, signals |-> 0]

CondInit == /\ word = NoWord
            /\ current = {}
            /\ at = [t \in Threads |-> "out"]
            /\ call = [t \in Threads |-> "none"]
            /\ seen = [t \in Threads |-> NoWord]
            /\ reserved = [t \in Threads |-> 0]

Move(t, from, to) == at[t] = from /\ at' = [at EXCEPT ![t] = to]
See(t, w) == seen' = [seen EXCEPT ![t] = w]
Outside(t) == at[t] = "out"
\* What a finished call leaves in its locals means nothing.
Leave(t) == call' = [call EXCEPT ![t] = "none"] /\ See(t, NoWord)

-----------------------------------------------------------------------------
\* wait() and timedWait(): the epoch is read before the caller is counted.
BeginWait(t, how) == /\ pc[t] = "cs"
                     /\ Move(t, "out", "add")
                     /\ call' = [call EXCEPT ![t] = how]
                     /\ current' = current \cup {t}
                     /\ UNCHANGED <<vars, word, seen, reserved>>

AddWaiter(t) == /\ Move(t, "add", "unlock")
                /\ word' = [word EXCEPT !.waiters = @ + 1]
                /\ See(t, word')
                /\ UNCHANGED <<vars, current, call, reserved>>

GiveBackLate(t) ==  \* mutant: the epoch is read after the caller is counted
  /\ Move(t, "unlock", "sleep")
  /\ BeginUnlock(t)
  /\ current' = current \cup {t}
  /\ UNCHANGED <<word, call, seen, reserved>>

GiveBack(t) == /\ Move(t, "unlock", "sleep")
               /\ BeginUnlock(t)
               /\ UNCHANGED <<word, current, call, seen, reserved>>

\* Futex.wait compares and blocks in one step.
FutexWait(t) == /\ pc[t] = "idle"
                /\ Move(t, "sleep", IF t \in current THEN "asleep" ELSE "woken")
                /\ UNCHANGED <<vars, word, current, call, seen, reserved>>

SpuriousReturn(t) == /\ Move(t, "asleep", "woken")
                     /\ UNCHANGED <<vars, word, current, call, seen, reserved>>

Timeout(t) == /\ call[t] = "timedWait"
              /\ Move(t, "asleep", "expired")
              /\ UNCHANGED <<vars, word, current, call, seen, reserved>>

LoadEpoch(t) == /\ Move(t, "woken", "reload")
                /\ current' = current \cup {t}
                /\ UNCHANGED <<vars, word, call, seen, reserved>>

Signalled(w) == w.signals # 0

LoadWord(t) == /\ Move(t, "reload", IF Signalled(word) THEN "consume" ELSE "sleep")
               /\ See(t, word)
               /\ UNCHANGED <<vars, word, current, call, reserved>>

\* cmpxchgWeak(seen, new) succeeds only on the value seen and may fail on it.
Exchange(t, new) == seen[t] = word /\ word' = new
Refuse(t) == See(t, word) /\ UNCHANGED <<word, call>>

OneSignalTaken(w) == [waiters |-> w.waiters - 1, signals |-> w.signals - 1]
OneWaiterGone(w) == [w EXCEPT !.waiters = @ - 1]
Done(t) == See(t, NoWord) /\ current' = current \ {t} /\ UNCHANGED call

\* A waiter returns by taking a signal, whichever waiter it was meant for.
Consume(t) ==
  /\ \/ /\ Exchange(t, OneSignalTaken(word))
        /\ Move(t, "consume", "relock")
        /\ Done(t)
     \/ /\ Refuse(t)
        /\ Move(t, "consume", IF Signalled(word) THEN "consume" ELSE "sleep")
        /\ UNCHANGED current
  /\ UNCHANGED <<vars, reserved>>

ExpireBlind(t) ==  \* mutant: a wait that has timed out leaves its signal behind
  /\ \/ /\ Exchange(t, OneWaiterGone(word))
        /\ Move(t, "expired", "relock")
        /\ Done(t)
     \/ /\ Refuse(t)
        /\ Move(t, "expired", "expired")
        /\ UNCHANGED current
  /\ UNCHANGED <<vars, reserved>>

\* A wait that has timed out still takes a signal if it finds one.
Expire(t) ==
  /\ \/ /\ Exchange(t, IF Signalled(word) THEN OneSignalTaken(word) ELSE OneWaiterGone(word))
        /\ Move(t, "expired", "relock")
        /\ Done(t)
     \/ /\ Refuse(t)
        /\ Move(t, "expired", "expired")
        /\ UNCHANGED current
  /\ UNCHANGED <<vars, reserved>>

\* The deferred mutex.lock().
Relock(t) == /\ Move(t, "relock", "out")
             /\ BeginLock(t)
             /\ Leave(t)
             /\ UNCHANGED <<word, current, reserved>>

-----------------------------------------------------------------------------
Wakeable(w) == w.waiters - w.signals

\* signal() and broadcast(), with the mutex or without.
BeginWake(t, how) ==
  /\ pc[t] \in {"idle", "cs"}
  /\ Move(t, "out", IF Wakeable(word) = 0 THEN "out" ELSE "reserve")
  /\ IF Wakeable(word) = 0 THEN UNCHANGED <<call, seen>>
     ELSE call' = [call EXCEPT ![t] = how] /\ See(t, word)
  /\ UNCHANGED <<vars, word, current, reserved>>

ToWake(t) == IF call[t] = "broadcast" THEN Wakeable(word) ELSE 1

Reserve(t) ==
  /\ \/ /\ Exchange(t, [word EXCEPT !.signals = @ + ToWake(t)])
        /\ reserved' = [reserved EXCEPT ![t] = ToWake(t)]
        /\ Move(t, "reserve", "bump")
        /\ Leave(t)
     \/ /\ Refuse(t)
        /\ Wakeable(word) # 0
        /\ Move(t, "reserve", "reserve")
        /\ UNCHANGED reserved
     \/ /\ Wakeable(word) = 0
        /\ Move(t, "reserve", "out")
        /\ Leave(t)
        /\ UNCHANGED <<word, reserved>>
  /\ UNCHANGED <<vars, current>>

Bump(t) == /\ Move(t, "bump", "fwake")
           /\ current' = {}
           /\ UNCHANGED <<vars, word, call, seen, reserved>>

Sleeping == {t \in Threads : at[t] = "asleep"}

FutexWake(t) ==
  /\ at[t] = "fwake"
  /\ \E W \in SUBSET Sleeping :
       /\ Cardinality(W) <= reserved[t]
       /\ Cardinality(W) = reserved[t] \/ W = Sleeping
       /\ at' = [u \in Threads |-> IF u = t THEN "out"
                                   ELSE IF u \in W THEN "woken" ELSE at[u]]
  /\ reserved' = [reserved EXCEPT ![t] = 0]
  /\ UNCHANGED <<vars, word, current, call, seen>>
=============================================================================
