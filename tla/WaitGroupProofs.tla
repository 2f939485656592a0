-------------------------- MODULE WaitGroupProofs ---------------------------
(***************************************************************************)
(* Proofs about WaitGroup, for every set of threads, every number of tasks *)
(* and whatever each thread calls.  The mutex under the condition variable *)
(* takes no step of its own making here, so all that MutexProofs shows of  *)
(* it carries over.                                                        *)
(***************************************************************************)
EXTENDS WaitGroup, MutexProofs, FiniteSetTheorems

\* Every step of the wait group and of the condition variable is, seen from
\* the mutex, one step of the mutex or none.
LEMMA StepOfMutex == [WgNext]_all => [Next]_vars
<1> SUFFICES ASSUME [WgNext]_all PROVE [Next]_vars
  OBVIOUS
<1> USE DEF Next
<1>1. ASSUME NEW t \in Threads, CallLock(t) PROVE Next
  BY <1>1 DEF CallLock
<1>2. ASSUME NEW t \in Threads, CallTryLock(t) PROVE Next
  BY <1>2 DEF CallTryLock
<1>3. ASSUME NEW t \in Threads, CallWait(t) PROVE UNCHANGED vars
  BY <1>3 DEF CallWait, BeginWait
<1>4. ASSUME NEW t \in Threads, CallWake(t) PROVE UNCHANGED vars
  BY <1>4 DEF CallWake, BeginWake
<1>5. ASSUME NEW t \in Threads, Add(t) \/ Finish(t) \/ WaitCheck(t) PROVE UNCHANGED vars
  BY <1>5 DEF Add, Finish, WaitCheck
<1>6. ASSUME NEW t \in Threads, WaitLock(t) PROVE Next
  BY <1>6 DEF WaitLock
<1>7. ASSUME NEW t \in Threads, WakeMutexSleeper(t) PROVE Next
  BY <1>7 DEF WakeMutexSleeper
<1>8. ASSUME NEW t \in Threads, WakeWaiter(t) PROVE UNCHANGED vars
  BY <1>8 DEF WakeWaiter, SpuriousReturn, Timeout
<1>9. ASSUME NEW t \in Threads, InMutex(t) PROVE Next
  BY <1>9 DEF InMutex
<1>10. ASSUME NEW t \in Threads, InCondition(t) PROVE [Next]_vars
  BY <1>10 DEF InCondition, AddWaiter, GiveBack, FutexWait, LoadEpoch, LoadWord,
     Consume, Expire, Relock, Reserve, Bump, FutexWake
<1>11. ASSUME NEW t \in Threads, CallUnlock(t) PROVE Next
  BY <1>11 DEF CallUnlock
<1>12. ASSUME NEW t \in Threads, FinishLock(t) \/ FinishUnlock(t) PROVE Next
  BY <1>12 DEF FinishLock, FinishUnlock
<1>13. ASSUME NEW t \in Threads, FinishSignal(t) PROVE UNCHANGED vars
  BY <1>13 DEF FinishSignal, BeginWake
<1>14. ASSUME NEW t \in Threads, WaitPark(t) PROVE UNCHANGED vars
  BY <1>14 DEF WaitPark, BeginWait
<1>15. ASSUME NEW t \in Threads, WaitLeave(t) PROVE Next
  BY <1>15 DEF WaitLeave
<1>16. CASE UNCHANGED all
  BY <1>16 DEF all
<1> HIDE DEF Next
<1> QED
  BY <1>1, <1>2, <1>3, <1>4, <1>5, <1>6, <1>7, <1>8, <1>9, <1>10, <1>11, <1>12,
     <1>13, <1>14, <1>15, <1>16 DEF WgNext

LEMMA UsesTheMutex == WgSpec => MutexSteps
<1>1. WgInit => Init
  BY DEF WgInit
<1> QED
  BY <1>1, StepOfMutex, PTL DEF WgSpec, MutexSteps

\* The mutex excludes whoever waits, signals or finishes: Condition gives it
\* back and takes it again without ever being two.
THEOREM ExclusionInUse == WgSpec => []MutualExclusion
<1>1. IInv => MutualExclusion
  BY DEF IInv
<1> QED
  BY <1>1, Inductive, UsesTheMutex, PTL

\* No thread that sleeps on the mutex, in lock() or on its way out of wait(), is
\* forgotten.
THEOREM SleepersRememberedInUse == WgSpec => []NoLostWakeup
  BY SleepersKept, UsesTheMutex, PTL

\* The debug mutex accuses nobody: wait() unlocks what the caller has locked.
THEOREM DebugChecksSoundInUse == WgSpec => []NoFalsePanic
<1>1. IInv => NoFalsePanic
  BY DEF IInv
<1> QED
  BY <1>1, Inductive, UsesTheMutex, PTL

\* Under the condition variable and the wait group the mutex is still a lock.
THEOREM LockInUse == WgSpec => LockSafeSpec
  BY StepsOfALock, UsesTheMutex, PTL

-----------------------------------------------------------------------------
CondTypeOK == /\ word \in [waiters : Nat, signals : Nat]
              /\ current \subseteq Threads
              /\ at \in [Threads -> Places]
              /\ call \in [Threads -> Calls]
              /\ seen \in [Threads -> [waiters : Nat, signals : Nat]]
              /\ reserved \in [Threads -> Nat]

\* Who is about to take a signal has seen one, who is about to post has seen
\* somebody to post it for, and only a poster has signals to wake for.
LookedFirst ==
  \A t \in Threads :
    /\ at[t] = "consume" => seen[t].signals # 0
    /\ at[t] = "reserve" => seen[t].waiters # seen[t].signals
    /\ at[t] \notin {"bump", "fwake"} => reserved[t] = 0
    /\ at[t] \in {"bump", "fwake"} => reserved[t] \in 1..Cardinality(Threads)

CountInv == CondTypeOK /\ WaitersCounted /\ LookedFirst

\* A thread that will look at the word before it sleeps.
IsAlert(t) == \/ at[t] \in {"woken", "reload", "consume", "expired"}
              \/ at[t] \in {"unlock", "sleep"} /\ t \notin current

\* Each signal that is out has a thread of its own that is alert, or a wake that
\* some poster has yet to make (an alert thread counts as its place 0, the wakes
\* of a poster as places 1 and up).
Notices == {n \in Threads \X Nat :
              IF n[2] = 0 THEN IsAlert(n[1]) ELSE n[2] <= reserved[n[1]]}
EnoughNotices == word.signals <= Cardinality(Notices)

\* The same when every sleeper counts but no wake of a poster that has changed
\* the epoch: such a poster may find fewer sleepers than it has reserved.
Chances == {n \in Threads \X Nat :
              IF n[2] = 0 THEN IsAlert(n[1]) \/ at[n[1]] = "asleep"
              ELSE at[n[1]] = "bump" /\ n[2] <= reserved[n[1]]}
EnoughChances == word.signals <= Cardinality(Chances)

SignalInv == CountInv /\ EnoughNotices /\ EnoughChances

-----------------------------------------------------------------------------
\* One operation of the condition variable.
ConditionStep(t) ==
  \/ \E how \in {"wait", "timedWait"} : BeginWait(t, how)
  \/ \E how \in {"signal", "broadcast"} : BeginWake(t, how)
  \/ SpuriousReturn(t) \/ Timeout(t) \/ AddWaiter(t) \/ GiveBack(t) \/ FutexWait(t)
  \/ LoadEpoch(t) \/ LoadWord(t) \/ Consume(t) \/ Expire(t) \/ Relock(t)
  \/ Reserve(t) \/ Bump(t) \/ FutexWake(t)

ConditionNext == \E t \in Threads : ConditionStep(t)

LEMMA StepOfCondition == [WgNext]_all => [ConditionNext]_condVars
<1> SUFFICES ASSUME [WgNext]_all PROVE [ConditionNext]_condVars
  OBVIOUS
<1> USE DEF ConditionNext, ConditionStep
<1>1. ASSUME NEW t \in Threads,
             \/ CallLock(t) \/ CallTryLock(t) \/ Add(t) \/ Finish(t) \/ WaitLock(t)
             \/ WakeMutexSleeper(t) \/ InMutex(t) \/ CallUnlock(t)
             \/ FinishLock(t) \/ FinishUnlock(t) \/ WaitCheck(t) \/ WaitLeave(t)
      PROVE UNCHANGED condVars
  BY <1>1 DEF CallLock, CallTryLock, Add, Finish, WaitLock, WakeMutexSleeper, InMutex,
     CallUnlock, FinishLock, FinishUnlock, WaitCheck, WaitLeave
<1>2. ASSUME NEW t \in Threads, CallWait(t) PROVE ConditionNext
  BY <1>2 DEF CallWait
<1>3. ASSUME NEW t \in Threads, CallWake(t) PROVE ConditionNext
  BY <1>3 DEF CallWake
<1>4. ASSUME NEW t \in Threads, WakeWaiter(t) PROVE ConditionNext
  BY <1>4 DEF WakeWaiter
<1>5. ASSUME NEW t \in Threads, InCondition(t) PROVE ConditionNext
  BY <1>5 DEF InCondition
<1>6. ASSUME NEW t \in Threads, FinishSignal(t) PROVE ConditionNext
  BY <1>6 DEF FinishSignal
<1>7. ASSUME NEW t \in Threads, WaitPark(t) PROVE ConditionNext
  BY <1>7 DEF WaitPark
<1>8. CASE UNCHANGED all
  BY <1>8 DEF all, condVars
<1> HIDE DEF ConditionNext
<1> QED
  BY <1>1, <1>2, <1>3, <1>4, <1>5, <1>6, <1>7, <1>8 DEF WgNext

LEMMA SomeThreads ==
  ASSUME NEW S \in SUBSET Threads
  PROVE  /\ IsFiniteSet(S)
         /\ Cardinality(S) \in 0..Cardinality(Threads)
         /\ Cardinality(Threads) \in Nat
  BY ConditionAssumption, FS_Subset, FS_CardinalityType

\* What a step does to the word and to who counts as a waiter.  A waiter that
\* leaves was counted, so the word does not go below zero.
LEMMA Leaving ==
  ASSUME CountInv, NEW t \in Threads, at[t] \in Waiting,
         at' = [at EXCEPT ![t] = "relock"]
  PROVE  /\ Cardinality(Waiters') = Cardinality(Waiters) - 1
         /\ word.waiters \in Nat \ {0}
<1>1. at \in [Threads -> Places]
  BY DEF CountInv, CondTypeOK
<1>2. t \in Waiters /\ Waiters' = Waiters \ {t}
  BY <1>1 DEF Waiters, Waiting
<1>3. IsFiniteSet(Waiters) /\ Cardinality(Waiters) \in Nat
  BY SomeThreads DEF Waiters
<1>4. Cardinality(Waiters') = Cardinality(Waiters) - 1
  BY <1>2, <1>3, FS_RemoveElement
<1>5. Cardinality(Waiters) # 0
  BY <1>2, <1>3, FS_EmptySet
<1> QED
  BY <1>3, <1>4, <1>5 DEF CountInv, WaitersCounted

LEMMA WordFacts ==
  ASSUME CountInv
  PROVE  /\ word.waiters \in 0..Cardinality(Threads)
         /\ word.signals \in 0..word.waiters
         /\ word = [waiters |-> word.waiters, signals |-> word.signals]
         /\ Cardinality(Threads) \in Nat
         /\ Cardinality(Waiters) = word.waiters
         /\ \A t \in Threads : at[t] = "reserve" /\ seen[t] = word => word.signals < word.waiters
<1>1. word \in [waiters : Nat, signals : Nat]
  BY DEF CountInv, CondTypeOK
<1>2. Cardinality(Waiters) \in 0..Cardinality(Threads) /\ Cardinality(Threads) \in Nat
  BY SomeThreads DEF Waiters
<1>3. word.waiters = Cardinality(Waiters) /\ word.signals <= word.waiters
  BY DEF CountInv, WaitersCounted
<1>4. \A t \in Threads : at[t] = "reserve" => seen[t].waiters # seen[t].signals
  BY DEF CountInv, LookedFirst
<1> QED
  BY <1>1, <1>2, <1>3, <1>4

\* How many waiters a successful exchange in wake() reserves.
LEMMA Reserving ==
  ASSUME CountInv, NEW t \in Threads, at[t] = "reserve",
         Exchange(t, [word EXCEPT !.signals = @ + ToWake(t)])
  PROVE  /\ ToWake(t) \in 1..(word.waiters - word.signals)
         /\ word' = [waiters |-> word.waiters, signals |-> word.signals + ToWake(t)]
<1>1. /\ word.waiters \in Nat /\ word.signals \in Nat
      /\ word = [waiters |-> word.waiters, signals |-> word.signals]
      /\ word.signals < word.waiters
  BY WordFacts DEF Exchange
<1>2. ToWake(t) \in 1..(word.waiters - word.signals)
  BY <1>1 DEF ToWake, Wakeable
<1> QED
  BY <1>1, <1>2 DEF Exchange

\* How a waiter's successful exchange changes the word.
LEMMA Taking ==
  ASSUME CountInv, NEW t \in Threads
  PROVE  /\ Move(t, "consume", "relock") /\ Exchange(t, OneSignalTaken(word)) =>
              word.signals # 0
         /\ \/ /\ Move(t, "consume", "relock")
               /\ Exchange(t, OneSignalTaken(word))
            \/ /\ Move(t, "expired", "relock")
               /\ Exchange(t, IF Signalled(word) THEN OneSignalTaken(word)
                              ELSE OneWaiterGone(word))
            => /\ word.waiters # 0
               /\ Cardinality(Waiters') = word.waiters - 1
               /\ word'.waiters = word.waiters - 1
               /\ word'.signals = IF word.signals = 0 THEN 0 ELSE word.signals - 1
               /\ word' \in [waiters : Nat, signals : Nat]
<1>1. Move(t, "consume", "relock") /\ Exchange(t, OneSignalTaken(word)) => word.signals # 0
  BY DEF CountInv, LookedFirst, Move, Exchange
<1>2. ASSUME Move(t, "consume", "relock") \/ Move(t, "expired", "relock")
      PROVE  /\ Cardinality(Waiters') = word.waiters - 1
             /\ word.waiters \in Nat \ {0}
  BY <1>2, Leaving, WordFacts DEF Move, Waiting
<1>3. word.signals \in Nat /\ word = [waiters |-> word.waiters, signals |-> word.signals]
  BY WordFacts
<1>4. OneSignalTaken(word) = [waiters |-> word.waiters - 1, signals |-> word.signals - 1]
  BY DEF OneSignalTaken
<1>5. OneWaiterGone(word) = [waiters |-> word.waiters - 1, signals |-> word.signals]
  BY <1>3 DEF OneWaiterGone
<1>6. CASE Move(t, "consume", "relock") /\ Exchange(t, OneSignalTaken(word))
  <2>1. word' = [waiters |-> word.waiters - 1, signals |-> word.signals - 1]
    BY <1>4, <1>6 DEF Exchange
  <2>2. word.signals # 0
    BY <1>1, <1>6
  <2> QED
    BY <1>1, <1>2, <1>3, <1>6, <2>1, <2>2
<1>7. CASE /\ Move(t, "expired", "relock")
           /\ Exchange(t, IF Signalled(word) THEN OneSignalTaken(word)
                          ELSE OneWaiterGone(word))
  <2>1. word' = IF word.signals # 0
                THEN [waiters |-> word.waiters - 1, signals |-> word.signals - 1]
                ELSE [waiters |-> word.waiters - 1, signals |-> word.signals]
    BY <1>4, <1>5, <1>7 DEF Exchange, Signalled
  <2> QED
    BY <1>1, <1>2, <1>3, <1>7, <2>1
<1> QED
  BY <1>1, <1>6, <1>7

LEMMA TypeStep == CountInv /\ [ConditionNext]_condVars => CondTypeOK'
<1> SUFFICES ASSUME CountInv, [ConditionNext]_condVars PROVE CondTypeOK'
  OBVIOUS
<1>0. CondTypeOK
  BY DEF CountInv
<1> USE <1>0 DEF CondTypeOK, Move, See, Leave, Refuse, Done, Places, Calls, NoWord
<1>1. ASSUME NEW t \in Threads, NEW how \in {"wait", "timedWait"}, BeginWait(t, how)
      PROVE CondTypeOK'
  BY <1>1 DEF BeginWait
<1>2. ASSUME NEW t \in Threads, NEW how \in {"signal", "broadcast"}, BeginWake(t, how)
      PROVE CondTypeOK'
  BY <1>2 DEF BeginWake
<1>3. ASSUME NEW t \in Threads, SpuriousReturn(t) \/ Timeout(t) \/ FutexWait(t)
      PROVE CondTypeOK'
  <2>1. CASE SpuriousReturn(t)
    BY <2>1 DEF SpuriousReturn
  <2>2. CASE Timeout(t)
    BY <2>2 DEF Timeout
  <2>3. CASE FutexWait(t)
    <3>1. PICK p \in {"asleep", "woken"} : Move(t, "sleep", p)
      BY <2>3 DEF FutexWait
    <3> QED
      BY <2>3, <3>1 DEF FutexWait
  <2> QED
    BY <1>3, <2>1, <2>2, <2>3
<1>4. ASSUME NEW t \in Threads, AddWaiter(t) PROVE CondTypeOK'
  <2>1. [word EXCEPT !.waiters = @ + 1] \in [waiters : Nat, signals : Nat]
    OBVIOUS
  <2>2. PICK w \in [waiters : Nat, signals : Nat] : word' = w /\ See(t, w)
    BY <1>4, <2>1, Zenon DEF AddWaiter
  <2>3. /\ seen' \in [Threads -> [waiters : Nat, signals : Nat]]
        /\ word' \in [waiters : Nat, signals : Nat]
    BY <2>2
  <2> QED
    BY <1>4, <2>3 DEF AddWaiter
<1>5. ASSUME NEW t \in Threads, GiveBack(t) PROVE CondTypeOK'
  BY <1>5 DEF GiveBack
<1>6. ASSUME NEW t \in Threads, LoadEpoch(t) \/ LoadWord(t) PROVE CondTypeOK'
  <2>1. CASE LoadEpoch(t)
    BY <2>1 DEF LoadEpoch
  <2>2. CASE LoadWord(t)
    BY <2>2 DEF LoadWord
  <2> QED
    BY <1>6, <2>1, <2>2
<1>7. ASSUME NEW t \in Threads, Consume(t) PROVE CondTypeOK'
  <2>1. ASSUME Move(t, "consume", "relock"), Exchange(t, OneSignalTaken(word))
        PROVE word' \in [waiters : Nat, signals : Nat]
    BY <2>1, Taking
  <2> QED
    BY <1>7, <2>1 DEF Consume
<1>8. ASSUME NEW t \in Threads, Expire(t) PROVE CondTypeOK'
  <2>1. ASSUME Move(t, "expired", "relock"),
               Exchange(t, IF Signalled(word) THEN OneSignalTaken(word)
                           ELSE OneWaiterGone(word))
        PROVE word' \in [waiters : Nat, signals : Nat]
    BY <2>1, Taking
  <2> QED
    BY <1>8, <2>1 DEF Expire
<1>9. ASSUME NEW t \in Threads, Relock(t) PROVE CondTypeOK'
  BY <1>9 DEF Relock
<1>10. ASSUME NEW t \in Threads, Reserve(t) PROVE CondTypeOK'
  <2>1. ASSUME Exchange(t, [word EXCEPT !.signals = @ + ToWake(t)]),
               Move(t, "reserve", "bump")
        PROVE word' \in [waiters : Nat, signals : Nat] /\ ToWake(t) \in Nat
    BY <2>1, Reserving, WordFacts
  <2> QED
    BY <1>10, <2>1 DEF Reserve
<1>11. ASSUME NEW t \in Threads, Bump(t) PROVE CondTypeOK'
  BY <1>11 DEF Bump
<1>12. ASSUME NEW t \in Threads, FutexWake(t) PROVE CondTypeOK'
  BY <1>12 DEF FutexWake
<1>13. CASE UNCHANGED condVars
  BY <1>13 DEF condVars
<1> QED
  BY <1>1, <1>2, <1>3, <1>4, <1>5, <1>6, <1>7, <1>8, <1>9, <1>10, <1>11, <1>12, <1>13
     DEF ConditionNext, ConditionStep

LEMMA LookedStep == CountInv /\ [ConditionNext]_condVars => LookedFirst'
<1> SUFFICES ASSUME CountInv, [ConditionNext]_condVars PROVE LookedFirst'
  OBVIOUS
<1>0. CondTypeOK /\ LookedFirst
  BY DEF CountInv
<1> USE <1>0 DEF CondTypeOK, LookedFirst, Move, See, Leave, Refuse, Done, NoWord
<1>1. ASSUME NEW t \in Threads, NEW how \in {"wait", "timedWait"}, BeginWait(t, how)
      PROVE LookedFirst'
  BY <1>1 DEF BeginWait
<1>2. ASSUME NEW t \in Threads, NEW how \in {"signal", "broadcast"}, BeginWake(t, how)
      PROVE LookedFirst'
  <2>1. CASE Wakeable(word) = 0
    BY <1>2, <2>1 DEF BeginWake
  <2>2. CASE Wakeable(word) # 0
    <3>1. word.waiters # word.signals
      BY <2>2, WordFacts DEF Wakeable
    <3> QED
      BY <1>2, <2>2, <3>1 DEF BeginWake
  <2> QED
    BY <2>1, <2>2
<1>3. ASSUME NEW t \in Threads, SpuriousReturn(t) \/ Timeout(t) \/ FutexWait(t)
      PROVE LookedFirst'
  BY <1>3 DEF SpuriousReturn, Timeout, FutexWait
<1>4. ASSUME NEW t \in Threads, AddWaiter(t) PROVE LookedFirst'
  BY <1>4 DEF AddWaiter
<1>5. ASSUME NEW t \in Threads, GiveBack(t) PROVE LookedFirst'
  BY <1>5 DEF GiveBack
<1>6. ASSUME NEW t \in Threads, LoadEpoch(t) \/ LoadWord(t) PROVE LookedFirst'
  BY <1>6 DEF LoadEpoch, LoadWord, Signalled
<1>7. ASSUME NEW t \in Threads, Consume(t) PROVE LookedFirst'
  BY <1>7 DEF Consume, Signalled
<1>8. ASSUME NEW t \in Threads, Expire(t) PROVE LookedFirst'
  BY <1>8 DEF Expire
<1>9. ASSUME NEW t \in Threads, Relock(t) PROVE LookedFirst'
  BY <1>9 DEF Relock
<1>10. ASSUME NEW t \in Threads, Reserve(t) PROVE LookedFirst'
  <2>1. ASSUME Exchange(t, [word EXCEPT !.signals = @ + ToWake(t)]),
               Move(t, "reserve", "bump")
        PROVE ToWake(t) \in 1..Cardinality(Threads)
    <3>1. ToWake(t) \in 1..(word.waiters - word.signals)
      BY <2>1, Reserving
    <3> QED
      BY <3>1, WordFacts
  <2>2. CASE Refuse(t) /\ Wakeable(word) # 0 /\ Move(t, "reserve", "reserve")
             /\ UNCHANGED reserved
    <3>1. word.waiters # word.signals
      BY <2>2, WordFacts DEF Wakeable
    <3> QED
      BY <2>2, <3>1
  <2>3. CASE Move(t, "reserve", "out") /\ Leave(t) /\ UNCHANGED reserved
    BY <2>3
  <2>4. CASE /\ Exchange(t, [word EXCEPT !.signals = @ + ToWake(t)])
             /\ reserved' = [reserved EXCEPT ![t] = ToWake(t)]
             /\ Move(t, "reserve", "bump")
             /\ Leave(t)
    BY <2>1, <2>4
  <2> QED
    BY <1>10, <2>2, <2>3, <2>4 DEF Reserve
<1>11. ASSUME NEW t \in Threads, Bump(t) PROVE LookedFirst'
  BY <1>11 DEF Bump
<1>12. ASSUME NEW t \in Threads, FutexWake(t) PROVE LookedFirst'
  <2>1. PICK W \in SUBSET Sleeping :
          at' = [u \in Threads |-> IF u = t THEN "out"
                                   ELSE IF u \in W THEN "woken" ELSE at[u]]
    BY <1>12 DEF FutexWake
  <2> QED
    BY <1>12, <2>1 DEF FutexWake, Sleeping
<1>13. CASE UNCHANGED condVars
  BY <1>13 DEF condVars
<1> QED
  BY <1>1, <1>2, <1>3, <1>4, <1>5, <1>6, <1>7, <1>8, <1>9, <1>10, <1>11, <1>12, <1>13
     DEF ConditionNext, ConditionStep

LEMMA WaitersStep == CountInv /\ [ConditionNext]_condVars => WaitersCounted'
<1> SUFFICES ASSUME CountInv, [ConditionNext]_condVars PROVE WaitersCounted'
  OBVIOUS
<1>0. at \in [Threads -> Places] /\ WaitersCounted
  BY DEF CountInv, CondTypeOK
<1> USE <1>0 DEF Move
<1> DEFINE Same == UNCHANGED <<Waiters, word>>
<1>1. ASSUME NEW t \in Threads, NEW how \in {"wait", "timedWait"}, BeginWait(t, how)
      PROVE Same
  BY <1>1 DEF BeginWait, Waiters, Waiting
<1>2. ASSUME NEW t \in Threads, NEW how \in {"signal", "broadcast"}, BeginWake(t, how)
      PROVE Same
  BY <1>2 DEF BeginWake, Waiters, Waiting
<1>3. ASSUME NEW t \in Threads, SpuriousReturn(t) \/ Timeout(t) \/ FutexWait(t) PROVE Same
  BY <1>3 DEF SpuriousReturn, Timeout, FutexWait, Waiters, Waiting
<1>4. ASSUME NEW t \in Threads, AddWaiter(t) PROVE WaitersCounted'
  <2>1. t \notin Waiters /\ Waiters' = Waiters \cup {t}
    BY <1>4 DEF AddWaiter, Waiters, Waiting
  <2>2. Cardinality(Waiters') = Cardinality(Waiters) + 1
    BY <2>1, SomeThreads, FS_AddElement DEF Waiters
  <2>3. word' = [waiters |-> word.waiters + 1, signals |-> word.signals]
    BY <1>4, WordFacts DEF AddWaiter
  <2> QED
    BY <2>2, <2>3, WordFacts DEF WaitersCounted
<1>5. ASSUME NEW t \in Threads, GiveBack(t) \/ LoadEpoch(t) \/ LoadWord(t) PROVE Same
  BY <1>5 DEF GiveBack, LoadEpoch, LoadWord, Waiters, Waiting
<1>6. ASSUME NEW t \in Threads, Consume(t) PROVE WaitersCounted'
  <2>1. CASE Move(t, "consume", "relock") /\ Exchange(t, OneSignalTaken(word))
    <3>1. /\ Cardinality(Waiters') = word.waiters - 1
          /\ word'.waiters = word.waiters - 1
          /\ word'.signals = IF word.signals = 0 THEN 0 ELSE word.signals - 1
          /\ word.waiters # 0
      BY <2>1, Taking
    <3>2. word.waiters \in Nat /\ word.signals \in 0..word.waiters
      BY WordFacts
    <3> QED
      BY <3>1, <3>2 DEF WaitersCounted
  <2>2. CASE Refuse(t) /\ Move(t, "consume", IF Signalled(word) THEN "consume" ELSE "sleep")
    <3>1. Same
      BY <2>2 DEF Refuse, Waiters, Waiting
    <3> QED
      BY <3>1 DEF WaitersCounted
  <2> QED
    BY <1>6, <2>1, <2>2 DEF Consume
<1>7. ASSUME NEW t \in Threads, Expire(t) PROVE WaitersCounted'
  <2>1. CASE /\ Move(t, "expired", "relock")
             /\ Exchange(t, IF Signalled(word) THEN OneSignalTaken(word)
                            ELSE OneWaiterGone(word))
    <3>1. /\ Cardinality(Waiters') = word.waiters - 1
          /\ word'.waiters = word.waiters - 1
          /\ word'.signals = IF word.signals = 0 THEN 0 ELSE word.signals - 1
          /\ word.waiters # 0
      BY <2>1, Taking
    <3>2. word.waiters \in Nat /\ word.signals \in 0..word.waiters
      BY WordFacts
    <3> QED
      BY <3>1, <3>2 DEF WaitersCounted
  <2>2. CASE Refuse(t) /\ Move(t, "expired", "expired")
    <3>1. Same
      BY <2>2 DEF Refuse, Waiters, Waiting
    <3> QED
      BY <3>1 DEF WaitersCounted
  <2> QED
    BY <1>7, <2>1, <2>2 DEF Expire
<1>8. ASSUME NEW t \in Threads, Relock(t) \/ Bump(t) PROVE Same
  BY <1>8 DEF Relock, Bump, Waiters, Waiting
<1>9. ASSUME NEW t \in Threads, Reserve(t) PROVE WaitersCounted'
  <2>1. Waiters' = Waiters
    BY <1>9 DEF Reserve, Waiters, Waiting
  <2>2. CASE at[t] = "reserve" /\ Exchange(t, [word EXCEPT !.signals = @ + ToWake(t)])
    BY <2>1, <2>2, Reserving, WordFacts DEF WaitersCounted
  <2>3. CASE UNCHANGED word
    BY <2>1, <2>3 DEF WaitersCounted
  <2> QED
    BY <1>9, <2>2, <2>3 DEF Reserve, Refuse
<1>10. ASSUME NEW t \in Threads, FutexWake(t) PROVE Same
  <2>1. PICK W \in SUBSET Sleeping :
          at' = [u \in Threads |-> IF u = t THEN "out"
                                   ELSE IF u \in W THEN "woken" ELSE at[u]]
    BY <1>10 DEF FutexWake
  <2>2. at[t] = "fwake" /\ (\A u \in W : at[u] = "asleep") /\ UNCHANGED word
    BY <1>10 DEF FutexWake, Sleeping
  <2> QED
    BY <2>1, <2>2 DEF Waiters, Waiting
<1>11. CASE UNCHANGED condVars
  <2>1. UNCHANGED <<at, word>>
    BY <1>11 DEF condVars
  <2> QED
    BY <2>1 DEF Waiters, WaitersCounted
<1>12. ASSUME Same PROVE WaitersCounted'
  BY <1>12 DEF WaitersCounted
<1> QED
  BY <1>1, <1>2, <1>3, <1>4, <1>5, <1>6, <1>7, <1>8, <1>9, <1>10, <1>11, <1>12
     DEF ConditionNext, ConditionStep

LEMMA CountInductive == WgSpec => []CountInv
<1>1. WgInit => CountInv
  <2> SUFFICES ASSUME WgInit PROVE CountInv
    OBVIOUS
  <2>1. Waiters = {} /\ word = [waiters |-> 0, signals |-> 0]
    BY DEF WgInit, CondInit, Waiters, Waiting, NoWord
  <2>2. WaitersCounted
    BY <2>1, FS_EmptySet DEF WaitersCounted
  <2>3. CondTypeOK /\ LookedFirst
    BY DEF WgInit, CondInit, CondTypeOK, LookedFirst, Places, Calls, NoWord
  <2> QED
    BY <2>2, <2>3 DEF CountInv
<1>2. CountInv /\ [WgNext]_all => CountInv'
  BY StepOfCondition, TypeStep, LookedStep, WaitersStep DEF CountInv
<1> QED
  BY <1>1, <1>2, PTL DEF WgSpec

\* The condition variable's word counts the waiting threads, and never has more
\* signals out than waiters, whoever signals, broadcasts or times out.
THEOREM WaitersAlwaysCounted == WgSpec => []WaitersCounted
<1>1. CountInv => WaitersCounted
  BY DEF CountInv
<1> QED
  BY <1>1, CountInductive, PTL

\* The state of the wait group, its condition variable and its mutex stays
\* well-typed; the count of waiters never goes below zero.
THEOREM TypeCorrectInUse == WgSpec => []WgTypeOK
<1> DEFINE WgOnly == raw_count \in 0..Tasks /\ op \in [Threads -> Ops]
<1>1. WgInit => WgOnly
  BY WaitGroupAssumption DEF WgInit, Ops
<1>2. WgOnly /\ [WgNext]_all => WgOnly'
  <2> SUFFICES ASSUME WgOnly, [WgNext]_all PROVE WgOnly'
    OBVIOUS
  <2> USE WaitGroupAssumption DEF Become, Ops, wgVars
  <2>1. ASSUME NEW t \in Threads,
               \/ CallLock(t) \/ CallTryLock(t) \/ CallUnlock(t) \/ CallWait(t)
               \/ CallWake(t) \/ WakeMutexSleeper(t) \/ WakeWaiter(t) \/ InMutex(t)
               \/ InCondition(t)
        PROVE UNCHANGED wgVars
    BY <2>1 DEF CallLock, CallTryLock, CallUnlock, CallWait, CallWake, WakeMutexSleeper,
       WakeWaiter, InMutex, InCondition
  <2>2. ASSUME NEW t \in Threads, Add(t) PROVE WgOnly'
    BY <2>2 DEF Add
  <2>3. ASSUME NEW t \in Threads, Finish(t) PROVE WgOnly'
    BY <2>3 DEF Finish
  <2>4. ASSUME NEW t \in Threads, FinishLock(t) \/ FinishUnlock(t) \/ FinishSignal(t)
        PROVE WgOnly'
    BY <2>4 DEF FinishLock, FinishUnlock, FinishSignal
  <2>5. ASSUME NEW t \in Threads, WaitLock(t) \/ WaitCheck(t) \/ WaitPark(t) \/ WaitLeave(t)
        PROVE WgOnly'
    BY <2>5 DEF WaitLock, WaitCheck, WaitPark, WaitLeave
  <2>6. CASE UNCHANGED all
    BY <2>6 DEF all
  <2> QED
    BY <2>1, <2>2, <2>3, <2>4, <2>5, <2>6 DEF WgNext
<1>3. IInv /\ CountInv /\ WgOnly => WgTypeOK
  BY DEF IInv, CountInv, CondTypeOK, WgTypeOK
<1> QED
  BY <1>1, <1>2, <1>3, CountInductive, Inductive, UsesTheMutex, PTL DEF WgSpec

-----------------------------------------------------------------------------
Slots == Threads \X (0..Cardinality(Threads))

\* Counting slots: more of them never counts less.
LEMMA CountSlots ==
  ASSUME NEW S \in SUBSET Slots
  PROVE  /\ IsFiniteSet(S)
         /\ Cardinality(S) \in Nat
         /\ \A T \in SUBSET S : IsFiniteSet(T) /\ Cardinality(T) \in Nat
                                /\ Cardinality(T) <= Cardinality(S)
<1>1. IsFiniteSet(Threads) /\ Cardinality(Threads) \in Nat
  BY ConditionAssumption, FS_CardinalityType
<1>2. IsFiniteSet(0..Cardinality(Threads))
  BY <1>1, FS_Interval
<1>3. IsFiniteSet(Slots)
  BY <1>1, <1>2, FS_Product DEF Slots
<1>4. IsFiniteSet(S) /\ Cardinality(S) \in Nat
  BY <1>3, FS_Subset, FS_CardinalityType
<1> QED
  BY <1>4, FS_Subset, FS_CardinalityType

SlotsOnly == Notices \subseteq Slots /\ Chances \subseteq Slots

LEMMA InSlots == CountInv => SlotsOnly
<1> SUFFICES ASSUME CountInv, NEW u \in Threads, NEW i \in Nat,
                    i # 0 => i <= reserved[u]
             PROVE  <<u, i>> \in Slots
  BY DEF SlotsOnly, Notices, Chances
<1>1. Cardinality(Threads) \in Nat
  BY SomeThreads
<1>2. reserved[u] \in 0..Cardinality(Threads)
  BY <1>1 DEF CountInv, LookedFirst
<1> QED
  BY <1>1, <1>2 DEF Slots

LEMMA InSlotsNext == CountInv' => SlotsOnly'
  BY InSlots, PTL

\* Some of those that stood behind a signal may be joined by others.
LEMMA Grown ==
  ASSUME NEW S \in SUBSET Slots, NEW T \in SUBSET Slots, S \subseteq T,
         NEW n \in Nat, NEW m \in Nat, m <= n, n <= Cardinality(S)
  PROVE  m <= Cardinality(T)
<1>1. Cardinality(S) \in Nat /\ Cardinality(T) \in Nat /\ Cardinality(S) <= Cardinality(T)
  BY CountSlots
<1> QED
  BY <1>1

\* One takes its signal and goes.
LEMMA Taken ==
  ASSUME NEW S \in SUBSET Slots, NEW s \in S, NEW n \in Nat, n <= Cardinality(S)
  PROVE  n - 1 <= Cardinality(S \ {s})
<1>1. IsFiniteSet(S) /\ Cardinality(S) \in Nat
  BY CountSlots
<1>2. Cardinality(S \ {s}) = Cardinality(S) - 1
  BY <1>1, FS_RemoveElement
<1> QED
  BY <1>1, <1>2

Row(t, k) == {t} \X (1..k)

\* A poster stands behind as many signals as it has reserved.
LEMMA Posted ==
  ASSUME NEW S \in SUBSET Slots, NEW t \in Threads, NEW k \in Nat,
         S \cap Row(t, k) = {}, NEW n \in Nat, n <= Cardinality(S)
  PROVE  n + k <= Cardinality(S \cup Row(t, k))
<1>1. IsFiniteSet(S) /\ Cardinality(S) \in Nat
  BY CountSlots
<1>2. IsFiniteSet(1..k) /\ Cardinality(1..k) = k
  BY FS_Interval
<1>3. IsFiniteSet({t}) /\ Cardinality({t}) = 1
  BY FS_Singleton
<1>4. IsFiniteSet(Row(t, k)) /\ Cardinality(Row(t, k)) = 1 * k
  BY <1>2, <1>3, FS_Product DEF Row
<1>5. Cardinality(S \cup Row(t, k))
        = Cardinality(S) + Cardinality(Row(t, k)) - Cardinality(S \cap Row(t, k))
  BY <1>1, <1>4, FS_Union
<1>6. Cardinality(S \cap Row(t, k)) = 0
  BY FS_EmptySet
<1> QED
  BY <1>1, <1>4, <1>5, <1>6

\* A poster wakes as many sleepers as it has reserved.
LEMMA Handed ==
  ASSUME NEW S \in SUBSET Slots, NEW t \in Threads, NEW k \in Nat, Row(t, k) \subseteq S,
         NEW W \in SUBSET Threads, Cardinality(W) = k, S \cap (W \X {0}) = {},
         NEW n \in Nat, n <= Cardinality(S)
  PROVE  n <= Cardinality((S \ Row(t, k)) \cup (W \X {0}))
<1> DEFINE R == Row(t, k)
           Q == W \X {0}
           P == S \ R
<1>1. IsFiniteSet(S) /\ Cardinality(S) \in Nat
  BY CountSlots
<1>2. IsFiniteSet(1..k) /\ Cardinality(1..k) = k
  BY FS_Interval
<1>3. IsFiniteSet({t}) /\ Cardinality({t}) = 1 /\ IsFiniteSet({0}) /\ Cardinality({0}) = 1
  BY FS_Singleton
<1>4. IsFiniteSet(R) /\ Cardinality(R) = 1 * k
  BY <1>2, <1>3, FS_Product DEF Row
<1>5. IsFiniteSet(W)
  BY SomeThreads
<1>6. IsFiniteSet(Q) /\ Cardinality(Q) = k * 1
  BY <1>3, <1>5, FS_Product
<1>7. S \cap R = R /\ P \cap Q = {}
  OBVIOUS
<1> HIDE DEF R, Q, P
<1>11. IsFiniteSet(S \ R) /\ Cardinality(S \ R) = Cardinality(S) - Cardinality(S \cap R)
  BY <1>1, FS_Difference
<1>8. IsFiniteSet(P) /\ Cardinality(P) = Cardinality(S) - k
  <2>1. P = S \ R
    BY DEF P
  <2>2. Cardinality(R) = k
    BY <1>4
  <2>3. Cardinality(S \cap R) = k
    BY <1>7, <2>2, Zenon
  <2>4. Cardinality(S \ R) = Cardinality(S) - k
    BY <1>11, <2>3, Zenon
  <2> QED
    BY <1>11, <2>1, <2>4, Zenon
<1>9. Cardinality(P \cup Q) = Cardinality(P) + k - 0
  BY <1>6, <1>7, <1>8, FS_Union, FS_EmptySet
<1>10. n <= Cardinality(P \cup Q)
  BY <1>1, <1>8, <1>9
<1> QED
  BY <1>10 DEF P, Q, R

-----------------------------------------------------------------------------
\* A step that posts and takes no signal, silences no alert thread and does not
\* finish a wake.
Quietly ==
  /\ word'.signals = word.signals
  /\ UNCHANGED reserved
  /\ \A u \in Threads : /\ IsAlert(u) => IsAlert(u)'
                        /\ at[u] = "asleep" => at'[u] = "asleep" \/ IsAlert(u)'
                        /\ at[u] = "bump" => at'[u] = "bump"

LEMMA QuietStep ==
  SignalInv /\ CountInv' /\ Quietly => EnoughNotices' /\ EnoughChances'
<1> SUFFICES ASSUME SignalInv, CountInv', Quietly PROVE EnoughNotices' /\ EnoughChances'
  OBVIOUS
<1>1. SlotsOnly /\ SlotsOnly'
  BY InSlots, InSlotsNext DEF SignalInv
<1>2. word.signals \in Nat /\ word'.signals = word.signals
  BY WordFacts DEF SignalInv, Quietly
<1>3. Notices \subseteq Notices'
  BY DEF Quietly, Notices
<1>4. Chances \subseteq Chances'
  BY DEF Quietly, Chances
<1>5. /\ Notices \in SUBSET Slots /\ Notices' \in SUBSET Slots
      /\ Chances \in SUBSET Slots /\ Chances' \in SUBSET Slots
  BY <1>1 DEF SlotsOnly
<1>6. word'.signals <= Cardinality(Notices')
  BY <1>2, <1>3, <1>5, Grown DEF SignalInv, EnoughNotices
<1>7. word'.signals <= Cardinality(Chances')
  BY <1>2, <1>4, <1>5, Grown DEF SignalInv, EnoughChances
<1> QED
  BY <1>6, <1>7 DEF EnoughNotices, EnoughChances

\* A step that leaves no signal out needs nobody to notice.
LEMMA SilentStep ==
  CountInv' /\ word'.signals = 0 => EnoughNotices' /\ EnoughChances'
<1> SUFFICES ASSUME CountInv', word'.signals = 0 PROVE EnoughNotices' /\ EnoughChances'
  OBVIOUS
<1>1. Notices' \in SUBSET Slots /\ Chances' \in SUBSET Slots
  BY InSlotsNext DEF SlotsOnly
<1>2. Cardinality(Notices') \in Nat /\ Cardinality(Chances') \in Nat
  BY <1>1, CountSlots
<1> QED
  BY <1>2 DEF EnoughNotices, EnoughChances

\* A waiter takes a signal and leaves: one signal and one alert thread fewer.
LEMMA TakingStep ==
  ASSUME SignalInv, CountInv', NEW t \in Threads, IsAlert(t),
         word'.signals = word.signals - 1,
         at' = [at EXCEPT ![t] = "relock"], current' = current \ {t}, UNCHANGED reserved
  PROVE  EnoughNotices' /\ EnoughChances'
<1>0. at \in [Threads -> Places] /\ word.signals \in Nat
  BY WordFacts DEF SignalInv, CountInv, CondTypeOK
<1>1. Notices \in SUBSET Slots /\ Chances \in SUBSET Slots
  BY InSlots DEF SignalInv, SlotsOnly
<1>2. <<t, 0>> \in Notices /\ <<t, 0>> \in Chances
  BY DEF Notices, Chances
<1>3. \A u \in Threads : IsAlert(u)' <=> IsAlert(u) /\ u # t
  BY <1>0 DEF IsAlert
<1>4. Notices' = Notices \ {<<t, 0>>}
  BY <1>0, <1>3 DEF Notices
<1>5. at[t] \notin {"asleep", "bump"}
  BY DEF IsAlert
<1>6. Chances' = Chances \ {<<t, 0>>}
  BY <1>0, <1>3, <1>5 DEF Chances
<1>7. word.signals - 1 <= Cardinality(Notices \ {<<t, 0>>})
  BY <1>0, <1>1, <1>2, Taken DEF SignalInv, EnoughNotices
<1>8. word.signals - 1 <= Cardinality(Chances \ {<<t, 0>>})
  BY <1>0, <1>1, <1>2, Taken DEF SignalInv, EnoughChances
<1> QED
  BY <1>4, <1>6, <1>7, <1>8 DEF EnoughNotices, EnoughChances

\* wake() posts as many signals as it reserves waiters.
LEMMA PostingStep ==
  ASSUME SignalInv, CountInv', NEW t \in Threads, NEW k \in Nat,
         at[t] = "reserve", at' = [at EXCEPT ![t] = "bump"],
         word'.signals = word.signals + k,
         reserved' = [reserved EXCEPT ![t] = k], UNCHANGED current
  PROVE  EnoughNotices' /\ EnoughChances'
<1>0. /\ at \in [Threads -> Places] /\ reserved \in [Threads -> Nat]
      /\ word.signals \in Nat /\ reserved[t] = 0
  BY WordFacts DEF SignalInv, CountInv, CondTypeOK, LookedFirst
<1>1. Notices \in SUBSET Slots /\ Chances \in SUBSET Slots
  BY InSlots DEF SignalInv, SlotsOnly
<1>2. \A u \in Threads : /\ IsAlert(u)' <=> IsAlert(u)
                         /\ at'[u] = "asleep" <=> at[u] = "asleep"
  BY <1>0 DEF IsAlert
<1>3. Notices' = Notices \cup Row(t, k) /\ Notices \cap Row(t, k) = {}
  BY <1>0, <1>2 DEF Notices, Row
<1>4. Chances' = Chances \cup Row(t, k) /\ Chances \cap Row(t, k) = {}
  BY <1>0, <1>2 DEF Chances, Row
<1>5. word.signals + k <= Cardinality(Notices \cup Row(t, k))
  BY <1>0, <1>1, <1>3, Posted DEF SignalInv, EnoughNotices
<1>6. word.signals + k <= Cardinality(Chances \cup Row(t, k))
  BY <1>0, <1>1, <1>4, Posted DEF SignalInv, EnoughChances
<1> QED
  BY <1>3, <1>4, <1>5, <1>6 DEF EnoughNotices, EnoughChances

\* Once the epoch has changed, every waiter is alert or asleep.
LEMMA BumpStep ==
  ASSUME SignalInv, CountInv', NEW t \in Threads, Bump(t)
  PROVE  EnoughNotices' /\ EnoughChances'
<1>0. /\ at \in [Threads -> Places] /\ word.signals \in Nat
      /\ at[t] = "bump" /\ at' = [at EXCEPT ![t] = "fwake"] /\ current' = {}
      /\ UNCHANGED <<word, reserved>>
  BY WordFacts DEF SignalInv, CountInv, CondTypeOK, Bump, Move
<1>1. /\ Notices \in SUBSET Slots /\ Notices' \in SUBSET Slots
      /\ Chances' \in SUBSET Slots
  BY InSlots, InSlotsNext DEF SignalInv, SlotsOnly
<1>2. Notices \subseteq Notices'
  BY <1>0 DEF Notices, IsAlert
<1>3. word'.signals <= Cardinality(Notices')
  BY <1>0, <1>1, <1>2, Grown DEF SignalInv, EnoughNotices
<1>4. Waiters \X {0} \subseteq Chances'
  BY <1>0 DEF Chances, IsAlert, Waiters, Waiting
<1>5. Cardinality(Waiters \X {0}) = word.waiters
  <2>1. IsFiniteSet(Waiters) /\ Cardinality(Waiters) = word.waiters /\ word.waiters \in Nat
    BY SomeThreads, WordFacts DEF Waiters, SignalInv
  <2>2. IsFiniteSet({0}) /\ Cardinality({0}) = 1
    BY FS_Singleton
  <2>3. Cardinality(Waiters \X {0}) = word.waiters * 1
    BY <2>1, <2>2, FS_Product
  <2> QED
    BY <2>1, <2>3
<1>6. word.signals <= word.waiters /\ word.waiters \in Nat
  BY WordFacts DEF SignalInv
<1>7. Cardinality(Waiters \X {0}) <= Cardinality(Chances') /\ Cardinality(Chances') \in Nat
  BY <1>1, <1>4, CountSlots
<1>8. word'.signals <= Cardinality(Chances')
  BY <1>0, <1>5, <1>6, <1>7
<1> QED
  BY <1>3, <1>8 DEF EnoughNotices, EnoughChances

\* The futex wakes as many sleepers as were reserved, or all there are.
LEMMA WakingStep ==
  ASSUME SignalInv, CountInv', NEW t \in Threads, FutexWake(t)
  PROVE  EnoughNotices' /\ EnoughChances'
<1>0. /\ at \in [Threads -> Places] /\ reserved \in [Threads -> Nat]
      /\ word.signals \in Nat /\ at[t] = "fwake"
      /\ reserved' = [reserved EXCEPT ![t] = 0] /\ UNCHANGED <<word, current>>
  BY WordFacts DEF SignalInv, CountInv, CondTypeOK, FutexWake
<1>1. PICK W \in SUBSET Sleeping :
         /\ Cardinality(W) = reserved[t] \/ W = Sleeping
         /\ at' = [u \in Threads |-> IF u = t THEN "out"
                                     ELSE IF u \in W THEN "woken" ELSE at[u]]
  BY DEF FutexWake
<1>2. /\ Notices \in SUBSET Slots /\ Notices' \in SUBSET Slots
      /\ Chances \in SUBSET Slots /\ Chances' \in SUBSET Slots
  BY InSlots, InSlotsNext DEF SignalInv, SlotsOnly
<1>3. \A u \in Threads : /\ IsAlert(u)' <=> IsAlert(u) \/ u \in W
                         /\ u \in W => at[u] = "asleep" /\ ~IsAlert(u)
  BY <1>0, <1>1 DEF IsAlert, Sleeping
<1>4. Chances \subseteq Chances'
  BY <1>0, <1>1, <1>3 DEF Chances
<1>5. word'.signals <= Cardinality(Chances')
  BY <1>0, <1>2, <1>4, Grown DEF SignalInv, EnoughChances
<1>6. CASE Cardinality(W) = reserved[t]
  <2> DEFINE R == Row(t, reserved[t])
             Q == W \X {0}
  <2>1. R \subseteq Notices /\ Notices \cap Q = {}
    BY <1>0, <1>3 DEF Row, Notices
  <2>2. Notices' = (Notices \ R) \cup Q
    BY <1>0, <1>1, <1>3 DEF Row, Notices, Sleeping
  <2>3. W \in SUBSET Threads
    BY <1>1 DEF Sleeping
  <2>4. word.signals <= Cardinality((Notices \ R) \cup Q)
    BY <1>0, <1>2, <1>6, <2>1, <2>3, Handed DEF SignalInv, EnoughNotices
  <2> QED
    BY <1>0, <1>5, <2>2, <2>4 DEF EnoughNotices, EnoughChances
<1>7. CASE W = Sleeping
  <2>1. Chances \subseteq Notices'
    BY <1>0, <1>1, <1>3, <1>7 DEF Chances, Notices, Sleeping
  <2>2. word'.signals <= Cardinality(Notices')
    BY <1>0, <1>2, <2>1, Grown DEF SignalInv, EnoughChances
  <2> QED
    BY <1>5, <2>2 DEF EnoughNotices, EnoughChances
<1> QED
  BY <1>1, <1>6, <1>7

LEMMA SignalStep ==
  SignalInv /\ CountInv' /\ [ConditionNext]_condVars => EnoughNotices' /\ EnoughChances'
<1> SUFFICES ASSUME SignalInv, CountInv', [ConditionNext]_condVars
             PROVE  EnoughNotices' /\ EnoughChances'
  OBVIOUS
<1> DEFINE Enough == EnoughNotices' /\ EnoughChances'
<1>0. /\ at \in [Threads -> Places]
      /\ \A t \in Threads : at[t] = "consume" => seen[t].signals # 0
  BY DEF SignalInv, CountInv, CondTypeOK, LookedFirst
<1>1. Quietly \/ word'.signals = 0 => Enough
  BY QuietStep, SilentStep
<1> HIDE DEF Enough
<1>2. ASSUME NEW t \in Threads, NEW how \in {"wait", "timedWait"}, BeginWait(t, how)
      PROVE Quietly
  BY <1>0, <1>2 DEF BeginWait, Move, Quietly, IsAlert
<1>3. ASSUME NEW t \in Threads, NEW how \in {"signal", "broadcast"}, BeginWake(t, how)
      PROVE Quietly
  BY <1>0, <1>3 DEF BeginWake, Move, Quietly, IsAlert
<1>4. ASSUME NEW t \in Threads, SpuriousReturn(t) \/ Timeout(t) \/ FutexWait(t)
      PROVE Quietly
  BY <1>0, <1>4 DEF SpuriousReturn, Timeout, FutexWait, Move, Quietly, IsAlert
<1>5. ASSUME NEW t \in Threads, AddWaiter(t) PROVE Quietly
  <2>1. word'.signals = word.signals
    BY <1>5, WordFacts DEF AddWaiter, SignalInv
  <2> QED
    BY <1>0, <1>5, <2>1 DEF AddWaiter, Move, Quietly, IsAlert
<1>6. ASSUME NEW t \in Threads, GiveBack(t) \/ LoadEpoch(t) \/ Relock(t) PROVE Quietly
  BY <1>0, <1>6 DEF GiveBack, LoadEpoch, Relock, Move, Quietly, IsAlert
\* A waiter goes back to sleep only when it sees no signal.
<1>7. ASSUME NEW t \in Threads, LoadWord(t) PROVE Quietly \/ word'.signals = 0
  BY <1>0, <1>7 DEF LoadWord, Signalled, Move, Quietly, IsAlert
<1>8. ASSUME NEW t \in Threads, Consume(t) PROVE Enough
  <2>1. CASE /\ Move(t, "consume", "relock") /\ Exchange(t, OneSignalTaken(word))
             /\ Done(t)
    <3>1. word'.signals = word.signals - 1
      BY <2>1, Taking DEF SignalInv
    <3> QED
      BY <1>8, <2>1, <3>1, TakingStep DEF Consume, Move, Done, IsAlert, Enough
  <2>2. CASE /\ Refuse(t)
             /\ Move(t, "consume", IF Signalled(word) THEN "consume" ELSE "sleep")
             /\ UNCHANGED current
    <3>1. Quietly \/ word'.signals = 0
      BY <1>0, <1>8, <2>2 DEF Consume, Refuse, Signalled, Move, Quietly, IsAlert
    <3> QED
      BY <1>1, <3>1
  <2> QED
    BY <1>8, <2>1, <2>2 DEF Consume
<1>9. ASSUME NEW t \in Threads, Expire(t) PROVE Enough
  <2>1. CASE /\ Move(t, "expired", "relock")
             /\ Exchange(t, IF Signalled(word) THEN OneSignalTaken(word)
                            ELSE OneWaiterGone(word))
             /\ Done(t)
    <3>1. word'.signals = IF word.signals = 0 THEN 0 ELSE word.signals - 1
      BY <2>1, Taking DEF SignalInv
    <3>2. CASE word.signals = 0
      BY <1>1, <3>1, <3>2
    <3>3. CASE word.signals # 0
      <4>1. word'.signals = word.signals - 1
        BY <3>1, <3>3
      <4> QED
        BY <1>9, <2>1, <4>1, TakingStep DEF Expire, Move, Done, IsAlert, Enough
    <3> QED
      BY <3>2, <3>3
  <2>2. CASE Refuse(t) /\ Move(t, "expired", "expired") /\ UNCHANGED current
    <3>1. Quietly
      BY <1>0, <1>9, <2>2 DEF Expire, Refuse, Move, Quietly, IsAlert
    <3> QED
      BY <1>1, <3>1
  <2> QED
    BY <1>9, <2>1, <2>2 DEF Expire
<1>10. ASSUME NEW t \in Threads, Reserve(t) PROVE Enough
  <2>1. CASE /\ Exchange(t, [word EXCEPT !.signals = @ + ToWake(t)])
             /\ reserved' = [reserved EXCEPT ![t] = ToWake(t)]
             /\ Move(t, "reserve", "bump")
    <3>1. /\ ToWake(t) \in 1..(word.waiters - word.signals)
          /\ word' = [waiters |-> word.waiters, signals |-> word.signals + ToWake(t)]
      BY <2>1, Reserving DEF Move, SignalInv
    <3>2. ToWake(t) \in Nat /\ word'.signals = word.signals + ToWake(t)
      BY <3>1, WordFacts DEF SignalInv
    <3> QED
      BY <1>10, <2>1, <3>2, PostingStep DEF Reserve, Move, Enough
  <2>2. CASE UNCHANGED <<word, reserved>>
    <3>1. Quietly
      BY <1>0, <1>10, <2>2 DEF Reserve, Move, Quietly, IsAlert
    <3> QED
      BY <1>1, <3>1
  <2> QED
    BY <1>10, <2>1, <2>2 DEF Reserve, Refuse
<1>11. ASSUME NEW t \in Threads, Bump(t) PROVE Enough
  BY <1>11, BumpStep DEF Enough
<1>12. ASSUME NEW t \in Threads, FutexWake(t) PROVE Enough
  BY <1>12, WakingStep DEF Enough
<1>13. ASSUME UNCHANGED condVars PROVE Enough
  <2>1. UNCHANGED <<word, current, at, reserved>>
    BY <1>13 DEF condVars
  <2>2. Quietly
    BY <2>1 DEF Quietly, IsAlert
  <2> QED
    BY <1>1, <2>2
<1>14. ASSUME NEW t \in Threads, ConditionStep(t) PROVE Enough
  <2>1. CASE Quietly \/ word'.signals = 0
    BY <1>1, <2>1
  <2>2. CASE ~(Quietly \/ word'.signals = 0)
    BY <1>2, <1>3, <1>4, <1>5, <1>6, <1>7, <1>8, <1>9, <1>10, <1>11, <1>12, <1>14, <2>2, Zenon
       DEF ConditionStep
  <2> QED
    BY <2>1, <2>2
<1>15. Enough
  BY <1>13, <1>14 DEF ConditionNext
<1> QED
  BY <1>15 DEF Enough

\* Whoever waits, times out, signals and broadcasts, and however many do: as long
\* as a signal is out, some thread is bound to notice it.
THEOREM NoSignalMissed == WgSpec => []NoMissedSignal
<1>1. WgInit => EnoughNotices /\ EnoughChances
  <2> SUFFICES ASSUME WgInit PROVE EnoughNotices /\ EnoughChances
    OBVIOUS
  <2>1. Notices = {} /\ Chances = {} /\ word.signals = 0
    BY DEF WgInit, CondInit, Notices, Chances, IsAlert, NoWord
  <2> QED
    BY <2>1, FS_EmptySet DEF EnoughNotices, EnoughChances
<1>2. SignalInv /\ CountInv' /\ [WgNext]_all => EnoughNotices' /\ EnoughChances'
  BY SignalStep, StepOfCondition
<1>3. SignalInv => NoMissedSignal
  <2> SUFFICES ASSUME SignalInv, Signalled(word) PROVE NoMissedSignal
    BY DEF NoMissedSignal
  <2>1. word.signals \in Nat \ {0} /\ word.signals <= Cardinality(Notices)
    BY WordFacts DEF SignalInv, EnoughNotices, Signalled
  <2>2. Notices # {}
    BY <2>1, FS_EmptySet
  <2>3. PICK u \in Threads, i \in Nat : <<u, i>> \in Notices
    BY <2>2 DEF Notices
  <2>4. IsAlert(u) \/ reserved[u] # 0
    BY <2>3 DEF Notices, SignalInv, CountInv, CondTypeOK
  <2>5. IsAlert(u) \/ at[u] \in {"bump", "fwake"}
    BY <2>4 DEF SignalInv, CountInv, LookedFirst
  <2> QED
    BY <2>5 DEF NoMissedSignal, IsAlert
<1> QED
  BY <1>1, <1>2, <1>3, CountInductive, PTL DEF WgSpec, SignalInv
=============================================================================
