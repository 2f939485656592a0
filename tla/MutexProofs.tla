---------------------------- MODULE MutexProofs ----------------------------
(***************************************************************************)
(* Proofs about Mutex for every set of threads, both targets of tryLock    *)
(* and both builds.  IInv joins the mutual exclusion, what DebugImpl's     *)
(* owner word says, and the condition under which sleepers are not lost.   *)
(***************************************************************************)
EXTENDS Mutex, TLAPS

\* What locking_thread says: only a thread in its critical section is
\* recorded, and in the debug build every such thread is.
OwnerRecorded ==
  /\ locking_thread # NoThread => Debug /\ pc[locking_thread] = "cs"
  /\ \A t \in Threads : Debug /\ pc[t] = "cs" => locking_thread = t

\* What the safety proofs use of Spec, and what a module that locks this mutex
\* has to show of its own steps.
MutexSteps == Init /\ [][Next]_vars

IInv == TypeOK /\ MutualExclusion /\ OwnerRecorded /\ NoFalsePanic

\* Every variable keeps its type.
THEOREM TypeCorrect == Spec => []TypeOK
<1>1. Init => TypeOK
  BY DEF Init, TypeOK, Locations, Unlocked, Locked, Contended
<1>2. TypeOK /\ [Next]_vars => TypeOK'
  <2> SUFFICES ASSUME TypeOK, [Next]_vars PROVE TypeOK'
    OBVIOUS
  <2> USE MutexAssumption DEF TypeOK, Locations, Goto, Unlocked, Locked, Contended
  <2>1. ASSUME NEW t \in Threads, BeginLock(t) PROVE TypeOK'
    BY <2>1 DEF BeginLock
  <2>2. ASSUME NEW t \in Threads, BeginTryLock(t) PROVE TypeOK'
    BY <2>2 DEF BeginTryLock
  <2>3. ASSUME NEW t \in Threads, SpuriousWake(t) PROVE TypeOK'
    BY <2>3 DEF SpuriousWake
  <2>4. ASSUME NEW t \in Threads, FastPath(t) PROVE TypeOK'
    BY <2>4 DEF FastPath, TryAcquire
  <2>5. ASSUME NEW t \in Threads, TryPath(t) PROVE TypeOK'
    BY <2>5 DEF TryPath, TryAcquire
  <2>6. ASSUME NEW t \in Threads, Check(t) PROVE TypeOK'
    BY <2>6 DEF Check
  <2>7. ASSUME NEW t \in Threads, Swap(t) PROVE TypeOK'
    BY <2>7 DEF Swap
  <2>8. ASSUME NEW t \in Threads, Sleep(t) PROVE TypeOK'
    BY <2>8 DEF Sleep
  <2>9. ASSUME NEW t \in Threads, Enter(t) PROVE TypeOK'
    BY <2>9 DEF Enter
  <2>10. ASSUME NEW t \in Threads, BeginUnlock(t) PROVE TypeOK'
    BY <2>10 DEF BeginUnlock
  <2>11. ASSUME NEW t \in Threads, Release(t) PROVE TypeOK'
    BY <2>11 DEF Release
  <2>12. ASSUME NEW t \in Threads, Wake(t) PROVE TypeOK'
    BY <2>12 DEF Wake, Asleep
  <2>13. CASE UNCHANGED vars
    BY <2>13 DEF vars
  <2> QED
    BY <2>1, <2>2, <2>3, <2>4, <2>5, <2>6, <2>7, <2>8, <2>9, <2>10, <2>11,
       <2>12, <2>13 DEF Next
<1> QED
  BY <1>1, <1>2, PTL DEF Spec

\* No interleaving of lock, tryLock, sleeping, waking and unlock, on either
\* target and in either build, breaks the mutual exclusion, the owner record
\* or sets off one of DebugImpl's panics.
LEMMA Inductive == MutexSteps => []IInv
<1>1. Init => IInv
  BY MutexAssumption DEF Init, IInv, TypeOK, MutualExclusion, OwnerRecorded,
     NoFalsePanic, Locations, Critical, Unlocked, Locked, Contended
<1>2. IInv /\ [Next]_vars => IInv'
  <2> SUFFICES ASSUME IInv, [Next]_vars PROVE IInv'
    OBVIOUS
  <2> USE MutexAssumption DEF IInv, TypeOK, MutualExclusion, OwnerRecorded,
          NoFalsePanic, Locations, Critical, Goto, Unlocked, Locked, Contended
  <2>1. ASSUME NEW t \in Threads, BeginLock(t) PROVE IInv'
    BY <2>1 DEF BeginLock
  <2>2. ASSUME NEW t \in Threads, BeginTryLock(t) PROVE IInv'
    BY <2>2 DEF BeginTryLock
  <2>3. ASSUME NEW t \in Threads, SpuriousWake(t) PROVE IInv'
    BY <2>3 DEF SpuriousWake
  <2>4. ASSUME NEW t \in Threads, FastPath(t) PROVE IInv'
    BY <2>4 DEF FastPath, TryAcquire
  <2>5. ASSUME NEW t \in Threads, TryPath(t) PROVE IInv'
    BY <2>5 DEF TryPath, TryAcquire
  <2>6. ASSUME NEW t \in Threads, Check(t) PROVE IInv'
    BY <2>6 DEF Check
  <2>7. ASSUME NEW t \in Threads, Swap(t) PROVE IInv'
    BY <2>7 DEF Swap
  <2>8. ASSUME NEW t \in Threads, Sleep(t) PROVE IInv'
    BY <2>8 DEF Sleep
  <2>9. ASSUME NEW t \in Threads, Enter(t) PROVE IInv'
    BY <2>9 DEF Enter
  <2>10. ASSUME NEW t \in Threads, BeginUnlock(t) PROVE IInv'
    BY <2>10 DEF BeginUnlock
  <2>11. ASSUME NEW t \in Threads, Release(t) PROVE IInv'
    BY <2>11 DEF Release
  <2>12. ASSUME NEW t \in Threads, Wake(t) PROVE IInv'
    BY <2>12 DEF Wake, Asleep
  <2>13. CASE UNCHANGED vars
    BY <2>13 DEF vars
  <2> QED
    BY <2>1, <2>2, <2>3, <2>4, <2>5, <2>6, <2>7,
       <2>8, <2>9, <2>10, <2>11, <2>12, <2>13 DEF Next
<1> QED
  BY <1>1, <1>2, PTL DEF MutexSteps

\* At most one thread is between acquisition and release, and the word is
\* Unlocked exactly when none is.
THEOREM Exclusion == Spec => []MutualExclusion
<1>1. IInv => MutualExclusion
  BY DEF IInv
<1> QED
  BY <1>1, Inductive, PTL DEF Spec, MutexSteps

\* DebugImpl never panics on threads that follow the protocol.
THEOREM DebugChecksSound == Spec => []NoFalsePanic
<1>1. IInv => NoFalsePanic
  BY DEF IInv
<1> QED
  BY <1>1, Inductive, PTL DEF Spec, MutexSteps

\* A sleeping thread is never forgotten, however barging threads rewrite the
\* word between the unlock and the wake: for whoever uses the mutex, and then
\* for its own specification.
LEMMA SleepersKept == MutexSteps => []NoLostWakeup
<1>1. Init => NoLostWakeup
  BY DEF Init, NoLostWakeup, Asleep
<1>2. IInv /\ NoLostWakeup /\ [Next]_vars => NoLostWakeup'
  <2> SUFFICES ASSUME IInv, NoLostWakeup, [Next]_vars PROVE NoLostWakeup'
    OBVIOUS
  <2> USE DEF IInv, TypeOK, MutualExclusion, NoLostWakeup, Asleep, Locations,
          Critical, Goto, Unlocked, Locked, Contended
  <2>1. ASSUME NEW t \in Threads, BeginLock(t) PROVE NoLostWakeup'
    BY <2>1 DEF BeginLock
  <2>2. ASSUME NEW t \in Threads, BeginTryLock(t) PROVE NoLostWakeup'
    BY <2>2 DEF BeginTryLock
  <2>3. ASSUME NEW t \in Threads, SpuriousWake(t) PROVE NoLostWakeup'
    BY <2>3 DEF SpuriousWake
  <2>4. ASSUME NEW t \in Threads, FastPath(t) PROVE NoLostWakeup'
    BY <2>4 DEF FastPath, TryAcquire
  <2>5. ASSUME NEW t \in Threads, TryPath(t) PROVE NoLostWakeup'
    BY <2>5 DEF TryPath, TryAcquire
  <2>6. ASSUME NEW t \in Threads, Check(t) PROVE NoLostWakeup'
    BY <2>6 DEF Check
  <2>7. ASSUME NEW t \in Threads, Swap(t) PROVE NoLostWakeup'
    BY <2>7 DEF Swap
  <2>8. ASSUME NEW t \in Threads, Sleep(t) PROVE NoLostWakeup'
    BY <2>8 DEF Sleep
  <2>9. ASSUME NEW t \in Threads, Enter(t) PROVE NoLostWakeup'
    BY <2>9 DEF Enter
  <2>10. ASSUME NEW t \in Threads, BeginUnlock(t) PROVE NoLostWakeup'
    BY <2>10 DEF BeginUnlock
  <2>11. ASSUME NEW t \in Threads, Release(t) PROVE NoLostWakeup'
    BY <2>11 DEF Release
  <2>12. ASSUME NEW t \in Threads, Wake(t) PROVE NoLostWakeup'
    BY <2>12 DEF Wake, Asleep
  <2>13. CASE UNCHANGED vars
    BY <2>13 DEF vars
  <2> QED
    BY <2>1, <2>2, <2>3, <2>4, <2>5, <2>6, <2>7,
       <2>8, <2>9, <2>10, <2>11, <2>12, <2>13 DEF Next
<1> QED
  BY <1>1, <1>2, Inductive, PTL DEF MutexSteps

\* A sleeping thread is never forgotten: NoLostWakeup of the mutex alone.
THEOREM SleepersRemembered == Spec => []NoLostWakeup
  BY SleepersKept, PTL DEF Spec, MutexSteps

\* Every step of the futex mutex is a step of the abstract lock or leaves it
\* unchanged: for whoever uses it, and then for its own specification.
LEMMA StepsOfALock == MutexSteps => LockSafeSpec
<1>1. Init => Lock!Init
  BY DEF Init, Lock!Init, Trying, Critical
<1>2. IInv /\ [Next]_vars => [Lock!Next]_Lock!vars
  <2> SUFFICES ASSUME IInv, [Next]_vars PROVE [Lock!Next]_Lock!vars
    OBVIOUS
  <2> USE DEF IInv, TypeOK, MutualExclusion, OwnerRecorded, NoFalsePanic,
          Locations, Critical, Trying, Goto, Unlocked, Locked, Contended,
          Lock!vars, Lock!Next, Lock!Request, Lock!Acquire, Lock!GiveUp,
          Lock!Release
  <2>1. ASSUME NEW t \in Threads, BeginLock(t) PROVE [Lock!Next]_Lock!vars
    BY <2>1 DEF BeginLock
  <2>2. ASSUME NEW t \in Threads, BeginTryLock(t) PROVE [Lock!Next]_Lock!vars
    BY <2>2 DEF BeginTryLock
  <2>3. ASSUME NEW t \in Threads, SpuriousWake(t) PROVE [Lock!Next]_Lock!vars
    BY <2>3 DEF SpuriousWake
  <2>4. ASSUME NEW t \in Threads, FastPath(t) PROVE [Lock!Next]_Lock!vars
    BY <2>4 DEF FastPath, TryAcquire
  <2>5. ASSUME NEW t \in Threads, TryPath(t) PROVE [Lock!Next]_Lock!vars
    BY <2>5 DEF TryPath, TryAcquire
  <2>6. ASSUME NEW t \in Threads, Check(t) PROVE [Lock!Next]_Lock!vars
    BY <2>6 DEF Check
  <2>7. ASSUME NEW t \in Threads, Swap(t) PROVE [Lock!Next]_Lock!vars
    BY <2>7 DEF Swap
  <2>8. ASSUME NEW t \in Threads, Sleep(t) PROVE [Lock!Next]_Lock!vars
    BY <2>8 DEF Sleep
  <2>9. ASSUME NEW t \in Threads, Enter(t) PROVE [Lock!Next]_Lock!vars
    BY <2>9 DEF Enter
  <2>10. ASSUME NEW t \in Threads, BeginUnlock(t) PROVE [Lock!Next]_Lock!vars
    BY <2>10 DEF BeginUnlock
  <2>11. ASSUME NEW t \in Threads, Release(t) PROVE [Lock!Next]_Lock!vars
    BY <2>11 DEF Release
  <2>12. ASSUME NEW t \in Threads, Wake(t) PROVE [Lock!Next]_Lock!vars
    BY <2>12 DEF Wake, Asleep
  <2>13. CASE UNCHANGED vars
    BY <2>13 DEF vars
  <2> QED
    BY <2>1, <2>2, <2>3, <2>4, <2>5, <2>6, <2>7,
       <2>8, <2>9, <2>10, <2>11, <2>12, <2>13 DEF Next
<1> QED
  BY <1>1, <1>2, Inductive, PTL DEF MutexSteps, LockSafeSpec, Lock!SafeSpec

\* The futex mutex implements the safety part of AbstractLock.
THEOREM ImplementsLock == Spec => LockSafeSpec
  BY StepsOfALock, PTL DEF Spec, MutexSteps
=============================================================================
