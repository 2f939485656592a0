---------------------------- MODULE AbstractLock ----------------------------
(***************************************************************************)
(* What src/src/threading/Mutex.zig promises its callers: at most one      *)
(* thread holds the lock, a thread that asks may give up (tryLock), and    *)
(* while somebody asks and nobody holds the lock, somebody gets it.        *)
(***************************************************************************)
EXTENDS Naturals

CONSTANT Threads

VARIABLES wanting,  \* the threads inside lock() or tryLock()
          holding   \* the threads between the acquisition and the release

vars == <<wanting, holding>>

Init == wanting = {} /\ holding = {}

Request(t) == /\ t \notin wanting \cup holding
              /\ wanting' = wanting \cup {t}
              /\ UNCHANGED holding

Acquire(t) == /\ t \in wanting
              /\ holding = {}
              /\ wanting' = wanting \ {t}
              /\ holding' = {t}

\* A failed tryLock.
GiveUp(t) == /\ t \in wanting
             /\ wanting' = wanting \ {t}
             /\ UNCHANGED holding

Release(t) == /\ t \in holding
              /\ holding' = holding \ {t}
              /\ UNCHANGED wanting

Next == \E t \in Threads : Request(t) \/ Acquire(t) \/ GiveUp(t) \/ Release(t)

SafeSpec == Init /\ [][Next]_vars

\* The lock as a whole makes progress; it does not promise that every thread
\* gets its turn (a thread that arrives late may overtake a sleeping one).
Spec == /\ SafeSpec
        /\ WF_vars(\E t \in Threads : Acquire(t) \/ GiveUp(t))
        /\ \A t \in Threads : WF_vars(Release(t))
=============================================================================
