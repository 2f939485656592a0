---------------------------- MODULE MCWaitGroup -----------------------------
(***************************************************************************)
(* WaitGroup for TLC: one thread waits for two tasks that two others       *)
(* finish, and all three are plain users of the mutex and of the condition *)
(* variable besides.                                                       *)
(***************************************************************************)
EXTENDS WaitGroup, TLC

CONSTANTS t1, t2, t3

MCUses == (t1 :> {"waitGroup", "lock"})
          @@ (t2 :> {"finish", "lock", "timedWait"})
          @@ (t3 :> {"finish", "add", "tryLock", "broadcast"})
=============================================================================
