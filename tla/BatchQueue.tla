----------------------------- MODULE BatchQueue -----------------------------
(***************************************************************************)
(* What UnboundedQueue promises its one consumer: items come out in the    *)
(* order in which they went in, each as often as it was pushed, a batch at *)
(* a time.                                                                 *)
(***************************************************************************)
EXTENDS Sequences

CONSTANT Items

VARIABLES queue,   \* pushed and not in a batch yet
          batch    \* popped as a batch and not handed out yet

Init == queue = <<>> /\ batch = <<>>

Push(i) == queue' = Append(queue, i) /\ UNCHANGED batch
PopBatch == batch = <<>> /\ batch' = queue /\ queue' = <<>>
Hand == batch # <<>> /\ batch' = Tail(batch) /\ UNCHANGED queue

Next == (\E i \in Items : Push(i)) \/ PopBatch \/ Hand

Spec == Init /\ [][Next]_<<queue, batch>>
=============================================================================
