------------------------------ MODULE FrameQueue ------------------------------
(***************************************************************************)
(* What a ring buffer promises: a bounded first-in first-out queue between *)
(* one writer and one reader.  Frames are numbered in the order they are   *)
(* written, so the contents of the queue say what was lost, repeated or    *)
(* reordered.                                                              *)
(***************************************************************************)
EXTENDS Integers, Sequences

CONSTANT Capacity

VARIABLES queue, next

QInit == queue = <<>> /\ next = 1

\* The n frames after those already written.
Frames(n) == [i \in 1 .. n |-> next + i - 1]

Put(n) ==
    /\ Len(queue) + n <= Capacity
    /\ queue' = queue \o Frames(n)
    /\ next' = next + n

Take(n) ==
    /\ n <= Len(queue)
    /\ queue' = SubSeq(queue, n + 1, Len(queue))
    /\ UNCHANGED next

\* Start again as if nothing had been written or read.
Clear == queue' = <<>> /\ next' = 1

QNext == Clear \/ \E n \in 1 .. Capacity : Put(n) \/ Take(n)

QSpec == QInit /\ [][QNext]_<<queue, next>>
=============================================================================
