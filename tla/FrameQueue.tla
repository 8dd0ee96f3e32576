----------------------------- MODULE FrameQueue -----------------------------
(***************************************************************************)
(* What the ring buffer promises to the threads on its two sides: a FIFO   *)
(* queue of at most Capacity elements.  There is no slot, index, lock or   *)
(* condition variable here; RingBuffer is shown to implement this.         *)
(***************************************************************************)
EXTENDS Naturals, Sequences

CONSTANTS Data, Capacity

VARIABLES
  queue,      \* stored and not yet taken, oldest first
  delivered   \* everything taken so far, in the order it was taken

queueVars == <<queue, delivered>>

QueueInit == queue = <<>> /\ delivered = <<>>

Put(d) ==
  /\ Len(queue) < Capacity
  /\ queue' = Append(queue, d)
  /\ UNCHANGED delivered

Take ==
  /\ queue # <<>>
  /\ queue' = Tail(queue)
  /\ delivered' = Append(delivered, Head(queue))

QueueNext == (\E d \in Data : Put(d)) \/ Take

QueueSpec == QueueInit /\ [][QueueNext]_queueVars
=============================================================================
