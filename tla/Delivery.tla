------------------------------ MODULE Delivery ------------------------------
(***************************************************************************)
(* What the program promises of the frames it receives, whatever happens   *)
(* to its threads, connections and broker: each is settled once, in the    *)
(* order received; the broker gets a frame at most once, never before its  *)
(* turn and never one that was discarded or skipped; a frame settled as    *)
(* published is at the broker by then.  One given up as failed may have    *)
(* reached the broker, or may still.                                       *)
(***************************************************************************)
EXTENDS Naturals, Sequences, Functions

CONSTANT MaxFrames

VARIABLES
  rcvd,      \* the frames received
  settled,   \* <<frame, outcome>> of those the program has finished with
  taken      \* the frames the broker has accepted

deliveryVars == <<rcvd, settled, taken>>

DeliveryInit == rcvd = <<>> /\ settled = <<>> /\ taken = <<>>

receive ==
  /\ \E n \in 1..MaxFrames \ Range(rcvd) : rcvd' = Append(rcvd, n)
  /\ UNCHANGED <<settled, taken>>

turn == Len(settled) + 1

accept ==
  /\ \E k \in 1..Len(rcvd) :
       /\ k = turn \/ (k < turn /\ settled[k][2] = "failed")
       /\ rcvd[k] \notin Range(taken)
       /\ taken' = Append(taken, rcvd[k])
  /\ UNCHANGED <<rcvd, settled>>

settle ==
  /\ turn <= Len(rcvd)
  /\ \E o \in {"published", "failed", "skipped", "discarded"} :
       /\ o = "published" => rcvd[turn] \in Range(taken)
       /\ o \in {"skipped", "discarded"} => rcvd[turn] \notin Range(taken)
       /\ settled' = Append(settled, <<rcvd[turn], o>>)
  /\ UNCHANGED <<rcvd, taken>>

DeliveryNext == receive \/ accept \/ settle
DeliverySpec == DeliveryInit /\ [][DeliveryNext]_deliveryVars
-----------------------------------------------------------------------------
\* What this gives a consumer of the queue: no frame twice, and the published
\* ones all there, in the order in which they were received.
ConsumerView ==
  /\ \A j, k \in 1..Len(taken) : taken[j] = taken[k] => j = k
  /\ \A j, k \in 1..Len(settled) :
       j <= k /\ settled[j][2] = "published" /\ settled[k][2] = "published"
         => \E a, b \in 1..Len(taken) :
              a <= b /\ taken[a] = settled[j][1] /\ taken[b] = settled[k][1]
=============================================================================
