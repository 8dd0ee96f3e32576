--------------------------- MODULE MCPacketBuffer ---------------------------
(***************************************************************************)
(* PacketBuffer with one producer and one consumer, as in the engine, under *)
(* a clock that only goes forward and under one that can be set back.      *)
(***************************************************************************)
EXTENDS PacketBuffer

CONSTANT MaxWrites   \* bound: frames stored

\* The smallest and the largest frame of a slot, and the two refused sizes.
MCPacketFrames == {[size |-> n] : n \in {0, 1, SLOT_SIZE - TIMESTAMP_SIZE,
                                         SLOT_SIZE - TIMESTAMP_SIZE + 1}}

MCData ==
  [frame : MCPacketFrames, ts : 0 .. MaxTime \div TicksPerMilli, size : 0 .. SLOT_SIZE + 1]

MCPacketNext == PacketNext(MCPacketFrames) /\ Len(accepted') <= MaxWrites

MCSetBackNext == (PacketNext(MCPacketFrames) \/ setBack) /\ Len(accepted') <= MaxWrites
MCSetBackSpec == PacketInit /\ [][MCSetBackNext]_packetVars
=============================================================================
