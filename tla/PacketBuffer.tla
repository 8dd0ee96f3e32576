---------------------------- MODULE PacketBuffer ----------------------------
(***************************************************************************)
(* PacketBuffer (capture/packet_buffer.cpp): a RingBuffer whose slots hold *)
(* an 8-byte capture time followed by the frame.                           *)
(***************************************************************************)
EXTENDS RingBuffer

CONSTANTS
  TIMESTAMP_SIZE,   \* bytes in front of the frame in a slot
  TicksPerMilli,    \* resolution of system_clock
  MaxTime           \* bound: the latest reading of system_clock

ASSUME PacketAssumption ==
  TIMESTAMP_SIZE \in 0..SLOT_SIZE /\ TicksPerMilli \in Nat \ {0}

VARIABLE now        \* system_clock, in its own ticks since the epoch

packetVars == <<ringVars, now>>

maxFrameSize == SLOT_SIZE - TIMESTAMP_SIZE

\* The whole milliseconds of the clock, in 64 bits that do not wrap.
nowMillisOneBit == (now \div TicksPerMilli) % 2
nowMillis == now \div TicksPerMilli

slotOf(frame) ==
  [frame |-> frame, ts |-> nowMillis, size |-> TIMESTAMP_SIZE + frame.size]

\* PacketBuffer::write: the time is read before the ring is entered, however
\* long the thread then waits for a free slot.
bufferWrite(w, frame) ==
  \/ /\ frame.size = 0 \/ frame.size > maxFrameSize
     /\ pc[w] = "idle"
     /\ ret' = [ret EXCEPT ![w] = "false"]
     /\ UNCHANGED <<slotVars, mtx, stop_flag, pc, buf, handler, accepted,
                    delivered>>
  \/ /\ frame.size \in 1..maxFrameSize
     /\ callWrite(w, slotOf(frame))

\* PacketBuffer::read, once the ring has returned: the frame is handed over
\* only if it fits the caller's buffer.
bufferReadOKShort(r, out_capacity) ==
  /\ ret[r] = "true"
  /\ buf[r].size >= TIMESTAMP_SIZE
  /\ buf[r].size - TIMESTAMP_SIZE < out_capacity
bufferReadOK(r, out_capacity) ==
  /\ ret[r] = "true"
  /\ buf[r].size >= TIMESTAMP_SIZE
  /\ buf[r].size - TIMESTAMP_SIZE <= out_capacity

PacketInit == RingInit /\ now = 0

\* system_clock goes forward, and back when it is set.
tick == now < MaxTime /\ now' = now + 1 /\ UNCHANGED ringVars
setBack == now > 0 /\ now' \in 0 .. now - 1 /\ UNCHANGED ringVars

\* One producer writes frames as they come, one consumer reads them.
PacketNext(frames) ==
  \/ \E w \in Writers, f \in frames : bufferWrite(w, f) /\ UNCHANGED now
  \/ \E r \in Readers : callRead(r) /\ UNCHANGED now
  \/ \E t \in Threads : (threadStep(t) \/ spuriousWakeup(t)) /\ UNCHANGED now
  \/ signalHandler /\ UNCHANGED now
  \/ tick

PacketSpec(frames) == PacketInit /\ [][PacketNext(frames)]_packetVars
-----------------------------------------------------------------------------
\* The capture times of the frames do not decrease in the order in which the
\* consumer gets them, although write() takes the time before it waits.
TimestampsNonDecreasing ==
  \A i, j \in 1..Len(accepted) : i < j => accepted[i].ts <= accepted[j].ts
=============================================================================
