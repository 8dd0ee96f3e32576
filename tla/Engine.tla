------------------------------- MODULE Engine -------------------------------
(***************************************************************************)
(* The running engine: main() (main.cpp) with its capture thread T1        *)
(* (capture/capture_session.cpp) and its pipeline thread T2, joined by the *)
(* packet buffer, the kernel's queue of the packet socket in front, and    *)
(* the signal handler.                                                     *)
(*                                                                         *)
(* A frame is [id, size, wire, kind]: its place in the order of arrival,   *)
(* the bytes the engine has of it, the bytes it had on the wire, and what  *)
(* the parsers make of it.  What publish() does to the broker is not here: *)
(* it returns true or false.  The capture times are those of PacketBuffer, *)
(* under a clock that stands still.                                        *)
(***************************************************************************)
EXTENDS PacketBuffer

CONSTANTS
  T1, T2,              \* the two threads
  BATCH_DRAIN,         \* frames taken from the socket per batch
  FRAME_BUF_SIZE,      \* sizeof(frame_buf) in captureLoop
  PIPELINE_BUF_SIZE,   \* sizeof(frame_buf) in the pipeline thread
  ETHERNET_MIN_SIZE,   \* smallest frame the filter stage keeps
  WireFrames,          \* what can arrive: records [wire, kind]
  MaxFrames,           \* bound: frames that arrive
  MaxErrors            \* bound: failing system calls and spurious wakeups

\* recvfrom cuts a frame to the caller's buffer.
recvfrom(f) ==
  [id |-> f.id, wire |-> f.wire, kind |-> f.kind,
   size |-> IF f.wire < FRAME_BUF_SIZE THEN f.wire ELSE FRAME_BUF_SIZE]

\* What the kernel can queue, and what the engine can make of it in a slot.
RxFrames ==
  {[id |-> n, wire |-> f.wire, kind |-> f.kind] : n \in 1..MaxFrames, f \in WireFrames}
EngineData ==
  {[frame |-> recvfrom(f), ts |-> 0, size |-> TIMESTAMP_SIZE + recvfrom(f).size] :
     f \in RxFrames}

\* One thread on each side of the buffer, and buffers of the sizes that the
\* code relies on: what recvfrom returns fits a slot, and what is in a slot
\* fits the pipeline's buffer.
ASSUME EngineAssumption ==
  /\ Writers = {T1} /\ Readers = {T2} /\ Data = EngineData
  /\ FRAME_BUF_SIZE \in Nat /\ PIPELINE_BUF_SIZE \in Nat
  /\ FRAME_BUF_SIZE + TIMESTAMP_SIZE <= SLOT_SIZE
  /\ FRAME_BUF_SIZE <= PIPELINE_BUF_SIZE
  /\ BATCH_DRAIN \in Nat /\ MaxFrames \in Nat /\ MaxErrors \in Nat
  /\ \A f \in WireFrames : f.wire \in Nat

VARIABLES
  main, t1, t2,        \* where main(), captureLoop and the pipeline loop are
  i, keep_draining,    \* captureLoop's locals
  rx,                  \* received by the kernel, not yet by the engine
  arrived,             \* how many frames have arrived
  errors,              \* how many such faults there have been
  received,            \* history: frames that recvfrom returned
  dropped,             \* history: frames a thread lost without a stop
  done                 \* history: <<id, outcome>> of what T2 has finished

captureVars == <<t1, i, keep_draining, rx, errors, received>>
engineVars == <<packetVars, captureVars, main, t2, arrived, dropped, done>>

EngineInit ==
  /\ PacketInit
  /\ main = "open" /\ t1 = "none" /\ t2 = "none"
  /\ i = 0 /\ keep_draining = FALSE
  /\ rx = <<>> /\ arrived = 0 /\ errors = 0
  /\ received = <<>> /\ dropped = {} /\ done = <<>>
-----------------------------------------------------------------------------
\* The kernel queues a frame on the packet socket.
arrive ==
  /\ main \notin {"open", "exited"}
  /\ arrived < MaxFrames
  /\ arrived' = arrived + 1
  /\ \E f \in WireFrames :
       rx' = Append(rx, [id |-> arrived + 1, wire |-> f.wire, kind |-> f.kind])
  /\ UNCHANGED <<packetVars, main, t1, t2, i, keep_draining, errors, received,
                 dropped, done>>

\* A system call of captureLoop fails, or a wakeup is spurious.
fails == errors < MaxErrors /\ errors' = errors + 1

\* epoll_wait, level-triggered, returns without an event: nothing was queued
\* when the timeout was over, or the signal handler has interrupted it.
epollNoEventEarly == TRUE
epollNoEvent == rx = <<>> \/ stop_flag

\* epoll_create1 and epoll_ctl.
captureSetup ==
  /\ t1 = "setup"
  /\ \/ t1' = "loop" /\ UNCHANGED errors
     \/ t1' = "exited" /\ fails
  /\ UNCHANGED <<packetVars, i, keep_draining, rx, received, dropped>>

\* while (!stop_flag), the outer loop.
captureTest ==
  /\ t1 = "loop"
  /\ t1' = IF stop_flag THEN "exited" ELSE "epoll"
  /\ UNCHANGED <<packetVars, i, keep_draining, rx, errors, received, dropped>>

captureEpoll ==
  /\ t1 = "epoll"
  /\ \/ t1' = "drain" /\ rx # <<>> /\ keep_draining' = TRUE /\ UNCHANGED errors
     \/ t1' = "loop" /\ epollNoEvent /\ UNCHANGED <<keep_draining, errors>>
     \/ t1' = "exited" /\ fails /\ UNCHANGED keep_draining
  /\ UNCHANGED <<packetVars, i, rx, received, dropped>>

\* while (keep_draining && !stop_flag): one more batch, or back to epoll_wait.
captureDrain ==
  /\ t1 = "drain"
  /\ IF keep_draining /\ ~stop_flag
     THEN t1' = "recv" /\ keep_draining' = FALSE /\ i' = 0
     ELSE t1' = "loop" /\ UNCHANGED <<keep_draining, i>>
  /\ UNCHANGED <<packetVars, rx, errors, received, dropped>>

\* for (i < BATCH_DRAIN): the batch is complete, the socket has nothing more
\* (EAGAIN), recvfrom fails, or it returns a frame, which goes to the buffer.
captureRecv ==
  /\ t1 = "recv"
  /\ \/ /\ i = BATCH_DRAIN \/ rx = <<>>
        /\ t1' = "drain"
        /\ UNCHANGED <<packetVars, rx, errors, received>>
     \/ /\ i < BATCH_DRAIN /\ fails
        /\ t1' = "drain"
        /\ UNCHANGED <<packetVars, rx, received>>
     \/ /\ i < BATCH_DRAIN /\ rx # <<>>
        /\ rx' = Tail(rx)
        /\ LET f == recvfrom(Head(rx)) IN
             IF f.size = 0
             THEN t1' = "drain" /\ UNCHANGED <<packetVars, received>>
             ELSE /\ t1' = "write"
                  /\ received' = Append(received, f)
                  /\ bufferWrite(T1, f)
                  /\ UNCHANGED now
        /\ UNCHANGED errors
  /\ UNCHANGED <<i, keep_draining, dropped>>

\* PacketBuffer::write has returned.  A frame it refused is lost; that is
\* counted unless the engine is stopping, when T1 leaves at once.
captureWritten ==
  /\ t1 = "write" /\ pc[T1] = "idle"
  /\ IF ret[T1] = "false" /\ stop_flag
     THEN t1' = "exited" /\ UNCHANGED <<i, keep_draining, dropped>>
     ELSE /\ t1' = "recv"
          /\ i' = i + 1
          /\ IF ret[T1] = "true"
             THEN /\ keep_draining' = (i = BATCH_DRAIN - 1)
                  /\ UNCHANGED dropped
             ELSE /\ dropped' = dropped \cup {received[Len(received)].id}
                  /\ UNCHANGED keep_draining
  /\ UNCHANGED <<packetVars, rx, errors, received>>

captureLoop ==
  /\ \/ captureSetup \/ captureTest \/ captureEpoll
     \/ captureDrain \/ captureRecv \/ captureWritten
  /\ UNCHANGED <<main, t2, arrived, done>>
-----------------------------------------------------------------------------
\* What filter_stage and dissector_stage let through: a frame long enough, of
\* an Ethernet type they know and not malformed.  An IP frame that recvfrom has
\* cut is rejected, since the length in its header, which for the frames here
\* is all of the frame, exceeds what is there; an ARP frame has no such length.
filterKeeps(f) == f.size >= ETHERNET_MIN_SIZE /\ f.kind # "ipv6"
dissectorKeeps(f) ==
  f.kind # "malformed" /\ (f.kind # "arp" => f.size = f.wire)

\* Where T2 goes from there: it looks at stop_flag only when filter_stage had
\* nothing to pass on, so that a frame it has read is finished even on a stop.
afterFilter == IF stop_flag THEN "exited" ELSE "loop"
afterStagesStopping(f) ==
  CASE stop_flag \/ ~filterKeeps(f) -> afterFilter
    [] ~stop_flag /\ filterKeeps(f) /\ ~dissectorKeeps(f) -> "loop"
    [] OTHER -> "publish"
afterStages(f) ==
  CASE ~filterKeeps(f) -> afterFilter
    [] filterKeeps(f) /\ ~dissectorKeeps(f) -> "loop"
    [] OTHER -> "publish"

pipelineStart ==
  /\ t2 = "start"
  /\ t2' = "loop"
  /\ UNCHANGED <<packetVars, dropped, done>>

\* while (!stop_flag), and the call of packet_buf.read in filter_stage.
pipelineTest ==
  /\ t2 = "loop"
  /\ IF stop_flag
     THEN t2' = "exited" /\ UNCHANGED ringVars
     ELSE t2' = "read" /\ callRead(T2)
  /\ UNCHANGED <<now, dropped, done>>

\* packet_buf.read has returned: the rest of filter_stage, dissector_stage,
\* stats_stage and the flow table, up to the call of publish().
pipelineStages ==
  /\ t2 = "read" /\ pc[T2] = "idle"
  /\ LET f == buf[T2].frame IN
        \/ /\ ret[T2] = "false"
           /\ t2' = afterFilter
           /\ UNCHANGED <<dropped, done>>
        \/ /\ ret[T2] = "true" /\ ~bufferReadOK(T2, PIPELINE_BUF_SIZE)
           /\ t2' = afterFilter
           /\ dropped' = dropped \cup {f.id}
           /\ UNCHANGED done
        \/ /\ bufferReadOK(T2, PIPELINE_BUF_SIZE)
           /\ t2' = afterStages(f)
           /\ done' = IF filterKeeps(f) /\ dissectorKeeps(f) THEN done
                      ELSE Append(done, <<f.id, "discarded">>)
           /\ UNCHANGED dropped
  /\ UNCHANGED packetVars

\* publish() returns; the pipeline ignores the result.
pipelinePublish ==
  /\ t2 = "publish"
  /\ t2' = "loop"
  /\ LET f == buf[T2].frame IN
       \E o \in IF f.kind = "other" THEN {"skipped"} ELSE {"published", "failed"} :
         done' = Append(done, <<f.id, o>>)
  /\ UNCHANGED <<packetVars, dropped>>

pipelineLoop ==
  /\ pipelineStart \/ pipelineTest \/ pipelineStages \/ pipelinePublish
  /\ UNCHANGED <<captureVars, main, arrived>>
-----------------------------------------------------------------------------
\* main(): open the socket, connect the publisher, start and join the threads.
mainStart ==
  \/ /\ main = "open"
     /\ main' \in {"connect", "exited"}
     /\ UNCHANGED <<t1, t2>>
  \/ /\ main = "connect"
     /\ main' \in {"spawn1", "close"}
     /\ UNCHANGED <<t1, t2>>
  \/ /\ main = "spawn1" /\ main' = "spawn2"
     /\ t1' = "setup" /\ UNCHANGED t2
  \/ /\ main = "spawn2" /\ main' = "join1"
     /\ t2' = "start" /\ UNCHANGED t1

mainJoin ==
  /\ \/ main = "join1" /\ t1 = "exited" /\ main' = "join2"
     \/ main = "join2" /\ t2 = "exited" /\ main' = "close"
     \/ main = "close" /\ main' = "exited"
  /\ UNCHANGED <<t1, t2>>

mainStep ==
  /\ mainStart \/ mainJoin
  /\ UNCHANGED <<packetVars, i, keep_draining, rx, errors, received, arrived,
                 dropped, done>>

\* The ring's own steps: T1 in write(), T2 in read().
ringStep(t) ==
  threadStep(t) /\ UNCHANGED <<now, captureVars, main, t2, arrived, dropped, done>>

wakeUp(t) ==
  /\ spuriousWakeup(t) /\ fails
  /\ UNCHANGED <<now, t1, i, keep_draining, rx, received, main, t2, arrived,
                 dropped, done>>

signal ==
  /\ main # "exited"
  /\ signalHandler
  /\ UNCHANGED <<now, captureVars, main, t2, arrived, dropped, done>>

terminated == main = "exited" /\ UNCHANGED engineVars

EngineNext ==
  \/ arrive \/ mainStep \/ captureLoop \/ pipelineLoop
  \/ \E t \in Threads : ringStep(t) \/ wakeUp(t)
  \/ signal \/ terminated

EngineSpec == EngineInit /\ [][EngineNext]_engineVars

\* The scheduler runs main() and both threads, and a handler once entered
\* returns.  Nothing makes a frame or a signal arrive, or a condition
\* variable wake up by itself.
EngineFairness ==
  /\ WF_engineVars(mainStep)
  /\ WF_engineVars(captureLoop) /\ WF_engineVars(ringStep(T1))
  /\ WF_engineVars(pipelineLoop) /\ WF_engineVars(ringStep(T2))
  /\ WF_engineVars(signal /\ handler # "idle")

EngineFairSpec == EngineSpec /\ EngineFairness
-----------------------------------------------------------------------------
\* Every variable of the engine stays in its type, and T1 is inside write()
\* and T2 inside read() only where their loops call them.
EngineTypeOK ==
  /\ RingTypeOK
  /\ main \in {"open", "connect", "spawn1", "spawn2", "join1", "join2",
               "close", "exited"}
  /\ t1 \in {"none", "setup", "loop", "epoll", "drain", "recv", "write", "exited"}
  /\ t2 \in {"none", "start", "loop", "read", "publish", "exited"}
  /\ i \in 0..BATCH_DRAIN /\ keep_draining \in BOOLEAN
  /\ arrived \in 0..MaxFrames /\ errors \in 0..MaxErrors
  /\ pc[T1] # "idle" => t1 = "write"
  /\ pc[T2] # "idle" => t2 = "read"

ids(frames) == [k \in 1..Len(frames) |-> frames[k].id]
slotIds(slots) == [k \in 1..Len(slots) |-> slots[k].frame.id]
doneIds == [k \in 1..Len(done) |-> done[k][1]]

\* What T1 has received and not stored: at most the frame it is writing, or
\* the one write() refused when the engine stopped.
heldByT1 ==
  IF \/ t1 = "write" /\ (pc[T1] # "idle" \/ ret[T1] = "false")
     \/ t1 = "exited" /\ ret[T1] = "false"
  THEN <<received[Len(received)].id>> ELSE <<>>

\* What T2 has read and not finished: at most one frame.
heldByT2 ==
  IF (t2 = "read" /\ pc[T2] = "idle" /\ ret[T2] = "true") \/ t2 = "publish"
  THEN <<buf[T2].frame.id>> ELSE <<>>

\* From recvfrom to publish() no frame is lost, repeated or overtaken: the
\* frames received are the ones T2 has finished, then the one it has, then
\* those in the buffer, then the one T1 has.  What a stop discards is
\* therefore at most the buffer and one frame in each thread.
ConservedInOrder ==
  ids(received) = doneIds \o heldByT2 \o slotIds(contents) \o heldByT1

\* Back-pressure, not loss: as long as nobody stops the engine no frame that
\* recvfrom returned is refused by the packet buffer or by its reader; T1
\* waits instead.  The "frame dropped" branch of captureLoop is never taken.
NothingDropped == dropped = {}

\* A frame that the kernel has queued is eventually finished by T2, whatever
\* batch it falls into, unless the engine stops or, before T1 has received it,
\* T1 ends on an error or main() gives up: what T1 has stored when it ends is
\* still finished.
FramesFinished ==
  \A n \in 1..MaxFrames :
    arrived >= n ~>
      \/ \E k \in 1..Len(done) : done[k][1] = n
      \/ stop_flag
      \/ /\ t1 = "exited" \/ main = "exited"
         /\ \A k \in 1..Len(received) : received[k].id # n

\* A stop signal makes the engine stop: both threads leave their loops and
\* main() returns.
StopCompletes == stop_flag ~> main = "exited"

\* It does if somebody repeats the signal until the engine is gone.
RepeatedStopCompletes == WF_engineVars(signal) => StopCompletes

\* A thread that was already blocked in read() or write() when the signal
\* came is released.
BlockedReleased ==
  \A t \in Threads :
    (handler = "stored" /\ pc[t] = "waiting") ~> pc[t] = "idle"
=============================================================================
