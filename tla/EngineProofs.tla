---------------------------- MODULE EngineProofs ----------------------------
(***************************************************************************)
(* Proofs about Engine, for every capacity of the ring, every batch size,  *)
(* every set of frames and every number of them, of faults and of signals. *)
(* The ring's own invariant comes from RingBufferProofs; what is added is  *)
(* what each of the two threads knows about its last call, and how the     *)
(* histories of the engine and of the ring go together.  From it follow    *)
(* the types, that nothing is dropped, and, following the ids of the       *)
(* frames through the histories of the capture thread, of the ring and of  *)
(* the pipeline, that every frame received is finished, or held by a       *)
(* thread or the ring, once and in the order received.                     *)
(***************************************************************************)
EXTENDS Engine, RingBufferProofs

\* What recvfrom returns, and how a frame ends.
Frames == {recvfrom(f) : f \in RxFrames}
Outcomes == {"discarded", "skipped", "published", "failed"}

\* Every variable of the engine that is not the ring's; the threads do not run
\* before main() has started them.
EngineTypes ==
  /\ main \in {"open", "connect", "spawn1", "spawn2", "join1", "join2",
               "close", "exited"}
  /\ t1 \in {"none", "setup", "loop", "epoll", "drain", "recv", "write", "exited"}
  /\ t2 \in {"none", "start", "loop", "read", "publish", "exited"}
  /\ i \in 0..BATCH_DRAIN /\ keep_draining \in BOOLEAN
  /\ arrived \in 0..MaxFrames /\ errors \in 0..MaxErrors
  /\ main \in {"open", "connect", "spawn1"} => t1 = "none"
  /\ main \in {"open", "connect", "spawn1", "spawn2"} => t2 = "none"
  /\ now = 0
  /\ rx \in Seq(RxFrames) /\ received \in Seq(Frames)
  /\ done \in Seq((1..MaxFrames) \X Outcomes)

\* T1 has received and not stored its last frame.
T1Holds ==
  \/ t1 = "write" /\ (pc[T1] # "idle" \/ ret[T1] = "false")
  \/ t1 = "exited" /\ ret[T1] = "false"

\* The slots a hold the first of the frames r, in order; the frames finished,
\* n, are the first of those in the slots d.
stored(r, a) == \A k \in 1..Len(a) : a[k].frame = r[k]
finished(n, d) == \A k \in 1..Len(n) : n[k][1] = d[k].frame.id

\* T1 and the ring: it is in write() only where captureLoop calls it, write()
\* refuses a frame only after a stop, and what was received has been stored,
\* in order, but for the frame it holds.
CaptureInv ==
  /\ pc[T1] # "idle" =>
       /\ t1 = "write" /\ ret[T1] = "none"
       /\ buf[T1].frame = received[Len(received)]
  /\ t1 = "write" => i < BATCH_DRAIN
  /\ t1 = "write" /\ pc[T1] = "idle" => ret[T1] # "none"
  /\ ret[T1] = "false" => stop_flag /\ t1 \in {"write", "exited"}
  /\ Len(received) = Len(accepted) + (IF T1Holds THEN 1 ELSE 0)
  /\ stored(received, accepted)

\* T2 has read and not finished its last frame.
T2Holds ==
  \/ t2 = "read" /\ pc[T2] = "idle" /\ ret[T2] = "true"
  \/ t2 = "publish"

\* T2 and the ring: it is in read() only where the pipeline calls it, and what
\* the ring delivered is finished, in order, but for the frame it holds.
PipelineInv ==
  /\ pc[T2] # "idle" => t2 = "read"
  /\ Len(delivered) = Len(done) + (IF T2Holds THEN 1 ELSE 0)
  /\ finished(done, delivered)
  /\ T2Holds => buf[T2] = delivered[Len(delivered)]

EngineInv ==
  RingInv /\ EngineTypes /\ dropped = {} /\ CaptureInv /\ PipelineInv
-----------------------------------------------------------------------------
\* There are two threads, one on each side.
LEMMA TwoThreads ==
  /\ T1 # T2 /\ Threads = {T1, T2} /\ T1 \in Writers /\ T2 \in Readers
  /\ T1 \notin Readers /\ T2 \notin Writers
  BY EngineAssumption, RingAssumption, Zenon DEF Threads

\* A frame that recvfrom returns fits the slot and the pipeline's buffer.
LEMMA FramesFit ==
  ASSUME NEW f \in RxFrames
  PROVE /\ recvfrom(f) \in Frames
        /\ recvfrom(f).size \in Nat /\ recvfrom(f).size <= FRAME_BUF_SIZE
        /\ recvfrom(f).size <= maxFrameSize
        /\ recvfrom(f).id \in 1..MaxFrames
        /\ [frame |-> recvfrom(f), ts |-> 0, size |-> TIMESTAMP_SIZE + recvfrom(f).size]
             \in Data
<1>1. f.wire \in Nat /\ f.id \in 1..MaxFrames
  BY EngineAssumption DEF RxFrames
<1>2. recvfrom(f).size \in Nat /\ recvfrom(f).size <= FRAME_BUF_SIZE
      /\ recvfrom(f).id = f.id
  BY <1>1, EngineAssumption DEF recvfrom
<1>3. TIMESTAMP_SIZE \in Nat /\ SLOT_SIZE \in Nat
  BY PacketAssumption, RingAssumption
<1>4. recvfrom(f).size <= maxFrameSize
  BY <1>2, <1>3, EngineAssumption DEF maxFrameSize
<1>5. [frame |-> recvfrom(f), ts |-> 0, size |-> TIMESTAMP_SIZE + recvfrom(f).size]
             \in Data
  BY EngineAssumption DEF EngineData
<1> QED
  BY <1>1, <1>2, <1>4, <1>5 DEF Frames

\* What is in a slot fits the pipeline's buffer.
LEMMA DataFit ==
  ASSUME NEW d \in Data
  PROVE /\ d.size >= TIMESTAMP_SIZE /\ d.size - TIMESTAMP_SIZE <= PIPELINE_BUF_SIZE
        /\ d.frame \in Frames /\ d.frame.id \in 1..MaxFrames
<1>1. PICK f \in RxFrames :
        d = [frame |-> recvfrom(f), ts |-> 0, size |-> TIMESTAMP_SIZE + recvfrom(f).size]
  BY EngineAssumption DEF EngineData
<1>2. /\ d.frame = recvfrom(f) /\ d.size = TIMESTAMP_SIZE + recvfrom(f).size
  BY <1>1
<1>3. TIMESTAMP_SIZE \in Nat
  BY PacketAssumption, RingAssumption
<1>4. /\ recvfrom(f).size \in Nat /\ recvfrom(f).size <= FRAME_BUF_SIZE
      /\ recvfrom(f) \in Frames /\ recvfrom(f).id \in 1..MaxFrames
  BY FramesFit, Zenon
<1>5. d.size >= TIMESTAMP_SIZE /\ d.size - TIMESTAMP_SIZE <= PIPELINE_BUF_SIZE
  BY <1>2, <1>3, <1>4, EngineAssumption
<1> QED
  BY <1>2, <1>4, <1>5
-----------------------------------------------------------------------------
\* Before main() starts anything the invariant holds.
LEMMA EngineInvInit == EngineInit => EngineInv
<1> SUFFICES ASSUME EngineInit PROVE EngineInv
  OBVIOUS
<1>1. RingInv
  BY RingInvInit DEF EngineInit, PacketInit
<1>2. EngineTypes
  <2>1. /\ rx \in Seq(RxFrames) /\ received \in Seq(Frames)
        /\ done \in Seq((1..MaxFrames) \X Outcomes)
    BY DEF EngineInit
  <2>2. i \in 0..BATCH_DRAIN /\ arrived \in 0..MaxFrames /\ errors \in 0..MaxErrors
    BY EngineAssumption DEF EngineInit
  <2>3. /\ main = "open" /\ t1 = "none" /\ t2 = "none"
        /\ keep_draining \in BOOLEAN /\ now = 0
    BY Zenon DEF EngineInit, PacketInit
  <2> QED
    BY <2>1, <2>2, <2>3 DEF EngineTypes
<1>3. CaptureInv
  BY TwoThreads DEF EngineInit, PacketInit, RingInit, CaptureInv, T1Holds, stored
<1>4. PipelineInv
  BY TwoThreads DEF EngineInit, PacketInit, RingInit, PipelineInv, T2Holds, finished
<1> QED
  BY <1>1, <1>2, <1>3, <1>4 DEF EngineInit, EngineInv

\* The ring's invariant does not depend on what is not the ring's.
LEMMA RingUnchanged == RingInv /\ UNCHANGED ringVars => RingInv'
  BY RingInvStep

\* A step that leaves the ring, T1's state and its history alone keeps
\* CaptureInv; the same for T2 and PipelineInv.
LEMMA CaptureUnchanged ==
  ASSUME CaptureInv, UNCHANGED <<pc, buf, ret, stop_flag, accepted, t1, i, received>>
  PROVE CaptureInv'
  BY DEF CaptureInv, T1Holds

\* PipelineInv is about T2, the ring and done only.
LEMMA PipelineUnchanged ==
  ASSUME PipelineInv, UNCHANGED <<pc, buf, ret, delivered, t2, done>>
  PROVE PipelineInv'
  BY DEF PipelineInv, T2Holds

\* The kernel's queue and main() before the threads run, or after.
LEMMA MainInv == ASSUME EngineInv, arrive \/ mainStep \/ UNCHANGED engineVars
                 PROVE EngineInv'
<1> USE EngineAssumption DEF packetVars, captureVars
<1>r. RingInv'
  <2>1. UNCHANGED ringVars
    BY DEF arrive, mainStep, engineVars
  <2> QED
    BY <2>1, RingUnchanged DEF EngineInv
<1>v. UNCHANGED <<pc, buf, ret, stop_flag, accepted, delivered>>
  BY DEF arrive, mainStep, engineVars, ringVars
<1>1. CASE arrive
  <2>1. rx' \in Seq(RxFrames)
    <3>1. PICK f \in WireFrames :
            rx' = Append(rx, [id |-> arrived + 1, wire |-> f.wire, kind |-> f.kind])
      BY <1>1 DEF arrive
    <3>2. arrived + 1 \in 1..MaxFrames
      BY <1>1 DEF arrive, EngineInv, EngineTypes
    <3>3. [id |-> arrived + 1, wire |-> f.wire, kind |-> f.kind] \in RxFrames
      BY <3>2 DEF RxFrames
    <3> QED
      BY <3>1, <3>3 DEF EngineInv, EngineTypes
  <2>2. EngineTypes'
    BY <1>1, <2>1 DEF arrive, EngineInv, EngineTypes
  <2>3. CaptureInv' /\ PipelineInv' /\ dropped' = {}
    BY <1>1, <1>v, CaptureUnchanged, PipelineUnchanged DEF arrive, EngineInv
  <2> QED
    BY <1>r, <2>2, <2>3 DEF EngineInv
<1>2. CASE mainStep
  <2>1. EngineTypes'
    BY <1>2 DEF mainStep, mainStart, mainJoin, EngineInv, EngineTypes
  <2>2. CaptureInv'
    BY <1>2, <1>v DEF mainStep, mainStart, mainJoin, EngineInv, EngineTypes,
                      CaptureInv, T1Holds
  <2>3. PipelineInv'
    BY <1>2, <1>v DEF mainStep, mainStart, mainJoin, EngineInv, EngineTypes,
                      PipelineInv, T2Holds
  <2> QED
    BY <1>2, <1>r, <2>1, <2>2, <2>3 DEF mainStep, EngineInv
<1>3. CASE UNCHANGED engineVars
  <2>1. EngineTypes'
    BY <1>3 DEF engineVars, EngineInv, EngineTypes
  <2>2. CaptureInv' /\ PipelineInv' /\ dropped' = {}
    BY <1>3, <1>v, CaptureUnchanged, PipelineUnchanged DEF engineVars, EngineInv
  <2> QED
    BY <1>r, <2>1, <2>2 DEF EngineInv
<1> QED
  BY <1>1, <1>2, <1>3
-----------------------------------------------------------------------------
\* write() is called with the frame that recvfrom returned: it fits, so that
\* T1 enters the ring with it.
LEMMA CaptureCallsWrite ==
  ASSUME EngineInv, t1 = "recv", NEW f \in RxFrames, recvfrom(f).size # 0,
         bufferWrite(T1, recvfrom(f))
  PROVE /\ RingInv'
        /\ pc[T1] = "idle" /\ pc'[T1] = "lock" /\ pc'[T2] = pc[T2]
        /\ ret'[T1] = "none" /\ ret'[T2] = ret[T2]
        /\ buf'[T1].frame = recvfrom(f) /\ buf'[T2] = buf[T2]
        /\ UNCHANGED <<stop_flag, accepted, delivered>>
<1> USE TwoThreads
<1>t. /\ pc \in [Threads -> PCs] /\ ret \in [Threads -> {"none", "true", "false"}]
      /\ buf \in [Threads -> Data \cup {NoData}]
  BY DEF EngineInv, RingInv, RingTypeOK, PCs
<1>1. recvfrom(f).size \in 1..maxFrameSize /\ ~(recvfrom(f).size > maxFrameSize)
  <2>1. recvfrom(f).size \in Nat /\ recvfrom(f).size <= maxFrameSize
    BY FramesFit, Zenon
  <2>2. maxFrameSize \in Nat
    BY PacketAssumption, RingAssumption DEF maxFrameSize
  <2> QED
    BY <2>1, <2>2
<1>2. callWrite(T1, slotOf(recvfrom(f)))
  BY <1>1 DEF bufferWrite
<1>3. slotOf(recvfrom(f)) =
        [frame |-> recvfrom(f), ts |-> 0, size |-> TIMESTAMP_SIZE + recvfrom(f).size]
  <2>1. nowMillis = 0
    BY PacketAssumption DEF nowMillis, EngineInv, EngineTypes
  <2> QED
    BY <2>1 DEF slotOf
<1>4. slotOf(recvfrom(f)) \in Data
  BY <1>3, FramesFit
<1>5. slotOf(recvfrom(f)).size \in 1..SLOT_SIZE
  BY <1>1, <1>3, PacketAssumption, RingAssumption DEF maxFrameSize
<1>6. RingInv'
  BY <1>2, <1>4, CallWriteInv DEF EngineInv
<1>7. /\ pc' = [pc EXCEPT ![T1] = "lock"] /\ ret' = [ret EXCEPT ![T1] = "none"]
      /\ buf' = [buf EXCEPT ![T1] = slotOf(recvfrom(f))] /\ pc[T1] = "idle"
      /\ UNCHANGED <<stop_flag, accepted, delivered>>
  BY <1>2, <1>5, RingAssumption DEF callWrite
<1> QED
  BY <1>t, <1>3, <1>6, <1>7

\* captureLoop outside of the ring.
LEMMA CaptureQuiet ==
  ASSUME EngineInv,
         \/ captureSetup \/ captureTest \/ captureEpoll \/ captureDrain
         \/ captureRecv /\ UNCHANGED <<packetVars, received>>,
         UNCHANGED <<main, t2, arrived, done>>
  PROVE EngineInv'
<1> USE EngineAssumption DEF packetVars
<1>1. UNCHANGED <<ringVars, now, received, dropped>>
  BY DEF captureSetup, captureTest, captureEpoll, captureDrain, captureRecv
<1>2. RingInv' /\ UNCHANGED <<pc, buf, ret, stop_flag, accepted, delivered>>
  BY <1>1, RingUnchanged DEF ringVars, EngineInv
<1>3. /\ t1 \in {"setup", "loop", "epoll", "drain", "recv"}
      /\ t1' \in {"loop", "epoll", "drain", "recv", "exited"}
  BY DEF captureSetup, captureTest, captureEpoll, captureDrain, captureRecv
<1>4. rx' \in Seq(RxFrames)
  <2>1. rx' = rx \/ (rx # <<>> /\ rx' = Tail(rx))
    BY DEF captureSetup, captureTest, captureEpoll, captureDrain, captureRecv
  <2>2. rx \in Seq(RxFrames)
    BY DEF EngineInv, EngineTypes
  <2> QED
    BY <2>1, <2>2
<1>5. i' \in 0..BATCH_DRAIN /\ errors' \in 0..MaxErrors
  <2>1. (i' = i \/ i' = 0) /\ (errors' = errors \/ fails)
    BY DEF captureSetup, captureTest, captureEpoll, captureDrain, captureRecv
  <2> QED
    BY <2>1 DEF fails, EngineInv, EngineTypes
<1>6. keep_draining' \in BOOLEAN
  BY Zenon DEF captureSetup, captureTest, captureEpoll, captureDrain, captureRecv,
         EngineInv, EngineTypes
<1>7. EngineTypes'
  BY <1>1, <1>3, <1>4, <1>5, <1>6 DEF EngineInv, EngineTypes
<1>8. CaptureInv'
  BY <1>1, <1>2, <1>3 DEF EngineInv, CaptureInv, T1Holds
<1>9. PipelineInv' /\ dropped' = {}
  BY <1>1, <1>2, PipelineUnchanged DEF EngineInv
<1> QED
  BY <1>2, <1>7, <1>8, <1>9 DEF EngineInv

\* write() has returned: the frame is stored, or the engine is stopping.
LEMMA CaptureWrittenInv ==
  ASSUME EngineInv, captureWritten, UNCHANGED <<main, t2, arrived, done>>
  PROVE EngineInv'
<1> USE EngineAssumption
<1>1. RingInv' /\ UNCHANGED <<pc, buf, ret, stop_flag, accepted, delivered, now>>
  BY RingUnchanged DEF captureWritten, packetVars, ringVars, EngineInv
<1>2. /\ t1 = "write" /\ pc[T1] = "idle" /\ i < BATCH_DRAIN
      /\ ret[T1] \in {"true", "false"} /\ (ret[T1] = "false" => stop_flag)
  BY TwoThreads DEF captureWritten, EngineInv, CaptureInv, RingInv, RingTypeOK
<1>3. CASE ret[T1] = "false"
  <2>1. t1' = "exited" /\ UNCHANGED <<i, keep_draining, dropped, rx, errors, received>>
    BY <1>2, <1>3 DEF captureWritten
  <2>2. EngineTypes'
    BY <1>1, <1>2, <2>1 DEF EngineInv, EngineTypes
  <2>3. CaptureInv'
    BY <1>1, <1>2, <1>3, <2>1 DEF EngineInv, CaptureInv, T1Holds
  <2>4. PipelineInv'
    BY <1>1, PipelineUnchanged DEF EngineInv
  <2> QED
    BY <1>1, <2>1, <2>2, <2>3, <2>4 DEF EngineInv
<1>4. CASE ret[T1] = "true"
  <2>1. /\ t1' = "recv" /\ i' = i + 1 /\ keep_draining' = (i = BATCH_DRAIN - 1)
        /\ UNCHANGED <<dropped, rx, errors, received>>
    BY <1>4 DEF captureWritten
  <2>2. i' \in 0..BATCH_DRAIN /\ keep_draining' \in BOOLEAN
    BY <1>2, <2>1 DEF EngineInv, EngineTypes
  <2>3. EngineTypes'
    BY <1>1, <1>2, <2>1, <2>2 DEF EngineInv, EngineTypes
  <2>4. CaptureInv'
    BY <1>1, <1>2, <1>4, <2>1 DEF EngineInv, CaptureInv, T1Holds
  <2>5. PipelineInv'
    BY <1>1, PipelineUnchanged DEF EngineInv
  <2> QED
    BY <1>1, <2>1, <2>3, <2>4, <2>5 DEF EngineInv
<1> QED
  BY <1>2, <1>3, <1>4

\* captureLoop keeps the invariant: besides the steps above there is the one
\* that receives a frame and calls write().
LEMMA CaptureLoopInv == ASSUME EngineInv, captureLoop PROVE EngineInv'
<1> USE EngineAssumption
<1>1. CASE captureRecv /\ ~UNCHANGED <<packetVars, received>>
  <2> DEFINE f == Head(rx)
  <2>1. /\ t1 = "recv" /\ i < BATCH_DRAIN /\ rx # <<>> /\ recvfrom(f).size # 0
        /\ rx' = Tail(rx) /\ t1' = "write" /\ received' = Append(received, recvfrom(f))
        /\ bufferWrite(T1, recvfrom(f))
        /\ UNCHANGED <<now, errors, i, keep_draining, dropped, main, t2, arrived, done>>
    BY <1>1 DEF captureRecv, captureLoop
  <2>2. f \in RxFrames /\ rx' \in Seq(RxFrames)
    <3>1. rx \in Seq(RxFrames)
      BY DEF EngineInv, EngineTypes
    <3> QED
      BY <2>1, <3>1
  <2> HIDE DEF f
  <2>3. /\ RingInv'
        /\ pc[T1] = "idle" /\ pc'[T1] = "lock" /\ pc'[T2] = pc[T2]
        /\ ret'[T1] = "none" /\ ret'[T2] = ret[T2]
        /\ buf'[T1].frame = recvfrom(f) /\ buf'[T2] = buf[T2]
        /\ UNCHANGED <<stop_flag, accepted, delivered>>
    BY <2>1, <2>2, CaptureCallsWrite
  <2>4. recvfrom(f) \in Frames
    BY <2>2, FramesFit, Zenon
  <2>5. received \in Seq(Frames) /\ accepted \in Seq(Data)
    BY DEF EngineInv, EngineTypes, RingInv, RingTypeOK
  <2>6. /\ received' \in Seq(Frames) /\ Len(received') = Len(received) + 1
        /\ received'[Len(received')] = recvfrom(f)
        /\ \A k \in 1..Len(received) : received'[k] = received[k]
    BY <2>1, <2>4, <2>5
  <2>7. EngineTypes'
    BY <2>1, <2>2, <2>6, Zenon DEF EngineInv, EngineTypes
  <2>8. ~T1Holds /\ T1Holds'
    BY <2>1, <2>3 DEF T1Holds
  <2>9. CaptureInv'
    <3>1. /\ Len(received) = Len(accepted) /\ stored(received, accepted)
          /\ Len(accepted) \in Nat
      BY <2>5, <2>8 DEF EngineInv, CaptureInv
    <3>2. stored(received', accepted')
      BY <2>3, <2>6, <3>1 DEF stored
    <3> QED
      BY <2>1, <2>3, <2>6, <2>8, <3>1, <3>2 DEF CaptureInv
  <2>10. PipelineInv'
    BY <2>1, <2>3 DEF EngineInv, PipelineInv, T2Holds
  <2> QED
    BY <2>1, <2>3, <2>7, <2>9, <2>10 DEF EngineInv
<1> QED
  BY <1>1, CaptureQuiet, CaptureWrittenInv DEF captureLoop
-----------------------------------------------------------------------------
\* The pipeline finishes the frame it holds: the frame goes to done.
LEMMA FinishesHeld ==
  ASSUME EngineInv, T2Holds, ~T2Holds', NEW o \in Outcomes,
         done' = Append(done, <<buf[T2].frame.id, o>>),
         pc'[T2] # "idle" => t2' = "read", UNCHANGED delivered
  PROVE PipelineInv' /\ done' \in Seq((1..MaxFrames) \X Outcomes)
<1>1. /\ delivered \in Seq(Data) /\ done \in Seq((1..MaxFrames) \X Outcomes)
      /\ Len(delivered) = Len(done) + 1
      /\ buf[T2] = delivered[Len(delivered)] /\ finished(done, delivered)
  BY DEF EngineInv, EngineTypes, PipelineInv, RingInv, RingTypeOK
<1>2. buf[T2] \in Data
  BY <1>1
<1>3. <<buf[T2].frame.id, o>> \in (1..MaxFrames) \X Outcomes
  BY <1>2, DataFit
<1> DEFINE e == <<buf[T2].frame.id, o>>
<1>4. e[1] = buf[T2].frame.id
  OBVIOUS
<1> HIDE DEF e
<1>5. /\ done' \in Seq((1..MaxFrames) \X Outcomes) /\ Len(done') = Len(done) + 1
      /\ done'[Len(done) + 1] = e
      /\ \A k \in 1..Len(done) : done'[k] = done[k]
  BY <1>1, <1>3 DEF e
<1>6. finished(done', delivered)
  BY <1>1, <1>4, <1>5 DEF finished
<1>7. Len(delivered') = Len(done')
  BY <1>1, <1>5
<1> QED
  BY <1>5, <1>6, <1>7 DEF PipelineInv

\* The pipeline loop keeps the invariant: what the ring delivers fits its
\* buffer, and a frame that it holds is finished before it reads another.
LEMMA PipelineLoopInv == ASSUME EngineInv, pipelineLoop PROVE EngineInv'
<1> USE EngineAssumption, TwoThreads DEF packetVars
<1>t. /\ pc \in [Threads -> PCs] /\ ret \in [Threads -> {"none", "true", "false"}]
      /\ delivered \in Seq(Data) /\ done \in Seq((1..MaxFrames) \X Outcomes)
  BY DEF EngineInv, EngineTypes, RingInv, RingTypeOK, PCs
<1>c. UNCHANGED <<t1, i, keep_draining, rx, errors, received, main, arrived>>
  BY DEF pipelineLoop, captureVars
<1>q. ASSUME UNCHANGED <<ringVars, now>>
      PROVE /\ RingInv' /\ CaptureInv'
            /\ UNCHANGED <<pc, buf, ret, stop_flag, accepted, delivered>>
  BY <1>c, <1>q, RingUnchanged, CaptureUnchanged DEF EngineInv, ringVars
<1>1. CASE pipelineStart
  <2>1. t2 = "start" /\ t2' = "loop" /\ UNCHANGED <<ringVars, now, dropped, done>>
    BY <1>1, Zenon DEF pipelineStart
  <2>2. EngineTypes' /\ PipelineInv'
    BY <1>c, <1>q, <2>1 DEF EngineInv, EngineTypes, PipelineInv, T2Holds
  <2> QED
    BY <1>q, <2>1, <2>2 DEF EngineInv
<1>2. CASE pipelineTest
  <2>1. CASE stop_flag
    <3>1. t2 = "loop" /\ t2' = "exited" /\ UNCHANGED <<ringVars, now, dropped, done>>
      BY <1>2, <2>1, Zenon DEF pipelineTest
    <3>2. EngineTypes' /\ PipelineInv'
      BY <1>c, <1>q, <3>1 DEF EngineInv, EngineTypes, PipelineInv, T2Holds
    <3> QED
      BY <1>q, <3>1, <3>2 DEF EngineInv
  <2>2. CASE ~stop_flag
    <3>1. t2 = "loop" /\ t2' = "read" /\ callRead(T2) /\ UNCHANGED <<now, dropped, done>>
      BY <1>2, <2>2 DEF pipelineTest
    <3>2. /\ pc'[T2] = "lock" /\ pc'[T1] = pc[T1] /\ ret'[T1] = ret[T1]
          /\ UNCHANGED <<buf, stop_flag, accepted, delivered>>
      BY <1>t, <3>1 DEF callRead
    <3>3. RingInv'
      BY <3>1, CallReadInv DEF EngineInv
    <3>4. EngineTypes'
      BY <1>c, <3>1 DEF EngineInv, EngineTypes
    <3>5. CaptureInv'
      BY <1>c, <3>2, Zenon DEF EngineInv, CaptureInv, T1Holds
    <3>6. PipelineInv'
      BY <3>1, <3>2, Zenon DEF EngineInv, PipelineInv, T2Holds
    <3> QED
      BY <3>1, <3>3, <3>4, <3>5, <3>6 DEF EngineInv
  <2> QED
    BY <2>1, <2>2
<1>3. CASE pipelineStages
  <2>1. t2 = "read" /\ pc[T2] = "idle" /\ UNCHANGED <<ringVars, now>>
    BY <1>3, Zenon DEF pipelineStages
  <2>2. CASE ret[T2] # "true"
    <3>1. t2' \in {"loop", "exited"} /\ UNCHANGED <<dropped, done>>
      BY <1>3, <2>2, Zenon DEF pipelineStages, bufferReadOK, afterFilter
    <3>2. EngineTypes' /\ PipelineInv'
      BY <1>c, <1>q, <2>1, <2>2, <3>1, Zenon
        DEF EngineInv, EngineTypes, PipelineInv, T2Holds
    <3> QED
      BY <1>q, <2>1, <3>1, <3>2, Zenon DEF EngineInv
  <2>3. CASE ret[T2] = "true"
    <3>1. T2Holds
      BY <2>1, <2>3 DEF T2Holds
    <3>2. buf[T2] \in Data
      BY <1>t, <3>1 DEF EngineInv, PipelineInv
    <3>3. bufferReadOK(T2, PIPELINE_BUF_SIZE)
      BY <2>3, <3>2, DataFit, Zenon DEF bufferReadOK
    <3>4. /\ t2' = afterStages(buf[T2].frame) /\ UNCHANGED dropped
          /\ done' = IF filterKeeps(buf[T2].frame) /\ dissectorKeeps(buf[T2].frame)
                     THEN done ELSE Append(done, <<buf[T2].frame.id, "discarded">>)
      BY <1>3, <2>3, <3>3 DEF pipelineStages
    <3>5. CASE filterKeeps(buf[T2].frame) /\ dissectorKeeps(buf[T2].frame)
      <4>1. t2' = "publish" /\ UNCHANGED done
        BY <3>4, <3>5 DEF afterStages
      <4>2. EngineTypes' /\ PipelineInv'
        BY <1>c, <1>q, <2>1, <3>1, <4>1 DEF EngineInv, EngineTypes, PipelineInv, T2Holds
      <4> QED
        BY <1>q, <2>1, <3>4, <4>2 DEF EngineInv
    <3>6. CASE ~(filterKeeps(buf[T2].frame) /\ dissectorKeeps(buf[T2].frame))
      <4>1. /\ t2' \in {"loop", "exited"}
            /\ done' = Append(done, <<buf[T2].frame.id, "discarded">>)
        BY <3>4, <3>6 DEF afterStages, afterFilter
      <4>2. ~T2Holds' /\ (pc'[T2] # "idle" => t2' = "read")
        BY <1>q, <2>1, <4>1 DEF T2Holds
      <4>3. PipelineInv' /\ done' \in Seq((1..MaxFrames) \X Outcomes)
        BY <1>q, <2>1, <3>1, <4>1, <4>2, FinishesHeld DEF Outcomes
      <4>4. EngineTypes'
        BY <1>c, <2>1, <4>1, <4>3 DEF EngineInv, EngineTypes
      <4> QED
        BY <1>q, <2>1, <3>4, <4>3, <4>4, Zenon DEF EngineInv
    <3> QED
      BY <3>5, <3>6
  <2> QED
    BY <2>2, <2>3, Zenon
<1>4. CASE pipelinePublish
  <2>1. t2 = "publish" /\ t2' = "loop" /\ UNCHANGED <<ringVars, now, dropped>>
    BY <1>4 DEF pipelinePublish
  <2>2. PICK o \in Outcomes : done' = Append(done, <<buf[T2].frame.id, o>>)
    BY <1>4 DEF pipelinePublish, Outcomes
  <2>3. T2Holds /\ ~T2Holds' /\ pc'[T2] = "idle"
    BY <1>q, <2>1 DEF T2Holds, EngineInv, PipelineInv
  <2>4. PipelineInv' /\ done' \in Seq((1..MaxFrames) \X Outcomes)
    BY <1>q, <2>1, <2>2, <2>3, FinishesHeld
  <2>5. EngineTypes'
    BY <1>c, <2>1, <2>4 DEF EngineInv, EngineTypes
  <2> QED
    BY <1>q, <2>1, <2>4, <2>5 DEF EngineInv
<1> QED
  BY <1>1, <1>2, <1>3, <1>4, Zenon DEF pipelineLoop
-----------------------------------------------------------------------------

\* The steps of both threads inside the ring, the wakeups and the signal
\* handler keep the invariant.
LEMMA RingStepInv ==
  ASSUME EngineInv, (\E t \in Threads : ringStep(t) \/ wakeUp(t)) \/ signal
  PROVE EngineInv'
<1> USE TwoThreads
<1>t. /\ accepted \in Seq(Data) /\ delivered \in Seq(Data)
      /\ received \in Seq(Frames) /\ done \in Seq((1..MaxFrames) \X Outcomes)
  BY DEF EngineInv, EngineTypes, RingInv, RingTypeOK
<1>n. Len(accepted) \in Nat /\ Len(delivered) \in Nat /\ Len(done) \in Nat
  BY <1>t
<1>c. /\ UNCHANGED <<t1, i, keep_draining, rx, received, main, t2, arrived, dropped,
                     done, now>>
      /\ errors' = errors \/ fails
  BY DEF ringStep, wakeUp, signal, captureVars
<1>e. EngineTypes'
  <2>1. errors' \in 0..MaxErrors
    BY <1>c, EngineAssumption DEF fails, EngineInv, EngineTypes
  <2> QED
    BY <1>c, <2>1 DEF EngineInv, EngineTypes
<1>1. CASE ringStep(T1)
  <2>1. RingInv'
    BY <1>1, RingInvStep, Zenon DEF ringStep, RingNext, EngineInv
  <2>2. PipelineInv'
    BY <1>1, <1>c, WriterStep, Zenon DEF ringStep, EngineInv, PipelineInv, T2Holds
  <2>3. /\ pc[T1] # "idle" /\ UNCHANGED <<buf, stop_flag>>
        /\ t1 = "write" /\ ret[T1] = "none" /\ buf[T1].frame = received[Len(received)]
        /\ T1Holds /\ Len(received) = Len(accepted) + 1 /\ i < BATCH_DRAIN
        /\ stored(received, accepted)
    BY <1>1, WriterStep, Zenon DEF ringStep, EngineInv, CaptureInv, T1Holds
  <2>4. ASSUME pc'[T1] # "idle" /\ ret'[T1] = ret[T1] /\ UNCHANGED accepted
        PROVE CaptureInv'
    BY <1>c, <2>3, <2>4, Zenon DEF CaptureInv, T1Holds
  <2>5. ASSUME /\ pc'[T1] = "idle" /\ ret'[T1] = "false" /\ stop_flag
               /\ UNCHANGED accepted
        PROVE CaptureInv'
    BY <1>c, <2>3, <2>5, Zenon DEF CaptureInv, T1Holds
  <2>c. UNCHANGED <<t1, i, received>>
    BY <1>c, Zenon
  <2>6. ASSUME /\ pc'[T1] = "idle" /\ ret'[T1] = "true"
               /\ accepted' = Append(accepted, buf[T1]) /\ buf[T1] \in Data
        PROVE CaptureInv'
    <3>1. /\ Len(accepted') = Len(accepted) + 1 /\ accepted'[Len(accepted) + 1] = buf[T1]
          /\ \A k \in 1..Len(accepted) : accepted'[k] = accepted[k]
          /\ Len(accepted) \in Nat
      BY <1>t, <2>6, SMTT(30)
    <3>2. stored(received, accepted')
      BY <2>3, <3>1 DEF stored
    <3>3. ~T1Holds' /\ Len(received') = Len(accepted')
      BY <2>c, <2>3, <2>6, <3>1, Zenon DEF T1Holds
    <3> QED
      BY <2>c, <2>3, <2>6, <3>1, <3>2, <3>3, SMTT(30) DEF CaptureInv
  <2>7. CaptureInv'
    BY <1>1, <2>4, <2>5, <2>6, WriterStep, Zenon DEF ringStep, EngineInv
  <2> QED
    BY <1>c, <1>e, <2>1, <2>2, <2>7 DEF EngineInv
<1>2. CASE ringStep(T2)
  <2>1. RingInv'
    BY <1>2, RingInvStep, Zenon DEF ringStep, RingNext, EngineInv
  <2>2. CaptureInv'
    BY <1>2, <1>c, ReaderStep, Zenon DEF ringStep, EngineInv, CaptureInv, T1Holds
  <2>3. /\ pc[T2] # "idle" /\ t2 = "read" /\ ~T2Holds
        /\ Len(delivered) = Len(done) /\ finished(done, delivered)
    <3>1. pc[T2] # "idle"
      BY <1>2, ReaderStep, Zenon DEF ringStep, EngineInv
    <3>2. t2 = "read" /\ ~T2Holds
      BY <3>1, Zenon DEF EngineInv, PipelineInv, T2Holds
    <3> QED
      BY <1>n, <3>1, <3>2, SMTT(30) DEF EngineInv, PipelineInv
  <2>c. UNCHANGED <<t2, done>>
    BY <1>c, Zenon
  <2>4. ASSUME pc'[T2] # "idle" /\ UNCHANGED delivered
        PROVE PipelineInv'
    <3>1. ~T2Holds'
      BY <2>c, <2>3, <2>4 DEF T2Holds
    <3> QED
      BY <2>c, <1>n, <2>3, <2>4, <3>1, SMTT(30) DEF PipelineInv
  <2>5. ASSUME pc'[T2] = "idle" /\ ret'[T2] = "false" /\ UNCHANGED delivered
        PROVE PipelineInv'
    <3>1. ~T2Holds'
      BY <2>c, <2>3, <2>5 DEF T2Holds
    <3> QED
      BY <2>c, <1>n, <2>3, <2>5, <3>1, SMTT(30) DEF PipelineInv
  <2>6. ASSUME /\ pc'[T2] = "idle" /\ ret'[T2] = "true" /\ buf'[T2] \in Data
               /\ delivered' = Append(delivered, buf'[T2])
        PROVE PipelineInv'
    <3>1. /\ Len(delivered') = Len(delivered) + 1
          /\ delivered'[Len(delivered')] = buf'[T2]
          /\ \A k \in 1..Len(delivered) : delivered'[k] = delivered[k]
      BY <1>t, <2>6
    <3>2. T2Holds'
      BY <2>c, <2>3, <2>6 DEF T2Holds
    <3>3. finished(done, delivered')
      BY <1>n, <2>3, <3>1, Zenon DEF finished
    <3> QED
      BY <2>c, <2>3, <2>6, <3>1, <3>2, <3>3 DEF PipelineInv
  <2>7. PipelineInv'
    BY <1>2, <2>4, <2>5, <2>6, ReaderStep, Zenon DEF ringStep, EngineInv
  <2> QED
    BY <1>c, <1>e, <2>1, <2>2, <2>7 DEF EngineInv
<1>3. CASE (\E t \in Threads : wakeUp(t)) \/ signal
  <2>1. signalHandler \/ \E t \in Threads : spuriousWakeup(t)
    BY <1>3 DEF wakeUp, signal
  <2>2. RingInv'
    BY <2>1, RingInvStep, Zenon DEF RingNext, EngineInv
  <2>3. CaptureInv'
    BY <1>c, <2>1, WakeStep, Zenon DEF EngineInv, CaptureInv, T1Holds
  <2>4. PipelineInv'
    BY <1>c, <2>1, WakeStep DEF EngineInv, PipelineInv, T2Holds
  <2> QED
    BY <1>c, <1>e, <2>2, <2>3, <2>4 DEF EngineInv
<1> QED
  BY <1>1, <1>2, <1>3

\* The invariant holds in every reachable state of the engine.
LEMMA EngineInvariant == EngineSpec => []EngineInv
<1>1. EngineInv /\ [EngineNext]_engineVars => EngineInv'
  BY MainInv, CaptureLoopInv, PipelineLoopInv, RingStepInv DEF EngineNext, terminated
<1> QED
  BY <1>1, EngineInvInit, PTL DEF EngineSpec

\* Every variable of the engine stays in its type, and the threads are inside
\* the ring only where their loops call it.
THEOREM EngineTypeCorrect == EngineSpec => []EngineTypeOK
<1>1. EngineInv => EngineTypeOK
  BY DEF EngineInv, EngineTypes, CaptureInv, PipelineInv, RingInv, EngineTypeOK
<1> QED
  BY <1>1, EngineInvariant, PTL

\* Back-pressure, not loss: whatever the capacity, the batch size and the
\* load, no frame is refused by the packet buffer before a stop, and none by
\* its reader, if the three buffers have sizes as in the code.
THEOREM EngineNothingDropped == EngineSpec => []NothingDropped
<1>1. EngineInv => NothingDropped
  BY DEF EngineInv, NothingDropped
<1> QED
  BY <1>1, EngineInvariant, PTL
-----------------------------------------------------------------------------
\* A sequence one longer than a prefix of it is the prefix and its own last.
LEMMA LastAppended ==
  ASSUME NEW S, NEW a \in Seq(S), NEW r \in Seq(S), Len(r) = Len(a) + 1,
         \A k \in 1..Len(a) : r[k] = a[k]
  PROVE r = a \o <<r[Len(r)]>>
<1>1. Len(a) \in Nat /\ r[Len(r)] \in S
  OBVIOUS
<1>2. /\ Append(a, r[Len(r)]) \in Seq(S) /\ Len(Append(a, r[Len(r)])) = Len(r)
      /\ \A k \in 1..Len(r) : Append(a, r[Len(r)])[k] = r[k]
  BY <1>1, AppendFacts
<1>3. r = Append(a, r[Len(r)])
  BY <1>2, SameSequence
<1> QED
  BY <1>1, <1>3

\* The ids of what is in some slots, one by one.
LEMMA SlotIds ==
  ASSUME NEW s \in Seq(Data)
  PROVE /\ slotIds(s) \in Seq(1..MaxFrames) /\ Len(slotIds(s)) = Len(s)
        /\ \A k \in 1..Len(s) : slotIds(s)[k] = s[k].frame.id
<1>1. \A k \in 1..Len(s) : s[k].frame.id \in 1..MaxFrames
  BY DataFit
<1>2. Len(s) \in Nat
  OBVIOUS
<1> QED
  BY <1>1, <1>2 DEF slotIds

\* What T1 has received, by the ring's history: what was accepted, and what it
\* holds.
LEMMA ReceivedIds == EngineInv => ids(received) = slotIds(accepted) \o heldByT1
<1> SUFFICES ASSUME EngineInv PROVE ids(received) = slotIds(accepted) \o heldByT1
  OBVIOUS
<1>1. /\ accepted \in Seq(Data) /\ received \in Seq(Frames)
      /\ Len(received) = Len(accepted) + (IF T1Holds THEN 1 ELSE 0)
      /\ \A k \in 1..Len(accepted) : accepted[k].frame = received[k]
  BY DEF EngineInv, EngineTypes, RingInv, RingTypeOK, CaptureInv, stored
<1>2. heldByT1 = IF T1Holds THEN <<received[Len(received)].id>> ELSE <<>>
  BY DEF heldByT1, T1Holds
<1> DEFINE a == slotIds(accepted)
           r == ids(received)
           h == heldByT1
<1>3. \A f \in Frames : f.id \in 1..MaxFrames
  BY FramesFit, Zenon DEF Frames
<1>4. /\ a \in Seq(1..MaxFrames) /\ Len(a) = Len(accepted)
      /\ \A k \in 1..Len(accepted) : a[k] = accepted[k].frame.id
  BY <1>1, SlotIds
<1>5. /\ r \in Seq(1..MaxFrames) /\ Len(r) = Len(received)
      /\ \A k \in 1..Len(received) : r[k] = received[k].id
  BY <1>1, <1>3 DEF ids
<1> HIDE DEF a, r
<1>6. CASE T1Holds
  <2>1. h = <<received[Len(received)].id>>
    BY <1>2, <1>6
  <2>2. Len(accepted) \in Nat /\ Len(received) = Len(accepted) + 1
    BY <1>1, <1>6
  <2>3. r[Len(r)] = received[Len(received)].id
    <3>1. Len(received) \in 1..Len(received)
      BY <2>2
    <3> QED
      BY <1>5, <3>1
  <2>4. ASSUME NEW k \in 1..Len(a) PROVE r[k] = a[k]
    <3>1. k \in 1..Len(accepted) /\ k \in 1..Len(received)
      BY <1>4, <2>2
    <3> QED
      BY <1>1, <1>4, <1>5, <3>1
  <2>5. r = a \o <<r[Len(r)]>>
    BY <1>4, <1>5, <2>2, <2>4, LastAppended
  <2> QED
    BY <2>1, <2>3, <2>5 DEF a, r
<1>7. CASE ~T1Holds
  <2>1. h = <<>> /\ Len(received) = Len(accepted)
    BY <1>1, <1>2, <1>7
  <2>2. r = a
    BY <1>1, <1>4, <1>5, <2>1
  <2>3. a \o <<>> = a
    BY <1>4
  <2> QED
    BY <2>1, <2>2, <2>3 DEF a, r
<1> QED
  BY <1>6, <1>7

\* What the ring has delivered, by the pipeline's history: what is done, and
\* what T2 holds.
LEMMA DeliveredIds == EngineInv => slotIds(delivered) = doneIds \o heldByT2
<1> SUFFICES ASSUME EngineInv PROVE slotIds(delivered) = doneIds \o heldByT2
  BY Zenon
<1>1. /\ delivered \in Seq(Data) /\ done \in Seq((1..MaxFrames) \X Outcomes)
      /\ Len(delivered) = Len(done) + (IF T2Holds THEN 1 ELSE 0)
      /\ \A k \in 1..Len(done) : done[k][1] = delivered[k].frame.id
      /\ T2Holds => buf[T2] = delivered[Len(delivered)]
  BY DEF EngineInv, EngineTypes, RingInv, RingTypeOK, PipelineInv, finished
<1>2. heldByT2 = IF T2Holds THEN <<buf[T2].frame.id>> ELSE <<>>
  BY Zenon DEF heldByT2, T2Holds
<1> DEFINE d == slotIds(delivered)
           n == doneIds
<1>4. /\ d \in Seq(1..MaxFrames) /\ Len(d) = Len(delivered)
      /\ \A k \in 1..Len(delivered) : d[k] = delivered[k].frame.id
  BY <1>1, SlotIds, Zenon
<1>5. /\ n \in Seq(1..MaxFrames) /\ Len(n) = Len(done)
      /\ \A k \in 1..Len(done) : n[k] = delivered[k].frame.id
  <2>1. \A k \in 1..Len(done) : delivered[k].frame.id \in 1..MaxFrames
    BY <1>1, <1>4
  <2>2. Len(done) \in Nat
    BY <1>1
  <2>3. n = [k \in 1..Len(done) |-> delivered[k].frame.id]
    BY <1>1, Zenon DEF doneIds
  <2> HIDE DEF n
  <2> QED
    BY <2>1, <2>2, <2>3, SMTT(30)
<1> HIDE DEF d, n
<1>6. \A k \in 1..Len(n) : d[k] = n[k]
  BY <1>1, <1>4, <1>5
<1>7. CASE T2Holds
  <2>1. Len(d) = Len(n) + 1 /\ d[Len(d)] = buf[T2].frame.id
    BY <1>1, <1>4, <1>5, <1>7
  <2>2. d = n \o <<d[Len(d)]>>
    BY <1>4, <1>5, <1>6, <2>1, LastAppended
  <2> QED
    BY <1>2, <1>7, <2>1, <2>2 DEF d, n
<1>8. CASE ~T2Holds
  <2>1. Len(d) = Len(n)
    BY <1>1, <1>4, <1>5, <1>8
  <2>2. d = n
    BY <1>4, <1>5, <1>6, <2>1, SameSequence
  <2>3. n \o <<>> = n
    BY <1>5
  <2> QED
    BY <1>2, <1>8, <2>2, <2>3, Zenon DEF d, n
<1> QED
  BY <1>7, <1>8

\* From recvfrom to publish() no frame is lost, repeated or overtaken, for
\* every interleaving of the two threads, the faults and the signals: the two
\* histories are joined by the ring's own, which is first in, first out.
THEOREM EngineConservedInOrder == EngineSpec => []ConservedInOrder
<1>1. EngineInv => ConservedInOrder
  <2> SUFFICES ASSUME EngineInv PROVE ConservedInOrder
    BY Zenon
  <2> DEFINE N == 1..MaxFrames
             c == slotIds(contents)
             d == slotIds(delivered)
  <2>1. /\ contents \in Seq(Data) /\ delivered \in Seq(Data)
        /\ accepted = delivered \o contents
    BY ContentsIsSeq, RingInvFifo DEF EngineInv, RingInv, RingTypeOK, ContentsInv, Fifo
  <2>2. \A x \in Data : x.frame.id \in N
    BY DataFit
  <2>3. /\ c \in Seq(N) /\ Len(c) = Len(contents)
        /\ \A k \in 1..Len(contents) : c[k] = contents[k].frame.id
    BY <2>1, <2>2 DEF slotIds
  <2>4. /\ d \in Seq(N) /\ Len(d) = Len(delivered)
        /\ \A k \in 1..Len(delivered) : d[k] = delivered[k].frame.id
    BY <2>1, <2>2 DEF slotIds
  <2>5. slotIds(accepted) = d \o c
    <3> DEFINE a == slotIds(accepted)
    <3>1. accepted \in Seq(Data)
      BY DEF EngineInv, RingInv, RingTypeOK
    <3>2. /\ a \in Seq(N) /\ Len(a) = Len(accepted)
          /\ \A k \in 1..Len(accepted) : a[k] = accepted[k].frame.id
      BY <2>2, <3>1 DEF slotIds
    <3> HIDE DEF a, c, d, N
    <3>3. /\ Len(accepted) = Len(delivered) + Len(contents)
          /\ Len(delivered) \in Nat /\ Len(contents) \in Nat
          /\ Len(accepted) = Len(a) /\ 1..Len(a) = 1..(Len(delivered) + Len(contents))
      BY <2>1, <3>2, JoinFacts
    <3>4. d \o c \in Seq(N) /\ Len(d \o c) = Len(a)
      <4>1. d \o c \in Seq(N) /\ Len(d \o c) = Len(d) + Len(c)
        BY <2>3, <2>4, JoinFacts, Zenon
      <4> QED
        BY <2>3, <2>4, <3>3, <4>1
    <3>5. ASSUME NEW k \in 1..Len(a) PROVE a[k] = (d \o c)[k]
      <4>1. CASE k <= Len(delivered)
        <5>1. accepted[k] = delivered[k]
          BY <2>1, <3>2, <3>3, <3>5, <4>1, JoinFacts
        <5>2. (d \o c)[k] = d[k]
          BY <2>3, <2>4, <3>2, <3>3, <4>1, JoinFacts
        <5> QED
          BY <2>4, <3>2, <3>3, <4>1, <5>1, <5>2
      <4>2. CASE k > Len(delivered)
        <5>1. accepted[k] = contents[k - Len(delivered)]
          BY <2>1, <3>2, <3>3, <4>2, JoinFacts
        <5>2. (d \o c)[k] = c[k - Len(delivered)]
          BY <2>3, <2>4, <3>2, <3>3, <4>2, JoinFacts
        <5>3. k - Len(delivered) \in 1..Len(contents)
          BY <3>2, <3>3, <4>2
        <5> QED
          BY <2>3, <3>2, <3>3, <5>1, <5>2, <5>3, Zenon
      <4>3. k <= Len(delivered) \/ k > Len(delivered)
        BY <3>3
      <4> QED
        BY <4>1, <4>2, <4>3, Zenon
    <3>6. a = d \o c
      BY <3>2, <3>4, <3>5, SameSequence, Zenon
    <3> QED
      BY <3>6 DEF a, c, d
  <2> HIDE DEF c, d
  <2>6. ids(received) = ((doneIds \o heldByT2) \o c) \o heldByT1
    BY <2>5, ReceivedIds, DeliveredIds, Zenon DEF d
  <2> QED
    BY <2>6 DEF c, ConservedInOrder
<1> QED
  BY <1>1, EngineInvariant, PTL
-----------------------------------------------------------------------------
\* The frames are numbered as they arrive: what the engine has received, and
\* behind it what the kernel has queued, is in that order.
ArrivalInv ==
  /\ \A k \in 1..Len(received) : received[k].id <= arrived
  /\ \A k \in 1..Len(rx) : rx[k].id <= arrived
  /\ \A j, k \in 1..Len(received) : j < k => received[j].id < received[k].id
  /\ \A j \in 1..Len(received), k \in 1..Len(rx) : received[j].id < rx[k].id
  /\ \A j, k \in 1..Len(rx) : j < k => rx[j].id < rx[k].id

\* Only arrive and recvfrom touch the two queues, and both keep the order.
LEMMA ArrivalStep ==
  ASSUME EngineInv, ArrivalInv, [EngineNext]_engineVars
  PROVE  ArrivalInv'
<1>t. /\ rx \in Seq(RxFrames) /\ received \in Seq(Frames)
      /\ arrived \in 0..MaxFrames /\ MaxFrames \in Nat
  BY EngineAssumption, Zenon DEF EngineInv, EngineTypes
<1>r. \A f \in RxFrames : f.id \in Nat /\ recvfrom(f).id = f.id /\ recvfrom(f) \in Frames
  BY EngineAssumption DEF RxFrames, recvfrom, Frames
<1>f. \A f \in Frames : f.id \in Nat
  BY <1>r, Zenon DEF Frames
<1>n. /\ Len(rx) \in Nat /\ Len(received) \in Nat
      /\ \A k \in 1..Len(rx) : rx[k].id \in Nat
      /\ \A k \in 1..Len(received) : received[k].id \in Nat
  BY <1>t, <1>r, <1>f, SMTT(30)
<1>1. CASE UNCHANGED <<rx, received, arrived>>
  BY <1>1, Zenon DEF ArrivalInv
<1>2. CASE arrive
  <2>1. PICK f \in WireFrames :
          rx' = Append(rx, [id |-> arrived + 1, wire |-> f.wire, kind |-> f.kind])
    BY <1>2 DEF arrive
  <2> DEFINE g == [id |-> arrived + 1, wire |-> f.wire, kind |-> f.kind]
  <2>2. g.id = arrived + 1
    OBVIOUS
  <2> HIDE DEF g
  <2>3. /\ Len(rx') = Len(rx) + 1 /\ rx'[Len(rx) + 1] = g
        /\ \A k \in 1..Len(rx) : rx'[k] = rx[k]
    BY <1>t, <2>1 DEF g
  <2>4. received' = received /\ arrived' = arrived + 1
    BY <1>2 DEF arrive
  <2>5. \A k \in 1..Len(rx') : k \in 1..Len(rx) \/ k = Len(rx) + 1
    BY <1>n, <2>3
  <2>6. \A k \in 1..Len(rx') : rx'[k].id <= arrived'
    BY <1>t, <1>n, <2>2, <2>3, <2>4, <2>5, SMTT(30) DEF ArrivalInv
  <2>7. ASSUME NEW j \in 1..Len(rx'), NEW k \in 1..Len(rx'), j < k
        PROVE rx'[j].id < rx'[k].id
    <3>1. j \in 1..Len(rx) /\ rx'[j] = rx[j]
      BY <1>n, <2>3, <2>5, <2>7
    <3>2. CASE k \in 1..Len(rx)
      BY <2>3, <2>7, <3>1, <3>2, Zenon DEF ArrivalInv
    <3>3. CASE k = Len(rx) + 1
      BY <1>t, <1>n, <2>2, <2>3, <3>1, <3>3, SMTT(30) DEF ArrivalInv
    <3> QED
      BY <2>5, <3>2, <3>3
  <2>8. \A j \in 1..Len(received'), k \in 1..Len(rx') : received'[j].id < rx'[k].id
    BY <1>t, <1>n, <2>2, <2>3, <2>4, <2>5, SMTT(30) DEF ArrivalInv
  <2>9. \A k \in 1..Len(received') : received'[k].id <= arrived'
    BY <1>t, <1>n, <2>4, SMTT(30) DEF ArrivalInv
  <2> QED
    BY <2>4, <2>6, <2>7, <2>8, <2>9, Zenon DEF ArrivalInv
<1>3. CASE rx # <<>> /\ rx' = Tail(rx) /\ UNCHANGED <<received, arrived>>
  <2>1. Len(rx') = Len(rx) - 1 /\ \A k \in 1..Len(rx') : rx'[k] = rx[k + 1]
    BY <1>3, <1>t
  <2>2. \A k \in 1..Len(rx') : k + 1 \in 1..Len(rx)
    BY <1>n, <2>1, SMTT(30)
  <2> QED
    BY <1>3, <1>n, <2>1, <2>2 DEF ArrivalInv
<1>4. CASE /\ rx # <<>> /\ rx' = Tail(rx) /\ UNCHANGED arrived
           /\ received' = Append(received, recvfrom(Head(rx)))
  <2> DEFINE g == recvfrom(Head(rx))
  <2>1. /\ Len(rx') = Len(rx) - 1 /\ \A k \in 1..Len(rx') : rx'[k] = rx[k + 1]
        /\ Head(rx) = rx[1] /\ Head(rx) \in RxFrames /\ 1 \in 1..Len(rx)
    BY <1>4, <1>t
  <2>2. g.id = rx[1].id /\ g \in Frames
    BY <1>r, <2>1
  <2> HIDE DEF g
  <2>3. /\ Len(received') = Len(received) + 1 /\ received'[Len(received) + 1] = g
        /\ \A k \in 1..Len(received) : received'[k] = received[k]
    BY <1>4, <1>t, <2>2 DEF g
  <2>4. \A k \in 1..Len(rx') : k + 1 \in 1..Len(rx)
    BY <1>n, <2>1
  <2>5. \A k \in 1..Len(received') : k \in 1..Len(received) \/ k = Len(received) + 1
    BY <1>n, <2>3, SMTT(30)
  <2>6. \A k \in 1..Len(received') : received'[k].id <= arrived'
    BY <1>4, <2>1, <2>2, <2>3, <2>5, Zenon DEF ArrivalInv
  <2>7. \A j, k \in 1..Len(received') : j < k => received'[j].id < received'[k].id
    BY <1>n, <2>1, <2>2, <2>3, <2>5, SMTT(30) DEF ArrivalInv
  <2>8. \A j \in 1..Len(received'), k \in 1..Len(rx') : received'[j].id < rx'[k].id
    <3> SUFFICES ASSUME NEW j \in 1..Len(received'), NEW k \in 1..Len(rx')
                 PROVE received'[j].id < rx'[k].id
      OBVIOUS
    <3>1. rx'[k] = rx[k + 1] /\ k + 1 \in 1..Len(rx) /\ 1 < k + 1
      BY <1>n, <2>1, <2>4, SMTT(30)
    <3>2. rx[1].id < rx[k + 1].id
      BY <2>1, <3>1 DEF ArrivalInv
    <3>3. CASE j \in 1..Len(received)
      BY <2>3, <3>1, <3>3, Zenon DEF ArrivalInv
    <3>4. CASE j = Len(received) + 1
      BY <2>2, <2>3, <3>1, <3>2, <3>4, Zenon
    <3> QED
      BY <2>5, <3>3, <3>4
  <2>9. \A k \in 1..Len(rx') : rx'[k].id <= arrived'
    BY <1>4, <1>n, <2>1, <2>4, Zenon DEF ArrivalInv
  <2>10. \A j, k \in 1..Len(rx') : j < k => rx'[j].id < rx'[k].id
    BY <1>n, <2>1, <2>4, SMTT(30) DEF ArrivalInv
  <2> QED
    BY <2>6, <2>7, <2>8, <2>9, <2>10 DEF ArrivalInv
<1>5. CASE captureLoop
  <2>1. CASE captureRecv
    BY <1>1, <1>3, <1>4, <1>5, <2>1 DEF captureLoop, captureRecv
  <2>2. CASE ~captureRecv
    <3>1. UNCHANGED <<rx, received, arrived>>
      BY <1>5, <2>2
        DEF captureLoop, captureSetup, captureTest, captureEpoll, captureDrain,
                        captureWritten
    <3> QED
      BY <1>1, <3>1, Zenon
  <2> QED
    BY <2>1, <2>2
<1>6. CASE ~captureLoop /\ ~arrive
  <2>1. UNCHANGED <<rx, received, arrived>>
    BY <1>6 DEF EngineNext, mainStep, pipelineLoop, ringStep, wakeUp, signal, terminated,
                captureVars, engineVars
  <2> QED
    BY <1>1, <2>1, Zenon
<1> QED
  BY <1>2, <1>5, <1>6

\* The order of arrival in every reachable state of the engine.
LEMMA ArrivalInvariant == EngineSpec => []ArrivalInv
<1>1. EngineInit => ArrivalInv
  BY DEF EngineInit, ArrivalInv
<1>2. EngineInv /\ ArrivalInv /\ [EngineNext]_engineVars => ArrivalInv'
  BY ArrivalStep
<1> QED
  BY <1>1, <1>2, EngineInvariant, PTL DEF EngineSpec

\* The frames T2 has finished, and then the one it holds, are the first of
\* those received.
LEMMA FinishedReceived ==
  ASSUME EngineInv
  PROVE  /\ Len(done) \in Nat /\ Len(received) \in Nat /\ Len(done) <= Len(received)
         /\ \A k \in 1..Len(done) : done[k][1] = received[k].id
         /\ T2Holds => /\ Len(done) + 1 <= Len(received)
                       /\ buf[T2].frame.id = received[Len(done) + 1].id
<1>1. /\ contents \in Seq(Data) /\ delivered \in Seq(Data)
      /\ accepted = delivered \o contents
  BY ContentsIsSeq, RingInvFifo, Zenon
    DEF EngineInv, RingInv, RingTypeOK, ContentsInv, Fifo
<1>2. received \in Seq(Frames) /\ done \in Seq((1..MaxFrames) \X Outcomes)
  BY Zenon DEF EngineInv, EngineTypes
<1>s. /\ Len(received) = Len(accepted) + (IF T1Holds THEN 1 ELSE 0)
      /\ \A k \in 1..Len(accepted) : accepted[k].frame = received[k]
  BY Zenon DEF EngineInv, CaptureInv, stored
<1>3. /\ Len(delivered) = Len(done) + (IF T2Holds THEN 1 ELSE 0)
      /\ \A k \in 1..Len(done) : done[k][1] = delivered[k].frame.id
      /\ T2Holds => buf[T2] = delivered[Len(delivered)]
  BY Zenon DEF EngineInv, PipelineInv, finished
<1>n. /\ Len(delivered) \in Nat /\ Len(contents) \in Nat
      /\ Len(done) \in Nat /\ Len(received) \in Nat
  BY <1>1, <1>2
<1>j. /\ Len(accepted) = Len(delivered) + Len(contents)
      /\ \A k \in 1 .. Len(delivered) + Len(contents) :
           accepted[k] = IF k <= Len(delivered) THEN delivered[k]
                         ELSE contents[k - Len(delivered)]
  BY <1>1, JoinFacts, Zenon
<1>4. /\ Len(accepted) >= Len(delivered) /\ Len(accepted) \in Nat
      /\ \A k \in 1..Len(delivered) : accepted[k] = delivered[k]
  BY <1>j, <1>n
<1>6. Len(accepted) <= Len(received) /\ Len(delivered) <= Len(received)
  BY <1>n, <1>s, <1>4
<1>5. \A k \in 1..Len(delivered) : k \in 1..Len(accepted) /\ delivered[k].frame = received[k]
  BY <1>n, <1>s, <1>4
<1>7. \A k \in 1..Len(done) : k \in 1..Len(delivered)
  BY <1>3, <1>n
<1>8. ASSUME T2Holds
      PROVE /\ Len(done) + 1 <= Len(received)
            /\ buf[T2].frame.id = received[Len(done) + 1].id
  <2>1. Len(delivered) = Len(done) + 1 /\ Len(delivered) \in 1..Len(delivered)
    BY <1>3, <1>n, <1>8
  <2> QED
    BY <1>3, <1>5, <1>6, <1>8, <2>1
<1>9. \A k \in 1..Len(done) : done[k][1] = received[k].id
  BY <1>3, <1>5, <1>7, Zenon
<1>10. Len(done) <= Len(received)
  BY <1>3, <1>n, <1>6
<1> QED
  BY <1>n, <1>8, <1>9, <1>10, Zenon
=============================================================================
