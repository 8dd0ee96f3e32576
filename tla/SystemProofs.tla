---------------------------- MODULE SystemProofs ----------------------------
(***************************************************************************)
(* Proofs about the whole program, for every number of frames, sessions    *)
(* and faults.  Each step of System is a step of Engine and a step of      *)
(* Publisher, so that the invariants proved of the two hold in it.  They   *)
(* give what DeliveryProofs needs of the two; from that follow the promise *)
(* to a consumer of the queue, and that the program implements Delivery.   *)
(***************************************************************************)
EXTENDS DeliveryProofs, EngineProofs

\* The engine inside the program behaves as Engine says of it alone.
THEOREM SystemImplementsEngine == SystemSpec => EngineSpec
<1>1. SystemInit => EngineInit
  BY DEF SystemInit
<1>2. SystemNext => EngineNext \/ UNCHANGED engineVars
  <2>1. engineStep => EngineNext
    BY DEF engineStep, EngineNext
  <2>2. systemMain => mainStep \/ UNCHANGED engineVars
    BY DEF systemMain, mainConstructs, mainReturns, mainOther
  <2>3. systemPipeline => pipelineLoop \/ UNCHANGED engineVars
    BY DEF systemPipeline, systemStages, systemPublish
  <2>4. brokerStep => UNCHANGED engineVars
    BY DEF brokerStep
  <2> QED
    BY <2>1, <2>2, <2>3, <2>4 DEF SystemNext, EngineNext
<1>3. UNCHANGED systemVars => UNCHANGED engineVars
  BY DEF systemVars
<1> QED
  BY <1>1, <1>2, <1>3, PTL DEF SystemSpec, EngineSpec

\* What the rest of the engine does while T2 is in publish() does not concern
\* it: the frame it holds stays in its buffer.
LEMMA EngineShapes ==
  ASSUME EngineInv, engineStep
  PROVE  engineShape
<1>1. UNCHANGED <<main, t2, done, at, msg, result, queue, called>>
  BY DEF engineStep, arrive, captureLoop, signal, terminated, ringStep, wakeUp,
         engineVars, publisherState
<1>2. UNCHANGED received \/ \E f : received' = Append(received, f)
  <2>1. CASE captureLoop
    BY <2>1, Zenon DEF captureLoop, captureSetup, captureTest, captureEpoll, captureDrain,
                       captureRecv, captureWritten
  <2>2. CASE ~captureLoop
    BY <2>2 DEF engineStep, arrive, signal, terminated, ringStep, wakeUp, engineVars,
                captureVars
  <2> QED
    BY <2>1, <2>2
<1>3. ASSUME t2 = "publish" PROVE buf'[T2] = buf[T2]
  <2>b. buf \in [Threads -> Data \cup {NoData}] /\ RingInv /\ pc[T2] = "idle"
    BY <1>3 DEF EngineInv, RingInv, RingTypeOK, PipelineInv
  <2>1. CASE arrive \/ terminated
    BY <2>1 DEF arrive, terminated, engineVars, packetVars, ringVars
  <2>2. CASE captureLoop
    BY <2>2, <2>b, TwoThreads, Zenon
    DEF captureLoop, captureSetup, captureTest, captureEpoll, captureDrain,
        captureRecv, captureWritten, bufferWrite, callWrite, packetVars, ringVars
  <2>3. CASE signal \/ \E t \in Threads : wakeUp(t)
    BY <2>3, <2>b, WakeStep, Zenon DEF signal, wakeUp
  <2>4. CASE \E t \in Threads : ringStep(t)
    <3>1. CASE ringStep(T1)
      BY <2>b, <3>1, TwoThreads, WriterStep, Zenon DEF ringStep
    <3>2. CASE ringStep(T2)
      BY <2>b, <3>2, TwoThreads, ReaderStep, Zenon DEF ringStep
    <3> QED
      BY <2>4, <3>1, <3>2, TwoThreads, Zenon
  <2> QED
    BY <2>1, <2>2, <2>3, <2>4, Zenon DEF engineStep
<1> QED
  BY <1>1, <1>2, <1>3, Zenon DEF engineShape

\* The invariants of the engine give what the program needs of it.
LEMMA FrameFacts ==
  ASSUME EngineInv, ArrivalInv
  PROVE  FrameInv
<1>1. /\ received \in Seq(Frames) /\ done \in Seq((1..MaxFrames) \X Outcomes)
      /\ t2 \in {"none", "start", "loop", "read", "publish", "exited"}
      /\ main \in {"connect", "spawn1", "spawn2"} => t2 = "none"
  BY DEF EngineInv, EngineTypes
<1>2. Frames = {recvfrom(f) : f \in RxFrames} /\ Outcomes = Verdicts
  BY DEF Frames, Outcomes, Verdicts
<1>3. ASSUME NEW k \in 1..Len(received) PROVE received[k].id \in 1..MaxFrames
  <2>1. received[k] \in Frames
    BY <1>1
  <2>2. PICK f \in RxFrames : received[k] = recvfrom(f)
    BY <2>1 DEF Frames
  <2> QED
    BY <2>2, FramesFit, Zenon
<1>4. t2 = "publish" => T2Holds
  BY DEF T2Holds
<1>5. /\ Len(done) \in Nat /\ Len(received) \in Nat /\ Len(done) <= Len(received)
      /\ \A k \in 1..Len(done) : done[k][1] = received[k].id
      /\ t2 = "publish" => /\ Len(done) < Len(received)
                           /\ buf[T2].frame.id = received[Len(done) + 1].id
  BY <1>4, FinishedReceived
<1> QED
  BY <1>1, <1>2, <1>3, <1>5, Zenon DEF FrameInv, ArrivalInv

\* All of it holds in every reachable state.
LEMMA SystemInvariant ==
  SystemSpec => [](FrameInv /\ MessageInv /\ PlaceInv /\ LinkInv
                   /\ EngineInv /\ PP!PublisherInv)
<1>1. SystemInit => PlaceInv /\ LinkInv
  BY DEF SystemInit, EngineInit, P!PublisherInit, PlaceInv, LinkInv, inPublish
<1>2. EngineInv /\ PP!PublisherInv /\ PlaceInv => stepShapes
  BY EngineShapes, CallShapes, BrokerShapes DEF stepShapes
<1>3. EngineInv /\ ArrivalInv /\ PP!PublisherInv => FrameInv /\ MessageInv
  BY FrameFacts, CallFacts
<1>4. /\ FrameInv /\ MessageInv /\ PlaceInv /\ LinkInv /\ EngineInv /\ PP!PublisherInv
      /\ [SystemNext]_systemVars
      => PlaceInv' /\ LinkInv'
  BY <1>2, PlaceStep, LinkStep, Zenon
<1> QED
  BY <1>1, <1>3, <1>4, SystemImplementsEngine, EngineInvariant, ArrivalInvariant,
     PublisherPart, PTL DEF SystemSpec

\* Whatever happens to threads, connections and broker, a consumer of the queue
\* never gets a frame twice, and gets every frame whose publish() returned true,
\* in the order in which the frames were received.
THEOREM SystemEndToEnd == SystemSpec => []EndToEnd
<1>1. FrameInv /\ MessageInv /\ LinkInv => EndToEnd
  BY Consumer
<1> QED
  BY <1>1, SystemInvariant, PTL

\* The program implements Delivery: every step of its threads, of its publisher
\* and of the broker receives, settles or takes a frame as that module allows,
\* or is invisible to it.
THEOREM SystemImplementsDelivery == SystemSpec => ImplementsDelivery
<1>1. SystemInit => D!DeliveryInit
  BY DEF SystemInit, EngineInit, P!PublisherInit, D!DeliveryInit, ids, queueIds
<1>2. /\ FrameInv /\ MessageInv /\ PlaceInv /\ LinkInv /\ EngineInv /\ PP!PublisherInv
      /\ FrameInv' /\ MessageInv' /\ LinkInv'
      /\ [SystemNext]_systemVars
      => [D!DeliveryNext]_D!deliveryVars
  <2>1. EngineInv /\ PP!PublisherInv /\ PlaceInv => stepShapes
    BY EngineShapes, CallShapes, BrokerShapes DEF stepShapes
  <2> QED
    BY <2>1, DeliveryStep
<1> QED
  BY <1>1, <1>2, SystemInvariant, PTL
  DEF SystemSpec, ImplementsDelivery, D!DeliverySpec
=============================================================================
