--------------------------- MODULE DeliveryProofs ---------------------------
(***************************************************************************)
(* The step from frames and publish() calls to what a consumer of the      *)
(* queue sees.  Two invariants say what the engine guarantees of the       *)
(* frames and what the publisher guarantees of its calls (SystemProofs     *)
(* derives them from the invariants of the two modules); two more, proved  *)
(* here, say how the pipeline's place goes with the publisher's and which  *)
(* frame each call was about.  From the four follow the promise to a       *)
(* consumer, and that every step of the program is one of Delivery.        *)
(***************************************************************************)
EXTENDS System, TLAPS

Verdicts == {"discarded", "skipped", "published", "failed"}

\* What the program needs to know of its engine: the frames were received in
\* the order of their arrival and are finished in that order; the one that T2
\* has in publish() is the next.
FrameInv ==
  /\ received \in Seq({recvfrom(f) : f \in RxFrames})
  /\ \A k \in 1..Len(received) : received[k].id \in 1..MaxFrames
  /\ \A j, k \in 1..Len(received) : j < k => received[j].id < received[k].id
  /\ done \in Seq((1..MaxFrames) \X Verdicts)
  /\ Len(done) <= Len(received)
  /\ \A k \in 1..Len(done) : done[k][1] = received[k].id
  /\ t2 = "publish" => /\ Len(done) < Len(received)
                       /\ buf[T2].frame.id = received[Len(done) + 1].id
  /\ t2 \in {"none", "start", "loop", "read", "publish", "exited"}
  /\ main \in {"connect", "spawn1", "spawn2"} => t2 = "none"

\* A step of the rest of the engine, for these frames: it may receive one more,
\* and leaves the one that T2 has in its buffer.
engineShape ==
  /\ UNCHANGED <<main, t2, done, at, msg, result, queue, called>>
  /\ UNCHANGED received \/ \E f : received' = Append(received, f)
  /\ t2 = "publish" => buf'[T2] = buf[T2]

\* publish() is in one of its calls.
inPublish == {"disconnect", "connect", "handshake", "send", "confirm"}

\* What the program needs to know of its publisher, in terms of its calls:
\* which have returned, that the queue has no message twice and only those of
\* calls that were made, all whose call returned true, these before the later
\* ones, and none that was skipped.
MessageInv ==
  /\ msg \in 0..MaxFrames
  /\ result \in [1..MaxFrames -> {"none", "true", "false", "skipped"}]
  /\ \A m \in 1..MaxFrames : result[m] = "none" <=> m > msg \/ (m = msg /\ at \in inPublish)
  /\ queue \in Seq(1..MaxFrames) /\ \A k \in 1..Len(queue) : queue[k] <= msg
  /\ \A j, k \in 1..Len(queue) : queue[j] = queue[k] => j = k
  /\ \A m \in 1..MaxFrames : result[m] = "true" => \E k \in 1..Len(queue) : queue[k] = m
  /\ \A j, k \in 1..Len(queue) : result[queue[j]] = "true" /\ queue[j] < queue[k] => j < k
  /\ \A k \in 1..Len(queue) : result[queue[k]] # "skipped"

\* A step of publish(), for its caller: the call is skipped at once, it begins,
\* it goes on, or it returns true or false.
publishShape ==
  /\ \/ /\ at = "ready" /\ at' = "loop" /\ msg' = msg + 1
        /\ result' = [result EXCEPT ![msg'] = "skipped"]
     \/ at = "ready" /\ at' \in inPublish /\ msg' = msg + 1 /\ UNCHANGED result
     \/ at \in inPublish /\ at' \in inPublish /\ UNCHANGED <<msg, result>>
     \/ /\ at \in inPublish /\ at' = "loop" /\ UNCHANGED msg
        /\ \E v \in {"true", "false"} : result' = [result EXCEPT ![msg] = v]
  /\ msg' \in 1..MaxFrames /\ UNCHANGED queue

\* A step of the broker, for the program: it takes at most one message, which
\* a call that did not return true or skip it has sent.
brokerShape ==
  \/ UNCHANGED queue
  \/ \E m \in 1..msg : /\ queue' = Append(queue, m)
                       /\ \A k \in 1..Len(queue) : queue[k] # m
                       /\ result[m] \in {"none", "false"}

\* What SystemProofs shows of every step.
stepShapes ==
  /\ engineStep => engineShape
  /\ systemPublish => publishShape
  /\ brokerStep => brokerShape
-----------------------------------------------------------------------------
\* How the pipeline's place goes with the publisher's: before T2 runs, main()
\* is at most in the constructor, and publish() is in a call only while the
\* pipeline waits for it.
PlaceInv ==
  /\ main \in {"spawn1", "spawn2"} => at = "loop"
  /\ t2 = "none" => msg = 0
  /\ t2 = "read" => at = "ready"
  /\ t2 = "publish" => at = "ready" \/ (at \in inPublish /\ msg # 0)
  /\ t2 \in {"start", "loop", "exited"} => at \notin inPublish

\* The pipeline's part of a step of publish(): it goes on when the call returns.
LEMMA PublishStep ==
  ASSUME systemPublish
  PROVE  IF at' = "loop"
         THEN /\ t2' = "loop" /\ UNCHANGED <<buf, main>>
              /\ done' = Append(done, <<buf[T2].frame.id, outcome(result'[msg'])>>)
         ELSE UNCHANGED engineVars
<1>1. ASSUME at' = "loop"
      PROVE /\ t2' = "loop" /\ UNCHANGED <<buf, main>>
            /\ done' = Append(done, <<buf[T2].frame.id, outcome(result'[msg'])>>)
  <2>1. pipelinePublish /\ UNCHANGED main /\ done'[Len(done')][2] = outcome(result'[msg'])
    BY <1>1 DEF systemPublish, pipelineLoop, pipelineStart, pipelineTest, pipelineStages
  <2>2. PICK o : done' = Append(done, <<buf[T2].frame.id, o>>)
    BY <2>1 DEF pipelinePublish
  <2> QED
    BY <2>1, <2>2 DEF pipelinePublish, packetVars, ringVars
<1> QED
  BY <1>1 DEF systemPublish

\* A step of the broker concerns neither.
LEMMA BrokerQuiet ==
  brokerStep => UNCHANGED <<main, t2, done, at, msg, result, called, buf>>
BY DEF brokerStep, P!brokerHandles, P!brokerAccepts, P!brokerRefuses, P!sessionBreaks,
       P!leftoverLost, P!brokerSpeaks, P!clientVars, engineVars, packetVars, ringVars

\* The stages before publish(), which at most discard the frame.
LEMMA StagesStep ==
  ASSUME systemStages
  PROVE  /\ UNCHANGED <<main, msg, result, called>>
         /\ t2 \in {"start", "loop", "read"}
         /\ \/ t2 = "start" /\ t2' = "loop" /\ UNCHANGED <<at, done>>
            \/ t2 = "loop" /\ t2' = "exited" /\ at' = "exit" /\ UNCHANGED done
            \/ t2 = "loop" /\ t2' = "read" /\ at' = "ready" /\ UNCHANGED done
            \/ t2 = "read" /\ t2' = "publish" /\ UNCHANGED <<at, done>>
            \/ /\ t2 = "read" /\ t2' \in {"loop", "exited"} /\ at' \in {"loop", "exit"}
               /\ UNCHANGED done \/ done' = Append(done, <<buf[T2].frame.id, "discarded">>)
<1>1. UNCHANGED <<main, msg, result, called>>
  BY Zenon DEF systemStages, pipelineLoop, publisherState, P!loopTest, P!noFrame
<1>2. CASE t2 = "start"
  BY <1>2 DEF systemStages, pipelineLoop, pipelineStart, pipelineTest, pipelineStages,
              pipelinePublish, publisherState
<1>3. CASE t2 = "loop"
  <2>1. pipelineTest /\ P!loopTest
    BY <1>3 DEF systemStages, pipelineLoop, pipelineStart, pipelineStages, pipelinePublish
  <2> QED
    BY <1>1, <1>3, <2>1, Zenon DEF pipelineTest, P!loopTest
<1>4. CASE t2 = "read"
  <2>1. /\ pipelineStages
        /\ IF t2' = "publish" THEN UNCHANGED at ELSE P!noFrame
    BY <1>4 DEF systemStages, pipelineLoop, pipelineStart, pipelineTest, pipelinePublish,
                publisherState
  <2> DEFINE f == buf[T2].frame
  <2>2. /\ t2' \in {"loop", "exited", "publish"}
        /\ UNCHANGED done \/ done' = Append(done, <<f.id, "discarded">>)
        /\ t2' = "publish" => UNCHANGED done
    BY <2>1 DEF pipelineStages, afterStages, afterFilter
  <2>3. t2' # "publish" => at' \in {"loop", "exit"}
    BY <2>1 DEF P!noFrame
  <2> QED
    BY <1>1, <1>4, <2>1, <2>2, <2>3
<1> QED
  BY <1>1, <1>2, <1>3, <1>4 DEF systemStages

\* No step takes the two apart.
LEMMA PlaceStep ==
  ASSUME FrameInv, PlaceInv, [SystemNext]_systemVars, stepShapes
  PROVE  PlaceInv'
<1>0. CASE UNCHANGED <<main, t2, at, msg>>
  BY <1>0 DEF PlaceInv
<1>1. CASE engineStep \/ brokerStep \/ UNCHANGED systemVars
  <2>1. UNCHANGED <<main, t2, at, msg>>
    BY <1>1, BrokerQuiet
      DEF stepShapes, engineShape, systemVars, engineVars, publisherState
  <2> QED
    BY <1>0, <2>1
<1>2. CASE mainConstructs
  <2>1. /\ t2 = "none" /\ t2' = t2 /\ msg' = msg
        /\ main' \in {"spawn1", "spawn2"} => at' = "loop"
    BY <1>2 DEF mainConstructs, mainStep, mainStart, mainJoin, engineVars, FrameInv,
                P!connect, P!newConnection, P!handshakeFails, P!handshakeSucceeds
  <2> QED
    BY <2>1 DEF PlaceInv
<1>3. CASE mainReturns
  <2>1. /\ main' = "exited" /\ at = "exit" /\ at' = "gone" /\ UNCHANGED <<t2, msg>>
    BY <1>3 DEF mainReturns, mainStep, mainStart, mainJoin, P!destructor, P!disconnect
  <2> QED
    BY <2>1 DEF PlaceInv, inPublish
<1>4. CASE mainOther
  <2>1. /\ UNCHANGED <<at, msg>>
        /\ main' \in {"spawn1", "spawn2"} => main \in {"spawn1", "spawn2"}
        /\ t2' = t2 \/ (main = "spawn2" /\ t2' = "start")
    BY <1>4 DEF mainOther, mainStep, mainStart, mainJoin, publisherState
  <2> QED
    BY <2>1 DEF PlaceInv, inPublish
<1>5. CASE systemStages
  <2>1. main \notin {"spawn1", "spawn2"}
    BY <1>5, StagesStep DEF FrameInv
  <2> QED
    BY <1>5, <2>1, StagesStep DEF PlaceInv, inPublish
<1>6. CASE systemPublish
  <2>1. main \notin {"spawn1", "spawn2"} /\ t2 = "publish" /\ UNCHANGED main
    BY <1>6, PublishStep DEF systemPublish, FrameInv, engineVars
  <2>2. at' = "loop" \/ (at' \in inPublish /\ at' # "loop")
    BY <1>6 DEF stepShapes, publishShape, inPublish
  <2>3. msg' # 0 /\ (at' # "loop" => UNCHANGED t2) /\ (at' = "loop" => t2' = "loop")
    BY <1>6, PublishStep DEF stepShapes, publishShape, engineVars
  <2> QED
    BY <2>1, <2>2, <2>3 DEF PlaceInv, inPublish
<1> QED
  BY <1>1, <1>2, <1>3, <1>4, <1>5, <1>6 DEF SystemNext, systemMain, systemPipeline

\* Which frame each publish() call was about: the calls are in the order of
\* arrival; a frame is finished with an outcome other than discarded exactly
\* when its call has returned, and with what the call returned.
LinkInv ==
  /\ called \in Seq(1..MaxFrames) /\ Len(called) = msg
  /\ \A j, k \in 1..msg : j < k => called[j] < called[k]
  /\ t2 = "publish" /\ at # "ready" => called[msg] = buf[T2].frame.id
  /\ \A k \in 1..Len(done) : done[k][2] # "discarded" =>
       \E m \in 1..msg : done[k] = <<called[m], outcome(result[m])>>
  /\ \A m \in 1..msg : result[m] # "none" =>
       \E k \in 1..Len(done) : done[k] = <<called[m], outcome(result[m])>>

\* When T2 calls publish(), all earlier calls were about earlier frames.
LEMMA CallsBefore ==
  ASSUME FrameInv, MessageInv, LinkInv, t2 = "publish", at = "ready",
         NEW m \in 1..msg
  PROVE  called[m] < buf[T2].frame.id
<1>1. msg \in 0..MaxFrames /\ m \in 1..MaxFrames /\ m <= msg
  BY EngineAssumption DEF MessageInv
<1>2. result[m] # "none"
  BY <1>1 DEF MessageInv, inPublish
<1>3. PICK k \in 1..Len(done) : done[k] = <<called[m], outcome(result[m])>>
  BY <1>2, Zenon DEF LinkInv
<1>4. done[k][1] = called[m]
  BY <1>3
<1>6. /\ k \in 1..Len(received) /\ Len(done) + 1 \in 1..Len(received) /\ k < Len(done) + 1
      /\ done[k][1] = received[k].id /\ buf[T2].frame.id = received[Len(done) + 1].id
  BY DEF FrameInv
<1> QED
  BY <1>4, <1>6 DEF FrameInv

\* The clauses of LinkInv that a step at which no call begins or returns keeps.
LEMMA LinkQuiet ==
  ASSUME LinkInv, UNCHANGED <<called, msg>>,
         msg = 0 \/ UNCHANGED result,
         t2' = "publish" /\ at' # "ready" =>
           t2 = "publish" /\ at # "ready" /\ buf'[T2] = buf[T2],
         done \in Seq((1..MaxFrames) \X Verdicts),
         UNCHANGED done \/ \E n : done' = Append(done, <<n, "discarded">>)
  PROVE  LinkInv'
<1>1. /\ \A k \in 1..Len(done) : k \in 1..Len(done') /\ done'[k] = done[k]
      /\ \A k \in 1..Len(done') : k \in 1..Len(done) \/ done'[k][2] = "discarded"
  <2>1. CASE UNCHANGED done
    BY <2>1
  <2>2. ASSUME NEW n, done' = Append(done, <<n, "discarded">>)
        PROVE /\ \A k \in 1..Len(done) : k \in 1..Len(done') /\ done'[k] = done[k]
              /\ \A k \in 1..Len(done') : k \in 1..Len(done) \/ done'[k][2] = "discarded"
    <3>1. /\ Len(done) \in Nat /\ Len(done') = Len(done) + 1
          /\ \A k \in 1..Len(done) : done'[k] = done[k]
          /\ done'[Len(done) + 1] = <<n, "discarded">>
      BY <2>2
    <3> QED
      BY <3>1
  <2> QED
    BY <2>1, <2>2
<1>2. \A k \in 1..Len(done') : done'[k][2] # "discarded" =>
        \E m \in 1..msg' : done'[k] = <<called'[m], outcome(result'[m])>>
  <2> SUFFICES ASSUME NEW k \in 1..Len(done'), done'[k][2] # "discarded"
               PROVE \E m \in 1..msg' : done'[k] = <<called'[m], outcome(result'[m])>>
    OBVIOUS
  <2>1. k \in 1..Len(done) /\ done'[k] = done[k]
    BY <1>1
  <2>2. PICK m \in 1..msg : done[k] = <<called[m], outcome(result[m])>>
    BY <2>1, Zenon DEF LinkInv
  <2>3. result' = result
    BY <2>2
  <2> QED
    BY <2>1, <2>2, <2>3
<1>3. \A m \in 1..msg' : result'[m] # "none" =>
        \E k \in 1..Len(done') : done'[k] = <<called'[m], outcome(result'[m])>>
  <2> SUFFICES ASSUME NEW m \in 1..msg', result'[m] # "none"
               PROVE \E k \in 1..Len(done') : done'[k] = <<called'[m], outcome(result'[m])>>
    BY Zenon
  <2>1. m \in 1..msg /\ result' = result
    OBVIOUS
  <2>2. PICK k \in 1..Len(done) : done[k] = <<called[m], outcome(result[m])>>
    BY <2>1, Zenon DEF LinkInv
  <2> QED
    BY <1>1, <2>1, <2>2
<1> QED
  BY <1>2, <1>3, Zenon DEF LinkInv

\* When a call begins and does not return at once, it is of the frame T2 has.
LEMMA LinkBegins ==
  ASSUME FrameInv, MessageInv, LinkInv, t2 = "publish", at = "ready",
         msg' = msg + 1, called' = Append(called, buf[T2].frame.id)
  PROVE  /\ called' \in Seq(1..MaxFrames) /\ Len(called') = msg'
         /\ \A j, k \in 1..msg' : j < k => called'[j] < called'[k]
         /\ called'[msg'] = buf[T2].frame.id
         /\ \A m \in 1..msg : called'[m] = called[m]
<1> DEFINE n == buf[T2].frame.id
<1>1. called \in Seq(1..MaxFrames) /\ Len(called) = msg /\ msg \in Nat
  BY DEF LinkInv
<1>2. n \in 1..MaxFrames
  BY DEF FrameInv
<1>3. \A m \in 1..msg : called[m] < n
  BY CallsBefore
<1> HIDE DEF n
<1>4. /\ called' \in Seq(1..MaxFrames) /\ Len(called') = msg + 1
      /\ called'[msg + 1] = n /\ \A m \in 1..msg : called'[m] = called[m]
  BY <1>1, <1>2 DEF n
<1>5. ASSUME NEW j \in 1..msg', NEW k \in 1..msg', j < k PROVE called'[j] < called'[k]
  <2>1. j \in 1..msg /\ (k \in 1..msg \/ k = msg + 1)
    BY <1>1, <1>5
  <2>2. CASE k \in 1..msg
    BY <1>4, <1>5, <2>1, <2>2 DEF LinkInv
  <2>3. CASE k = msg + 1
    BY <1>3, <1>4, <2>1, <2>3
  <2> QED
    BY <2>1, <2>2, <2>3, Zenon
<1> QED
  BY <1>4, <1>5, Zenon DEF n

\* A call that has returned keeps its result.
LEMMA ResultsStay ==
  ASSUME MessageInv, publishShape, NEW m \in 1..msg, result[m] # "none"
  PROVE  m \in 1..msg' /\ result'[m] = result[m]
<1>1. msg \in 0..MaxFrames /\ MaxFrames \in Nat /\ m \in 1..MaxFrames
  BY EngineAssumption DEF MessageInv
<1>2. ~(m = msg /\ at \in inPublish)
  BY <1>1 DEF MessageInv
<1>3. result \in [1..MaxFrames -> {"none", "true", "false", "skipped"}]
  BY DEF MessageInv
<1>4. CASE msg' = msg + 1 /\ (UNCHANGED result \/ result' = [result EXCEPT ![msg'] = "skipped"])
  BY <1>1, <1>3, <1>4
<1>5. CASE UNCHANGED <<msg, result>>
  BY <1>5
<1>6. CASE /\ at \in inPublish /\ UNCHANGED msg
           /\ \E v \in {"true", "false"} : result' = [result EXCEPT ![msg] = v]
  BY <1>1, <1>2, <1>3, <1>6
<1> QED
  BY <1>4, <1>5, <1>6, Zenon DEF publishShape

\* All calls before the last have returned.
LEMMA ResultsBefore ==
  ASSUME MessageInv, publishShape, NEW m \in 1..msg', m < msg'
  PROVE  m \in 1..msg /\ result[m] # "none"
<1>1. msg \in 0..MaxFrames /\ MaxFrames \in Nat
  BY EngineAssumption DEF MessageInv
<1>2. (msg' = msg + 1 /\ at \notin inPublish) \/ msg' = msg
  BY DEF publishShape, inPublish
<1>3. m \in 1..msg /\ m \in 1..MaxFrames /\ ~(m = msg /\ at \in inPublish)
  BY <1>1, <1>2
<1> QED
  BY <1>1, <1>3 DEF MessageInv

\* A step of publish() keeps LinkInv.
LEMMA LinkPublish ==
  ASSUME FrameInv, MessageInv, LinkInv, systemPublish, publishShape
  PROVE  LinkInv'
<1>p. /\ publishShape /\ msg' \in 1..MaxFrames /\ t2 = "publish"
      /\ called' = IF at = "ready" THEN Append(called, buf[T2].frame.id) ELSE called
  BY DEF systemPublish, publishShape
<1>t. /\ done \in Seq((1..MaxFrames) \X Verdicts) /\ Len(done) \in Nat
      /\ msg \in 0..MaxFrames /\ MaxFrames \in Nat
      /\ result \in [1..MaxFrames -> {"none", "true", "false", "skipped"}]
  BY EngineAssumption DEF FrameInv, MessageInv
<1>b. "ready" \notin inPublish /\ "loop" \notin inPublish
  BY DEF inPublish
\* The calls so far, and the one that may begin.
<1>1. /\ called' \in Seq(1..MaxFrames) /\ Len(called') = msg'
      /\ \A j, k \in 1..msg' : j < k => called'[j] < called'[k]
      /\ called'[msg'] = buf[T2].frame.id
      /\ \A m \in 1..msg : called'[m] = called[m]
  <2>1. CASE at = "ready"
    BY <1>p, <1>b, <2>1, LinkBegins, Zenon DEF publishShape
  <2>2. CASE at # "ready"
    BY <1>p, <2>2 DEF publishShape, LinkInv
  <2> QED
    BY <2>1, <2>2
\* The frames finished so far keep their calls, and these their results.
<1>2. ASSUME NEW k \in 1..Len(done), done[k][2] # "discarded"
      PROVE \E m \in 1..msg' : done[k] = <<called'[m], outcome(result'[m])>>
  <2>1. PICK m \in 1..msg : done[k] = <<called[m], outcome(result[m])>>
    BY <1>2 DEF LinkInv
  <2>2. done[k][2] \in Verdicts /\ done[k][2] = outcome(result[m])
    BY <1>t, <2>1
  <2>3. result[m] # "none"
    BY <2>2 DEF Verdicts, outcome
  <2>4. m \in 1..msg' /\ result'[m] = result[m]
    BY <2>3, ResultsStay
  <2> QED
    BY <1>1, <2>1, <2>4
<1>3. ASSUME NEW m \in 1..msg, result[m] # "none"
      PROVE /\ result'[m] = result[m]
            /\ \E k \in 1..Len(done) : done[k] = <<called'[m], outcome(result'[m])>>
  <2>1. PICK k \in 1..Len(done) : done[k] = <<called[m], outcome(result[m])>>
    BY <1>3, Zenon DEF LinkInv
  <2>2. result'[m] = result[m]
    BY <1>3, ResultsStay
  <2> QED
    BY <1>1, <2>1, <2>2
<1>4. CASE at' = "loop"
  <2>1. /\ t2' = "loop"
        /\ done' = Append(done, <<buf[T2].frame.id, outcome(result'[msg'])>>)
    BY <1>4, PublishStep
  <2>2. /\ Len(done') = Len(done) + 1 /\ \A k \in 1..Len(done) : done'[k] = done[k]
        /\ done'[Len(done) + 1] = <<called'[msg'], outcome(result'[msg'])>>
    BY <1>1, <1>t, <2>1
  <2>3. ASSUME NEW k \in 1..Len(done'), done'[k][2] # "discarded"
        PROVE \E m \in 1..msg' : done'[k] = <<called'[m], outcome(result'[m])>>
    <3>1. CASE k \in 1..Len(done)
      BY <1>2, <2>2, <2>3, <3>1
    <3>2. CASE k = Len(done) + 1
      <4>1. msg' \in 1..msg'
        BY <1>p
      <4> QED
        BY <2>2, <3>2, <4>1
    <3> QED
      BY <1>t, <2>2, <3>1, <3>2
  <2>4. ASSUME NEW m \in 1..msg', result'[m] # "none"
        PROVE \E k \in 1..Len(done') : done'[k] = <<called'[m], outcome(result'[m])>>
    <3>1. CASE m = msg'
      <4>1. Len(done) + 1 \in 1..Len(done')
        BY <1>t, <2>2
      <4> QED
        BY <2>2, <3>1, <4>1
    <3>2. CASE m # msg'
      <4>1. m < msg'
        BY <1>p, <3>2
      <4>2. m \in 1..msg /\ result[m] # "none"
        BY <4>1, ResultsBefore
      <4>3. PICK k \in 1..Len(done) : done[k] = <<called'[m], outcome(result'[m])>>
        BY <1>3, <4>2, Zenon
      <4>4. k \in 1..Len(done') /\ done'[k] = done[k]
        BY <1>t, <2>2
      <4> QED
        BY <4>3, <4>4
    <3> QED
      BY <3>1, <3>2
  <2> QED
    BY <1>1, <2>1, <2>3, <2>4, Zenon DEF LinkInv
<1>5. CASE at' # "loop"
  <2>1. UNCHANGED <<t2, done, buf>> /\ result' = result /\ at' \in inPublish
    BY <1>p, <1>5, PublishStep DEF publishShape, engineVars, packetVars, ringVars
  <2>2. ASSUME NEW m \in 1..msg', result'[m] # "none"
        PROVE \E k \in 1..Len(done') : done'[k] = <<called'[m], outcome(result'[m])>>
    <3>1. m \in 1..msg \/ m = msg + 1
      BY <1>p, <1>t DEF publishShape
    <3>2. m # msg + 1
      BY <1>t, <1>p, <2>1, <2>2 DEF MessageInv
    <3> QED
      BY <1>3, <2>1, <2>2, <3>1, <3>2, Zenon
  <2>3. \A k \in 1..Len(done') : done'[k][2] # "discarded" =>
          \E m \in 1..msg' : done'[k] = <<called'[m], outcome(result'[m])>>
    BY <1>2, <2>1, Zenon
  <2>4. t2' = "publish" /\ at' # "ready" => called'[msg'] = buf'[T2].frame.id
    BY <1>1, <2>1
  <2> QED
    BY <1>1, <2>2, <2>3, <2>4, Zenon DEF LinkInv
<1> QED
  BY <1>4, <1>5

\* No step disturbs LinkInv.
LEMMA LinkStep ==
  ASSUME FrameInv, MessageInv, PlaceInv, LinkInv, [SystemNext]_systemVars,
         stepShapes
  PROVE  LinkInv'
<1>t. done \in Seq((1..MaxFrames) \X Verdicts)
  BY DEF FrameInv
<1>1. CASE engineStep
  BY <1>t, <1>1, LinkQuiet DEF stepShapes, engineShape
<1>2. CASE brokerStep
  BY <1>t, <1>2, BrokerQuiet, LinkQuiet
<1>3. CASE mainConstructs
  <2>1. /\ t2 = "none" /\ UNCHANGED <<t2, done, msg, called>>
    BY <1>3 DEF mainConstructs, mainStep, mainStart, mainJoin, engineVars, FrameInv,
                P!connect, P!newConnection, P!handshakeFails, P!handshakeSucceeds
  <2>2. msg = 0
    BY <2>1 DEF PlaceInv
  <2> QED
    BY <1>t, <2>1, <2>2, LinkQuiet, Zenon
<1>4. CASE mainReturns
  <2>1. at = "exit" /\ UNCHANGED <<t2, done, msg, called, result>>
    BY <1>4 DEF mainReturns, mainStep, mainStart, mainJoin, P!destructor, P!disconnect
  <2>2. t2 # "publish"
    BY <2>1 DEF PlaceInv, inPublish
  <2> QED
    BY <1>t, <2>1, <2>2, LinkQuiet, Zenon
<1>5. CASE mainOther
  <2>1. /\ UNCHANGED <<at, done, msg, called, result, buf>>
        /\ t2' = t2 \/ t2' = "start"
    BY <1>5
      DEF mainOther, mainStep, mainStart, mainJoin, publisherState, packetVars, ringVars
  <2> QED
    BY <1>t, <2>1, LinkQuiet
<1>6. CASE systemStages
  <2>1. /\ UNCHANGED <<msg, called, result>>
        /\ t2' = "publish" => at' = "ready"
        /\ UNCHANGED done \/ \E n : done' = Append(done, <<n, "discarded">>)
    BY <1>6, StagesStep DEF PlaceInv
  <2> QED
    BY <1>t, <2>1, LinkQuiet
<1>7. CASE systemPublish
  BY <1>7, LinkPublish DEF stepShapes
<1>8. CASE UNCHANGED systemVars
  <2>1. UNCHANGED <<t2, at, done, msg, called, result, buf>>
    BY <1>8 DEF systemVars, engineVars, packetVars, ringVars, publisherState
  <2> QED
    BY <1>t, <2>1, LinkQuiet
<1> QED
  BY <1>1, <1>2, <1>3, <1>4, <1>5, <1>6, <1>7, <1>8
  DEF SystemNext, systemMain, systemPipeline
-----------------------------------------------------------------------------
\* The frames in the queue: each is that of a call, and none is there twice.
LEMMA QueueOfCalls ==
  ASSUME MessageInv, LinkInv
  PROVE  /\ Len(queueIds) = Len(queue) /\ Len(queue) \in Nat
         /\ \A k \in 1..Len(queue) :
              queue[k] \in 1..msg /\ queueIds[k] = called[queue[k]]
         /\ \A m, n \in 1..msg : called[m] <= called[n] => m <= n
         /\ \A m, n \in 1..msg : called[m] = called[n] => m = n
<1>1. /\ msg \in Nat /\ MaxFrames \in Nat
      /\ queue \in Seq(1..MaxFrames) /\ called \in Seq(1..MaxFrames)
      /\ Len(called) = msg
  BY EngineAssumption DEF MessageInv, LinkInv
<1>2. Len(queueIds) = Len(queue) /\ Len(queue) \in Nat
      /\ \A k \in 1..Len(queue) : queueIds[k] = called[queue[k]]
  BY <1>1 DEF queueIds
<1>3. \A k \in 1..Len(queue) : queue[k] \in 1..msg
  <2> SUFFICES ASSUME NEW k \in 1..Len(queue) PROVE queue[k] \in 1..msg
    OBVIOUS
  <2>1. queue[k] \in 1..MaxFrames
    BY <1>1
  <2>2. queue[k] <= msg
    BY DEF MessageInv
  <2> QED
    BY <1>1, <2>1, <2>2, EngineAssumption
<1>4. ASSUME NEW m \in 1..msg, NEW n \in 1..msg
      PROVE /\ called[m] <= called[n] => m <= n
            /\ called[m] = called[n] => m = n
  <2>1. called[m] \in Nat /\ called[n] \in Nat
    BY <1>1
  <2>2. (m < n => called[m] < called[n]) /\ (n < m => called[n] < called[m])
    BY DEF LinkInv
  <2> QED
    BY <1>1, <2>1, <2>2
<1> QED
  BY <1>2, <1>3, <1>4

\* What a publish() call returned is what its frame was finished with.
LEMMA PublishedCall ==
  ASSUME FrameInv, MessageInv, LinkInv, NEW k \in 1..Len(done), done[k][2] = "published"
  PROVE  \E m \in 1..msg, a \in 1..Len(queue) :
           done[k][1] = called[m] /\ result[m] = "true" /\ queue[a] = m
<1>1. PICK m \in 1..msg : done[k] = <<called[m], outcome(result[m])>>
  BY Zenon DEF LinkInv
<1>2. m \in 1..MaxFrames /\ result[m] \in {"none", "true", "false", "skipped"}
  BY EngineAssumption DEF MessageInv
<1>3. done[k][1] = called[m] /\ outcome(result[m]) = "published"
  BY <1>1
<1>4. result[m] = "true"
  BY <1>2, <1>3 DEF outcome
<1>5. PICK a \in 1..Len(queue) : queue[a] = m
  BY <1>2, <1>4 DEF MessageInv
<1> QED
  BY <1>3, <1>4, <1>5

\* The promise to a consumer of the queue.
LEMMA Consumer ==
  ASSUME FrameInv, MessageInv, LinkInv
  PROVE  EndToEnd
<1>1. ASSUME NEW j \in 1..Len(queueIds), NEW k \in 1..Len(queueIds), queueIds[j] = queueIds[k]
      PROVE j = k
  <2>1. queue[j] = queue[k] /\ j \in 1..Len(queue) /\ k \in 1..Len(queue)
    BY <1>1, QueueOfCalls
  <2> QED
    BY <2>1 DEF MessageInv
<1>2. ASSUME NEW j \in 1..Len(done), NEW k \in 1..Len(done), j <= k,
             done[j][2] = "published", done[k][2] = "published"
      PROVE \E a, b \in 1..Len(queueIds) :
              a <= b /\ queueIds[a] = done[j][1] /\ queueIds[b] = done[k][1]
  <2>1. PICK m \in 1..msg, a \in 1..Len(queue) :
          done[j][1] = called[m] /\ result[m] = "true" /\ queue[a] = m
    BY <1>2, PublishedCall
  <2>2. PICK n \in 1..msg, b \in 1..Len(queue) :
          done[k][1] = called[n] /\ result[n] = "true" /\ queue[b] = n
    BY <1>2, PublishedCall
  <2>3. done[j][1] <= done[k][1]
    <3>1. j \in 1..Len(received) /\ k \in 1..Len(received)
      BY DEF FrameInv
    <3>2. received[j].id \in 1..MaxFrames /\ received[k].id \in 1..MaxFrames
      BY <3>1, Zenon DEF FrameInv
    <3>3. j < k => received[j].id < received[k].id
      BY <3>1, Zenon DEF FrameInv
    <3>4. done[j][1] = received[j].id /\ done[k][1] = received[k].id
      BY Zenon DEF FrameInv
    <3> QED
      BY <1>2, <3>1, <3>2, <3>3, <3>4
  <2>4. m <= n
    BY <2>1, <2>2, <2>3, QueueOfCalls
  <2>5. a <= b
    <3>1. CASE m = n
      BY <2>1, <2>2, <3>1, QueueOfCalls DEF MessageInv
    <3>2. CASE m < n
      <4>1. result[queue[a]] = "true" /\ queue[a] < queue[b]
        BY <2>1, <2>2, <3>2
      <4>2. a < b
        BY <4>1 DEF MessageInv
      <4> QED
        BY <4>2, QueueOfCalls
    <3> QED
      BY <2>4, <3>1, <3>2, EngineAssumption DEF MessageInv
  <2>6. /\ a \in 1..Len(queueIds) /\ b \in 1..Len(queueIds)
        /\ queueIds[a] = done[j][1] /\ queueIds[b] = done[k][1]
    BY <2>1, <2>2, QueueOfCalls
  <2> QED
    BY <2>5, <2>6
<1>3. \A j, k \in 1..Len(done) :
        j <= k /\ done[j][2] = "published" /\ done[k][2] = "published"
          => \E a, b \in 1..Len(queueIds) :
               a <= b /\ queueIds[a] = done[j][1] /\ queueIds[b] = done[k][1]
  BY <1>2
<1>4. \A j, k \in 1..Len(queueIds) : queueIds[j] = queueIds[k] => j = k
  BY <1>1
<1> QED
  BY <1>3, <1>4, Zenon DEF EndToEnd, D!ConsumerView

\* Between two calls, every call so far was about a frame that is finished.
LEMMA CalledFinished ==
  ASSUME FrameInv, MessageInv, LinkInv, at \notin inPublish, NEW m \in 1..msg
  PROVE  \E k \in 1..Len(done) : called[m] = received[k].id
<1>1. msg \in 0..MaxFrames /\ MaxFrames \in Nat
  BY EngineAssumption DEF MessageInv
<1>2. result[m] # "none"
  BY <1>1 DEF MessageInv
<1>3. PICK k \in 1..Len(done) : done[k] = <<called[m], outcome(result[m])>>
  BY <1>2, Zenon DEF LinkInv
<1>4. done[k][1] = called[m]
  BY <1>3
<1> QED
  BY <1>4, Zenon DEF FrameInv

\* The frame whose turn it is then is not in the queue.
LEMMA TurnNotTaken ==
  ASSUME FrameInv, MessageInv, LinkInv, at \notin inPublish, Len(done) < Len(received)
  PROVE  received[Len(done) + 1].id \notin Range(queueIds)
<1> SUFFICES ASSUME NEW j \in 1..Len(queue), queueIds[j] = received[Len(done) + 1].id
             PROVE FALSE
  BY QueueOfCalls, Zenon DEF Range, queueIds
<1>1. queue[j] \in 1..msg /\ called[queue[j]] = received[Len(done) + 1].id
  BY QueueOfCalls, Zenon
<1>2. PICK k \in 1..Len(done) : called[queue[j]] = received[k].id
  BY <1>1, CalledFinished, Zenon
<1>3. /\ Len(done) \in Nat /\ Len(received) \in Nat
  BY DEF FrameInv
<1>4. /\ k \in 1..Len(received) /\ Len(done) + 1 \in 1..Len(received) /\ k < Len(done) + 1
  BY <1>3, SMTT(30)
<1>5. /\ received[k].id < received[Len(done) + 1].id /\ received[k].id \in 1..MaxFrames
      /\ received[Len(done) + 1].id \in 1..MaxFrames
  BY <1>4, Zenon DEF FrameInv
<1> QED
  BY <1>1, <1>2, <1>5, SMTT(30)

\* The queue's frames stay while no message is added to it.
LEMMA QueueKept ==
  ASSUME MessageInv, LinkInv, UNCHANGED queue, \A m \in 1..msg : called'[m] = called[m]
  PROVE  queueIds' = queueIds
<1>1. queueIds' = [k \in 1..Len(queue) |-> called'[queue[k]]]
  BY DEF queueIds
<1>2. \A k \in 1..Len(queue) : called'[queue[k]] = called[queue[k]]
  BY QueueOfCalls
<1> QED
  BY <1>1, <1>2, Zenon DEF queueIds

\* Delivery's Range is that of Functions.
LEMMA SameRange == \A s : D!Range(s) = Range(s)
BY DEF D!Range, Range

\* A frame is finished: Delivery's settle.
LEMMA Settles ==
  ASSUME FrameInv, FrameInv', UNCHANGED received, queueIds' = queueIds,
         NEW n, NEW o \in Verdicts, done' = Append(done, <<n, o>>),
         o = "published" => n \in Range(queueIds),
         o \in {"skipped", "discarded"} =>
           (Len(done) < Len(received) => received[Len(done) + 1].id \notin Range(queueIds))
  PROVE  D!settle
<1>1. /\ Len(done) \in Nat /\ Len(received) \in Nat /\ done \in Seq((1..MaxFrames) \X Verdicts)
      /\ received \in Seq({recvfrom(f) : f \in RxFrames})
  BY DEF FrameInv
<1>2. Len(done') = Len(done) + 1 /\ done'[Len(done) + 1] = <<n, o>>
  BY <1>1, SMTT(30)
<1>3. Len(done) + 1 <= Len(received)
  BY <1>2 DEF FrameInv
<1>4. n = received[Len(done) + 1].id
  <2>1. Len(done) + 1 \in 1..Len(done')
    BY <1>1, <1>2
  <2>2. done'[Len(done) + 1][1] = received'[Len(done) + 1].id
    BY <2>1, Zenon DEF FrameInv
  <2> QED
    BY <1>2, <2>2
<1>5. /\ Len(ids(received)) = Len(received) /\ D!turn = Len(done) + 1
      /\ ids(received)[D!turn] = n
  BY <1>1, <1>3, <1>4, SMTT(30) DEF ids, D!turn
<1>6. /\ D!turn <= Len(ids(received))
      /\ o \in {"published", "failed", "skipped", "discarded"}
      /\ o = "published" => ids(received)[D!turn] \in Range(queueIds)
      /\ o \in {"skipped", "discarded"} => ids(received)[D!turn] \notin Range(queueIds)
      /\ done' = Append(done, <<ids(received)[D!turn], o>>)
  BY <1>1, <1>3, <1>4, <1>5 DEF Verdicts
<1>7. UNCHANGED <<ids(received), queueIds>>
  BY DEF ids
<1> QED
  BY <1>6, <1>7, SameRange, Zenon DEF D!settle

\* The broker takes a frame: Delivery's accept.
LEMMA Accepts ==
  ASSUME FrameInv, MessageInv, PlaceInv, LinkInv, UNCHANGED <<received, done, called>>,
         NEW m \in 1..msg, queue' = Append(queue, m),
         \A k \in 1..Len(queue) : queue[k] # m, result[m] \in {"none", "false"}
  PROVE  D!accept
<1>1. /\ Len(done) \in Nat /\ Len(received) \in Nat
      /\ received \in Seq({recvfrom(f) : f \in RxFrames})
      /\ msg \in 0..MaxFrames /\ MaxFrames \in Nat /\ queue \in Seq(1..MaxFrames)
  BY EngineAssumption DEF FrameInv, MessageInv
<1>2. queueIds' = Append(queueIds, called[m])
  <2>1. Len(queue') = Len(queue) + 1 /\ Len(queue) \in Nat
        /\ \A k \in 1..Len(queue) : queue'[k] = queue[k]
        /\ queue'[Len(queue) + 1] = m
    BY <1>1
  <2>2. queueIds' = [k \in 1..Len(queue') |-> called[queue'[k]]]
    BY DEF queueIds
  <2> QED
    BY <2>1, <2>2 DEF queueIds
<1>3. called[m] \notin Range(queueIds)
  BY QueueOfCalls DEF Range, queueIds
<1>4. \E k \in 1..Len(received) :
        /\ k = Len(done) + 1 \/ (k < Len(done) + 1 /\ done[k][2] = "failed")
        /\ received[k].id = called[m]
  <2>1. CASE result[m] = "none"
    <3>1. m = msg /\ at \in inPublish
      BY <1>1, <2>1, SMTT(30) DEF MessageInv
    <3>2. t2 = "publish" /\ at # "ready"
      BY <1>1, <3>1, SMTT(30) DEF PlaceInv, FrameInv, inPublish
    <3>3. called[m] = buf[T2].frame.id
      BY <3>1, <3>2, Zenon DEF LinkInv
    <3>4. Len(done) < Len(received) /\ buf[T2].frame.id = received[Len(done) + 1].id
      BY <3>2, Zenon DEF FrameInv
    <3> QED
      BY <1>1, <3>3, <3>4
  <2>2. CASE result[m] = "false"
    <3>1. PICK k \in 1..Len(done) : done[k] = <<called[m], outcome(result[m])>>
      BY <2>2, Zenon DEF LinkInv
    <3>2. done[k][1] = called[m] /\ done[k][2] = "failed"
      BY <2>2, <3>1 DEF outcome
    <3>3. received[k].id = called[m] /\ Len(done) <= Len(received)
      BY <3>2 DEF FrameInv
    <3> QED
      BY <1>1, <3>2, <3>3, SMTT(30)
  <2> QED
    BY <2>1, <2>2, Zenon
<1>5. PICK k \in 1..Len(received) :
        /\ k = Len(done) + 1 \/ (k < Len(done) + 1 /\ done[k][2] = "failed")
        /\ received[k].id = called[m]
  BY <1>4
<1>6. k \in 1..Len(ids(received)) /\ ids(received)[k] = called[m] /\ D!turn = Len(done) + 1
  BY <1>1, <1>5 DEF ids, D!turn
<1>7. UNCHANGED <<ids(received), done>>
  BY DEF ids
<1> QED
  BY <1>2, <1>3, <1>5, <1>6, <1>7, SameRange, Zenon DEF D!accept

\* A frame is received: Delivery's receive.
LEMMA Receives ==
  ASSUME FrameInv, FrameInv', UNCHANGED <<done, queue, called>>,
         NEW f, received' = Append(received, f)
  PROVE  D!receive
<1> DEFINE n == Len(received)
<1>1. received \in Seq({recvfrom(g) : g \in RxFrames}) /\ n \in Nat
  BY DEF FrameInv
<1>2. /\ Len(received') = n + 1 /\ received'[n + 1] = f
      /\ \A k \in 1..n : received'[k] = received[k]
  BY <1>1
<1>3. f.id \in 1..MaxFrames /\ \A k \in 1..n : received[k].id < f.id /\ received[k].id \in 1..MaxFrames
  <2>1. n + 1 \in 1..Len(received') /\ \A k \in 1..n : k \in 1..Len(received') /\ k < n + 1
    BY <1>1, <1>2, SMTT(30)
  <2>2. f.id \in 1..MaxFrames
    BY <1>2, <2>1, Zenon DEF FrameInv
  <2>3. ASSUME NEW k \in 1..n PROVE received[k].id < f.id /\ received[k].id \in 1..MaxFrames
    BY <1>2, <2>1, Zenon DEF FrameInv
  <2> QED
    BY <2>2, <2>3
<1>4. f.id \in 1..MaxFrames \ Range(ids(received))
  BY <1>1, <1>3, SMTT(30) DEF Range, ids
<1>5. ids(received') = Append(ids(received), f.id)
  BY <1>1, <1>2, SMTT(30) DEF ids
<1>6. ids(received)' = Append(ids(received), f.id) /\ UNCHANGED <<done, queueIds>>
  BY <1>5 DEF ids, queueIds
<1> QED
  BY <1>4, <1>6, SameRange, Zenon DEF D!receive

\* Nothing that Delivery sees changes.
LEMMA DeliveryStutter ==
  ASSUME UNCHANGED <<received, done, queueIds>>
  PROVE  UNCHANGED D!deliveryVars
BY DEF D!deliveryVars, ids

\* A step of publish(): the frame is settled when it returns.
LEMMA PublishDelivers ==
  ASSUME FrameInv, FrameInv', MessageInv, MessageInv', LinkInv, LinkInv',
         systemPublish, publishShape
  PROVE  D!settle \/ UNCHANGED D!deliveryVars
<1>1. /\ t2 = "publish" /\ UNCHANGED queue
      /\ called' = IF at = "ready" THEN Append(called, buf[T2].frame.id) ELSE called
  BY DEF systemPublish, publishShape
<1>2. queueIds' = queueIds
  <2>1. called \in Seq(1..MaxFrames) /\ Len(called) = msg
    BY DEF LinkInv
  <2>2. \A m \in 1..msg : called'[m] = called[m]
    BY <1>1, <2>1
  <2> QED
    BY <1>1, <2>2, QueueKept, Zenon
<1>3. CASE at' # "loop"
  <2>1. UNCHANGED <<received, done>>
    BY <1>3, PublishStep DEF engineVars, captureVars
  <2> QED
    BY <1>2, <2>1, DeliveryStutter
<1>4. CASE at' = "loop"
  <2> DEFINE n == buf[T2].frame.id
             o == outcome(result'[msg'])
  <2>1. done' = Append(done, <<n, o>>) /\ UNCHANGED received
    BY <1>4, PublishStep, Zenon DEF systemPublish, pipelineLoop, captureVars
  <2>2. msg' \in 1..MaxFrames /\ result'[msg'] \in {"true", "false", "skipped"}
    <3>1. result'[msg'] \in {"none", "true", "false", "skipped"} /\ msg' \in 1..MaxFrames
      BY DEF MessageInv, publishShape
    <3>2. result'[msg'] # "none"
      BY <1>4, <3>1 DEF MessageInv, inPublish
    <3> QED
      BY <3>1, <3>2, Zenon
  <2>3. o \in Verdicts
    BY <2>2, Zenon DEF Verdicts, outcome
  <2>4. ASSUME o = "published" PROVE n \in Range(queueIds)
    <3>1. result'[msg'] = "true"
      BY <2>2, <2>4, Zenon DEF outcome
    <3>2. PICK a \in 1..Len(queue) : queue[a] = msg'
      BY <1>1, <2>2, <3>1 DEF MessageInv
    <3>3. at # "ready" /\ msg' = msg
      <4>1. msg' \in 1..msg
        BY <3>2, QueueOfCalls, Zenon
      <4>2. msg \in Nat /\ msg' # msg + 1
        BY <4>1, EngineAssumption, SMTT(30) DEF MessageInv
      <4> QED
        BY <4>2 DEF publishShape, inPublish
    <3>4. called[msg] = n
      BY <1>1, <3>3, Zenon DEF LinkInv
    <3>5. queueIds[a] = n
      BY <3>2, <3>3, <3>4, QueueOfCalls
    <3> QED
      BY <3>2, <3>5 DEF Range, queueIds
  <2>5. ASSUME o \in {"skipped", "discarded"}, Len(done) < Len(received)
        PROVE received[Len(done) + 1].id \notin Range(queueIds)
    <3>1. result'[msg'] = "skipped"
      BY <2>2, <2>5, Zenon DEF outcome
    <3>2. at = "ready"
      BY <1>4, <2>2, <3>1 DEF publishShape, MessageInv
    <3> QED
      BY <2>5, <3>2, TurnNotTaken DEF inPublish
  <2> HIDE DEF n, o
  <2> QED
    BY <1>2, <2>1, <2>3, <2>4, <2>5, Settles, Zenon
<1> QED
  BY <1>3, <1>4, Zenon

\* Every step of the program is one of Delivery, or leaves what it sees alone.
LEMMA DeliveryStep ==
  ASSUME FrameInv, FrameInv', MessageInv, MessageInv', PlaceInv, LinkInv, LinkInv',
         [SystemNext]_systemVars, stepShapes
  PROVE  D!DeliveryNext \/ UNCHANGED D!deliveryVars
<1>q. UNCHANGED <<queue, called>> => UNCHANGED queueIds
  BY DEF queueIds
<1>1. CASE engineStep
  <2>1. UNCHANGED <<done, queue, called>>
        /\ (UNCHANGED received \/ \E f : received' = Append(received, f))
    BY <1>1 DEF stepShapes, engineShape
  <2> QED
    BY <1>q, <2>1, Receives, DeliveryStutter, Zenon DEF D!DeliveryNext
<1>2. CASE brokerStep
  <2>1. UNCHANGED <<received, done, called>> /\ brokerShape
    BY <1>2 DEF stepShapes, brokerStep, engineVars, captureVars
  <2> QED
    BY <1>q, <2>1, Accepts, DeliveryStutter, Zenon DEF brokerShape, D!DeliveryNext
<1>3. CASE systemMain
  <2>1. UNCHANGED <<received, done>>
    BY <1>3 DEF systemMain, mainConstructs, mainReturns, mainOther, mainStep, engineVars,
                captureVars
  <2>2. UNCHANGED <<queue, called>>
    BY <1>3 DEF systemMain, mainConstructs, mainReturns, mainOther, publisherState,
         P!connect, P!newConnection, P!handshakeFails, P!handshakeSucceeds, P!destructor,
         P!disconnect, P!netVars
  <2> QED
    BY <1>q, <2>1, <2>2, DeliveryStutter
<1>4. CASE systemStages
  <2>1. UNCHANGED <<received, queue, called>>
    BY <1>4 DEF systemStages, pipelineLoop, publisherState, captureVars,
                P!loopTest, P!noFrame, P!netVars
  <2>2. CASE UNCHANGED done
    BY <1>q, <2>1, <2>2, DeliveryStutter, Zenon
  <2>3. CASE t2 = "read" /\ done' = Append(done, <<buf[T2].frame.id, "discarded">>)
    <3>1. at \notin inPublish
      BY <2>3 DEF PlaceInv, inPublish
    <3> QED
      BY <1>q, <2>1, <2>3, <3>1, TurnNotTaken, Settles, Zenon DEF Verdicts, D!DeliveryNext
  <2> QED
    BY <1>4, <2>2, <2>3, StagesStep, Zenon
<1>5. CASE systemPublish
  BY <1>5, PublishDelivers DEF stepShapes, D!DeliveryNext
<1>6. CASE UNCHANGED systemVars
  <2>1. UNCHANGED <<received, done, queue, called>>
    BY <1>6 DEF systemVars, engineVars, captureVars, publisherState
  <2> QED
    BY <1>q, <2>1, DeliveryStutter, Zenon
<1> QED
  BY <1>1, <1>2, <1>3, <1>4, <1>5, <1>6, Zenon DEF SystemNext, systemPipeline
-----------------------------------------------------------------------------
\* Only the signal handler sets stop_flag.
LEMMA StopFlag ==
  /\ signal => UNCHANGED stop_flag \/ (~stop_flag /\ stop_flag' = TRUE)
  /\ arrive \/ mainStep \/ captureLoop \/ pipelineLoop \/ terminated => UNCHANGED stop_flag
  /\ \A t \in Threads : ringStep(t) \/ wakeUp(t) => UNCHANGED stop_flag
<1> USE DEF packetVars, ringVars
<1>1. signal => UNCHANGED stop_flag \/ (~stop_flag /\ stop_flag' = TRUE)
  <2>1. handlerStore => UNCHANGED stop_flag \/ (~stop_flag /\ stop_flag' = TRUE)
    BY Zenon DEF handlerStore
  <2>2. handlerNotifyData \/ handlerNotifySpace => UNCHANGED stop_flag
    BY Zenon DEF handlerNotifyData, handlerNotifySpace
  <2> QED
    BY <2>1, <2>2, Zenon DEF signal, signalHandler
<1>2. arrive \/ mainStep \/ terminated => UNCHANGED stop_flag
  BY DEF arrive, mainStep, terminated, engineVars
<1>3. captureLoop => UNCHANGED stop_flag
  BY Zenon DEF captureLoop, captureSetup, captureTest, captureEpoll, captureDrain,
         captureRecv, captureWritten, bufferWrite, callWrite
<1>4. pipelineLoop => UNCHANGED stop_flag
  BY Zenon
    DEF pipelineLoop, pipelineStart, pipelineTest, pipelineStages, pipelinePublish,
       callRead
<1>5. \A t \in Threads : ringStep(t) \/ wakeUp(t) => UNCHANGED stop_flag
  BY Zenon DEF ringStep, wakeUp, threadStep, acquire, block, write, read, spuriousWakeup
<1> QED
  BY <1>1, <1>2, <1>3, <1>4, <1>5, Zenon

\* Every step is one of Publisher, or leaves what the publisher sees alone.
LEMMA PublisherSteps ==
  [SystemNext]_systemVars => [P!PublisherNext]_P!publisherVars
<1> SUFFICES ASSUME [SystemNext]_systemVars
             PROVE P!PublisherNext \/ UNCHANGED P!publisherVars
  OBVIOUS
<1>u. ASSUME UNCHANGED publisherState, UNCHANGED stop_flag
      PROVE UNCHANGED P!publisherVars
  BY <1>u DEF publisherState, P!publisherVars, P!clientVars, P!netVars
<1>1. CASE engineStep
  <2>1. CASE signal /\ stop_flag' # stop_flag
    BY <1>1, <2>1, StopFlag DEF engineStep, publisherState, P!PublisherNext, P!setStop,
                          P!clientVars, P!netVars
  <2>2. CASE UNCHANGED stop_flag
    BY <1>1, <1>u, <2>2 DEF engineStep
  <2> QED
    BY <1>1, <2>1, <2>2, StopFlag, Zenon DEF engineStep
<1>2. CASE mainConstructs \/ mainReturns
  BY <1>2 DEF mainConstructs, mainReturns, P!PublisherNext, P!pipelineThread, P!publish
<1>3. CASE mainOther
  BY <1>3, <1>u, StopFlag DEF mainOther
<1>4. CASE systemStages
  <2>1. CASE P!loopTest \/ P!noFrame
    BY <2>1 DEF P!PublisherNext, P!pipelineThread
  <2>2. CASE ~P!loopTest /\ ~P!noFrame
    BY <1>4, <1>u, <2>2, StopFlag, Zenon DEF systemStages
  <2> QED
    BY <2>1, <2>2
<1>5. CASE systemPublish
  BY <1>5, Zenon DEF systemPublish, P!PublisherNext, P!pipelineThread
<1>6. CASE brokerStep
  BY <1>6, Zenon DEF brokerStep, P!PublisherNext
<1>7. CASE UNCHANGED systemVars
  BY <1>7 DEF systemVars, engineVars, packetVars, ringVars, publisherState,
              P!publisherVars, P!clientVars, P!netVars
<1> QED
  BY <1>1, <1>2, <1>3, <1>4, <1>5, <1>6, <1>7, Zenon
  DEF SystemNext, systemMain, systemPipeline

\* The publisher inside the program behaves as Publisher says of it alone: no
\* step of main(), of the threads or of the broker takes it out of that module.
THEOREM SystemImplementsPublisher == SystemSpec => ImplementsPublisher
<1>1. SystemInit => P!PublisherInit
  BY DEF SystemInit
<1> QED
  BY <1>1, PublisherSteps, PTL DEF SystemSpec, ImplementsPublisher, P!PublisherSpec

PP == INSTANCE PublisherProofs WITH MaxMessages <- MaxFrames

\* The constants are as Publisher wants them.
LEMMA PublisherConstants == PP!PublisherAssumption
BY SystemAssumption, EngineAssumption DEF PP!PublisherAssumption

\* Publisher and PublisherProofs, instantiated alike, are about the same steps.
LEMMA SamePublisher ==
  /\ P!PublisherInit <=> PP!PublisherInit
  /\ P!PublisherNext <=> PP!PublisherNext
  /\ P!publish <=> PP!publish
  /\ UNCHANGED P!publisherVars <=> UNCHANGED PP!publisherVars
<1>1. P!PublisherInit <=> PP!PublisherInit
  BY Zenon DEF P!PublisherInit, PP!PublisherInit, P!Messages, PP!Messages,
               P!Sessions, PP!Sessions
<1>2. P!publish <=> PP!publish
  BY Zenon
  DEF P!publish, PP!publish, P!callPublish, PP!callPublish, P!disconnect,
      PP!disconnect, P!reconnectStart, PP!reconnectStart, P!returns,
      PP!returns, P!connect, PP!connect, P!newConnection, PP!newConnection,
      P!afterDestroy, PP!afterDestroy, P!nextAttempt, PP!nextAttempt,
      P!lastAttempt, PP!lastAttempt, P!handshakeFails, PP!handshakeFails,
      P!handshakeSucceeds, PP!handshakeSucceeds, P!send, PP!send,
      P!pollTimeout, PP!pollTimeout, P!pollError, PP!pollError, P!pollFrame,
      PP!pollFrame, P!connectedAfterTimeout, PP!connectedAfterTimeout,
      P!confirmTimeout, PP!confirmTimeout, P!clientVars, PP!clientVars,
      P!netVars, PP!netVars
<1>3. P!PublisherNext <=> PP!PublisherNext
  BY <1>2, Zenon
  DEF P!PublisherNext, PP!PublisherNext, P!pipelineThread, PP!pipelineThread,
      P!loopTest, PP!loopTest, P!noFrame, PP!noFrame, P!destructor,
      PP!destructor, P!disconnect, PP!disconnect, P!brokerHandles,
      PP!brokerHandles, P!brokerAccepts, PP!brokerAccepts, P!brokerRefuses,
      PP!brokerRefuses, P!brokerSpeaks, PP!brokerSpeaks, P!sessionBreaks,
      PP!sessionBreaks, P!leftoverLost, PP!leftoverLost, P!setStop,
      PP!setStop, P!publisherVars, PP!publisherVars, P!clientVars,
      PP!clientVars, P!netVars, PP!netVars, P!Sessions, PP!Sessions
<1>4. UNCHANGED P!publisherVars <=> UNCHANGED PP!publisherVars
  BY DEF P!publisherVars, PP!publisherVars, P!clientVars, PP!clientVars,
         P!netVars, PP!netVars
<1> QED
  BY <1>1, <1>2, <1>3, <1>4, Zenon

\* What is proved of Publisher holds in the program.
LEMMA PublisherPart == SystemSpec => []PP!PublisherInv
<1>1. P!PublisherSpec => PP!PublisherSpec
  <2>1. [P!PublisherNext]_P!publisherVars => [PP!PublisherNext]_PP!publisherVars
    BY SamePublisher
  <2>2. P!PublisherInit => PP!PublisherInit
    BY SamePublisher
  <2> QED
    BY <2>1, <2>2, PTL DEF P!PublisherSpec, PP!PublisherSpec
<1>2. PP!PublisherSpec => []PP!PublisherInv
  BY PublisherConstants, PP!PublisherInvariant
<1> QED
  BY <1>1, <1>2, SystemImplementsPublisher, PTL DEF ImplementsPublisher

\* The invariants of the publisher give what the program needs of it.
LEMMA CallFacts ==
  ASSUME PP!PublisherInv
  PROVE  MessageInv
<1> USE DEF PP!Messages, PP!inSeq
<1>1. /\ msg \in 0..MaxFrames /\ MaxFrames \in Nat /\ queue \in Seq(1..MaxFrames)
      /\ result \in [1..MaxFrames -> {"none", "true", "false", "skipped"}]
  BY EngineAssumption, Zenon DEF PP!PublisherInv, PP!OwnInv, PP!PublisherTypeOK
<1>2. /\ \A m \in 1..MaxFrames : result[m] = "none" <=> m > msg \/ (m = msg /\ at \in inPublish)
      /\ \A m \in 1..MaxFrames : result[m] = "skipped" => ~PP!inSeq(m, queue)
  BY DEF PP!PublisherInv, PP!ResultInv, PP!Busy, PP!nowhere, inPublish
<1>3. ASSUME NEW k \in 1..Len(queue)
      PROVE queue[k] <= msg /\ result[queue[k]] # "skipped"
  <2>1. queue[k] \in 1..MaxFrames
    BY <1>1
  <2>r. result[queue[k]] # "skipped"
    BY <1>2, <2>1, Zenon
  <2>2. ~PP!fresh(queue[k])
    BY <2>1, Zenon DEF PP!PublisherInv, PP!OnceInv
  <2> QED
    BY <1>1, <2>1, <2>2, <2>r, SMTT(30) DEF PP!fresh
<1>4. \A j, k \in 1..Len(queue) : queue[j] = queue[k] => j = k
  BY DEF PP!PublisherInv, PP!OnceInv, PP!noDup
<1>5. /\ \A m \in 1..MaxFrames : result[m] = "true" => \E k \in 1..Len(queue) : queue[k] = m
      /\ \A j, k \in 1..Len(queue) : result[queue[j]] = "true" /\ queue[j] < queue[k] => j < k
  BY Zenon DEF PP!PublisherInv, PP!ConfirmInv, PP!TrueInQueue
<1> QED
  BY <1>1, <1>2, <1>3, <1>4, <1>5, Zenon DEF MessageInv

\* So do its steps.
LEMMA CallShapes ==
  ASSUME PP!PublisherInv, PlaceInv, systemPublish
  PROVE  publishShape
<1>1. PP!publish /\ t2 = "publish"
  BY SamePublisher DEF systemPublish
<1>2. at # "ready" => msg # 0
  BY <1>1, Zenon DEF PlaceInv
<1>3. PP!PublisherTypeOK /\ msg \in 0..MaxFrames
  BY DEF PP!PublisherInv, PP!OwnInv, PP!PublisherTypeOK
<1>4. PP!Busy = inPublish /\ PP!Messages = 1..MaxFrames
  BY Zenon DEF PP!Busy, inPublish, PP!Messages
<1>5. /\ UNCHANGED queue
      /\ \/ /\ at = "ready" /\ msg' = msg + 1 /\ msg' \in 1..MaxFrames
            /\ at' = "loop" /\ result' = [result EXCEPT ![msg'] = "skipped"]
         \/ /\ at = "ready" /\ msg' = msg + 1 /\ msg' \in 1..MaxFrames
            /\ at' \in inPublish /\ UNCHANGED result
         \/ at \in inPublish /\ at' \in inPublish /\ UNCHANGED <<msg, result>>
         \/ /\ at \in inPublish /\ at' = "loop" /\ UNCHANGED msg
            /\ \E v \in {"true", "false"} : result' = [result EXCEPT ![msg] = v]
  BY <1>1, <1>2, <1>3, <1>4, PP!PublishShapes, PublisherConstants, Zenon
<1>6. msg' \in 1..MaxFrames
  <2>1. at \in inPublish => msg # 0
    BY <1>2 DEF inPublish
  <2> QED
    BY <1>3, <1>5, <2>1, EngineAssumption, SMTT(30)
<1> QED
  BY <1>5, <1>6, Zenon DEF publishShape

\* And those of the broker.
LEMMA BrokerShapes ==
  ASSUME PP!PublisherInv, brokerStep
  PROVE  brokerShape
<1>1. CASE UNCHANGED queue
  BY <1>1, Zenon DEF brokerShape
<1>2. ASSUME NEW s \in P!Sessions, P!brokerAccepts(s) PROVE brokerShape
  <2> DEFINE m == Head(wire[s])
  <2>1. wire[s] \in Seq(PP!Messages) /\ wire[s] # <<>> /\ s \in PP!Sessions
    BY <1>2, Zenon DEF PP!PublisherInv, PP!OwnInv, PP!PublisherTypeOK, P!brokerAccepts,
                P!Sessions, PP!Sessions
  <2>2. m \in PP!Messages /\ PP!inSeq(m, wire[s])
    BY <2>1, SMTT(30) DEF PP!inSeq
  <2>3. ~PP!inSeq(m, queue) /\ ~PP!fresh(m)
    BY <2>1, <2>2, Zenon DEF PP!PublisherInv, PP!OnceInv
  <2>4. result[m] # "skipped"
    BY <2>1, <2>2, Zenon DEF PP!PublisherInv, PP!ResultInv, PP!nowhere
  <2>5. result[m] # "true"
    BY <2>2, <2>3, Zenon DEF PP!PublisherInv, PP!ConfirmInv, PP!TrueInQueue
  <2>6. queue' = Append(queue, m)
    BY <1>2, Zenon DEF P!brokerAccepts
  <2> HIDE DEF m
  <2>m. msg \in 0..MaxFrames /\ MaxFrames \in Nat /\ m \in 1..MaxFrames
    BY <2>2, CallFacts, EngineAssumption, Zenon DEF MessageInv, PP!Messages
  <2>7. result[m] \in {"none", "false"} /\ m \in 1..msg
    <3>1. m \in 1..msg
      BY <2>3, <2>m, SMTT(30) DEF PP!fresh
    <3>2. result[m] \in {"none", "true", "false", "skipped"}
      BY <2>m, CallFacts DEF MessageInv
    <3> QED
      BY <2>4, <2>5, <3>1, <3>2, Zenon
  <2>8. \A k \in 1..Len(queue) : queue[k] # m
    BY <2>3, Zenon DEF PP!inSeq
  <2> QED
    BY <2>6, <2>7, <2>8, Zenon DEF brokerShape
<1>3. UNCHANGED queue \/ \E s \in P!Sessions : P!brokerAccepts(s)
  BY DEF brokerStep, P!brokerHandles, P!brokerRefuses, P!sessionBreaks, P!leftoverLost,
         P!brokerSpeaks
<1> QED
  BY <1>1, <1>2, <1>3, Zenon
=============================================================================
