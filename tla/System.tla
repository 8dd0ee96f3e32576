------------------------------- MODULE System -------------------------------
(***************************************************************************)
(* The whole program: the Engine with the RabbitMqPublisher that main()    *)
(* constructs, the pipeline thread calls and main()'s return destroys, and *)
(* the broker.  Every step of a thread that both modules describe is one   *)
(* step here; while T2 is in publish() the rest of the engine runs on.     *)
(***************************************************************************)
EXTENDS Engine, Functions

CONSTANTS MAX_ATTEMPTS, MaxPolls, MaxSessions, MaxOther

VARIABLES at, conn_, connected_, attempt, polls, msg, result, handles,
          sessions, up, wire, inbox, other, queue,
          called   \* history: the frames in the order of their publish() calls

ASSUME SystemAssumption ==
  /\ MAX_ATTEMPTS \in Nat \ {0} /\ MaxPolls \in Nat \ {0}
  /\ MaxSessions \in Nat /\ MaxOther \in Nat

P == INSTANCE Publisher WITH MaxMessages <- MaxFrames

publisherState == <<at, conn_, connected_, attempt, polls, msg, result, handles,
                    sessions, up, wire, inbox, other, queue, called>>
systemVars == <<engineVars, publisherState>>

SystemInit == EngineInit /\ P!PublisherInit /\ called = <<>>
-----------------------------------------------------------------------------
\* main(): the constructor connects, and main() goes on when it returns; on
\* return, after closeRawSocket, the publisher is destroyed.
mainConstructs ==
  /\ main = "connect" /\ P!connect
  /\ CASE at' = "loop" -> mainStep /\ main' = "spawn1"
       [] at' = "exit" -> mainStep /\ main' = "close"
       [] OTHER -> UNCHANGED engineVars
  /\ UNCHANGED called

mainReturnsAtOnce ==
  /\ main = "close" /\ mainStep
  /\ at' = "gone"
  /\ UNCHANGED <<conn_, connected_, attempt, polls, msg, result, handles,
                 sessions, up, wire, inbox, other, queue, called>>
mainReturns ==
  main = "close" /\ mainStep /\ P!destructor /\ UNCHANGED called

mainOther ==
  /\ main \notin {"connect", "close"}
  /\ mainStep /\ UNCHANGED publisherState

systemMain == mainConstructs \/ mainReturns \/ mainOther

\* The pipeline's loop up to publish(), which starts with its frame.
systemStages ==
  \/ pipelineLoop /\ t2 = "start" /\ UNCHANGED publisherState
  \/ pipelineLoop /\ t2 = "loop" /\ P!loopTest /\ UNCHANGED called
  \/ /\ pipelineLoop /\ t2 = "read"
     /\ IF t2' = "publish" THEN UNCHANGED publisherState
        ELSE P!noFrame /\ (at' = "exit" <=> t2' = "exited") /\ UNCHANGED called

\* publish(): its protocol decides whether the frame is skipped, and the
\* pipeline goes on to the next frame when it returns.
outcome(r) ==
  CASE r = "true" -> "published" [] r = "false" -> "failed" [] OTHER -> r

systemPublish ==
  /\ t2 = "publish" /\ P!publish
  /\ at = "ready" => (at' = "loop" <=> buf[T2].frame.kind = "other")
  /\ IF at' = "loop"
     THEN pipelineLoop /\ done'[Len(done')][2] = outcome(result'[msg'])
     ELSE UNCHANGED engineVars
  /\ called' = IF at = "ready" THEN Append(called, buf[T2].frame.id) ELSE called

systemPipeline == systemStages \/ systemPublish

brokerStep ==
  /\ \/ \E s \in P!Sessions :
          P!brokerHandles(s) \/ P!sessionBreaks(s) \/ P!leftoverLost(s)
     \/ P!brokerSpeaks
  /\ UNCHANGED <<engineVars, called>>

engineStep ==
  /\ \/ arrive \/ captureLoop \/ signal \/ terminated
     \/ \E t \in Threads : ringStep(t) \/ wakeUp(t)
  /\ UNCHANGED publisherState

SystemNext == engineStep \/ systemMain \/ systemPipeline \/ brokerStep

SystemSpec == SystemInit /\ [][SystemNext]_systemVars

\* As in EngineFairness and PublisherFairSpec: the threads are scheduled, and
\* the broker handles what reaches it.
SystemFairSpec ==
  /\ SystemSpec
  /\ WF_systemVars(systemMain) /\ WF_systemVars(systemPipeline)
  /\ WF_systemVars(captureLoop /\ UNCHANGED publisherState)
  /\ \A t \in Threads : WF_systemVars(ringStep(t) /\ UNCHANGED publisherState)
  /\ WF_systemVars(signal /\ handler # "idle" /\ UNCHANGED publisherState)
  /\ \A s \in P!Sessions : 
       WF_systemVars(P!brokerHandles(s) /\ UNCHANGED <<engineVars, called>>)
-----------------------------------------------------------------------------
\* The publisher inside the program behaves as Publisher says of it alone:
\* main() and T2 drive it through no state that module does not have.
ImplementsPublisher == P!PublisherSpec

\* The frames in the broker's queue.
queueIds == [k \in 1..Len(queue) |-> called[queue[k]]]

D == INSTANCE Delivery WITH rcvd <- ids(received), settled <- done,
                            taken <- queueIds

\* From the interface to the queue, with all threads, connections, timeouts
\* and late confirms, the program keeps the promise of Delivery: every frame
\* is settled once and in order, the broker has none twice, and what publish()
\* called published is there, in the order of arrival.
ImplementsDelivery == D!DeliverySpec
EndToEnd == D!ConsumerView

\* A stop that is repeated until the program is gone ends it, whatever the
\* broker and the network do: also when T2 is in publish(), with a frame
\* unconfirmed, in a reconnection, or in the close handshake.  On the way
\* nothing of the connection is left behind.
SystemStops ==
  WF_systemVars(signal /\ UNCHANGED publisherState)
    => (stop_flag ~> (main = "exited" /\ handles = 0))

\* A frame that has been received is eventually settled by the publisher or
\* discarded on the way, unless a stop comes: no state of the broker makes the
\* pipeline hang, and back-pressure on T1 ends.
SystemFinishes ==
  \A n \in 1..MaxFrames :
    (n \in Range(ids(received))) ~> (stop_flag \/ n \in Range(doneIds))
=============================================================================
