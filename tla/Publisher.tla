----------------------------- MODULE Publisher ------------------------------
(***************************************************************************)
(* RabbitMqPublisher (publishers/rabbitmq_publisher.cpp) as the pipeline   *)
(* thread uses it: the connection with its three attempts, publish() with  *)
(* its wait for the broker's confirm, and the broker behind an AMQP        *)
(* connection that may break at any time.                                  *)
(*                                                                         *)
(* Messages are numbered in the order of the publish() calls.  A session   *)
(* is one AMQP connection with its channel.  The publisher reads a confirm *)
(* without looking at its delivery tag, so the model's confirms have none. *)
(***************************************************************************)
EXTENDS Naturals, Sequences

CONSTANTS
  MAX_ATTEMPTS,   \* connection attempts of one connect()
  MaxPolls,       \* MAX_CONFIRM_WAIT_MS / POLL_INTERVAL_MS
  MaxMessages,    \* bound: publish() calls
  MaxSessions,    \* bound: connections the broker accepts
  MaxOther        \* bound: frames from the broker that are not confirms

ASSUME PublisherAssumption ==
  /\ MAX_ATTEMPTS \in Nat \ {0} /\ MaxPolls \in Nat \ {0}
  /\ MaxMessages \in Nat /\ MaxSessions \in Nat /\ MaxOther \in Nat

VARIABLES
  stop_flag,
  at,           \* where the pipeline thread is
  conn_,        \* the session conn_ stands for, 0 for nullptr
  connected_,
  attempt, polls,
  msg,          \* message of the current publish(); 0 in the constructor
  result,       \* what publish() returned for each message
  handles,      \* amqp connection objects allocated and not destroyed
  sessions,     \* how many sessions there have been
  up,           \* sessions that are not broken or closed
  wire,         \* per session: messages sent, not yet handled by the broker
  inbox,        \* frames from the broker on conn_, not yet read
  other,        \* how many of them were not confirms
  queue         \* everything the broker has accepted, in order

clientVars == <<at, conn_, connected_, attempt, polls, msg, result, handles>>
netVars == <<sessions, up, wire, inbox, other, queue>>
publisherVars == <<stop_flag, clientVars, netVars>>

Messages == 1..MaxMessages
Sessions == 1..MaxSessions

PublisherInit ==
  /\ stop_flag = FALSE
  /\ at = "connect" /\ conn_ = 0 /\ connected_ = FALSE
  /\ attempt = 1 /\ polls = 0 /\ msg = 0
  /\ result = [m \in Messages |-> "none"]
  /\ handles = 0 /\ sessions = 0 /\ up = {}
  /\ wire = [s \in Sessions |-> <<>>]
  /\ inbox = <<>> /\ other = 0 /\ queue = <<>>
-----------------------------------------------------------------------------
\* The pipeline's loop: it tests stop_flag before each frame, not between the
\* test and publish().
loopTest ==
  /\ at = "loop"
  /\ at' = IF stop_flag THEN "exit" ELSE "ready"
  /\ UNCHANGED <<stop_flag, conn_, connected_, attempt, polls, msg, result,
                 handles, netVars>>

\* No frame comes out of filter_stage, after which stop_flag is tested again,
\* or of dissector_stage, after which it is not.
noFrame ==
  /\ at = "ready"
  /\ at' \in IF stop_flag THEN {"loop", "exit"} ELSE {"loop"}
  /\ UNCHANGED <<stop_flag, conn_, connected_, attempt, polls, msg, result,
                 handles, netVars>>

\* publish() is called, for a protocol that is not published or for one that
\* is; without a connection it starts with connect().
callPublish ==
  /\ at = "ready" /\ msg < MaxMessages
  /\ msg' = msg + 1
  /\ \/ /\ at' = "loop"
        /\ result' = [result EXCEPT ![msg'] = "skipped"]
        /\ UNCHANGED attempt
     \/ /\ at' = IF connected_ THEN "send" ELSE "disconnect"
        /\ attempt' = 1
        /\ UNCHANGED result
  /\ UNCHANGED <<stop_flag, conn_, connected_, polls, handles, netVars>>

\* disconnect(), when conn_ is not null: the close handshake ends when the
\* broker has handled what was sent before it, or the session is broken.
disconnect(next) ==
  /\ conn_ # 0 => wire[conn_] = <<>> \/ conn_ \notin up
  /\ at' = next
  /\ conn_' = 0
  /\ handles' = IF conn_ # 0 THEN handles - 1 ELSE handles
  /\ up' = up \ {conn_}
  /\ inbox' = <<>>
  /\ UNCHANGED <<stop_flag, connected_, attempt, polls, msg, result, sessions,
                 wire, other, queue>>

reconnectStart == at = "disconnect" /\ disconnect("connect")

\* publish() or the constructor ends: false leaves conn_ to the next call.
returns(value) ==
  IF msg = 0 THEN /\ at' = IF value = "true" THEN "loop" ELSE "exit"
                  /\ UNCHANGED result
  ELSE /\ at' = "loop"
       /\ result' = [result EXCEPT ![msg] = value]

\* One attempt of connect(): the connection object is allocated; when its
\* socket object cannot be, it is destroyed and there is no further attempt.
newConnection ==
  /\ at = "connect"
  /\ \/ /\ at' = "handshake"
        /\ handles' = handles + 1
        /\ UNCHANGED result
     \/ /\ returns("false")
        /\ UNCHANGED handles
  /\ UNCHANGED <<stop_flag, conn_, connected_, attempt, polls, msg, netVars>>

\* Socket, login, channel or confirm.select fails: the object is destroyed
\* and the next attempt, if there is one, starts.
afterDestroyLeaking == handles
afterDestroy == handles - 1

nextAttemptUncounted == attempt
nextAttempt == attempt + 1

lastAttemptOneMore == attempt > MAX_ATTEMPTS
lastAttempt == attempt = MAX_ATTEMPTS

handshakeFails ==
  /\ at = "handshake"
  /\ handles' = afterDestroy
  /\ IF lastAttempt
     THEN returns("false") /\ UNCHANGED attempt
     ELSE at' = "connect" /\ attempt' = nextAttempt /\ UNCHANGED result
  /\ UNCHANGED <<stop_flag, conn_, connected_, polls, msg, netVars>>

handshakeSucceeds ==
  /\ at = "handshake" /\ sessions < MaxSessions
  /\ sessions' = sessions + 1
  /\ conn_' = sessions'
  /\ up' = up \cup {sessions'}
  /\ connected_' = TRUE
  /\ IF msg = 0 THEN returns("true") ELSE at' = "send" /\ UNCHANGED result
  /\ UNCHANGED <<stop_flag, attempt, polls, msg, handles, wire, inbox, other,
                 queue>>

\* amqp_basic_publish: on a broken session it fails, or the kernel still takes
\* the message, which then never leaves the host.
send ==
  /\ at = "send"
  /\ \/ /\ conn_ \in up
        /\ wire' = [wire EXCEPT ![conn_] = Append(@, msg)]
        /\ at' = "confirm" /\ polls' = 0
        /\ UNCHANGED <<connected_, result>>
     \/ /\ conn_ \notin up
        /\ at' = "confirm" /\ polls' = 0
        /\ UNCHANGED <<wire, connected_, result>>
     \/ /\ conn_ \notin up
        /\ connected_' = FALSE
        /\ returns("false")
        /\ UNCHANGED <<wire, polls>>
  /\ UNCHANGED <<stop_flag, conn_, attempt, msg, handles, sessions, up, inbox,
                 other, queue>>
-----------------------------------------------------------------------------
\* The confirm loop, while (waited_ms < MAX_CONFIRM_WAIT_MS): nothing came in
\* POLL_INTERVAL_MS, and stop_flag is tested;
pollTimeout ==
  /\ at = "confirm" /\ polls < MaxPolls
  /\ inbox = <<>>
  /\ polls' = polls + 1
  /\ IF stop_flag THEN returns("false") ELSE UNCHANGED <<at, result>>
  /\ UNCHANGED <<stop_flag, conn_, connected_, attempt, msg, handles, netVars>>

\* the wait fails, because the session is broken;
pollError ==
  /\ at = "confirm" /\ polls < MaxPolls
  /\ inbox = <<>> /\ conn_ \notin up
  /\ connected_' = FALSE
  /\ returns("false")
  /\ UNCHANGED <<stop_flag, conn_, attempt, polls, msg, handles, netVars>>

\* a frame comes: a confirm ends publish(), anything else counts as a poll.
pollFrame ==
  /\ at = "confirm" /\ polls < MaxPolls
  /\ inbox # <<>>
  /\ inbox' = Tail(inbox)
  /\ \/ Head(inbox) = "ack" /\ returns("true") /\ UNCHANGED polls
     \/ Head(inbox) = "nack" /\ returns("false") /\ UNCHANGED polls
     \/ Head(inbox) = "other" /\ polls' = polls + 1 /\ UNCHANGED <<at, result>>
  /\ UNCHANGED <<stop_flag, conn_, connected_, attempt, msg, handles, sessions,
                 up, wire, other, queue>>

\* No confirm in time: the connection is given up, with the confirm that may
\* still come on it, and so is the frame.
connectedAfterTimeoutKept == TRUE
connectedAfterTimeout == FALSE

confirmTimeoutRetrying ==
  /\ at = "confirm" /\ polls = MaxPolls
  /\ connected_' = FALSE
  /\ at' = "disconnect" /\ attempt' = 1
  /\ UNCHANGED <<stop_flag, conn_, polls, msg, result, handles, netVars>>
confirmTimeout ==
  /\ at = "confirm" /\ polls = MaxPolls
  /\ connected_' = connectedAfterTimeout
  /\ returns("false")
  /\ UNCHANGED <<stop_flag, conn_, attempt, polls, msg, handles, netVars>>

\* ~RabbitMqPublisher, when main() returns.
destructor == at = "exit" /\ disconnect("gone")
-----------------------------------------------------------------------------
\* The broker takes the next message of a session and confirms it if the
\* session still stands.  What was sent on a session before it broke may be
\* taken later, or never.
brokerAccepts(s) ==
  /\ wire[s] # <<>>
  /\ wire' = [wire EXCEPT ![s] = Tail(@)]
  /\ queue' = Append(queue, Head(wire[s]))
  /\ inbox' = IF s \in up THEN Append(inbox, "ack") ELSE inbox
  /\ UNCHANGED <<stop_flag, clientVars, sessions, up, other>>

brokerRefuses(s) ==
  /\ wire[s] # <<>> /\ s \in up
  /\ wire' = [wire EXCEPT ![s] = Tail(@)]
  /\ inbox' = Append(inbox, "nack")
  /\ UNCHANGED <<stop_flag, clientVars, sessions, up, other, queue>>

brokerSpeaks ==
  /\ conn_ \in up /\ other < MaxOther
  /\ other' = other + 1
  /\ inbox' = Append(inbox, "other")
  /\ UNCHANGED <<stop_flag, clientVars, sessions, up, wire, queue>>

\* The session breaks; some of what the broker has said on it may be lost.
sessionBreaks(s) ==
  /\ s \in up
  /\ up' = up \ {s}
  /\ \E n \in 0..Len(inbox) : inbox' = SubSeq(inbox, 1, n)
  /\ UNCHANGED <<stop_flag, clientVars, sessions, wire, other, queue>>

leftoverLost(s) ==
  /\ s \notin up /\ wire[s] # <<>>
  /\ wire' = [wire EXCEPT ![s] = <<>>]
  /\ UNCHANGED <<stop_flag, clientVars, sessions, up, inbox, other, queue>>

setStop ==
  /\ ~stop_flag /\ stop_flag' = TRUE
  /\ UNCHANGED <<clientVars, netVars>>

connect == newConnection \/ handshakeFails \/ handshakeSucceeds

publish ==
  \/ callPublish \/ reconnectStart \/ connect \/ send
  \/ pollTimeout \/ pollError \/ pollFrame \/ confirmTimeout

pipelineThread == loopTest \/ noFrame \/ publish \/ destructor

brokerHandles(s) == brokerAccepts(s) \/ brokerRefuses(s)

PublisherNext ==
  \/ pipelineThread
  \/ \E s \in Sessions : brokerHandles(s) \/ sessionBreaks(s) \/ leftoverLost(s)
  \/ brokerSpeaks \/ setStop
  \/ at = "gone" /\ UNCHANGED publisherVars

PublisherSpec == PublisherInit /\ [][PublisherNext]_publisherVars

\* The thread is scheduled (every library call it makes returns), and the
\* broker handles what reaches it.
PublisherFairSpec ==
  /\ PublisherSpec
  /\ WF_publisherVars(pipelineThread)
  /\ \A s \in Sessions : WF_publisherVars(brokerHandles(s))
-----------------------------------------------------------------------------
\* The publisher's variables stay in their types.
PublisherTypeOK ==
  /\ stop_flag \in BOOLEAN /\ connected_ \in BOOLEAN
  /\ at \in {"loop", "ready", "disconnect", "connect", "handshake", "send",
             "confirm", "exit", "gone"}
  /\ conn_ \in 0..sessions /\ attempt \in 1..MAX_ATTEMPTS /\ polls \in 0..MaxPolls
  /\ msg \in 0..MaxMessages
  /\ result \in [Messages -> {"none", "true", "false", "skipped"}]
  /\ handles \in Nat /\ sessions \in 0..MaxSessions /\ up \subseteq 1..sessions
  /\ wire \in [Sessions -> Seq(Messages)]
  /\ inbox \in Seq({"ack", "nack", "other"}) /\ other \in 0..MaxOther
  /\ queue \in Seq(Messages)

\* When publish() returns true for a message the broker has it, and it has
\* the messages confirmed so far in the order of the calls.  publish() takes
\* the first ack it reads for its own; that no ack is left over from an
\* earlier message is due to the new connection after a timeout, and to the
\* pipeline's leaving after a stop.
ConfirmedQueuedInOrder ==
  LET trueFor(m) == result[m] = "true"
      before(m, n) == \E j, k \in 1..Len(queue) :
                        j <= k /\ queue[j] = m /\ queue[k] = n
  IN \A m, n \in Messages : trueFor(m) /\ trueFor(n) /\ m <= n => before(m, n)

\* The broker never has a message twice: a frame whose confirm is late or
\* lost is given up, not sent again.
AtMostOnce ==
  \A j, k \in 1..Len(queue) : queue[j] = queue[k] => j = k

\* No connection object is leaked or used after it was destroyed: there is
\* exactly one while conn_ is set, none otherwise, and connected_ says true
\* only of a connection that exists.
ConnectionOwned ==
  /\ handles = IF conn_ # 0 \/ at = "handshake" THEN 1 ELSE 0
  /\ connected_ /\ at # "gone" => conn_ # 0

\* Every publish() call returns: the attempts and the polls are counted, and
\* the close handshake before a new connection ends because the broker
\* handles what reached it or the session is broken.
PublishReturns ==
  \A m \in Messages : (msg = m) ~> (result[m] # "none")

\* Once stopped, the publisher is destroyed and its connection closed.
StopDestroys == stop_flag ~> at = "gone"
=============================================================================
