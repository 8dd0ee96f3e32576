--------------------------- MODULE PublisherProofs --------------------------
(***************************************************************************)
(* What RabbitMqPublisher promises, for any number of connection attempts, *)
(* polls, messages and sessions.  Three inductive invariants, each resting *)
(* on the one before: OwnInv (the connection and its object), OnceInv      *)
(* (where a message can be) and ConfirmInv (what a confirm can be about).  *)
(***************************************************************************)
EXTENDS Publisher, TLAPS

\* What ConnectionOwned rests on: there is no connection while connect() makes
\* one, publish() sends and waits on a connection only, and no session but
\* that of conn_ can talk to the publisher.
ConnInv ==
  /\ at \in {"connect", "handshake"} => conn_ = 0
  /\ at \in {"send", "confirm"} => connected_ /\ msg # 0
  /\ at = "disconnect" => ~connected_
  /\ up \subseteq {conn_}
  /\ conn_ = 0 => inbox = <<>>

OwnInv == PublisherTypeOK /\ ConnectionOwned /\ ConnInv

\* The constructor starts without a connection.
LEMMA OwnInit == PublisherInit => OwnInv
<1> SUFFICES ASSUME PublisherInit PROVE OwnInv
  OBVIOUS
<1> USE PublisherAssumption DEF PublisherInit
<1>1. /\ result \in [Messages -> {"none", "true", "false", "skipped"}]
      /\ wire \in [Sessions -> Seq(Messages)]
  OBVIOUS
<1>2. queue \in Seq(Messages) /\ inbox \in Seq({"ack", "nack", "other"})
  OBVIOUS
<1>3. up \subseteq 1..sessions /\ stop_flag \in BOOLEAN /\ connected_ \in BOOLEAN
  BY Zenon
<1>4. PublisherTypeOK
  BY <1>1, <1>2, <1>3 DEF PublisherTypeOK
<1>5. ConnectionOwned /\ ConnInv
  BY DEF ConnectionOwned, ConnInv
<1> QED
  BY <1>4, <1>5 DEF OwnInv

\* Sending a message, and the broker's taking one, keep the type of wire.
LEMMA WireAppend ==
  ASSUME NEW S, NEW M, NEW w \in [S -> Seq(M)], NEW c \in S, NEW m \in M
  PROVE [w EXCEPT ![c] = Append(@, m)] \in [S -> Seq(M)]
<1>1. Append(w[c], m) \in Seq(M)
  OBVIOUS
<1> QED
  BY <1>1

\* The same for the message at the head of a session's wire.
LEMMA WireTail ==
  ASSUME NEW S, NEW M, NEW w \in [S -> Seq(M)], NEW c \in S, w[c] # <<>>
  PROVE /\ [w EXCEPT ![c] = Tail(@)] \in [S -> Seq(M)]
        /\ Head(w[c]) \in M
<1>1. Tail(w[c]) \in Seq(M) /\ Head(w[c]) \in M
  OBVIOUS
<1> QED
  BY <1>1

\* No step of the publisher, the broker or the network disturbs OwnInv.
LEMMA OwnStep == OwnInv /\ [PublisherNext]_publisherVars => OwnInv'
<1> SUFFICES ASSUME OwnInv, [PublisherNext]_publisherVars PROVE OwnInv'
  OBVIOUS
<1> USE PublisherAssumption
    DEF OwnInv, PublisherTypeOK, ConnectionOwned, ConnInv, clientVars, netVars
<1>1. CASE loopTest
  BY <1>1 DEF loopTest
<1>2. CASE noFrame
  BY <1>2 DEF noFrame
<1>3. CASE callPublish
  <2>1. result' \in [Messages -> {"none", "true", "false", "skipped"}]
    BY <1>3 DEF callPublish
  <2>2. PublisherTypeOK'
    BY <1>3, <2>1 DEF callPublish
  <2>3. ConnectionOwned' /\ ConnInv'
    BY <1>3 DEF callPublish
  <2> QED
    BY <2>2, <2>3
<1>4. CASE reconnectStart
  BY <1>4 DEF reconnectStart, disconnect
<1>5. CASE newConnection
  <2>1. result' \in [Messages -> {"none", "true", "false", "skipped"}]
    BY <1>5 DEF newConnection, returns
  <2>2. PublisherTypeOK'
    BY <1>5, <2>1 DEF newConnection, returns
  <2>3. ConnectionOwned' /\ ConnInv'
    BY <1>5 DEF newConnection, returns
  <2> QED
    BY <2>2, <2>3
<1>6. CASE handshakeFails
  BY <1>6 DEF handshakeFails, returns, lastAttempt, nextAttempt, afterDestroy
<1>7. CASE handshakeSucceeds
  BY <1>7 DEF handshakeSucceeds, returns
<1>8. CASE send
  <2> USE <1>8 DEF send
  <2>1. msg \in Messages /\ conn_ \in Sessions
    BY DEF Messages, Sessions
  <2>2. CASE /\ conn_ \in up
             /\ wire' = [wire EXCEPT ![conn_] = Append(@, msg)]
             /\ at' = "confirm" /\ polls' = 0
             /\ UNCHANGED <<connected_, result>>
    <3>1. wire' \in [Sessions -> Seq(Messages)]
      BY <2>1, <2>2, WireAppend
    <3> QED
      BY <2>2, <3>1
  <2>3. CASE /\ at' = "confirm" /\ polls' = 0
             /\ UNCHANGED <<wire, connected_, result>>
    BY <2>3
  <2>4. CASE connected_' = FALSE /\ returns("false") /\ UNCHANGED <<wire, polls>>
    BY <2>4, Zenon DEF returns
  <2> QED
    BY <2>2, <2>3, <2>4, Zenon
<1>9. CASE pollTimeout
  BY <1>9 DEF pollTimeout, returns
<1>10. CASE pollError
  BY <1>10, Zenon DEF pollError, returns
<1>11. CASE pollFrame
  <2>1. result' \in [Messages -> {"none", "true", "false", "skipped"}]
        /\ inbox' \in Seq({"ack", "nack", "other"})
    BY <1>11 DEF pollFrame, returns
  <2>2. PublisherTypeOK'
    BY <1>11, <2>1 DEF pollFrame, returns
  <2>3. ConnectionOwned' /\ ConnInv'
    BY <1>11 DEF pollFrame, returns
  <2> QED
    BY <2>2, <2>3
<1>12. CASE confirmTimeout
  BY <1>12, Zenon DEF confirmTimeout, returns, connectedAfterTimeout
<1>13. CASE destructor
  BY <1>13 DEF destructor, disconnect
<1>14. CASE \E s \in Sessions : brokerAccepts(s)
  <2> PICK s \in Sessions : brokerAccepts(s)
    BY <1>14
  <2>1. wire' \in [Sessions -> Seq(Messages)] /\ queue' \in Seq(Messages)
    BY WireTail DEF brokerAccepts
  <2>2. inbox' \in Seq({"ack", "nack", "other"})
    BY DEF brokerAccepts
  <2>3. s \in up => conn_ # 0
    OBVIOUS
  <2> QED
    BY <2>1, <2>2, <2>3 DEF brokerAccepts
<1>15. CASE \E s \in Sessions : brokerRefuses(s)
  <2> PICK s \in Sessions : brokerRefuses(s)
    BY <1>15
  <2>1. wire' \in [Sessions -> Seq(Messages)] /\ queue' \in Seq(Messages)
    BY WireTail DEF brokerRefuses
  <2>2. inbox' \in Seq({"ack", "nack", "other"})
    BY DEF brokerRefuses
  <2>3. s \in up => conn_ # 0
    OBVIOUS
  <2> QED
    BY <2>1, <2>2, <2>3 DEF brokerRefuses
<1>16. CASE \E s \in Sessions : sessionBreaks(s)
  <2> PICK s \in Sessions : sessionBreaks(s)
    BY <1>16
  <2>1. wire' \in [Sessions -> Seq(Messages)] /\ queue' \in Seq(Messages)
    BY WireTail DEF sessionBreaks
  <2>2. inbox' \in Seq({"ack", "nack", "other"})
    BY DEF sessionBreaks
  <2>3. s \in up => conn_ # 0
    OBVIOUS
  <2> QED
    BY <2>1, <2>2, <2>3 DEF sessionBreaks
<1>17. CASE \E s \in Sessions : leftoverLost(s)
  <2> PICK s \in Sessions : leftoverLost(s)
    BY <1>17
  <2>1. wire' \in [Sessions -> Seq(Messages)] /\ queue' \in Seq(Messages)
    BY WireTail DEF leftoverLost
  <2>2. inbox' \in Seq({"ack", "nack", "other"})
    BY DEF leftoverLost
  <2>3. s \in up => conn_ # 0
    OBVIOUS
  <2> QED
    BY <2>1, <2>2, <2>3 DEF leftoverLost
<1>18. CASE brokerSpeaks
  BY <1>18 DEF brokerSpeaks
<1>19. CASE setStop
  BY <1>19 DEF setStop
<1>20. CASE UNCHANGED publisherVars
  BY <1>20 DEF publisherVars
<1> QED
  BY <1>1, <1>2, <1>3, <1>4, <1>5, <1>6, <1>7, <1>8, <1>9, <1>10, <1>11, <1>12,
     <1>13, <1>14, <1>15, <1>16, <1>17, <1>18, <1>19, <1>20, Zenon
  DEF PublisherNext, pipelineThread, publish, connect, brokerHandles

\* Both hold in every reachable state.
LEMMA OwnInvariant == PublisherSpec => []OwnInv
  BY OwnInit, OwnStep, PTL DEF PublisherSpec

\* The publisher's variables stay in their types.
THEOREM PublisherTypeCorrect == PublisherSpec => []PublisherTypeOK
<1>1. OwnInv => PublisherTypeOK
  BY DEF OwnInv
<1> QED
  BY <1>1, OwnInvariant, PTL

\* However often connecting fails, halfway or at the last attempt, exactly one
\* amqp connection object exists while conn_ is set and none otherwise, and
\* connected_ is said only of a connection that exists.
THEOREM PublisherConnectionOwned == PublisherSpec => []ConnectionOwned
<1>1. OwnInv => ConnectionOwned
  BY DEF OwnInv
<1> QED
  BY <1>1, OwnInvariant, PTL
-----------------------------------------------------------------------------
\* x is an element of the sequence s; no element of s occurs twice.
inSeq(x, s) == \E j \in 1..Len(s) : s[j] = x
noDup(s) == \A j, k \in 1..Len(s) : s[j] = s[k] => j = k

\* The elements of a sequence with one more at its end.
LEMMA InAppend ==
  ASSUME NEW M, NEW s \in Seq(M), NEW m \in M
  PROVE /\ \A x : inSeq(x, Append(s, m)) <=> inSeq(x, s) \/ x = m
        /\ noDup(s) /\ ~inSeq(m, s) => noDup(Append(s, m))
<1>1. /\ Len(Append(s, m)) = Len(s) + 1
      /\ \A j \in 1..Len(s) : Append(s, m)[j] = s[j]
      /\ Append(s, m)[Len(s) + 1] = m
      /\ Len(s) \in Nat
  OBVIOUS
<1>2. ASSUME NEW x PROVE inSeq(x, Append(s, m)) <=> inSeq(x, s) \/ x = m
  <2>1. 1..(Len(s) + 1) = 1..Len(s) \cup {Len(s) + 1}
    BY <1>1
  <2> QED
    BY <1>1, <2>1 DEF inSeq
<1>3. ASSUME noDup(s), ~inSeq(m, s) PROVE noDup(Append(s, m))
  BY <1>1, <1>3 DEF noDup, inSeq
<1> QED
  BY <1>2, <1>3

\* The elements of a sequence without its first.
LEMMA InTail ==
  ASSUME NEW M, NEW s \in Seq(M), s # <<>>
  PROVE /\ \A x : inSeq(x, Tail(s)) => inSeq(x, s)
        /\ inSeq(Head(s), s)
        /\ noDup(s) => noDup(Tail(s)) /\ ~inSeq(Head(s), Tail(s))
<1>1. /\ Len(s) \in Nat /\ Len(s) > 0
      /\ Len(Tail(s)) = Len(s) - 1
      /\ \A j \in 1..(Len(s) - 1) : Tail(s)[j] = s[j + 1]
      /\ Head(s) = s[1]
  OBVIOUS
<1>2. ASSUME NEW x, inSeq(x, Tail(s)) PROVE inSeq(x, s)
  <2>1. PICK j \in 1..(Len(s) - 1) : Tail(s)[j] = x
    BY <1>1, <1>2 DEF inSeq
  <2>2. j + 1 \in 1..Len(s) /\ s[j + 1] = x
    BY <1>1, <2>1
  <2> QED
    BY <2>2 DEF inSeq
<1>3. inSeq(Head(s), s)
  <2>1. 1 \in 1..Len(s) /\ s[1] = Head(s)
    BY <1>1
  <2> QED
    BY <2>1 DEF inSeq
<1>4. ASSUME noDup(s) PROVE noDup(Tail(s)) /\ ~inSeq(Head(s), Tail(s))
  <2>1. noDup(Tail(s))
    BY <1>1, <1>4 DEF noDup
  <2>2. ~inSeq(Head(s), Tail(s))
    BY <1>1, <1>4 DEF noDup, inSeq
  <2> QED
    BY <2>1, <2>2
<1> QED
  BY <1>2, <1>3, <1>4
-----------------------------------------------------------------------------
\* Message m has not been given to amqp_basic_publish yet.
fresh(m) ==
  \/ m > msg
  \/ m = msg /\ at \in {"disconnect", "connect", "handshake", "send"}

\* Where a message can be: nowhere while it is fresh, then on the wire of one
\* session, then with the broker; in none of these places twice.
OnceInv ==
  /\ noDup(queue)
  /\ \A s \in Sessions : noDup(wire[s])
  /\ \A s, t \in Sessions, m \in Messages :
       inSeq(m, wire[s]) /\ inSeq(m, wire[t]) => s = t
  /\ \A s \in Sessions, m \in Messages :
       inSeq(m, wire[s]) => ~inSeq(m, queue) /\ ~fresh(m)
  /\ \A m \in Messages : inSeq(m, queue) => ~fresh(m)

\* Nothing is sent before the first publish().
LEMMA OnceInit == PublisherInit => OnceInv
<1> SUFFICES ASSUME PublisherInit PROVE OnceInv
  OBVIOUS
<1>1. \A x : ~inSeq(x, <<>>)
  BY DEF inSeq
<1>2. noDup(<<>>)
  BY DEF noDup
<1> QED
  BY <1>1, <1>2 DEF PublisherInit, OnceInv

\* A step that sends nothing and makes no message fresh again, and at which the
\* wires only lose messages, keeps OnceInv.
LEMMA OnceShrinks ==
  ASSUME OnceInv, UNCHANGED queue,
         \A m \in Messages : fresh(m)' => fresh(m),
         \A s \in Sessions : noDup(wire[s]) => noDup(wire'[s]),
         \A s \in Sessions, m \in Messages : inSeq(m, wire'[s]) => inSeq(m, wire[s])
  PROVE OnceInv'
  BY DEF OnceInv

\* No step disturbs OnceInv: a message is sent by the publish() call it belongs
\* to, once, and the broker takes it off the wire it is on.
LEMMA OnceStep ==
  OwnInv /\ OwnInv' /\ OnceInv /\ [PublisherNext]_publisherVars => OnceInv'
<1> SUFFICES ASSUME OwnInv, OwnInv', OnceInv, [PublisherNext]_publisherVars
             PROVE OnceInv'
  OBVIOUS
<1> USE PublisherAssumption
<1>t. /\ wire \in [Sessions -> Seq(Messages)] /\ queue \in Seq(Messages)
      /\ msg \in Nat /\ Messages \subseteq Nat
  <2>1. wire \in [Sessions -> Seq(Messages)] /\ queue \in Seq(Messages)
    BY DEF OwnInv, PublisherTypeOK
  <2>2. msg \in Nat /\ Messages \subseteq Nat
    BY DEF OwnInv, PublisherTypeOK, Messages
  <2> QED
    BY <2>1, <2>2
<1>1. CASE loopTest
  <2>1. UNCHANGED <<wire, queue>> /\ \A m \in Messages : fresh(m)' => fresh(m)
    BY <1>1, <1>t DEF loopTest, netVars, fresh
  <2> QED
    BY <2>1, OnceShrinks
<1>2. CASE noFrame
  <2>1. UNCHANGED <<wire, queue>> /\ \A m \in Messages : fresh(m)' => fresh(m)
    BY <1>2, <1>t DEF noFrame, netVars, fresh
  <2> QED
    BY <2>1, OnceShrinks
<1>3. CASE reconnectStart
  <2>1. UNCHANGED <<wire, queue>> /\ \A m \in Messages : fresh(m)' => fresh(m)
    BY <1>3, <1>t DEF reconnectStart, disconnect, fresh
  <2> QED
    BY <2>1, OnceShrinks
<1>4. CASE newConnection
  <2>1. UNCHANGED <<wire, queue>> /\ \A m \in Messages : fresh(m)' => fresh(m)
    BY <1>4, <1>t DEF newConnection, returns, netVars, fresh
  <2> QED
    BY <2>1, OnceShrinks
<1>5. CASE handshakeFails
  <2>1. UNCHANGED <<wire, queue>> /\ \A m \in Messages : fresh(m)' => fresh(m)
    BY <1>5, <1>t DEF handshakeFails, returns, netVars, fresh
  <2> QED
    BY <2>1, OnceShrinks
<1>6. CASE handshakeSucceeds
  <2>1. UNCHANGED <<wire, queue>> /\ \A m \in Messages : fresh(m)' => fresh(m)
    BY <1>6, <1>t DEF handshakeSucceeds, returns, netVars, fresh
  <2> QED
    BY <2>1, OnceShrinks
<1>7. CASE pollTimeout
  <2>1. UNCHANGED <<wire, queue>> /\ \A m \in Messages : fresh(m)' => fresh(m)
    BY <1>7, <1>t DEF pollTimeout, returns, netVars, fresh
  <2> QED
    BY <2>1, OnceShrinks
<1>8. CASE pollError
  <2>1. UNCHANGED <<wire, queue>> /\ \A m \in Messages : fresh(m)' => fresh(m)
    BY <1>8, <1>t DEF pollError, returns, netVars, fresh
  <2> QED
    BY <2>1, OnceShrinks
<1>9. CASE pollFrame
  <2>1. UNCHANGED <<wire, queue>> /\ \A m \in Messages : fresh(m)' => fresh(m)
    BY <1>9, <1>t DEF pollFrame, returns, netVars, fresh
  <2> QED
    BY <2>1, OnceShrinks
<1>10. CASE confirmTimeout
  <2>1. UNCHANGED <<wire, queue>> /\ \A m \in Messages : fresh(m)' => fresh(m)
    BY <1>10, <1>t DEF confirmTimeout, returns, netVars, fresh
  <2> QED
    BY <2>1, OnceShrinks
<1>11. CASE destructor
  <2>1. UNCHANGED <<wire, queue>> /\ \A m \in Messages : fresh(m)' => fresh(m)
    BY <1>11, <1>t DEF destructor, disconnect, fresh
  <2> QED
    BY <2>1, OnceShrinks
<1>12. CASE brokerSpeaks
  <2>1. UNCHANGED <<wire, queue>> /\ \A m \in Messages : fresh(m)' => fresh(m)
    BY <1>12, <1>t DEF brokerSpeaks, clientVars, netVars, fresh
  <2> QED
    BY <2>1, OnceShrinks
<1>13. CASE setStop
  <2>1. UNCHANGED <<wire, queue>> /\ \A m \in Messages : fresh(m)' => fresh(m)
    BY <1>13, <1>t DEF setStop, clientVars, netVars, fresh
  <2> QED
    BY <2>1, OnceShrinks
<1>14. CASE callPublish
  <2>1. UNCHANGED <<wire, queue>> /\ \A m \in Messages : fresh(m)' => fresh(m)
    BY <1>14, <1>t DEF callPublish, netVars, fresh
  <2> QED
    BY <2>1, OnceShrinks
<1>15. CASE send
  <2>1. msg \in Messages /\ conn_ \in Sessions
    BY <1>15 DEF send, Messages, Sessions, OwnInv, PublisherTypeOK, ConnInv,
                ConnectionOwned
  <2>2. UNCHANGED queue /\ \A m \in Messages : fresh(m)' <=> fresh(m) /\ m # msg
    BY <1>15, <1>t DEF send, returns, fresh
  <2>3. CASE wire' = [wire EXCEPT ![conn_] = Append(@, msg)]
    <3>1. /\ wire'[conn_] = Append(wire[conn_], msg)
          /\ \A s \in Sessions : s # conn_ => wire'[s] = wire[s]
      BY <1>t, <2>1, <2>3
    <3>2. fresh(msg)
      BY <1>15 DEF send, fresh
    <3>3. ~inSeq(msg, queue) /\ \A s \in Sessions : ~inSeq(msg, wire[s])
      BY <2>1, <3>2 DEF OnceInv
    <3>4. wire[conn_] \in Seq(Messages)
      BY <1>t, <2>1
    <3>5. /\ \A x : inSeq(x, wire'[conn_]) <=> inSeq(x, wire[conn_]) \/ x = msg
          /\ noDup(wire'[conn_])
      BY <2>1, <3>1, <3>3, <3>4, InAppend DEF OnceInv
    <3>6. \A s \in Sessions, m \in Messages :
            inSeq(m, wire'[s]) <=> inSeq(m, wire[s]) \/ (s = conn_ /\ m = msg)
      BY <2>1, <3>1, <3>5, Zenon
    <3>7. \A s \in Sessions : noDup(wire'[s])
      BY <3>1, <3>5, Zenon DEF OnceInv
    <3>8. \A s \in Sessions, m \in Messages :
            inSeq(m, wire'[s]) => ~inSeq(m, queue') /\ ~fresh(m)'
      BY <2>2, <3>3, <3>6 DEF OnceInv
    <3>9. \A s, t \in Sessions, m \in Messages :
            inSeq(m, wire'[s]) /\ inSeq(m, wire'[t]) => s = t
      BY <3>3, <3>6 DEF OnceInv
    <3> QED
      BY <2>2, <3>7, <3>8, <3>9 DEF OnceInv
  <2>4. CASE UNCHANGED wire
    BY <2>2, <2>4, OnceShrinks
  <2> QED
    BY <1>15, <2>3, <2>4 DEF send
<1>16. CASE \E s \in Sessions : brokerAccepts(s)
  <2> PICK s \in Sessions : brokerAccepts(s)
    BY <1>16
  <2> DEFINE h == Head(wire[s])
  <2>1. /\ wire'[s] = Tail(wire[s]) /\ queue' = Append(queue, h)
        /\ \A t \in Sessions : t # s => wire'[t] = wire[t]
    BY <1>t DEF brokerAccepts
  <2>2. \A m \in Messages : fresh(m)' <=> fresh(m)
    BY DEF brokerAccepts, clientVars, fresh
  <2>3. wire[s] \in Seq(Messages) /\ wire[s] # <<>> /\ h \in Messages
    BY <1>t DEF brokerAccepts
  <2> HIDE DEF h
  <2>4. /\ inSeq(h, wire[s]) /\ ~inSeq(h, wire'[s]) /\ noDup(wire'[s])
        /\ \A x : inSeq(x, wire'[s]) => inSeq(x, wire[s])
    BY <2>1, <2>3, InTail DEF OnceInv, h
  <2>5. ~inSeq(h, queue) /\ ~fresh(h)
    BY <2>3, <2>4 DEF OnceInv
  <2>6. /\ \A x : inSeq(x, queue') <=> inSeq(x, queue) \/ x = h
        /\ noDup(queue')
    BY <1>t, <2>1, <2>3, <2>5, InAppend DEF OnceInv
  <2>7. \A t \in Sessions, m \in Messages :
          inSeq(m, wire'[t]) => inSeq(m, wire[t]) /\ m # h
    BY <2>1, <2>3, <2>4 DEF OnceInv
  <2>8. \A t \in Sessions : noDup(wire'[t])
    BY <2>1, <2>4 DEF OnceInv
  <2> QED
    BY <2>2, <2>5, <2>6, <2>7, <2>8 DEF OnceInv
<1>17. CASE \E s \in Sessions : brokerRefuses(s)
  <2> PICK s \in Sessions : brokerRefuses(s)
    BY <1>17
  <2>1. /\ wire'[s] = Tail(wire[s]) /\ queue' = queue
        /\ \A t \in Sessions : t # s => wire'[t] = wire[t]
    BY <1>t DEF brokerRefuses
  <2>2. \A m \in Messages : fresh(m)' => fresh(m)
    BY DEF brokerRefuses, clientVars, fresh
  <2>3. wire[s] \in Seq(Messages) /\ wire[s] # <<>>
    BY <1>t DEF brokerRefuses
  <2>4. /\ noDup(wire[s]) => noDup(wire'[s])
        /\ \A x : inSeq(x, wire'[s]) => inSeq(x, wire[s])
    BY <2>1, <2>3, InTail
  <2> QED
    BY <2>1, <2>2, <2>4, OnceShrinks
<1>18. CASE \E s \in Sessions : leftoverLost(s)
  <2> PICK s \in Sessions : leftoverLost(s)
    BY <1>18
  <2>1. /\ wire'[s] = <<>> /\ queue' = queue
        /\ \A t \in Sessions : t # s => wire'[t] = wire[t]
    BY <1>t DEF leftoverLost
  <2>2. \A m \in Messages : fresh(m)' => fresh(m)
    BY DEF leftoverLost, clientVars, fresh
  <2>3. noDup(wire'[s]) /\ \A x : ~inSeq(x, wire'[s])
    BY <2>1 DEF noDup, inSeq
  <2> QED
    BY <2>1, <2>2, <2>3, OnceShrinks
<1>19. CASE \E s \in Sessions : sessionBreaks(s)
  <2>1. UNCHANGED <<wire, queue>> /\ \A m \in Messages : fresh(m)' => fresh(m)
    BY <1>19 DEF sessionBreaks, clientVars, fresh
  <2> QED
    BY <2>1, OnceShrinks
<1>20. CASE UNCHANGED publisherVars
  <2>1. UNCHANGED <<wire, queue>> /\ \A m \in Messages : fresh(m)' => fresh(m)
    BY <1>20 DEF publisherVars, clientVars, netVars, fresh
  <2> QED
    BY <2>1, OnceShrinks
<1> QED
  BY <1>1, <1>2, <1>3, <1>4, <1>5, <1>6, <1>7, <1>8, <1>9, <1>10, <1>11, <1>12, <1>13,
       <1>14, <1>15, <1>16, <1>17, <1>18, <1>19, <1>20
  DEF PublisherNext, pipelineThread, publish, connect, brokerHandles

\* Both hold in every reachable state.
LEMMA OnceInvariant == PublisherSpec => [](OwnInv /\ OnceInv)
<1>1. PublisherInit => OwnInv /\ OnceInv
  BY OwnInit, OnceInit
<1>2. OwnInv /\ OnceInv /\ [PublisherNext]_publisherVars => (OwnInv /\ OnceInv)'
  BY OwnStep, OnceStep
<1> QED
  BY <1>1, <1>2, PTL DEF PublisherSpec

\* The broker never has a message twice, whatever breaks: publish() gives a
\* message whose confirm is late or lost up, and the next call sends its own.
THEOREM PublisherAtMostOnce == PublisherSpec => []AtMostOnce
<1>1. OnceInv => AtMostOnce
  BY DEF OnceInv, AtMostOnce, noDup
<1> QED
  BY <1>1, OnceInvariant, PTL
-----------------------------------------------------------------------------
\* There is no confirm in the inbox; there is at most one.
noConfirm(b) == ~inSeq("ack", b) /\ ~inSeq("nack", b)
oneConfirm(b) == \A j, k \in 1..Len(b) :
                   b[j] # "other" /\ b[k] # "other" => j = k

\* The publisher may still send on its connection: it is connected and will
\* not leave before the next message.
maySend == connected_ /\ (at \in {"ready", "send"} \/ (at = "loop" /\ ~stop_flag))

\* The confirm that publish() waits for is about its own message: before it
\* sends, nothing it sent earlier on the connection is unconfirmed, and while
\* it waits, there is either the message on the wire or its confirm in the
\* inbox.
OwnConfirm ==
  /\ \A s \in Sessions : s > sessions => wire[s] = <<>>
  /\ maySend => wire[conn_] = <<>> /\ noConfirm(inbox)
  /\ at = "confirm" =>
       /\ wire[conn_] = <<>> \/ (wire[conn_] = <<msg>> /\ noConfirm(inbox))
       /\ oneConfirm(inbox)
       /\ inSeq("ack", inbox) => inSeq(msg, queue)

\* What true means for the queue: the message is in it, and before every
\* later message.
TrueInQueue ==
  /\ \A m \in Messages : result[m] = "true" => inSeq(m, queue)
  /\ \A j, k \in 1..Len(queue) :
       result[queue[j]] = "true" /\ queue[j] < queue[k] => j < k

ConfirmInv == OwnConfirm /\ TrueInQueue

\* What one more frame at the end of the inbox does to its confirms.
LEMMA ConfirmAppend ==
  ASSUME NEW F, NEW b \in Seq(F), NEW f \in F
  PROVE /\ f = "other" /\ noConfirm(b) => noConfirm(Append(b, f))
        /\ f = "other" /\ oneConfirm(b) => oneConfirm(Append(b, f))
        /\ b \in Seq({"ack", "nack", "other"}) /\ noConfirm(b)
             => oneConfirm(Append(b, f))
        /\ inSeq("ack", Append(b, f)) => inSeq("ack", b) \/ f = "ack"
<1>1. /\ Len(Append(b, f)) = Len(b) + 1
      /\ \A j \in 1..Len(b) : Append(b, f)[j] = b[j]
      /\ Append(b, f)[Len(b) + 1] = f
      /\ Len(b) \in Nat
  OBVIOUS
<1>2. \A x : inSeq(x, Append(b, f)) <=> inSeq(x, b) \/ x = f
  BY InAppend
<1>3. ASSUME f = "other", oneConfirm(b) PROVE oneConfirm(Append(b, f))
  BY <1>1, <1>3 DEF oneConfirm
<1>4. ASSUME b \in Seq({"ack", "nack", "other"}), noConfirm(b)
      PROVE oneConfirm(Append(b, f))
  <2>1. \A j \in 1..Len(b) : b[j] = "other"
    BY <1>4 DEF noConfirm, inSeq
  <2> QED
    BY <1>1, <2>1 DEF oneConfirm
<1> QED
  BY <1>2, <1>3, <1>4 DEF noConfirm

\* What reading the first frame of the inbox does to its confirms.
LEMMA ConfirmTail ==
  ASSUME NEW F, NEW b \in Seq(F), b # <<>>
  PROVE /\ noConfirm(b) => noConfirm(Tail(b)) /\ Head(b) \notin {"ack", "nack"}
        /\ oneConfirm(b) => oneConfirm(Tail(b))
        /\ oneConfirm(b) /\ Head(b) # "other" => noConfirm(Tail(b))
        /\ inSeq("ack", Tail(b)) => inSeq("ack", b)
<1>1. /\ Len(b) \in Nat /\ Len(b) > 0
      /\ Len(Tail(b)) = Len(b) - 1
      /\ \A j \in 1..(Len(b) - 1) : Tail(b)[j] = b[j + 1]
      /\ Head(b) = b[1]
  OBVIOUS
<1>2. inSeq(Head(b), b) /\ \A x : inSeq(x, Tail(b)) => inSeq(x, b)
  BY InTail
<1>3. ASSUME oneConfirm(b) PROVE oneConfirm(Tail(b))
  BY <1>1, <1>3 DEF oneConfirm
<1>4. ASSUME oneConfirm(b), Head(b) # "other" PROVE noConfirm(Tail(b))
  <2>1. \A j \in 1..(Len(b) - 1) : b[j + 1] = "other"
    BY <1>1, <1>4 DEF oneConfirm
  <2> QED
    BY <1>1, <2>1 DEF noConfirm, inSeq
<1> QED
  BY <1>2, <1>3, <1>4 DEF noConfirm

\* What losing the last frames of the inbox does to its confirms.
LEMMA ConfirmPrefix ==
  ASSUME NEW F, NEW b \in Seq(F), NEW n \in 0..Len(b)
  PROVE /\ noConfirm(b) => noConfirm(SubSeq(b, 1, n))
        /\ oneConfirm(b) => oneConfirm(SubSeq(b, 1, n))
        /\ inSeq("ack", SubSeq(b, 1, n)) => inSeq("ack", b)
<1>1. /\ Len(SubSeq(b, 1, n)) = n /\ Len(b) \in Nat
      /\ \A j \in 1..n : SubSeq(b, 1, n)[j] = b[j] /\ j \in 1..Len(b)
  OBVIOUS
<1>2. \A x : inSeq(x, SubSeq(b, 1, n)) => inSeq(x, b)
  BY <1>1 DEF inSeq
<1>3. oneConfirm(b) => oneConfirm(SubSeq(b, 1, n))
  BY <1>1 DEF oneConfirm
<1> QED
  BY <1>2, <1>3 DEF noConfirm

\* At the start there is no connection, no message and no confirm.
LEMMA ConfirmInit == PublisherInit => ConfirmInv
<1> SUFFICES ASSUME PublisherInit PROVE ConfirmInv
  OBVIOUS
<1>1. OwnConfirm
  BY DEF PublisherInit, OwnConfirm, maySend
<1>2. TrueInQueue
  BY DEF PublisherInit, TrueInQueue
<1> QED
  BY <1>1, <1>2 DEF ConfirmInv

\* A step of the publisher that neither sends nor reads, and after which it may
\* send, or waits, only if it could or did before, keeps OwnConfirm.
LEMMA ConfirmQuiet ==
  ASSUME OwnConfirm, UNCHANGED <<wire, sessions, inbox, queue>>,
         maySend' => maySend /\ UNCHANGED conn_,
         at' = "confirm" => at = "confirm" /\ UNCHANGED <<conn_, msg>>
  PROVE OwnConfirm'
  BY DEF OwnConfirm

\* No step disturbs OwnConfirm.  A connection is used for another message only
\* after its confirm was read; after a timeout or an error there is a new
\* connection, and after a stop there is no other message.
LEMMA OwnConfirmStep ==
  OwnInv /\ OwnInv' /\ OwnConfirm /\ [PublisherNext]_publisherVars => OwnConfirm'
<1> SUFFICES ASSUME OwnInv, OwnInv', OwnConfirm, [PublisherNext]_publisherVars
             PROVE OwnConfirm'
  OBVIOUS
<1> USE PublisherAssumption
<1>t. /\ wire \in [Sessions -> Seq(Messages)] /\ queue \in Seq(Messages)
      /\ inbox \in Seq({"ack", "nack", "other"})
      /\ sessions \in Nat /\ msg \in Nat
  BY DEF OwnInv, PublisherTypeOK
<1>c. /\ conn_ = 0 => inbox = <<>> /\ (connected_ => at = "gone")
      /\ at \in {"connect", "handshake"} => conn_ = 0
      /\ at \in {"send", "confirm"} => connected_ /\ msg # 0
      /\ at = "disconnect" => ~connected_
      /\ \A s \in up : s = conn_
  BY DEF OwnInv, PublisherTypeOK, ConnectionOwned, ConnInv
<1>d. maySend \/ at = "confirm" => conn_ \in Sessions
  <2>1. maySend \/ at = "confirm" => conn_ # 0
    BY DEF OwnInv, PublisherTypeOK, ConnectionOwned, ConnInv, maySend
  <2> QED
    BY <2>1 DEF OwnInv, PublisherTypeOK, Sessions
<1>1. CASE loopTest
  <2>1. /\ UNCHANGED <<wire, sessions, inbox, queue>>
        /\ maySend' => maySend /\ UNCHANGED conn_
        /\ at' = "confirm" => at = "confirm" /\ UNCHANGED <<conn_, msg>>
    BY <1>1, <1>c, <1>d DEF loopTest, netVars, maySend
  <2> QED
    BY <2>1, ConfirmQuiet
<1>2. CASE noFrame
  <2>1. /\ UNCHANGED <<wire, sessions, inbox, queue>>
        /\ maySend' => maySend /\ UNCHANGED conn_
        /\ at' = "confirm" => at = "confirm" /\ UNCHANGED <<conn_, msg>>
    BY <1>2, <1>c, <1>d DEF noFrame, netVars, maySend
  <2> QED
    BY <2>1, ConfirmQuiet
<1>3. CASE callPublish
  <2>1. /\ UNCHANGED <<wire, sessions, inbox, queue>>
        /\ maySend' => maySend /\ UNCHANGED conn_
        /\ at' = "confirm" => at = "confirm" /\ UNCHANGED <<conn_, msg>>
    BY <1>3, <1>c, <1>d DEF callPublish, netVars, maySend
  <2> QED
    BY <2>1, ConfirmQuiet
<1>4. CASE newConnection
  <2>1. /\ UNCHANGED <<wire, sessions, inbox, queue>>
        /\ maySend' => maySend /\ UNCHANGED conn_
        /\ at' = "confirm" => at = "confirm" /\ UNCHANGED <<conn_, msg>>
    BY <1>4, <1>c, <1>d DEF newConnection, returns, netVars, maySend
  <2> QED
    BY <2>1, ConfirmQuiet
<1>5. CASE handshakeFails
  <2>1. /\ UNCHANGED <<wire, sessions, inbox, queue>>
        /\ maySend' => maySend /\ UNCHANGED conn_
        /\ at' = "confirm" => at = "confirm" /\ UNCHANGED <<conn_, msg>>
    BY <1>5, <1>c, <1>d DEF handshakeFails, returns, netVars, maySend
  <2> QED
    BY <2>1, ConfirmQuiet
<1>6. CASE pollTimeout
  <2>1. /\ UNCHANGED <<wire, sessions, inbox, queue>>
        /\ maySend' => maySend /\ UNCHANGED conn_
        /\ at' = "confirm" => at = "confirm" /\ UNCHANGED <<conn_, msg>>
    BY <1>6, <1>c, <1>d DEF pollTimeout, returns, netVars, maySend
  <2> QED
    BY <2>1, ConfirmQuiet
<1>7. CASE pollError
  <2>1. /\ UNCHANGED <<wire, sessions, inbox, queue>>
        /\ maySend' => maySend /\ UNCHANGED conn_
        /\ at' = "confirm" => at = "confirm" /\ UNCHANGED <<conn_, msg>>
    BY <1>7, <1>c, <1>d DEF pollError, returns, netVars, maySend
  <2> QED
    BY <2>1, ConfirmQuiet
<1>8. CASE confirmTimeout
  <2>1. /\ UNCHANGED <<wire, sessions, inbox, queue>>
        /\ maySend' => maySend /\ UNCHANGED conn_
        /\ at' = "confirm" => at = "confirm" /\ UNCHANGED <<conn_, msg>>
    BY <1>8, <1>c, <1>d
      DEF confirmTimeout, returns, connectedAfterTimeout, netVars, maySend
  <2> QED
    BY <2>1, ConfirmQuiet
<1>9. CASE setStop
  <2>1. /\ UNCHANGED <<wire, sessions, inbox, queue>>
        /\ maySend' => maySend /\ UNCHANGED conn_
        /\ at' = "confirm" => at = "confirm" /\ UNCHANGED <<conn_, msg>>
    BY <1>9, <1>c, <1>d DEF setStop, clientVars, netVars, maySend
  <2> QED
    BY <2>1, ConfirmQuiet
<1>10. CASE reconnectStart \/ destructor
  BY <1>10 DEF reconnectStart, destructor, disconnect, OwnConfirm, maySend
<1>11. CASE handshakeSucceeds
  <2>1. /\ conn_' = sessions + 1 /\ sessions' = sessions + 1
        /\ UNCHANGED <<wire, inbox, queue>>
        /\ at' # "confirm" /\ inbox = <<>>
    BY <1>11, <1>c, <1>d DEF handshakeSucceeds, returns
  <2>2. conn_' \in Sessions
    BY <1>11, <1>t DEF handshakeSucceeds, Sessions
  <2>3. wire[conn_'] = <<>> /\ noConfirm(inbox)
    BY <1>t, <2>1, <2>2 DEF OwnConfirm, noConfirm, inSeq
  <2>4. \A s \in Sessions : s > sessions' => wire'[s] = <<>>
    BY <1>t, <2>1 DEF OwnConfirm, Sessions
  <2> QED
    BY <2>1, <2>3, <2>4 DEF OwnConfirm
<1>12. CASE send
  <2>1. /\ maySend /\ conn_ \in Sessions /\ wire[conn_] = <<>> /\ noConfirm(inbox)
        /\ conn_ <= sessions
    BY <1>12, <1>c, <1>d DEF send, maySend, OwnConfirm, OwnInv, PublisherTypeOK
  <2>2. oneConfirm(inbox) /\ ~inSeq("ack", inbox)
    BY <1>t, <2>1 DEF noConfirm, oneConfirm, inSeq
  <2>3. UNCHANGED <<conn_, sessions, inbox, queue, msg>> /\ ~maySend'
    BY <1>12, <1>c, <1>d, Zenon DEF send, returns, maySend
  <2>4. /\ wire'[conn_] \in {<<>>, <<msg>>}
        /\ \A s \in Sessions : s # conn_ => wire'[s] = wire[s]
    BY <1>12, <1>t, <2>1 DEF send
  <2>5. \A s \in Sessions : s > sessions => wire'[s] = <<>>
    BY <1>t, <2>1, <2>4 DEF OwnConfirm, Sessions
  <2> QED
    BY <2>1, <2>2, <2>3, <2>4, <2>5 DEF OwnConfirm
<1>13. CASE pollFrame
  <2>1. /\ at = "confirm" /\ inbox # <<>> /\ inbox' = Tail(inbox) /\ msg # 0
        /\ UNCHANGED <<wire, conn_, sessions, queue, msg>>
    BY <1>13, <1>c, <1>d DEF pollFrame
  <2>2. /\ noConfirm(inbox) => noConfirm(inbox') /\ Head(inbox) \notin {"ack", "nack"}
        /\ oneConfirm(inbox) => oneConfirm(inbox')
        /\ oneConfirm(inbox) /\ Head(inbox) # "other" => noConfirm(inbox')
        /\ inSeq("ack", inbox') => inSeq("ack", inbox)
    BY <1>t, <2>1, ConfirmTail
  <2>3. CASE Head(inbox) = "other"
    <3>1. at' = "confirm"
      BY <1>13, <2>1, <2>3 DEF pollFrame
    <3> QED
      BY <2>1, <2>2, <3>1 DEF OwnConfirm, maySend
  <2>4. CASE Head(inbox) \in {"ack", "nack"}
    <3>1. at' = "loop"
      BY <1>13, <2>1, <2>4 DEF pollFrame, returns
    <3>2. wire'[conn_'] = <<>> /\ noConfirm(inbox')
      BY <2>1, <2>2, <2>4 DEF OwnConfirm
    <3> QED
      BY <2>1, <3>1, <3>2 DEF OwnConfirm
  <2> QED
    BY <1>13, <2>3, <2>4 DEF pollFrame
<1>14. CASE \E s \in Sessions : brokerAccepts(s)
  <2> PICK s \in Sessions : brokerAccepts(s)
    BY <1>14
  <2>1. /\ wire[s] # <<>> /\ wire'[s] = Tail(wire[s])
        /\ \A t \in Sessions : t # s => wire'[t] = wire[t]
        /\ UNCHANGED <<at, conn_, msg, sessions>> /\ (maySend' <=> maySend)
        /\ inbox' = IF s \in up THEN Append(inbox, "ack") ELSE inbox
    BY <1>t DEF brokerAccepts, clientVars, maySend
  <2>2. \A t \in Sessions : t > sessions' => wire'[t] = <<>>
    BY <2>1 DEF OwnConfirm
  <2>3. Head(wire[s]) \in Messages
    BY <1>t, <2>1
  <2>4. \A m : inSeq(m, queue) => inSeq(m, queue')
    BY <1>t, <2>3, InAppend DEF brokerAccepts
  <2>5. CASE s = conn_
    <3>1. ~maySend
      BY <2>1, <2>5 DEF OwnConfirm
    <3>2. ASSUME at = "confirm"
          PROVE wire[s] = <<msg>> /\ noConfirm(inbox)
      BY <2>1, <2>5, <3>2 DEF OwnConfirm
    <3>3. ASSUME at = "confirm"
          PROVE wire'[conn_] = <<>> /\ Head(wire[s]) = msg /\ msg \in Messages
      <4>1. Tail(<<msg>>) = <<>> /\ Head(<<msg>>) = msg
        BY <1>t
      <4> QED
        BY <2>1, <2>3, <2>5, <3>2, <3>3, <4>1, Zenon
    <3>4. ASSUME at = "confirm", inSeq("ack", inbox') PROVE inSeq(msg, queue')
      BY <1>t, <3>3, <3>4, InAppend DEF brokerAccepts
    <3>5. ASSUME at = "confirm" PROVE oneConfirm(inbox')
      <4>1. oneConfirm(Append(inbox, "ack"))
        BY <1>t, <3>2, <3>5, ConfirmAppend
      <4> QED
        BY <2>1, <3>5, <4>1 DEF OwnConfirm
    <3> QED
      BY <2>1, <2>2, <3>1, <3>3, <3>4, <3>5 DEF OwnConfirm
  <2>6. CASE s # conn_
    <3>1. UNCHANGED inbox
      BY <1>c, <1>d, <2>1, <2>6
    <3>2. maySend \/ at = "confirm" => wire'[conn_] = wire[conn_]
      BY <1>c, <1>d, <2>1, <2>6
    <3> QED
      BY <2>1, <2>2, <2>4, <3>1, <3>2 DEF OwnConfirm
  <2> QED
    BY <2>5, <2>6
<1>15. CASE \E s \in Sessions : brokerRefuses(s)
  <2> PICK s \in Sessions : brokerRefuses(s)
    BY <1>15
  <2>1. /\ wire[s] # <<>> /\ wire'[s] = Tail(wire[s])
        /\ \A t \in Sessions : t # s => wire'[t] = wire[t]
        /\ UNCHANGED <<at, conn_, msg, sessions>> /\ (maySend' <=> maySend)
        /\ inbox' = IF s \in up THEN Append(inbox, "nack") ELSE inbox
    BY <1>t DEF brokerRefuses, clientVars, maySend
  <2>2. \A t \in Sessions : t > sessions' => wire'[t] = <<>>
    BY <2>1 DEF OwnConfirm
  <2>3. Head(wire[s]) \in Messages
    BY <1>t, <2>1
  <2>4. \A m : inSeq(m, queue) => inSeq(m, queue')
    BY <1>t, <2>3, InAppend DEF brokerRefuses
  <2>5. CASE s = conn_
    <3>1. ~maySend
      BY <2>1, <2>5 DEF OwnConfirm
    <3>2. ASSUME at = "confirm"
          PROVE wire[s] = <<msg>> /\ noConfirm(inbox)
      BY <2>1, <2>5, <3>2 DEF OwnConfirm
    <3>3. ASSUME at = "confirm"
          PROVE wire'[conn_] = <<>> /\ Head(wire[s]) = msg /\ msg \in Messages
      <4>1. Tail(<<msg>>) = <<>> /\ Head(<<msg>>) = msg
        BY <1>t
      <4> QED
        BY <2>1, <2>3, <2>5, <3>2, <3>3, <4>1, Zenon
    <3>4. ASSUME at = "confirm", inSeq("ack", inbox') PROVE inSeq(msg, queue')
      <4>1. ~inSeq("ack", Append(inbox, "nack"))
        BY <1>t, <3>2, <3>4, ConfirmAppend DEF noConfirm
      <4> QED
        BY <2>1, <3>2, <3>4, <4>1 DEF noConfirm
    <3>5. ASSUME at = "confirm" PROVE oneConfirm(inbox')
      <4>1. oneConfirm(Append(inbox, "nack"))
        BY <1>t, <3>2, <3>5, ConfirmAppend
      <4> QED
        BY <2>1, <3>5, <4>1 DEF OwnConfirm
    <3> QED
      BY <2>1, <2>2, <3>1, <3>3, <3>4, <3>5 DEF OwnConfirm
  <2>6. CASE s # conn_
    <3>1. UNCHANGED inbox
      BY <1>c, <1>d, <2>1, <2>6
    <3>2. maySend \/ at = "confirm" => wire'[conn_] = wire[conn_]
      BY <1>c, <1>d, <2>1, <2>6
    <3> QED
      BY <2>1, <2>2, <2>4, <3>1, <3>2 DEF OwnConfirm
  <2> QED
    BY <2>5, <2>6
<1>16. CASE brokerSpeaks
  <2>1. /\ inbox' = Append(inbox, "other") /\ (maySend' <=> maySend)
        /\ UNCHANGED <<at, conn_, msg, sessions, wire, queue>>
    BY <1>16 DEF brokerSpeaks, clientVars, maySend
  <2>2. /\ noConfirm(inbox) => noConfirm(inbox')
        /\ oneConfirm(inbox) => oneConfirm(inbox')
        /\ inSeq("ack", inbox') => inSeq("ack", inbox)
    BY <1>t, <2>1, ConfirmAppend
  <2> QED
    BY <2>1, <2>2 DEF OwnConfirm
<1>17. CASE \E s \in Sessions : sessionBreaks(s)
  <2>1. /\ (maySend' <=> maySend)
        /\ UNCHANGED <<at, conn_, msg, sessions, wire, queue>>
    BY <1>17 DEF sessionBreaks, clientVars, maySend
  <2>2. PICK n \in 0..Len(inbox) : inbox' = SubSeq(inbox, 1, n)
    BY <1>17 DEF sessionBreaks
  <2>3. /\ noConfirm(inbox) => noConfirm(inbox')
        /\ oneConfirm(inbox) => oneConfirm(inbox')
        /\ inSeq("ack", inbox') => inSeq("ack", inbox)
    BY <1>t, <2>2, ConfirmPrefix
  <2> QED
    BY <2>1, <2>3 DEF OwnConfirm
<1>18. CASE \E s \in Sessions : leftoverLost(s)
  <2>1. /\ (maySend' <=> maySend)
        /\ UNCHANGED <<at, conn_, msg, sessions, inbox, queue>>
        /\ \A t \in Sessions : wire'[t] \in {wire[t], <<>>}
    BY <1>18, <1>t DEF leftoverLost, clientVars, maySend
  <2> QED
    BY <1>c, <1>d, <2>1 DEF OwnConfirm
<1>19. CASE UNCHANGED publisherVars
  BY <1>19 DEF publisherVars, clientVars, netVars, OwnConfirm, maySend
<1> QED
  BY <1>1, <1>2, <1>3, <1>4, <1>5, <1>6, <1>7, <1>8, <1>9, <1>10, <1>11, <1>12, <1>13,
       <1>14, <1>15, <1>16, <1>17, <1>18, <1>19
  DEF PublisherNext, pipelineThread, publish, connect, brokerHandles

\* A step at which the queue stays and publish() says true of no further
\* message keeps TrueInQueue.
LEMMA TrueQuiet ==
  ASSUME TrueInQueue, queue \in Seq(Messages), UNCHANGED queue,
         \A m \in Messages : result'[m] = "true" => result[m] = "true"
  PROVE TrueInQueue'
<1>1. \A j \in 1..Len(queue) : queue[j] \in Messages
  OBVIOUS
<1> QED
  BY <1>1 DEF TrueInQueue

\* No step disturbs TrueInQueue: the message whose ack is read is the last one
\* sent, and what the broker takes later was not confirmed before.
LEMMA TrueInQueueStep ==
  /\ OwnInv /\ OnceInv /\ ConfirmInv
  /\ [PublisherNext]_publisherVars
  => TrueInQueue'
<1> SUFFICES ASSUME OwnInv, OnceInv, OwnConfirm, TrueInQueue,
                    [PublisherNext]_publisherVars
             PROVE TrueInQueue'
  BY DEF ConfirmInv
<1> USE PublisherAssumption
<1>t. /\ wire \in [Sessions -> Seq(Messages)] /\ queue \in Seq(Messages)
      /\ result \in [Messages -> {"none", "true", "false", "skipped"}]
      /\ msg \in Nat /\ Messages \subseteq Nat
  BY DEF OwnInv, PublisherTypeOK, Messages
<1>q. \A j \in 1..Len(queue) : queue[j] \in Messages
  BY <1>t
<1>1. CASE loopTest
  <2>1. /\ UNCHANGED queue
        /\ \A m \in Messages : result'[m] = "true" => result[m] = "true"
    BY <1>1, <1>t DEF loopTest, netVars
  <2> QED
    BY <1>t, <2>1, TrueQuiet
<1>2. CASE noFrame
  <2>1. /\ UNCHANGED queue
        /\ \A m \in Messages : result'[m] = "true" => result[m] = "true"
    BY <1>2, <1>t DEF noFrame, netVars
  <2> QED
    BY <1>t, <2>1, TrueQuiet
<1>3. CASE callPublish
  <2>1. /\ UNCHANGED queue
        /\ \A m \in Messages : result'[m] = "true" => result[m] = "true"
    BY <1>3, <1>t DEF callPublish, netVars
  <2> QED
    BY <1>t, <2>1, TrueQuiet
<1>4. CASE reconnectStart \/ destructor
  <2>1. /\ UNCHANGED queue
        /\ \A m \in Messages : result'[m] = "true" => result[m] = "true"
    BY <1>4, <1>t DEF reconnectStart, destructor, disconnect
  <2> QED
    BY <1>t, <2>1, TrueQuiet
<1>5. CASE newConnection
  <2>1. /\ UNCHANGED queue
        /\ \A m \in Messages : result'[m] = "true" => result[m] = "true"
    BY <1>5, <1>t DEF newConnection, returns, netVars
  <2> QED
    BY <1>t, <2>1, TrueQuiet
<1>6. CASE handshakeFails
  <2>1. /\ UNCHANGED queue
        /\ \A m \in Messages : result'[m] = "true" => result[m] = "true"
    BY <1>6, <1>t DEF handshakeFails, returns, netVars
  <2> QED
    BY <1>t, <2>1, TrueQuiet
<1>7. CASE handshakeSucceeds
  <2>1. /\ UNCHANGED queue
        /\ \A m \in Messages : result'[m] = "true" => result[m] = "true"
    BY <1>7, <1>t DEF handshakeSucceeds, returns, netVars
  <2> QED
    BY <1>t, <2>1, TrueQuiet
<1>8. CASE send
  <2>1. /\ UNCHANGED queue
        /\ \A m \in Messages : result'[m] = "true" => result[m] = "true"
    BY <1>8, <1>t DEF send, returns, netVars
  <2> QED
    BY <1>t, <2>1, TrueQuiet
<1>9. CASE pollTimeout
  <2>1. /\ UNCHANGED queue
        /\ \A m \in Messages : result'[m] = "true" => result[m] = "true"
    BY <1>9, <1>t DEF pollTimeout, returns, netVars
  <2> QED
    BY <1>t, <2>1, TrueQuiet
<1>10. CASE pollError
  <2>1. /\ UNCHANGED queue
        /\ \A m \in Messages : result'[m] = "true" => result[m] = "true"
    BY <1>10, <1>t DEF pollError, returns, netVars
  <2> QED
    BY <1>t, <2>1, TrueQuiet
<1>11. CASE confirmTimeout
  <2>1. /\ UNCHANGED queue
        /\ \A m \in Messages : result'[m] = "true" => result[m] = "true"
    BY <1>11, <1>t DEF confirmTimeout, returns, netVars
  <2> QED
    BY <1>t, <2>1, TrueQuiet
<1>12. CASE brokerSpeaks
  <2>1. /\ UNCHANGED queue
        /\ \A m \in Messages : result'[m] = "true" => result[m] = "true"
    BY <1>12, <1>t DEF brokerSpeaks, clientVars, netVars
  <2> QED
    BY <1>t, <2>1, TrueQuiet
<1>13. CASE setStop
  <2>1. /\ UNCHANGED queue
        /\ \A m \in Messages : result'[m] = "true" => result[m] = "true"
    BY <1>13, <1>t DEF setStop, clientVars, netVars
  <2> QED
    BY <1>t, <2>1, TrueQuiet
<1>14. CASE pollFrame
  <2>1. CASE Head(inbox) # "ack"
    <3>1. /\ UNCHANGED queue
          /\ \A m \in Messages : result'[m] = "true" => result[m] = "true"
      BY <1>14, <1>t, <2>1 DEF pollFrame, returns
    <3> QED
      BY <1>t, <3>1, TrueQuiet
  <2>2. CASE Head(inbox) = "ack"
    <3>1. /\ at = "confirm" /\ inbox # <<>> /\ UNCHANGED queue
          /\ \A m \in Messages : result'[m] = "true" => result[m] = "true" \/ m = msg
      BY <1>14, <1>t, <2>2 DEF pollFrame, returns
    <3>2. inSeq("ack", inbox)
      BY <2>2, <3>1, InTail DEF OwnInv, PublisherTypeOK
    <3>3. inSeq(msg, queue)
      BY <3>1, <3>2 DEF OwnConfirm
    <3>4. \A j \in 1..Len(queue) : queue[j] <= msg
      <4> TAKE j \in 1..Len(queue)
      <4>1. queue[j] \in Messages /\ inSeq(queue[j], queue)
        BY <1>q DEF inSeq
      <4>2. ~(queue[j] > msg)
        BY <4>1 DEF OnceInv, fresh
      <4>3. queue[j] \in Nat
        BY <1>t, <4>1
      <4> QED
        BY <1>t, <4>2, <4>3
    <3>5. ASSUME NEW j \in 1..Len(queue), NEW l \in 1..Len(queue),
                 result'[queue[j]] = "true", queue[j] < queue[l]
          PROVE j < l
      <4>1. queue[j] # msg
        <5>1. queue[j] \in Nat /\ queue[l] \in Nat /\ queue[l] <= msg
          BY <1>t, <1>q, <3>4, Zenon
        <5> QED
          BY <1>t, <3>5, <5>1
      <4> QED
        BY <1>q, <3>1, <3>5, <4>1 DEF TrueInQueue
    <3>6. \A m \in Messages : result'[m] = "true" => inSeq(m, queue')
      BY <3>1, <3>3 DEF TrueInQueue
    <3> QED
      BY <3>1, <3>5, <3>6 DEF TrueInQueue
  <2> QED
    BY <2>1, <2>2
<1>15. CASE \E s \in Sessions : brokerAccepts(s)
  <2> PICK s \in Sessions : brokerAccepts(s)
    BY <1>15
  <2> DEFINE h == Head(wire[s])
  <2>1. wire[s] \in Seq(Messages) /\ wire[s] # <<>> /\ h \in Messages
    BY <1>t DEF brokerAccepts
  <2>2. queue' = Append(queue, h) /\ UNCHANGED result
    BY DEF brokerAccepts, clientVars
  <2> HIDE DEF h
  <2>3. result[h] # "true"
    <3>1. inSeq(h, wire[s])
      BY <2>1, InTail DEF h
    <3> QED
      BY <2>1, <3>1 DEF OnceInv, TrueInQueue
  <2>4. /\ Len(queue') = Len(queue) + 1 /\ queue'[Len(queue) + 1] = h
        /\ \A j \in 1..Len(queue) : queue'[j] = queue[j]
        /\ Len(queue) \in Nat
    BY <1>t, <2>1, <2>2
  <2>5. \A m \in Messages : result'[m] = "true" => inSeq(m, queue')
    BY <1>t, <2>1, <2>2, InAppend DEF TrueInQueue
  <2>6. ASSUME NEW j \in 1..Len(queue'), NEW l \in 1..Len(queue'),
               result'[queue'[j]] = "true", queue'[j] < queue'[l]
        PROVE j < l
    <3>1. j \in 1..Len(queue)
      BY <2>2, <2>3, <2>4, <2>6
    <3>2. CASE l = Len(queue) + 1
      BY <2>4, <3>1, <3>2
    <3>3. CASE l \in 1..Len(queue)
      BY <2>2, <2>4, <2>6, <3>1, <3>3 DEF TrueInQueue
    <3> QED
      BY <2>4, <3>2, <3>3
  <2> QED
    BY <2>5, <2>6 DEF TrueInQueue
<1>16. CASE \E s \in Sessions :
              brokerRefuses(s) \/ sessionBreaks(s) \/ leftoverLost(s)
  <2>1. UNCHANGED <<queue, result>>
    BY <1>16 DEF brokerRefuses, sessionBreaks, leftoverLost, clientVars
  <2> QED
    BY <1>t, <2>1, TrueQuiet
<1>17. CASE UNCHANGED publisherVars
  <2>1. UNCHANGED <<queue, result>>
    BY <1>17 DEF publisherVars, clientVars, netVars
  <2> QED
    BY <1>t, <2>1, TrueQuiet
<1> QED
  BY <1>1, <1>2, <1>3, <1>4, <1>5, <1>6, <1>7, <1>8, <1>9, <1>10, <1>11, <1>12, <1>13,
       <1>14, <1>15, <1>16, <1>17
  DEF PublisherNext, pipelineThread, publish, connect, brokerHandles

\* The three invariants together.
LEMMA ConfirmInvariant == PublisherSpec => [](OwnInv /\ OnceInv /\ ConfirmInv)
<1> DEFINE I == OwnInv /\ OnceInv /\ ConfirmInv
<1>1. PublisherInit => I
  BY OwnInit, OnceInit, ConfirmInit
<1>2. I /\ [PublisherNext]_publisherVars => I'
  BY OwnStep, OnceStep, OwnConfirmStep, TrueInQueueStep DEF ConfirmInv
<1> QED
  BY <1>1, <1>2, PTL DEF PublisherSpec

\* publish() returns true only for a message that the broker has, and the
\* broker has those messages in the order of the calls, although publish()
\* takes any ack for its own.
THEOREM PublisherConfirmedQueuedInOrder ==
  PublisherSpec => []ConfirmedQueuedInOrder
<1>1. OwnInv /\ TrueInQueue => ConfirmedQueuedInOrder
  <2> SUFFICES ASSUME OwnInv, TrueInQueue, NEW m \in Messages, NEW n \in Messages,
                      result[m] = "true", result[n] = "true", m <= n
               PROVE \E j, k \in 1..Len(queue) :
                       j <= k /\ queue[j] = m /\ queue[k] = n
    BY DEF ConfirmedQueuedInOrder
  <2>1. PICK j \in 1..Len(queue) : queue[j] = m
    BY DEF TrueInQueue, inSeq
  <2>2. PICK k \in 1..Len(queue) : queue[k] = n
    BY DEF TrueInQueue, inSeq
  <2>3. CASE m = n
    BY <2>1, <2>3
  <2>4. CASE m < n
    <3>1. j < k
      BY <2>1, <2>2, <2>4 DEF TrueInQueue
    <3> QED
      BY <2>1, <2>2, <3>1
  <2> QED
    BY <2>3, <2>4 DEF Messages
<1> QED
  BY <1>1, ConfirmInvariant, PTL DEF ConfirmInv
-----------------------------------------------------------------------------
\* publish(), or the constructor, is in one of its calls.
Busy == {"disconnect", "connect", "handshake", "send", "confirm"}

\* What a step of publish() is to its caller: the call is skipped at once, it
\* begins, it goes on, or it returns true or false.
LEMMA PublishShapes ==
  ASSUME PublisherTypeOK, publish, at # "ready" => msg # 0
  PROVE  /\ UNCHANGED queue
         /\ \/ /\ at = "ready" /\ msg' = msg + 1 /\ msg' \in Messages
               /\ at' = "loop" /\ result' = [result EXCEPT ![msg'] = "skipped"]
            \/ /\ at = "ready" /\ msg' = msg + 1 /\ msg' \in Messages
               /\ at' \in Busy /\ UNCHANGED result
            \/ at \in Busy /\ at' \in Busy /\ UNCHANGED <<msg, result>>
            \/ /\ at \in Busy /\ at' = "loop" /\ UNCHANGED msg
               /\ \E v \in {"true", "false"} : result' = [result EXCEPT ![msg] = v]
<1> USE DEF Busy, netVars
<1>1. CASE callPublish
  <2>1. at = "ready" /\ msg' = msg + 1 /\ msg' \in Messages
    BY <1>1, PublisherAssumption DEF callPublish, PublisherTypeOK, Messages
  <2> QED
    BY <1>1, <2>1 DEF callPublish
<1>2. CASE reconnectStart
  BY <1>2 DEF reconnectStart, disconnect
<1>3. CASE connect
  BY <1>3 DEF connect, newConnection, handshakeFails, handshakeSucceeds, returns
<1>4. CASE send
  BY <1>4 DEF send, returns
<1>5. CASE pollTimeout
  BY <1>5 DEF pollTimeout, returns
<1>6. CASE pollError \/ pollFrame \/ confirmTimeout
  BY <1>6 DEF pollError, pollFrame, confirmTimeout, returns
<1> QED
  BY <1>1, <1>2, <1>3, <1>4, <1>5, <1>6 DEF publish

\* Message m is with nobody.
nowhere(m) == ~inSeq(m, queue) /\ \A s \in Sessions : ~inSeq(m, wire[s])

\* Which calls have returned, and that a message that is skipped is not sent.
ResultInv ==
  /\ \A m \in Messages : result[m] = "none" <=> m > msg \/ (m = msg /\ at \in Busy)
  /\ \A m \in Messages : result[m] = "skipped" => nowhere(m)

\* Only the call that a message belongs to can send it.
LEMMA SentByItsCall ==
  ASSUME OwnInv, PublisherNext, NEW m \in Messages, nowhere(m),
         at = "send" => m # msg
  PROVE  nowhere(m)'
<1>t. /\ wire \in [Sessions -> Seq(Messages)] /\ queue \in Seq(Messages)
      /\ msg \in 0..MaxMessages
  BY DEF OwnInv, PublisherTypeOK
<1>1. CASE UNCHANGED <<wire, queue>>
  BY <1>1 DEF nowhere
<1>2. CASE send
  <2>1. CASE wire' = [wire EXCEPT ![conn_] = Append(@, msg)] /\ conn_ \in up
    <3>1. /\ at = "send" /\ msg # 0 /\ m # msg /\ queue' = queue
      BY <1>2 DEF send, OwnInv, ConnInv
    <3>0. conn_ \in Sessions /\ msg \in Messages
      <4>1. conn_ \in 1..sessions /\ sessions \in 0..MaxSessions
        BY <2>1 DEF OwnInv, PublisherTypeOK
      <4> QED
        BY <1>t, <3>1, <4>1, PublisherAssumption DEF Sessions, Messages
    <3>2. /\ wire'[conn_] = Append(wire[conn_], msg)
          /\ \A s \in Sessions : s # conn_ => wire'[s] = wire[s]
      BY <1>t, <2>1, <3>0
    <3>3. wire[conn_] \in Seq(Messages)
      BY <1>t, <3>0
    <3>4. ~inSeq(m, wire'[conn_])
      BY <3>0, <3>1, <3>2, <3>3, InAppend DEF nowhere
    <3> QED
      BY <3>1, <3>2, <3>4, Zenon DEF nowhere
  <2> QED
    BY <1>1, <1>2, <2>1 DEF send
<1>3. ASSUME NEW s \in Sessions, wire[s] # <<>>, wire' = [wire EXCEPT ![s] = Tail(@)]
      PROVE \A t \in Sessions : ~inSeq(m, wire'[t]) /\ m # Head(wire[s])
  <2>1. /\ wire'[s] = Tail(wire[s]) /\ wire[s] \in Seq(Messages)
        /\ \A t \in Sessions : t # s => wire'[t] = wire[t]
    BY <1>3, <1>t
  <2>2. inSeq(Head(wire[s]), wire[s]) /\ (inSeq(m, wire'[s]) => inSeq(m, wire[s]))
    BY <1>3, <2>1, InTail
  <2> QED
    BY <2>1, <2>2 DEF nowhere
<1>4. CASE \E s \in Sessions : brokerAccepts(s)
  <2> PICK s \in Sessions : brokerAccepts(s)
    BY <1>4
  <2>1. /\ wire[s] # <<>> /\ wire' = [wire EXCEPT ![s] = Tail(@)]
        /\ queue' = Append(queue, Head(wire[s]))
    BY DEF brokerAccepts
  <2>2. (\A t \in Sessions : ~inSeq(m, wire'[t])) /\ m # Head(wire[s])
    BY <1>3, <2>1, Zenon
  <2>3. Head(wire[s]) \in Messages
    BY <1>t, <2>1, WireTail
  <2>4. ~inSeq(m, queue')
    BY <1>t, <2>1, <2>2, <2>3, InAppend DEF nowhere
  <2> QED
    BY <2>2, <2>4 DEF nowhere
<1>5. CASE \E s \in Sessions : brokerRefuses(s)
  BY <1>3, <1>5, Zenon DEF brokerRefuses, nowhere
<1>6. CASE \E s \in Sessions : leftoverLost(s)
  <2> PICK s \in Sessions : leftoverLost(s)
    BY <1>6
  <2>1. /\ wire'[s] = <<>> /\ UNCHANGED queue
        /\ \A t \in Sessions : t # s => wire'[t] = wire[t]
    BY <1>t DEF leftoverLost
  <2>2. ~inSeq(m, wire'[s])
    BY <2>1 DEF inSeq
  <2> QED
    BY <2>1, <2>2 DEF nowhere
<1>7. CASE \/ loopTest \/ noFrame \/ destructor \/ setStop \/ brokerSpeaks
           \/ \E s \in Sessions : sessionBreaks(s)
           \/ UNCHANGED publisherVars
  <2>1. UNCHANGED <<wire, queue>>
    BY <1>7, Zenon DEF loopTest, noFrame, destructor, disconnect, setStop, brokerSpeaks,
                sessionBreaks, publisherVars, netVars
  <2> QED
    BY <1>1, <2>1, Zenon
<1>8. CASE publish /\ ~send
  <2>1. UNCHANGED <<wire, queue>>
    BY <1>8, Zenon DEF publish, callPublish, reconnectStart, disconnect, connect,
                newConnection, handshakeFails, handshakeSucceeds, pollTimeout,
                pollError, pollFrame, confirmTimeout, netVars
  <2> QED
    BY <1>1, <2>1, Zenon
<1> QED
  BY <1>2, <1>4, <1>5, <1>6, <1>7, <1>8
  DEF PublisherNext, pipelineThread, publish, brokerHandles

\* No step disturbs ResultInv: a call sets the result of its own message.
LEMMA ResultStep ==
  ASSUME OwnInv, OnceInv, ResultInv, [PublisherNext]_publisherVars
  PROVE  ResultInv'
<1>t. msg \in 0..MaxMessages /\ result \in [Messages -> {"none", "true", "false", "skipped"}]
  BY DEF OwnInv, PublisherTypeOK
<1>n. MaxMessages \in Nat /\ Messages \subseteq Nat \ {0}
  BY PublisherAssumption DEF Messages
<1>1. ASSUME NEW m \in Messages
      PROVE (result[m] = "none" <=> m > msg \/ (m = msg /\ at \in Busy))'
  <2>1. CASE publish /\ (at # "ready" => msg # 0)
    <3>1. PublisherTypeOK
      BY DEF OwnInv
    <3> QED
      BY <1>t, <1>n, <2>1, <3>1, PublishShapes DEF ResultInv, Busy
  <2>2. CASE publish /\ at # "ready" /\ msg = 0
    <3>1. msg' = 0 /\ result' = result
      BY <2>2
        DEF publish, callPublish, reconnectStart, disconnect, connect, newConnection,
                  handshakeFails, handshakeSucceeds, returns, send, pollTimeout,
                  pollError, pollFrame, confirmTimeout, OwnInv, ConnInv
    <3> QED
      BY <1>n, <2>2, <3>1, Zenon DEF ResultInv
  <2>3. CASE ~publish
    <3>1. UNCHANGED <<msg, result>> /\ (at \in Busy <=> at' \in Busy)
      BY <2>3
        DEF PublisherNext, pipelineThread, loopTest, noFrame, destructor, disconnect,
         setStop, brokerHandles, brokerAccepts, brokerRefuses, brokerSpeaks, sessionBreaks,
         leftoverLost, publisherVars, clientVars, Busy
    <3> QED
      BY <3>1 DEF ResultInv
  <2> QED
    BY <2>1, <2>2, <2>3
<1>2. ASSUME NEW m \in Messages, (result[m] = "skipped")' PROVE nowhere(m)'
  <2>1. CASE UNCHANGED publisherVars
    BY <1>2, <2>1 DEF publisherVars, clientVars, netVars, nowhere, ResultInv
  <2>2. CASE PublisherNext /\ result[m] = "skipped"
    <3>1. at = "send" => m # msg
      BY <2>2 DEF ResultInv, Busy
    <3> QED
      BY <2>2, <3>1, SentByItsCall DEF ResultInv
  <2>3. CASE PublisherNext /\ result[m] # "skipped"
    <3>1. at = "ready" /\ m = msg + 1
      BY <1>2, <1>t, <2>3, Zenon
        DEF PublisherNext, pipelineThread, publish, callPublish, reconnectStart,
         disconnect, connect, newConnection,
         handshakeFails, handshakeSucceeds, returns, send, pollTimeout,
         pollError, pollFrame, confirmTimeout, loopTest, noFrame, destructor,
         setStop, brokerHandles, brokerAccepts, brokerRefuses, brokerSpeaks, sessionBreaks,
         leftoverLost, publisherVars, clientVars
    <3>2. nowhere(m)
      BY <1>t, <1>n, <3>1 DEF OnceInv, fresh, nowhere
    <3> QED
      BY <2>3, <3>1, <3>2, SentByItsCall
  <2> QED
    BY <2>1, <2>2, <2>3
<1> QED
  BY <1>1, <1>2 DEF ResultInv

PublisherInv == OwnInv /\ OnceInv /\ ConfirmInv /\ ResultInv

\* All four invariants hold in every reachable state.
LEMMA PublisherInvariant == PublisherSpec => []PublisherInv
<1>1. PublisherInit => ResultInv
  <2> SUFFICES ASSUME PublisherInit PROVE ResultInv
    OBVIOUS
  <2>1. \A m \in Messages : m > msg /\ result[m] = "none"
    BY PublisherAssumption DEF PublisherInit, Messages
  <2> QED
    BY <2>1 DEF ResultInv
<1>2. OwnInv /\ OnceInv /\ ResultInv /\ [PublisherNext]_publisherVars => ResultInv'
  BY ResultStep
<1> QED
  BY <1>1, <1>2, ConfirmInvariant, PTL DEF PublisherSpec, PublisherInv
=============================================================================
