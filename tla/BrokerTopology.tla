--------------------------- MODULE BrokerTopology ---------------------------
(***************************************************************************)
(* The queues behind the publisher as infra/rabbitmq/definitions.json      *)
(* declares them, and scripts/reset.sh, which purges them.  What RabbitMQ  *)
(* does with such a declaration is external: a queue over its length drops *)
(* its head, a message older than the time to live leaves it, and both go  *)
(* to the dead-letter exchange.  The publisher sends with delivery mode 1, *)
(* so a restart of the broker keeps the durable queues without contents.   *)
(***************************************************************************)
EXTENDS Naturals, Sequences, Functions

CONSTANTS
  MaxLength,     \* x-max-length of raw_packets.spring
  MaxBytes,      \* its x-max-length-bytes
  Sizes,         \* sizes of messages
  TTL,           \* its x-message-ttl
  MaxMessages,   \* bound: messages published
  MaxClock       \* bound: the clock

ASSUME TopologyAssumption ==
  MaxLength \in Nat /\ MaxBytes \in Nat /\ Sizes \subseteq Nat

VARIABLES
  content,     \* of each queue: [id, size, since] in order
  clock,
  published,   \* how many messages the exchange has taken
  consumed,    \* those a consumer has taken from raw_packets.spring
  gone         \* those a purge or a restart has removed

topologyVars == <<content, clock, published, consumed, gone>>

exchangeType ==
  [x \in {"raw_packets", "raw_packets.dead_letter"} |->
     IF x = "raw_packets" THEN "direct" ELSE "fanout"]
Queues == {"raw_packets.spring", "raw_packets.failed"}
bound(source, queue, key) == [source |-> source, queue |-> queue, key |-> key]
bindingsNoFailed == {bound("raw_packets", "raw_packets.spring", "packet.raw")}
bindings ==
  {bound("raw_packets", "raw_packets.spring", "packet.raw"),
   bound("raw_packets.dead_letter", "raw_packets.failed", "#")}
routing_key == "packet.raw"

TopologyInit ==
  /\ content = [q \in Queues |-> <<>>]
  /\ clock = 0 /\ published = 0 /\ consumed = {} /\ gone = {}
-----------------------------------------------------------------------------
\* A fanout exchange looks at no key.
route(x, key) ==
  {b.queue : b \in {c \in bindings :
     c.source = x /\ (exchangeType[x] = "fanout" \/ c.key = key)}}

\* The messages ms go through exchange x, the queues being as in c.
stamped(ms) == [k \in DOMAIN ms |-> [ms[k] EXCEPT !.since = clock]]
through(c, x, ms) ==
  [q \in Queues |-> IF q \in route(x, routing_key) THEN c[q] \o stamped(ms) ELSE c[q]]

\* The first n messages of raw_packets.spring leave it as dead letters.
spring(c) == c["raw_packets.spring"]
without(queue, n) == SubSeq(queue, n + 1, Len(queue))
deadLetter(c, n) ==
  through([c EXCEPT !["raw_packets.spring"] = without(@, n)],
          "raw_packets.dead_letter", SubSeq(spring(c), 1, n))

\* x-overflow: drop-head, until both limits are kept, or the other policy
\* there is.
bytes(queue) == SumFunction([k \in DOMAIN queue |-> queue[k].size])
withinLimits(queue) == Len(queue) <= MaxLength /\ bytes(queue) <= MaxBytes

overflowRejecting(c, m) ==
  {IF withinLimits(Append(spring(c), m)) THEN through(c, "raw_packets", <<m>>)
   ELSE through(c, "raw_packets.dead_letter", <<m>>)}
overflow(c, m) ==
  LET added == through(c, "raw_packets", <<m>>)
      n == Len(spring(added))
      enough == {d \in 0..n : withinLimits(without(spring(added), d))}
  IN {deadLetter(added, d) : d \in {e \in enough : \A f \in enough : e <= f}}

message(id, size) == [id |-> id, size |-> size, since |-> clock]
accept ==
  /\ published < MaxMessages /\ published' = published + 1
  /\ \E size \in Sizes : content' \in overflow(content, message(published', size))
  /\ UNCHANGED <<clock, consumed, gone>>

expire ==
  /\ spring(content) # <<>>
  /\ Head(spring(content)).since + TTL <= clock
  /\ content' = deadLetter(content, 1)
  /\ UNCHANGED <<clock, published, consumed, gone>>

consume ==
  /\ spring(content) # <<>>
  /\ consumed' = consumed \cup {Head(spring(content)).id}
  /\ content' = [content EXCEPT !["raw_packets.spring"] = Tail(@)]
  /\ UNCHANGED <<clock, published, gone>>

idsIn(qs) == UNION {{m.id : m \in Range(content[q])} : q \in qs}
empty(qs) ==
  /\ gone' = gone \cup idsIn(qs)
  /\ content' = [q \in Queues |-> IF q \in qs THEN <<>> ELSE content[q]]
  /\ UNCHANGED <<clock, published, consumed>>

purge_queue(q) == empty({q})
brokerRestart == empty(Queues)

timePasses ==
  /\ clock < MaxClock /\ clock' = clock + 1
  /\ UNCHANGED <<content, published, consumed, gone>>

TopologyNext ==
  \/ accept \/ expire \/ consume \/ brokerRestart \/ timePasses
  \/ \E q \in Queues : purge_queue(q)
TopologySpec == TopologyInit /\ [][TopologyNext]_topologyVars
-----------------------------------------------------------------------------
\* Every message the exchange has taken is in one of the queues, consumed, or
\* purged or lost in a restart: none falls between the exchanges because a
\* binding or a key does not match, and none is in two places.
NothingVanishes ==
  LET all == <<idsIn({"raw_packets.spring"}), idsIn({"raw_packets.failed"}),
               consumed, gone>>
  IN /\ UNION Range(all) = 1..published
     /\ \A j, k \in 1..4 : j # k => all[j] \cap all[k] = {}

inOrder(failed, waiting) ==
  /\ \A f \in Range(failed), m \in Range(waiting) : f.id < m.id
  /\ \A j, k \in DOMAIN waiting : j < k => waiting[j].id < waiting[k].id

\* When consumers are slow the oldest messages give way: what has failed is
\* older than all that waits, and what waits is in the order of publication.
OldestGiveWay ==
  /\ inOrder(content["raw_packets.failed"], spring(content))
  /\ withinLimits(spring(content))
=============================================================================
