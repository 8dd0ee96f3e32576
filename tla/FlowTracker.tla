---------------------------- MODULE FlowTracker -----------------------------
(***************************************************************************)
(* The last two stages before publish(): stats_stage, which flattens a     *)
(* dissected frame and names its flow, and the flow table                  *)
(* (pipeline/flow_tracker.cpp), which the pipeline thread alone updates.   *)
(*                                                                         *)
(* A dissected frame is [kind, ts, src, dst, src_port, dst_port, protocol, *)
(* total_length, flags, seq_num], where kind is the alternative of the     *)
(* DissectedFrame variant; of the frame's fields the model keeps those the *)
(* flow table reads.  A flow key is the tuple its text is formatted from.  *)
(***************************************************************************)
EXTENDS Naturals, Sequences, FiniteSets

CONSTANTS
  Dissected,    \* what dissector_stage can produce
  local_ips,    \* addresses of this host, read once when the thread starts
  U32,          \* one more than the largest uint32_t
  MaxTracked    \* bound: frames tracked

Kinds == {"tcp", "udp", "icmp", "arp", "other"}

ASSUME FlowAssumption ==
  /\ U32 \in Nat \ {0} /\ MaxTracked \in Nat
  /\ \A d \in Dissected :
       /\ d.kind \in Kinds /\ d.ts \in Nat
       /\ d.kind # "arp" => d.total_length \in Nat
       /\ d.kind = "tcp" <=> d.protocol = 6

VARIABLES
  table_,             \* flow key -> FlowRecord, for the flows seen so far
  out_is_retransmit,  \* flow_tracker's results for the last frame
  flow,
  tracked             \* history: the enriched frames, in order

flowVars == <<table_, out_is_retransmit, flow, tracked>>
-----------------------------------------------------------------------------
\* A frame that stays on this host counts as inbound.
resolveDirection(src_ip, dst_ip) ==
  IF dst_ip \in local_ips THEN "Inbound"
  ELSE IF src_ip \in local_ips THEN "Outbound" ELSE "Unknown"

makeFlowKeyNoPeer(src_ip, src_port, dst_ip, dst_port) ==
  <<src_ip, src_port, dst_port>>
makeFlowKey(src_ip, src_port, dst_ip, dst_port) ==
  <<src_ip, src_port, dst_ip, dst_port>>

makeArpFlowKey(sender_ip) == <<"ARP", sender_ip>>

\* An ARP frame leaves the protocol, size and direction at their defaults;
\* only TCP and UDP frames have ports, only TCP frames flags and a sequence
\* number.
stats_stage(d) ==
  LET arp == d.kind = "arp"
      ported == d.kind \in {"tcp", "udp"}
      src_port == IF ported THEN d.src_port ELSE 0
      dst_port == IF ported THEN d.dst_port ELSE 0
  IN [timestamp   |-> d.ts,
      protocol    |-> IF arp THEN 0 ELSE d.protocol,
      packet_size |-> IF arp THEN 0 ELSE d.total_length,
      direction   |-> IF arp THEN "Unknown" ELSE resolveDirection(d.src, d.dst),
      flags       |-> IF d.kind = "tcp" THEN d.flags ELSE {},
      seq_num     |-> IF d.kind = "tcp" THEN d.seq_num ELSE 0,
      flow_key    |-> IF arp THEN makeArpFlowKey(d.src)
                      ELSE makeFlowKey(d.src, src_port, d.dst, dst_port)]

NewRecord(frame) ==
  [first_seen_ms |-> frame.timestamp, last_seen_ms |-> frame.timestamp,
   total_bytes |-> 0, inbound_bytes |-> 0, outbound_bytes |-> 0,
   syn_count |-> 0, syn_ack_count |-> 0, rst_count |-> 0,
   retransmit_count |-> 0, retransmit_set |-> {}]

\* table_[flow_key]: the flow's record, made when the flow is new.
recordOfFresh(frame) == NewRecord(frame)
recordOf(frame) ==
  IF frame.flow_key \in DOMAIN table_ THEN table_[frame.flow_key]
  ELSE NewRecord(frame)

addIf(n, cond) == IF cond THEN n + 1 ELSE n
countIfUnwrapped(n, cond) == IF cond THEN n + 1 ELSE n
countIf(n, cond) == addIf(n, cond) % U32

\* A sequence number of zero is never taken for a repeated one.
isRetransmitZeroToo(rec, frame) ==
  frame.protocol = 6 /\ frame.seq_num \in rec.retransmit_set \cup {0}
isRetransmit(rec, frame) ==
  frame.protocol = 6 /\ frame.seq_num # 0 /\ frame.seq_num \in rec.retransmit_set

update(rec, frame) ==
  LET tcp == frame.protocol = 6
      size == frame.packet_size
      syn == tcp /\ "SYN" \in frame.flags
      ack == "ACK" \in frame.flags
  IN [first_seen_ms    |-> rec.first_seen_ms,
      last_seen_ms     |-> frame.timestamp,
      total_bytes      |-> rec.total_bytes + size,
      inbound_bytes    |-> rec.inbound_bytes
                             + IF frame.direction = "Inbound" THEN size ELSE 0,
      outbound_bytes   |-> rec.outbound_bytes
                             + IF frame.direction = "Outbound" THEN size ELSE 0,
      syn_count        |-> countIf(rec.syn_count, syn /\ ~ack),
      syn_ack_count    |-> countIf(rec.syn_ack_count, syn /\ ack),
      rst_count        |-> countIf(rec.rst_count, tcp /\ "RST" \in frame.flags),
      retransmit_count |-> countIf(rec.retransmit_count, isRetransmit(rec, frame)),
      retransmit_set   |-> IF tcp /\ frame.seq_num # 0
                           THEN rec.retransmit_set \cup {frame.seq_num}
                           ELSE rec.retransmit_set]

\* FlowTable::update, then FlowTable::get of the same key.
flow_tracker(frame) ==
  LET rec == recordOf(frame)
      key == frame.flow_key
  IN /\ table_' = [k \in DOMAIN table_ \cup {key} |->
                     IF k = key THEN update(rec, frame) ELSE table_[k]]
     /\ out_is_retransmit' = isRetransmit(rec, frame)
     /\ flow' = table_'[key]

FlowInit ==
  /\ table_ = <<>>
  /\ out_is_retransmit = FALSE
  /\ flow = <<>>
  /\ tracked = <<>>

track(d) ==
  /\ Len(tracked) < MaxTracked
  /\ flow_tracker(stats_stage(d))
  /\ tracked' = Append(tracked, stats_stage(d))

FlowNext == \E d \in Dissected : track(d)

FlowSpec == FlowInit /\ [][FlowNext]_flowVars
-----------------------------------------------------------------------------
\* The records have their types; the 32-bit counters stay below 2^32.
FlowTypeOK ==
  /\ out_is_retransmit \in BOOLEAN
  /\ \A k \in DOMAIN table_ :
       /\ table_[k].first_seen_ms \in Nat /\ table_[k].last_seen_ms \in Nat
       /\ table_[k].total_bytes \in Nat
       /\ table_[k].inbound_bytes \in Nat /\ table_[k].outbound_bytes \in Nat
       /\ table_[k].syn_count \in 0 .. U32 - 1
       /\ table_[k].syn_ack_count \in 0 .. U32 - 1
       /\ table_[k].rst_count \in 0 .. U32 - 1
       /\ table_[k].retransmit_count \in 0 .. U32 - 1

\* A flow has one direction: all its bytes are inbound, or all outbound, or
\* none is either.  Frames of different protocols may share a flow key (TCP
\* and UDP with the same ports; ICMP, port 0 and every other protocol), but
\* frames that share one have the same two addresses in the same order.
OneDirection ==
  \A k \in DOMAIN table_ :
    LET rec == table_[k] IN
      <<rec.inbound_bytes, rec.outbound_bytes>> \in
        {<<rec.total_bytes, 0>>, <<0, rec.total_bytes>>, <<0, 0>>}

\* The frames of flow k among the first n.
ofFlow(k, n) == {j \in 1..n : tracked[j].flow_key = k}

\* is_retransmit is the truth about the flow's past: it is set exactly for a
\* TCP frame with a sequence number, not zero, that an earlier frame of the
\* same flow had, and retransmit_count is how often that was so.
RetransmitsExact ==
  LET repeats(j) == \E i \in ofFlow(tracked[j].flow_key, j - 1) :
                      /\ tracked[j].protocol = 6 /\ tracked[i].protocol = 6
                      /\ tracked[i].seq_num = tracked[j].seq_num
                      /\ tracked[j].seq_num # 0
      n == Len(tracked)
  IN /\ n > 0 => (out_is_retransmit <=> repeats(n))
     /\ \A k \in DOMAIN table_ :
          table_[k].retransmit_count =
            Cardinality({j \in ofFlow(k, n) : repeats(j)}) % U32

\* The record published with a frame tells the flow's whole life up to that
\* frame and nothing of a later one: it was first seen with the flow's
\* first frame, last seen with this one, and its handshake and reset counts
\* are those of the flow's frames.
RecordTellsFlow ==
  LET n == Len(tracked)
      key == tracked[n].flow_key
      mine == ofFlow(key, n)
      countOf(P(_)) == Cardinality({j \in mine : P(tracked[j].flags)}) % U32
  IN n > 0 =>
       /\ \A j \in mine : (\A i \in mine : j <= i) =>
            flow.first_seen_ms = tracked[j].timestamp
       /\ flow.last_seen_ms = tracked[n].timestamp
       /\ flow.syn_count = countOf(LAMBDA f : "SYN" \in f /\ "ACK" \notin f)
       /\ flow.syn_ack_count = countOf(LAMBDA f : {"SYN", "ACK"} \subseteq f)
       /\ flow.rst_count = countOf(LAMBDA f : "RST" \in f)
=============================================================================
