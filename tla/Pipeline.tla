------------------------------ MODULE Pipeline ------------------------------
(***************************************************************************)
(* The body of the pipeline thread's loop up to the wire: the stages of    *)
(* Dissector, the flow table of FlowTracker, and publish()'s choice of     *)
(* frames with the JSON record it builds.  What the record must look like  *)
(* is declared by the database, in infra/mongo/init-collections.js.        *)
(***************************************************************************)
EXTENDS Dissector, FlowTracker

\* The flow table is there for what the stages keep.
ASSUME PipelineAssumption ==
  \A f \in Frames, old \in Leftovers :
    kept(dissect(f, old)) => dissect(f, old) \in Dissected

VARIABLE json   \* the record sent for the frame the thread is at

pipelineVars == <<dissectorVars, flowVars, json>>
NoRecord == [protocol |-> "none"]
-----------------------------------------------------------------------------
protocolToStr(protocol) ==
  CASE protocol = 6 -> "TCP" [] protocol = 17 -> "UDP" [] protocol = 1 -> "ICMP"
    [] protocol = 0 -> "ARP" [] OTHER -> "OTHER"

directionStr(d) ==
  CASE d = "Inbound" -> "inbound" [] d = "Outbound" -> "outbound"
    [] OTHER -> "null"

\* The fields of the record that are not plain copies of a number, and those
\* the flow table computes.  Of an ARP frame the record has the sender.
buildJson(d, frame, rec, is_retransmit) ==
  [protocol |-> protocolToStr(frame.protocol),
   direction |-> directionStr(frame.direction),
   flow_key |-> frame.flow_key, timestamp |-> frame.timestamp,
   packet_size |-> frame.packet_size, flags |-> frame.flags,
   seq_num |-> frame.seq_num, is_retransmit |-> is_retransmit,
   arp_sender_ip |-> IF d.kind = "arp" THEN d.src ELSE 0,
   first_seen |-> rec.first_seen_ms, last_seen |-> rec.last_seen_ms,
   total_bytes |-> rec.total_bytes, inbound_bytes |-> rec.inbound_bytes,
   outbound_bytes |-> rec.outbound_bytes, syn_count |-> rec.syn_count,
   syn_ack_count |-> rec.syn_ack_count, rst_count |-> rec.rst_count]

\* publish() returns true at once for the protocols it does not send.
isPublishedAny(frame) == TRUE
isPublished(frame) == frame.protocol \in {0, 1, 6, 17}

\* One round of the loop: both stages, then, for a frame they keep, the flow
\* table and the record for the broker.
processStale ==
  /\ handle
  /\ IF kept(out')
     THEN /\ track(out')
          /\ LET frame == stats_stage(out')
             IN json' = IF isPublished(frame)
                        THEN buildJson(out', frame, recordOf(frame), out_is_retransmit)
                        ELSE NoRecord
     ELSE json' = NoRecord /\ UNCHANGED flowVars
process ==
  /\ handle
  /\ IF kept(out')
     THEN /\ track(out')
          /\ LET frame == stats_stage(out')
             IN json' = IF isPublished(frame)
                        THEN buildJson(out', frame, flow', out_is_retransmit')
                        ELSE NoRecord
     ELSE json' = NoRecord /\ UNCHANGED flowVars

\* filter_stage reads the next frame over what is left of the last ones.
readNext ==
  /\ out # Pending
  /\ Len(tracked) < MaxTracked
  /\ input' \in Frames /\ left' \in Leftovers
  /\ out' = Pending /\ json' = NoRecord
  /\ UNCHANGED flowVars

PipelineInit == DissectorInit /\ FlowInit /\ json = NoRecord
PipelineNext == readNext \/ process
PipelineSpec == PipelineInit /\ [][PipelineNext]_pipelineVars
-----------------------------------------------------------------------------
sent == json # NoRecord

\* The protocols that the validator of the collection traffic_flows accepts.
traffic_flows == {"TCP", "UDP", "ICMP", "ARP"}

\* The validator of traffic_flows takes every record that is sent: publish()
\* leaves out exactly the protocols for which protocolToStr has no name that
\* the database knows.
SchemaAccepts == sent => json.protocol \in traffic_flows

\* The record is that of this very frame: last seen with it, its bytes all in
\* the direction it states, and is_retransmit only if an earlier frame of the
\* flow has its sequence number.
ofThisFrame ==
  /\ json.timestamp = json.last_seen
  /\ json.direction = "inbound" => json.inbound_bytes = json.total_bytes
  /\ json.direction = "outbound" => json.outbound_bytes = json.total_bytes
  /\ json.is_retransmit => \E j \in ofFlow(json.flow_key, Len(tracked) - 1) :
                              tracked[j].seq_num = json.seq_num

\* The bytes of the frames js, each by its frame and its place in it.
bytesOf(js) == UNION {{j} \X (1..tracked[j].packet_size) : j \in js}

\* The record accounts for its flow up to and including this frame, and for
\* the frames of the flow that were not sent too (they share the flow key of
\* ICMP): its bytes are those of all frames kept so far, each counted once,
\* and those of its direction are all of them.
RecordAccountsForFlow ==
  sent =>
    /\ ofThisFrame
    /\ json.total_bytes =
         Cardinality(bytesOf(ofFlow(json.flow_key, Len(tracked))))

\* A record that says ARP is the record of an ARP frame, with its sender: the
\* ARP rule of the README reads arp_sender_ip.
ArpRecordsHaveSender ==
  sent /\ json.protocol = "ARP" => out.kind = "arp" /\ json.arp_sender_ip = out.src
=============================================================================
