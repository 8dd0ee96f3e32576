----------------------------- MODULE MCPipeline -----------------------------
(***************************************************************************)
(* Pipeline on a handful of frames, one or two for each fate, on a host    *)
(* with the addresses 1 and 3.                                             *)
(***************************************************************************)
EXTENDS Pipeline

Blank ==
  [ethertype |-> ETHERTYPE_IPV4, version |-> 4, ihl |-> 5, total_length |-> 40,
   protocol |-> 6, src |-> 1, dst |-> 2, arp_types |-> TRUE, sender |-> 1,
   target |-> 2, src_port |-> 1, dst_port |-> 1, seq_num |-> 1,
   data_offset |-> 5, flags |-> {"SYN"}, length |-> 20]

MCLeftovers == {[Blank EXCEPT !.flags = {"RST"}, !.src_port = 9]}

frameOf(bytes, size) == [size |-> size, ts |-> size, frame |-> bytes]

\* A SYN and its retransmission with other padding, one that stays on this
\* host, an acknowledgement with sequence number zero, the answer and a reset,
\* the same ports in UDP, protocols without ports, ARP, a frame cut short, and
\* one whose header is longer than its packet.
MCFrames ==
  {frameOf(Blank, 54), frameOf(Blank, 60), frameOf([Blank EXCEPT !.dst = 3], 54),
   frameOf([Blank EXCEPT !.flags = {"ACK"}, !.seq_num = 0], 54),
   frameOf([Blank EXCEPT !.src = 2, !.dst = 1, !.flags = {"SYN", "ACK"}], 54),
   frameOf([Blank EXCEPT !.src = 2, !.dst = 1, !.flags = {"RST"}], 60),
   frameOf([Blank EXCEPT !.protocol = 17], 54),
   frameOf([Blank EXCEPT !.protocol = 1, !.total_length = 28], 42),
   frameOf([Blank EXCEPT !.protocol = 2], 54),
   frameOf([Blank EXCEPT !.ethertype = ETHERTYPE_ARP], 42),
   frameOf(Blank, 50),
   frameOf([Blank EXCEPT !.total_length = 19], 34)}
MCFramesZero == MCFrames \cup {frameOf([Blank EXCEPT !.protocol = 0], 54)}

\* What the stages make of them is what the flow table assumes.
MCDissected ==
  {d \in {dissect(f, old) : f \in Frames, old \in Leftovers} : kept(d)}
=============================================================================
