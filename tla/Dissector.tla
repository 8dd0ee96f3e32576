----------------------------- MODULE Dissector ------------------------------
(***************************************************************************)
(* From a frame in the pipeline thread's frame_buf to a dissected one:     *)
(* filter_stage after its read, dissector_stage, and the six parsers.      *)
(*                                                                         *)
(* frame_buf is static and is never cleared, so after the frame's `size'   *)
(* bytes it still holds what earlier frames left there.  A frame, and a    *)
(* leftover, is the record of the fields the parsers look at, each at the  *)
(* place where the code reads it; `arp_types' says that the hardware type, *)
(* the protocol type and the two address lengths are the expected ones.    *)
(* MAC addresses, TTL, checksum, window, ICMP type and code are copied     *)
(* without a decision and left out, as is the direction, which FlowTracker *)
(* has.  Lengths are of type size_t, modulo SIZE_T.                        *)
(***************************************************************************)
EXTENDS Naturals

CONSTANTS
  Frames,      \* what filter_stage may have read
  Leftovers,   \* what may be in frame_buf beyond the frame
  SIZE_T       \* one more than the largest size_t

ETHERNET_HEADER_SIZE == 14
ETHERNET_MIN_SIZE == 15
ETHERTYPE_IPV4 == "IPv4"
ETHERTYPE_ARP == "ARP"

\* The widths of the fields that are compared.
Typed(b) ==
  /\ b.ihl \in 0..15 /\ b.data_offset \in 0..15
  /\ b.total_length \in Nat /\ b.total_length <= 65535
  /\ b.length \in Nat /\ b.length <= 65535

ASSUME DissectorAssumption ==
  /\ SIZE_T \in Nat /\ SIZE_T > 65535
  /\ \A f \in Frames : f.size \in Nat /\ Typed(f.frame)
  /\ \A b \in Leftovers : Typed(b)

VARIABLES
  input,   \* the frame the thread is at
  left,    \* the rest of frame_buf
  out      \* what the stages return for it

dissectorVars == <<input, left, out>>
-----------------------------------------------------------------------------
\* A field that ends within the frame is the frame's own.
readAt(f, end, own, rest) == IF end <= f.size THEN own ELSE rest

\* The fields as the parsers see them.
asRead(f, old) ==
  LET b == f.frame
      ihl == readAt(f, 15, b.ihl, old.ihl)
      next == ETHERNET_HEADER_SIZE + 4 * ihl
  IN [ethertype    |-> readAt(f, 14, b.ethertype, old.ethertype),
      version      |-> readAt(f, 15, b.version, old.version),
      ihl          |-> ihl,
      total_length |-> readAt(f, 18, b.total_length, old.total_length),
      protocol     |-> readAt(f, 24, b.protocol, old.protocol),
      src          |-> readAt(f, 30, b.src, old.src),
      dst          |-> readAt(f, 34, b.dst, old.dst),
      arp_types    |-> readAt(f, 20, b.arp_types, old.arp_types),
      sender       |-> readAt(f, 32, b.sender, old.sender),
      target       |-> readAt(f, 42, b.target, old.target),
      src_port     |-> readAt(f, next + 2, b.src_port, old.src_port),
      dst_port     |-> readAt(f, next + 4, b.dst_port, old.dst_port),
      seq_num      |-> readAt(f, next + 8, b.seq_num, old.seq_num),
      data_offset  |-> readAt(f, next + 13, b.data_offset, old.data_offset),
      flags        |-> readAt(f, next + 14, b.flags, old.flags),
      length       |-> readAt(f, next + 6, b.length, old.length)]

minus(a, b) == (a + SIZE_T - b) % SIZE_T

\* ethernet_parser::parse: whether the frame is valid; its payload_size is
\* size - ETHERNET_HEADER_SIZE.
ethernetParse(size) == size >= ETHERNET_MIN_SIZE

filter_stage(h, size) ==
  /\ size >= ETHERNET_MIN_SIZE /\ ethernetParse(size)
  /\ size - ETHERNET_HEADER_SIZE # 0
  /\ h.ethertype \in {ETHERTYPE_IPV4, ETHERTYPE_ARP}

parseArpPacket(h, len) == len >= 28 /\ h.arp_types

parseIpHeaderUncut(h, len) ==
  /\ len >= 20 /\ h.version = 4
  /\ h.ihl >= 5 /\ 4 * h.ihl <= len
parseIpHeader(h, len) ==
  /\ len >= 20 /\ h.version = 4
  /\ h.ihl >= 5 /\ 4 * h.ihl <= len
  /\ h.total_length <= len

\* ip->payload_len.
ipPayload(h) == minus(h.total_length, 4 * h.ihl)

parseTcpHeaderOpen(h, len) == len >= 20 /\ h.data_offset >= 5
parseTcpHeader(h, len) ==
  len >= 20 /\ h.data_offset >= 5 /\ 4 * h.data_offset <= len

parseUdpHeader(h, len) == len >= 8 /\ h.length >= 8 /\ h.length <= len

parseIcmpHeader(len) == len >= 8

None == [kind |-> "none"]
Pending == [kind |-> "pending"]

\* The alternatives of DissectedFrame, with the fields the later stages read
\* and the length of the innermost payload.
ipOtherFrame(h, kind, ts, payload_len) ==
  [kind |-> kind, ts |-> ts, src |-> h.src, dst |-> h.dst,
   protocol |-> h.protocol, total_length |-> h.total_length,
   payload_len |-> payload_len]
ipUdpFrame(h, ts) ==
  [kind |-> "udp", ts |-> ts, src |-> h.src, dst |-> h.dst,
   protocol |-> h.protocol, total_length |-> h.total_length,
   src_port |-> h.src_port, dst_port |-> h.dst_port,
   payload_len |-> minus(h.length, 8)]
ipTcpFrame(h, ts) ==
  [kind |-> "tcp", ts |-> ts, src |-> h.src, dst |-> h.dst,
   protocol |-> h.protocol, total_length |-> h.total_length,
   src_port |-> h.src_port, dst_port |-> h.dst_port,
   flags |-> h.flags, seq_num |-> h.seq_num,
   payload_len |-> minus(ipPayload(h), 4 * h.data_offset)]
arpFrame(h, ts) ==
  [kind |-> "arp", ts |-> ts, src |-> h.sender, dst |-> h.target, protocol |-> 0]

dissector_stage(h, payload_size, ts) ==
  LET len == ipPayload(h)
      ip(parses, frame) ==
        IF /\ payload_size >= 20 /\ parseIpHeader(h, payload_size)
           /\ parses
        THEN frame ELSE None
  IN CASE h.ethertype = ETHERTYPE_ARP ->
            IF parseArpPacket(h, payload_size) THEN arpFrame(h, ts) ELSE None
       [] h.ethertype # ETHERTYPE_ARP /\ h.protocol = 6 ->
            ip(parseTcpHeader(h, len), ipTcpFrame(h, ts))
       [] h.ethertype # ETHERTYPE_ARP /\ h.protocol = 17 ->
            ip(parseUdpHeader(h, len), ipUdpFrame(h, ts))
       [] h.ethertype # ETHERTYPE_ARP /\ h.protocol = 1 ->
            ip(parseIcmpHeader(len), ipOtherFrame(h, "icmp", ts, minus(len, 8)))
       [] OTHER -> ip(TRUE, ipOtherFrame(h, "other", ts, len))

\* Both stages on frame f over the leftover old.
dissect(f, old) ==
  LET h == asRead(f, old)
  IN IF filter_stage(h, f.size)
     THEN dissector_stage(h, f.size - ETHERNET_HEADER_SIZE, f.ts) ELSE None

DissectorInit ==
  /\ input \in Frames /\ left \in Leftovers
  /\ out = Pending

handle ==
  /\ out = Pending
  /\ out' = dissect(input, left)
  /\ UNCHANGED <<input, left>>

DissectorSpec == DissectorInit /\ [][handle]_dissectorVars
-----------------------------------------------------------------------------
kept(o) == o.kind \notin {"none", "pending"}

\* The IP header, where there is one, is not longer than the packet it says
\* it belongs to.
Consistent(f) ==
  f.frame.ethertype = ETHERTYPE_IPV4 => 4 * f.frame.ihl <= f.frame.total_length

\* The reference: every layer lies within the layer around it.
Nested(f) ==
  LET b == f.frame
      room == b.total_length - 4 * b.ihl
      arp == b.ethertype = ETHERTYPE_ARP /\ f.size >= 14 + 28 /\ b.arp_types
      ip == /\ b.ethertype = ETHERTYPE_IPV4 /\ b.version = 4 /\ b.ihl >= 5
            /\ 4 * b.ihl <= b.total_length /\ 14 + b.total_length <= f.size
            /\ b.protocol = 6 => b.data_offset >= 5 /\ 4 * b.data_offset <= room
            /\ b.protocol = 17 => 8 <= b.length /\ b.length <= room
            /\ b.protocol = 1 => 8 <= room
  IN arp \/ ip

\* The dissector keeps exactly the frames whose layers nest, and the payload
\* length it reports ends within the frame, provided that the IP header is
\* consistent: nothing compares total_length with the header's own length.
LayersNest ==
  Consistent(input) /\ out # Pending =>
    /\ out # None <=> Nested(input)
    /\ out # None /\ out.kind # "arp" =>
         out.payload_len + 4 * input.frame.ihl + 14 <= input.size

\* Under the same condition nothing that earlier frames left in frame_buf
\* reaches the dissected frame, or decides whether there is one.
NoStaleBytes ==
  Consistent(input) /\ out # Pending =>
    \A old \in Leftovers : dissect(input, old) = out

\* "malformed L3 frame - logged, get next" (main.cpp): a frame whose layers do
\* not nest goes no further.  This is LayersNest without its condition.
MalformedSkipped == kept(out) => Nested(input)
=============================================================================
