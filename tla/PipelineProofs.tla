--------------------------- MODULE PipelineProofs ---------------------------
(***************************************************************************)
(* The way of a frame through the pipeline thread, for every set of frames *)
(* and leftovers and every set of local addresses: what the stages make of *)
(* it, what the flow table makes of that, and the record that is sent.     *)
(***************************************************************************)
EXTENDS Pipeline, FiniteSetTheorems, TLAPS
-----------------------------------------------------------------------------
\* The stages.  Each parser reads a field only after a length check that puts
\* it within the frame, so that what both stages make of a frame is a function
\* of the frame alone, the one that reference gives.

\* What a frame whose layers nest is dissected to, from its own bytes.
reference(f) ==
  CASE f.frame.ethertype = ETHERTYPE_ARP -> arpFrame(f.frame, f.ts)
    [] f.frame.ethertype # ETHERTYPE_ARP /\ f.frame.protocol = 6 ->
         ipTcpFrame(f.frame, f.ts)
    [] f.frame.ethertype # ETHERTYPE_ARP /\ f.frame.protocol = 17 ->
         ipUdpFrame(f.frame, f.ts)
    [] f.frame.ethertype # ETHERTYPE_ARP /\ f.frame.protocol = 1 ->
         ipOtherFrame(f.frame, "icmp", f.ts, minus(ipPayload(f.frame), 8))
    [] OTHER -> ipOtherFrame(f.frame, "other", f.ts, ipPayload(f.frame))

\* A difference that is not negative does not wrap around.
LEMMA MinusExact ==
  ASSUME NEW a \in Nat, NEW b \in Nat, b <= a, a < SIZE_T
  PROVE  minus(a, b) = a - b
<1>1. SIZE_T \in Nat
  BY DissectorAssumption
<1> DEFINE n == a - b
<1>2. n \in Nat /\ n < SIZE_T /\ a + SIZE_T - b = n + SIZE_T
  BY <1>1
<1> HIDE DEF n
<1>3. (n + SIZE_T) % SIZE_T = n
  BY <1>1, <1>2
<1> QED
  BY <1>2, <1>3 DEF minus, n

\* The types of a frame's fields.
LEMMA FrameTypes ==
  ASSUME NEW f \in Frames
  PROVE  /\ f.size \in Nat
         /\ f.frame.ihl \in 0..15 /\ f.frame.data_offset \in 0..15
         /\ f.frame.total_length \in Nat /\ f.frame.total_length < SIZE_T
         /\ f.frame.length \in Nat /\ f.frame.length < SIZE_T
<1>1. f.size \in Nat /\ Typed(f.frame) /\ SIZE_T \in Nat /\ SIZE_T > 65535
  BY DissectorAssumption
<1> QED
  BY <1>1 DEF Typed

\* A field that ends within the frame is the frame's own.
LEMMA ReadOwn ==
  ASSUME NEW f, NEW end, NEW own, NEW rest, end <= f.size
  PROVE  readAt(f, end, own, rest) = own
  BY DEF readAt

\* The total length that is read is a number, the frame's own or what was left
\* in its place.
LEMMA LengthRead ==
  ASSUME NEW f \in Frames, NEW old \in Leftovers
  PROVE  asRead(f, old).total_length \in Nat
<1>1. Typed(old) /\ f.frame.total_length \in Nat
  BY DissectorAssumption, FrameTypes
<1>2. old.total_length \in Nat
  BY <1>1 DEF Typed
<1>3. asRead(f, old).total_length
        = readAt(f, 18, f.frame.total_length, old.total_length)
  BY DEF asRead
<1> QED
  BY <1>1, <1>2, <1>3 DEF readAt

\* Which fields are the frame's own, by the length of the frame.
LEMMA OwnEthernet ==
  ASSUME NEW f \in Frames, NEW old, f.size >= 15
  PROVE  /\ asRead(f, old).ethertype = f.frame.ethertype
         /\ asRead(f, old).version = f.frame.version
         /\ asRead(f, old).ihl = f.frame.ihl
<1>1. 14 <= f.size /\ 15 <= f.size
  BY FrameTypes
<1>2. /\ asRead(f, old).ethertype = readAt(f, 14, f.frame.ethertype, old.ethertype)
      /\ asRead(f, old).version = readAt(f, 15, f.frame.version, old.version)
      /\ asRead(f, old).ihl = readAt(f, 15, f.frame.ihl, old.ihl)
  BY DEF asRead
<1> QED
  BY <1>1, <1>2, ReadOwn

\* So are those of the IP header, when it is whole,
LEMMA OwnIp ==
  ASSUME NEW f \in Frames, NEW old, f.size >= 34
  PROVE  /\ asRead(f, old).total_length = f.frame.total_length
         /\ asRead(f, old).protocol = f.frame.protocol
         /\ asRead(f, old).src = f.frame.src
         /\ asRead(f, old).dst = f.frame.dst
<1>1. 18 <= f.size /\ 24 <= f.size /\ 30 <= f.size /\ 34 <= f.size
  BY FrameTypes
<1>2. /\ asRead(f, old).total_length
             = readAt(f, 18, f.frame.total_length, old.total_length)
      /\ asRead(f, old).protocol = readAt(f, 24, f.frame.protocol, old.protocol)
      /\ asRead(f, old).src = readAt(f, 30, f.frame.src, old.src)
      /\ asRead(f, old).dst = readAt(f, 34, f.frame.dst, old.dst)
  BY DEF asRead
<1> QED
  BY <1>1, <1>2, ReadOwn

\* those of an ARP packet,
LEMMA OwnArp ==
  ASSUME NEW f \in Frames, NEW old, f.size >= 42
  PROVE  /\ asRead(f, old).arp_types = f.frame.arp_types
         /\ asRead(f, old).sender = f.frame.sender
         /\ asRead(f, old).target = f.frame.target
<1>1. 20 <= f.size /\ 32 <= f.size /\ 42 <= f.size
  BY FrameTypes
<1>2. /\ asRead(f, old).arp_types = readAt(f, 20, f.frame.arp_types, old.arp_types)
      /\ asRead(f, old).sender = readAt(f, 32, f.frame.sender, old.sender)
      /\ asRead(f, old).target = readAt(f, 42, f.frame.target, old.target)
  BY DEF asRead
<1> QED
  BY <1>1, <1>2, ReadOwn

\* those of a UDP header, behind IP options or not,
LEMMA OwnUdp ==
  ASSUME NEW f \in Frames, NEW old, f.size >= 22 + 4 * f.frame.ihl
  PROVE  /\ asRead(f, old).src_port = f.frame.src_port
         /\ asRead(f, old).dst_port = f.frame.dst_port
         /\ asRead(f, old).length = f.frame.length
<1> DEFINE next == ETHERNET_HEADER_SIZE + 4 * readAt(f, 15, f.frame.ihl, old.ihl)
<1>1. 15 <= f.size
  BY FrameTypes
<1>2. next = 14 + 4 * f.frame.ihl
  BY <1>1, ReadOwn DEF ETHERNET_HEADER_SIZE
<1>3. next + 2 <= f.size /\ next + 4 <= f.size /\ next + 6 <= f.size
  BY <1>2, FrameTypes
<1>4. /\ asRead(f, old).src_port
             = readAt(f, next + 2, f.frame.src_port, old.src_port)
      /\ asRead(f, old).dst_port
             = readAt(f, next + 4, f.frame.dst_port, old.dst_port)
      /\ asRead(f, old).length = readAt(f, next + 6, f.frame.length, old.length)
  BY DEF asRead
<1> HIDE DEF next
<1> QED
  BY <1>3, <1>4, ReadOwn

\* and those of a TCP header.
LEMMA OwnTcp ==
  ASSUME NEW f \in Frames, NEW old, f.size >= 34 + 4 * f.frame.ihl
  PROVE  /\ asRead(f, old).seq_num = f.frame.seq_num
         /\ asRead(f, old).data_offset = f.frame.data_offset
         /\ asRead(f, old).flags = f.frame.flags
<1> DEFINE next == ETHERNET_HEADER_SIZE + 4 * readAt(f, 15, f.frame.ihl, old.ihl)
<1>1. 15 <= f.size
  BY FrameTypes
<1>2. next = 14 + 4 * f.frame.ihl
  BY <1>1, ReadOwn DEF ETHERNET_HEADER_SIZE
<1>3. next + 8 <= f.size /\ next + 13 <= f.size /\ next + 14 <= f.size
  BY <1>2, FrameTypes
<1>4. /\ asRead(f, old).seq_num = readAt(f, next + 8, f.frame.seq_num, old.seq_num)
      /\ asRead(f, old).data_offset
             = readAt(f, next + 13, f.frame.data_offset, old.data_offset)
      /\ asRead(f, old).flags = readAt(f, next + 14, f.frame.flags, old.flags)
  BY DEF asRead
<1> HIDE DEF next
<1> QED
  BY <1>3, <1>4, ReadOwn

\* The alternatives of dissector_stage, one by one.
LEMMA StageArp ==
  ASSUME NEW h, NEW size, NEW ts, h.ethertype = ETHERTYPE_ARP
  PROVE  dissector_stage(h, size, ts)
           = IF parseArpPacket(h, size) THEN arpFrame(h, ts) ELSE None
  BY DEF dissector_stage

\* A TCP packet.
LEMMA StageTcp ==
  ASSUME NEW h, NEW size, NEW ts, h.ethertype # ETHERTYPE_ARP, h.protocol = 6
  PROVE  dissector_stage(h, size, ts)
           = IF size >= 20 /\ parseIpHeader(h, size) /\ parseTcpHeader(h, ipPayload(h))
             THEN ipTcpFrame(h, ts) ELSE None
  BY DEF dissector_stage

\* A UDP packet.
LEMMA StageUdp ==
  ASSUME NEW h, NEW size, NEW ts, h.ethertype # ETHERTYPE_ARP, h.protocol = 17
  PROVE  dissector_stage(h, size, ts)
           = IF size >= 20 /\ parseIpHeader(h, size) /\ parseUdpHeader(h, ipPayload(h))
             THEN ipUdpFrame(h, ts) ELSE None
  BY DEF dissector_stage

\* An ICMP packet.
LEMMA StageIcmp ==
  ASSUME NEW h, NEW size, NEW ts, h.ethertype # ETHERTYPE_ARP, h.protocol = 1
  PROVE  dissector_stage(h, size, ts)
           = IF size >= 20 /\ parseIpHeader(h, size) /\ parseIcmpHeader(ipPayload(h))
             THEN ipOtherFrame(h, "icmp", ts, minus(ipPayload(h), 8)) ELSE None
  BY DEF dissector_stage

\* Any other IP packet.
LEMMA StageOther ==
  ASSUME NEW h, NEW size, NEW ts, h.ethertype # ETHERTYPE_ARP,
         h.protocol \notin {6, 17, 1}
  PROVE  dissector_stage(h, size, ts)
           = IF size >= 20 /\ parseIpHeader(h, size)
             THEN ipOtherFrame(h, "other", ts, ipPayload(h)) ELSE None
  BY DEF dissector_stage

\* Without a whole IP header there is nothing, whatever the rest is.
LEMMA StageShort ==
  ASSUME NEW h, NEW size, NEW ts, h.ethertype # ETHERTYPE_ARP,
         ~(size >= 20 /\ parseIpHeader(h, size))
  PROVE  dissector_stage(h, size, ts) = None
<1>1. CASE h.protocol = 6
  BY <1>1, StageTcp
<1>2. CASE h.protocol = 17
  BY <1>2, StageUdp
<1>3. CASE h.protocol = 1
  BY <1>3, StageIcmp
<1>4. CASE h.protocol \notin {6, 17, 1}
  BY <1>4, StageOther
<1> QED
  BY <1>1, <1>2, <1>3, <1>4

\* What dissect makes of an ARP frame, and of one of neither type.
LEMMA DissectArp ==
  ASSUME NEW f \in Frames, NEW old, f.frame.ethertype = ETHERTYPE_ARP
  PROVE  dissect(f, old) = IF Nested(f) THEN reference(f) ELSE None
<1> DEFINE h == asRead(f, old)
<1>0. Nested(f) <=> f.size >= 42 /\ f.frame.arp_types
  BY FrameTypes DEF Nested, ETHERTYPE_ARP, ETHERTYPE_IPV4
<1>1. dissect(f, old) = IF filter_stage(h, f.size)
                        THEN dissector_stage(h, f.size - 14, f.ts) ELSE None
  BY DEF dissect, ETHERNET_HEADER_SIZE
<1>2. reference(f) = arpFrame(f.frame, f.ts)
  BY DEF reference
<1> HIDE DEF h
<1>3. CASE ~(f.size >= 15)
  <2>1. ~filter_stage(h, f.size)
    BY <1>3 DEF filter_stage, ETHERNET_MIN_SIZE
  <2> QED
    BY <2>1, <1>0, <1>1, <1>3, FrameTypes
<1>4. CASE f.size >= 15
  <2>1. h.ethertype = ETHERTYPE_ARP
    BY <1>4, OwnEthernet DEF h
  <2>2. filter_stage(h, f.size)
    BY <1>4, <2>1, FrameTypes
    DEF filter_stage, ethernetParse, ETHERNET_MIN_SIZE, ETHERNET_HEADER_SIZE
  <2>3. dissect(f, old) = IF parseArpPacket(h, f.size - 14)
                          THEN arpFrame(h, f.ts) ELSE None
    BY <1>1, <2>1, <2>2, StageArp
  <2>4. parseArpPacket(h, f.size - 14) <=> f.size >= 42 /\ h.arp_types
    BY FrameTypes DEF parseArpPacket
  <2>5. CASE f.size >= 42
    <3>1. h.arp_types = f.frame.arp_types /\ h.sender = f.frame.sender
            /\ h.target = f.frame.target
      BY <2>5, OwnArp DEF h
    <3>2. arpFrame(h, f.ts) = arpFrame(f.frame, f.ts)
      BY <3>1 DEF arpFrame
    <3> QED
      BY <3>1, <3>2, <2>3, <2>4, <2>5, <1>0, <1>2
  <2>6. CASE ~(f.size >= 42)
    BY <2>3, <2>4, <2>6, <1>0
  <2> QED
    BY <2>5, <2>6
<1> QED
  BY <1>3, <1>4

\* A frame that is neither ARP nor IPv4 ends in filter_stage.
LEMMA DissectNeither ==
  ASSUME NEW f \in Frames, NEW old,
         f.frame.ethertype \notin {ETHERTYPE_ARP, ETHERTYPE_IPV4}
  PROVE  dissect(f, old) = None /\ ~Nested(f)
<1>1. ~filter_stage(asRead(f, old), f.size)
  BY OwnEthernet DEF filter_stage, ETHERNET_MIN_SIZE
<1>2. dissect(f, old) = None
  BY <1>1 DEF dissect
<1>3. ~Nested(f)
  BY DEF Nested
<1> QED
  BY <1>2, <1>3

\* An IP frame that is kept: its header is its own, and there is room for it.
LEMMA DissectIp ==
  ASSUME NEW f \in Frames, NEW old, Consistent(f),
         f.frame.ethertype = ETHERTYPE_IPV4
  PROVE  dissect(f, old) = IF Nested(f) THEN reference(f) ELSE None
<1> DEFINE h == asRead(f, old)
           b == f.frame
           room == b.total_length - 4 * b.ihl
           fits == /\ b.version = 4 /\ b.ihl >= 5
                   /\ 14 + b.total_length <= f.size
<1>0. /\ room \in Nat /\ 4 * b.ihl <= b.total_length
      /\ b.ethertype # ETHERTYPE_ARP
  BY FrameTypes DEF Consistent, ETHERTYPE_ARP, ETHERTYPE_IPV4
<1>1. Nested(f) <=>
        /\ fits
        /\ b.protocol = 6 => b.data_offset >= 5 /\ 4 * b.data_offset <= room
        /\ b.protocol = 17 => 8 <= b.length /\ b.length <= room
        /\ b.protocol = 1 => 8 <= room
  BY <1>0, FrameTypes DEF Nested
<1>2. dissect(f, old) = IF filter_stage(h, f.size)
                        THEN dissector_stage(h, f.size - 14, f.ts) ELSE None
  BY DEF dissect, ETHERNET_HEADER_SIZE
<1> HIDE DEF h
<1>3. CASE ~(f.size >= 34)
  <2>1. ~fits
    BY <1>0, <1>3, FrameTypes
  <2>2. ~filter_stage(h, f.size) \/ h.ethertype # ETHERTYPE_ARP
    BY OwnEthernet, <1>0 DEF filter_stage, ETHERNET_MIN_SIZE, h
  <2>3. ~(f.size - 14 >= 20)
    BY <1>3, FrameTypes
  <2> QED
    BY <1>1, <1>2, <2>1, <2>2, <2>3, StageShort
<1>4. CASE f.size >= 34
  <2>1. /\ h.ethertype = ETHERTYPE_IPV4 /\ h.version = b.version /\ h.ihl = b.ihl
        /\ h.total_length = b.total_length /\ h.protocol = b.protocol
        /\ h.src = b.src /\ h.dst = b.dst
    BY <1>4, OwnEthernet, OwnIp, FrameTypes DEF h
  <2>2. filter_stage(h, f.size)
    BY <1>4, <2>1, FrameTypes
    DEF filter_stage, ethernetParse, ETHERNET_MIN_SIZE, ETHERNET_HEADER_SIZE
  <2>3. dissect(f, old) = dissector_stage(h, f.size - 14, f.ts)
    BY <1>2, <2>2
  <2>4. h.ethertype # ETHERTYPE_ARP
    BY <1>0, <2>1
  <2>5. f.size - 14 >= 20 /\ parseIpHeader(h, f.size - 14) <=> fits
    BY <1>0, <1>4, <2>1, FrameTypes DEF parseIpHeader
  <2>6. ipPayload(h) = room /\ ipPayload(b) = room
    BY <1>0, <2>1, FrameTypes, MinusExact DEF ipPayload
  <2>7. CASE ~fits
    BY <1>1, <2>3, <2>4, <2>5, <2>7, StageShort
  <2>8. CASE fits /\ b.protocol = 6
    <3>1. dissect(f, old) = IF parseTcpHeader(h, room) THEN ipTcpFrame(h, f.ts) ELSE None
      BY <2>1, <2>3, <2>4, <2>5, <2>6, <2>8, StageTcp
    <3>2. reference(f) = ipTcpFrame(b, f.ts)
      BY <1>0, <2>8 DEF reference
    <3>3. CASE room >= 20
      <4>1. f.size >= 34 + 4 * b.ihl /\ f.size >= 22 + 4 * b.ihl
        BY <2>8, <3>3, FrameTypes
      <4>2. /\ h.src_port = b.src_port /\ h.dst_port = b.dst_port
            /\ h.seq_num = b.seq_num /\ h.data_offset = b.data_offset
            /\ h.flags = b.flags
        BY <4>1, OwnUdp, OwnTcp DEF h
      <4>3. ipTcpFrame(h, f.ts) = ipTcpFrame(b, f.ts)
        BY <4>2, <2>1, <2>6 DEF ipTcpFrame
      <4>4. parseTcpHeader(h, room) <=> b.data_offset >= 5 /\ 4 * b.data_offset <= room
        BY <4>2, <3>3 DEF parseTcpHeader
      <4> QED
        BY <1>1, <2>8, <3>1, <3>2, <4>3, <4>4
    <3>4. CASE ~(room >= 20)
      <4>1. ~parseTcpHeader(h, room)
        BY <3>4 DEF parseTcpHeader
      <4>2. ~(b.data_offset >= 5 /\ 4 * b.data_offset <= room)
        BY <3>4, <1>0, FrameTypes
      <4> QED
        BY <1>1, <2>8, <3>1, <4>1, <4>2
    <3> QED
      BY <3>3, <3>4
  <2>9. CASE fits /\ b.protocol = 17
    <3>1. dissect(f, old) = IF parseUdpHeader(h, room) THEN ipUdpFrame(h, f.ts) ELSE None
      BY <2>1, <2>3, <2>4, <2>5, <2>6, <2>9, StageUdp
    <3>2. reference(f) = ipUdpFrame(b, f.ts)
      BY <1>0, <2>9 DEF reference
    <3>3. CASE room >= 8
      <4>1. f.size >= 22 + 4 * b.ihl
        BY <2>9, <3>3, FrameTypes
      <4>2. /\ h.src_port = b.src_port /\ h.dst_port = b.dst_port
            /\ h.length = b.length
        BY <4>1, OwnUdp DEF h
      <4>3. ipUdpFrame(h, f.ts) = ipUdpFrame(b, f.ts)
        BY <4>2, <2>1 DEF ipUdpFrame
      <4>4. parseUdpHeader(h, room) <=> 8 <= b.length /\ b.length <= room
        BY <4>2, <3>3, FrameTypes DEF parseUdpHeader
      <4> QED
        BY <1>1, <2>9, <3>1, <3>2, <4>3, <4>4
    <3>4. CASE ~(room >= 8)
      <4>1. ~parseUdpHeader(h, room)
        BY <3>4 DEF parseUdpHeader
      <4>2. ~(8 <= b.length /\ b.length <= room)
        BY <3>4, <1>0, FrameTypes
      <4> QED
        BY <1>1, <2>9, <3>1, <4>1, <4>2
    <3> QED
      BY <3>3, <3>4
  <2>10. CASE fits /\ b.protocol = 1
    <3>1. dissect(f, old) = IF parseIcmpHeader(room)
                            THEN ipOtherFrame(h, "icmp", f.ts, minus(room, 8)) ELSE None
      BY <2>1, <2>3, <2>4, <2>5, <2>6, <2>10, StageIcmp
    <3>2. reference(f) = ipOtherFrame(b, "icmp", f.ts, minus(room, 8))
      BY <1>0, <2>6, <2>10 DEF reference
    <3>3. ipOtherFrame(h, "icmp", f.ts, minus(room, 8))
            = ipOtherFrame(b, "icmp", f.ts, minus(room, 8))
      BY <2>1 DEF ipOtherFrame
    <3>4. parseIcmpHeader(room) <=> 8 <= room
      BY <1>0 DEF parseIcmpHeader
    <3> QED
      BY <1>1, <2>10, <3>1, <3>2, <3>3, <3>4
  <2>11. CASE fits /\ b.protocol \notin {6, 17, 1}
    <3>1. dissect(f, old) = ipOtherFrame(h, "other", f.ts, room)
      BY <2>1, <2>3, <2>4, <2>5, <2>6, <2>11, StageOther
    <3>2. reference(f) = ipOtherFrame(b, "other", f.ts, room)
      BY <1>0, <2>6, <2>11 DEF reference
    <3>3. ipOtherFrame(h, "other", f.ts, room) = ipOtherFrame(b, "other", f.ts, room)
      BY <2>1 DEF ipOtherFrame
    <3> QED
      BY <1>1, <2>11, <3>1, <3>2, <3>3
  <2> QED
    BY <2>7, <2>8, <2>9, <2>10, <2>11
<1> QED
  BY <1>3, <1>4

\* Both stages are a function of the frame alone.
LEMMA DissectReference ==
  ASSUME NEW f \in Frames, NEW old, Consistent(f)
  PROVE  dissect(f, old) = IF Nested(f) THEN reference(f) ELSE None
<1>1. CASE f.frame.ethertype = ETHERTYPE_ARP
  BY <1>1, DissectArp
<1>2. CASE f.frame.ethertype = ETHERTYPE_IPV4
  BY <1>2, DissectIp
<1>3. CASE f.frame.ethertype \notin {ETHERTYPE_ARP, ETHERTYPE_IPV4}
  BY <1>3, DissectNeither
<1> QED
  BY <1>1, <1>2, <1>3

\* What it gives for a frame whose layers nest ends within the frame.
LEMMA ReferenceWithin ==
  ASSUME NEW f \in Frames, Nested(f)
  PROVE  /\ reference(f) # None
         /\ reference(f).kind # "arp" =>
              reference(f).payload_len + 4 * f.frame.ihl + 14 <= f.size
<1> DEFINE b == f.frame
           room == b.total_length - 4 * b.ihl
<1>1. CASE b.ethertype = ETHERTYPE_ARP
  <2>1. reference(f) = arpFrame(b, f.ts)
    BY <1>1 DEF reference
  <2>2. reference(f).kind = "arp"
    BY <2>1 DEF arpFrame
  <2> QED
    BY <2>2 DEF None
<1>2. CASE b.ethertype # ETHERTYPE_ARP
  <2>1. /\ room \in Nat /\ room < SIZE_T /\ room + 4 * b.ihl + 14 <= f.size
        /\ b.protocol = 6 => b.data_offset >= 5 /\ 4 * b.data_offset <= room
        /\ b.protocol = 17 => 8 <= b.length /\ b.length <= room
        /\ b.protocol = 1 => 8 <= room
    <3>1. /\ 4 * b.ihl <= b.total_length /\ 14 + b.total_length <= f.size
          /\ b.protocol = 6 => b.data_offset >= 5 /\ 4 * b.data_offset <= room
          /\ b.protocol = 17 => 8 <= b.length /\ b.length <= room
          /\ b.protocol = 1 => 8 <= room
      BY <1>2 DEF Nested
    <3>2. SIZE_T \in Nat
      BY DissectorAssumption
    <3> QED
      BY <3>1, <3>2, FrameTypes
  <2>2. ipPayload(b) = room
    <3>1. 4 * b.ihl \in Nat /\ 4 * b.ihl <= b.total_length
      BY <2>1, FrameTypes
    <3> QED
      BY <3>1, FrameTypes, MinusExact DEF ipPayload
  <2>3. CASE b.protocol = 6
    <3>1. reference(f) = ipTcpFrame(b, f.ts)
      BY <1>2, <2>3 DEF reference
    <3>2. minus(room, 4 * b.data_offset) = room - 4 * b.data_offset
      BY <2>1, <2>3, FrameTypes, MinusExact
    <3>3. /\ reference(f).kind = "tcp"
          /\ reference(f).payload_len = room - 4 * b.data_offset
      BY <3>1, <3>2, <2>2 DEF ipTcpFrame
    <3>4. reference(f).payload_len + 4 * b.ihl + 14 <= f.size
      BY <3>3, <2>1, FrameTypes
    <3> QED
      BY <3>3, <3>4 DEF None
  <2>4. CASE b.protocol = 17
    <3>1. reference(f) = ipUdpFrame(b, f.ts)
      BY <1>2, <2>4 DEF reference
    <3>2. minus(b.length, 8) = b.length - 8
      BY <2>1, <2>4, FrameTypes, MinusExact
    <3>3. reference(f).kind = "udp" /\ reference(f).payload_len = b.length - 8
      BY <3>1, <3>2 DEF ipUdpFrame
    <3>4. reference(f).payload_len + 4 * b.ihl + 14 <= f.size
      BY <3>3, <2>1, <2>4, FrameTypes
    <3> QED
      BY <3>3, <3>4 DEF None
  <2>5. CASE b.protocol = 1
    <3>1. reference(f) = ipOtherFrame(b, "icmp", f.ts, minus(room, 8))
      BY <1>2, <2>2, <2>5 DEF reference
    <3>2. minus(room, 8) = room - 8
      BY <2>1, <2>5, MinusExact
    <3>3. reference(f).kind = "icmp" /\ reference(f).payload_len = room - 8
      BY <3>1, <3>2 DEF ipOtherFrame
    <3>4. reference(f).payload_len + 4 * b.ihl + 14 <= f.size
      BY <3>3, <2>1, FrameTypes
    <3> QED
      BY <3>3, <3>4 DEF None
  <2>6. CASE b.protocol \notin {6, 17, 1}
    <3>1. reference(f) = ipOtherFrame(b, "other", f.ts, room)
      BY <1>2, <2>2, <2>6 DEF reference
    <3>2. reference(f).kind = "other" /\ reference(f).payload_len = room
      BY <3>1 DEF ipOtherFrame
    <3> QED
      BY <3>2, <2>1 DEF None
  <2> QED
    BY <2>3, <2>4, <2>5, <2>6
<1> QED
  BY <1>1, <1>2

\* The state: nothing yet, or what dissect gives.
DissectorInv ==
  /\ input \in Frames
  /\ out = Pending \/ out = dissect(input, left)

\* The invariant that both theorems rest on: the pipeline thread's result is
\* what filter_stage and dissector_stage make of the frame in frame_buf.
THEOREM DissectorInvariant == DissectorSpec => []DissectorInv
<1>1. DissectorInit => DissectorInv
  BY DEF DissectorInit, DissectorInv
<1>2. DissectorInv /\ [handle]_dissectorVars => DissectorInv'
  BY DEF DissectorInv, handle, dissectorVars
<1> QED
  BY <1>1, <1>2, PTL DEF DissectorSpec

\* A result that is what the stages make of the frame has nested layers,
LEMMA ResultNests == DissectorInv => LayersNest
<1> SUFFICES ASSUME DissectorInv, Consistent(input), out # Pending
             PROVE  /\ out # None <=> Nested(input)
                    /\ out # None /\ out.kind # "arp" =>
                         out.payload_len + 4 * input.frame.ihl + 14 <= input.size
  BY DEF LayersNest
<1>1. input \in Frames /\ out = dissect(input, left)
  BY DEF DissectorInv
<1>2. out = IF Nested(input) THEN reference(input) ELSE None
  BY <1>1, DissectReference
<1> QED
  BY <1>1, <1>2, ReferenceWithin

\* and is the same whatever was left of earlier frames.
LEMMA ResultFresh == DissectorInv => NoStaleBytes
<1> SUFFICES ASSUME DissectorInv, Consistent(input), out # Pending,
                    NEW old \in Leftovers
             PROVE  dissect(input, old) = out
  BY DEF NoStaleBytes
<1>1. input \in Frames /\ out = dissect(input, left)
  BY DEF DissectorInv
<1> QED
  BY <1>1, DissectReference

\* For all frames, of any length and content, and all leftovers: with a
\* consistent IP header exactly the frames whose layers nest are kept, and
\* the payload the parsers report ends within the frame.
THEOREM DissectorLayersNest == DissectorSpec => []LayersNest
BY ResultNests, DissectorInvariant, PTL

\* For all frames and leftovers: with a consistent IP header nothing that an
\* earlier frame left in the static frame_buf has a part in the result.
THEOREM DissectorNoStaleBytes == DissectorSpec => []NoStaleBytes
BY ResultFresh, DissectorInvariant, PTL
-----------------------------------------------------------------------------
\* The flow table.  The records keep their types, a flow has one direction,
\* is_retransmit is the truth about the flow's past, and the record that goes
\* out with a frame tells the flow's life up to it.

\* The direction that the two addresses in a flow key determine.
directionOf(k) == IF Len(k) = 4 THEN resolveDirection(k[1], k[3]) ELSE "Unknown"

\* What a flow's bytes are, given its direction.
bytesFollow(rec, direction) ==
  /\ rec.inbound_bytes = IF direction = "Inbound" THEN rec.total_bytes ELSE 0
  /\ rec.outbound_bytes = IF direction = "Outbound" THEN rec.total_bytes ELSE 0

\* A record with the types of FlowTypeOK.
typedRecord(rec) ==
  /\ rec.first_seen_ms \in Nat /\ rec.last_seen_ms \in Nat
  /\ rec.total_bytes \in Nat
  /\ rec.inbound_bytes \in Nat /\ rec.outbound_bytes \in Nat
  /\ rec.syn_count \in 0 .. U32 - 1 /\ rec.syn_ack_count \in 0 .. U32 - 1
  /\ rec.rst_count \in 0 .. U32 - 1 /\ rec.retransmit_count \in 0 .. U32 - 1

\* The inductive invariant: OneDirection alone does not say which of its
\* three cases a flow is in, so a frame of the other direction could follow.
FlowInv ==
  /\ out_is_retransmit \in BOOLEAN
  /\ \A k \in DOMAIN table_ :
       typedRecord(table_[k]) /\ bytesFollow(table_[k], directionOf(k))

\* A 32-bit counter stays one after countIf.
LEMMA CountIfType ==
  ASSUME NEW n \in 0 .. U32 - 1, NEW cond
  PROVE  countIf(n, cond) \in 0 .. U32 - 1
<1>1. U32 \in Nat \ {0}
  BY FlowAssumption
<1>2. ASSUME NEW x \in Nat, NEW c \in Nat \ {0}
      PROVE  x % c \in 0 .. c - 1
  BY <1>2
<1>3. addIf(n, cond) \in Nat
  BY <1>1 DEF addIf
<1> QED
  BY <1>1, <1>2, <1>3, Zenon DEF countIf

\* The direction stats_stage gives a frame is the one its flow key determines:
\* an ARP key has two components, the others have four.
LEMMA KeyGivesDirection ==
  ASSUME NEW d \in Dissected
  PROVE  stats_stage(d).direction = directionOf(stats_stage(d).flow_key)
<1>1. CASE d.kind = "arp"
  BY <1>1 DEF stats_stage, directionOf, makeArpFlowKey
<1>2. CASE d.kind # "arp"
  BY <1>2 DEF stats_stage, directionOf, makeFlowKey
<1> QED
  BY <1>1, <1>2

\* update keeps a record typed and its bytes in the frame's direction.
LEMMA UpdateKeeps ==
  ASSUME NEW rec, typedRecord(rec), NEW frame, frame.packet_size \in Nat,
         frame.timestamp \in Nat, bytesFollow(rec, frame.direction)
  PROVE  /\ typedRecord(update(rec, frame))
         /\ bytesFollow(update(rec, frame), frame.direction)
<1> DEFINE new == update(rec, frame)
<1>1. /\ new.syn_count \in 0 .. U32 - 1
      /\ new.syn_ack_count \in 0 .. U32 - 1
      /\ new.rst_count \in 0 .. U32 - 1
      /\ new.retransmit_count \in 0 .. U32 - 1
  BY CountIfType, Zenon DEF update, typedRecord
<1>2. /\ new.first_seen_ms = rec.first_seen_ms
      /\ new.last_seen_ms = frame.timestamp
      /\ new.total_bytes = rec.total_bytes + frame.packet_size
      /\ new.inbound_bytes = rec.inbound_bytes
           + IF frame.direction = "Inbound" THEN frame.packet_size ELSE 0
      /\ new.outbound_bytes = rec.outbound_bytes
           + IF frame.direction = "Outbound" THEN frame.packet_size ELSE 0
  BY DEF update
<1> HIDE DEF new
<1>3. typedRecord(new)
  BY <1>1, <1>2 DEF typedRecord
<1>4. bytesFollow(new, frame.direction)
  BY <1>2 DEF typedRecord, bytesFollow
<1> QED
  BY <1>3, <1>4 DEF new

\* The record that a frame finds, old or new, is typed and fits its direction.
LEMMA RecordOfFits ==
  ASSUME FlowInv, NEW d \in Dissected, NEW frame, frame = stats_stage(d)
  PROVE  /\ typedRecord(recordOf(frame))
         /\ bytesFollow(recordOf(frame), frame.direction)
<1>1. frame.timestamp \in Nat
  BY FlowAssumption DEF stats_stage
<1>2. frame.direction = directionOf(frame.flow_key)
  BY KeyGivesDirection
<1>3. CASE frame.flow_key \in DOMAIN table_
  BY <1>2, <1>3 DEF FlowInv, recordOf
<1>4. CASE frame.flow_key \notin DOMAIN table_
  <2>1. recordOf(frame) = NewRecord(frame)
    BY <1>4 DEF recordOf
  <2>2. typedRecord(NewRecord(frame))
    BY <1>1, FlowAssumption DEF NewRecord, typedRecord
  <2>3. bytesFollow(NewRecord(frame), frame.direction)
    BY DEF NewRecord, bytesFollow
  <2> QED
    BY <2>1, <2>2, <2>3
<1> QED
  BY <1>3, <1>4

\* Tracking a frame keeps the invariant: the frame's own flow by UpdateKeeps,
\* every other flow untouched.
LEMMA TrackInv ==
  ASSUME FlowInv, NEW d \in Dissected, track(d)
  PROVE  FlowInv'
<1> DEFINE frame == stats_stage(d)
           key == frame.flow_key
           new == update(recordOf(frame), frame)
<1>1. frame.packet_size \in Nat /\ frame.timestamp \in Nat
  BY FlowAssumption DEF stats_stage
<1>2. /\ typedRecord(recordOf(frame))
      /\ bytesFollow(recordOf(frame), frame.direction)
  BY RecordOfFits
<1>3. frame.direction = directionOf(key)
  BY KeyGivesDirection
<1>4. /\ table_' = [k \in DOMAIN table_ \cup {key} |->
                      IF k = key THEN new ELSE table_[k]]
      /\ out_is_retransmit' = isRetransmit(recordOf(frame), frame)
  BY DEF track, flow_tracker
<1> HIDE DEF frame
<1>5. typedRecord(new) /\ bytesFollow(new, directionOf(key))
  BY <1>1, <1>2, <1>3, UpdateKeeps
<1>6. out_is_retransmit' \in BOOLEAN
  BY <1>4 DEF isRetransmit
<1> HIDE DEF key, new
<1>7. ASSUME NEW k \in DOMAIN table_'
      PROVE  typedRecord(table_'[k]) /\ bytesFollow(table_'[k], directionOf(k))
  BY <1>4, <1>5, <1>7 DEF FlowInv
<1> QED
  BY <1>6, <1>7 DEF FlowInv, typedRecord, bytesFollow, directionOf,
                    resolveDirection

\* Every behaviour of the flow table satisfies the inductive invariant.
THEOREM FlowInvariant == FlowSpec => []FlowInv
<1>1. FlowInit => FlowInv
  <2>1. DOMAIN <<>> = {}
    OBVIOUS
  <2>2. FALSE \in BOOLEAN
    OBVIOUS
  <2> QED
    BY <2>1, <2>2, Zenon DEF FlowInit, FlowInv
<1>2. FlowInv /\ [FlowNext]_flowVars => FlowInv'
  <2> SUFFICES ASSUME FlowInv, [FlowNext]_flowVars PROVE FlowInv'
    OBVIOUS
  <2>1. CASE FlowNext
    BY <2>1, TrackInv DEF FlowNext
  <2>2. CASE UNCHANGED flowVars
    BY <2>2 DEF flowVars, FlowInv
  <2> QED
    BY <2>1, <2>2
<1> QED
  BY <1>1, <1>2, PTL DEF FlowSpec

\* The records of the flow table keep their types, and the 32-bit counters
\* their width, for every set of frames.
THEOREM FlowTypeCorrect == FlowSpec => []FlowTypeOK
<1>1. FlowInv => FlowTypeOK
  BY DEF FlowInv, FlowTypeOK, typedRecord
<1> QED
  BY <1>1, FlowInvariant, PTL

\* A flow has one direction, whatever addresses are local and whichever
\* protocols share its key.
THEOREM FlowOneDirection == FlowSpec => []OneDirection
<1>1. FlowInv => OneDirection
  BY DEF FlowInv, OneDirection, bytesFollow, typedRecord
<1> QED
  BY <1>1, FlowInvariant, PTL
-----------------------------------------------------------------------------
(* What the records tell of the frames tracked so far, h.                   *)

TrackedFrames == {stats_stage(d) : d \in Dissected}

\* The frames of flow k in h, those among them that repeat an earlier one, and
\* those that the handshake and reset counters count.
mine(h, k) == {j \in 1..Len(h) : h[j].flow_key = k}
repeats(h, j) ==
  \E i \in {i \in 1..(j - 1) : h[i].flow_key = h[j].flow_key} :
    /\ h[j].protocol = 6 /\ h[i].protocol = 6
    /\ h[i].seq_num = h[j].seq_num
    /\ h[j].seq_num # 0
repeated(h, k) == {j \in mine(h, k) : repeats(h, j)}
syns(h, k) == {j \in mine(h, k) : "SYN" \in h[j].flags /\ "ACK" \notin h[j].flags}
synAcks(h, k) == {j \in mine(h, k) : {"SYN", "ACK"} \subseteq h[j].flags}
rsts(h, k) == {j \in mine(h, k) : "RST" \in h[j].flags}

numbered(f) == f.protocol = 6 /\ f.seq_num # 0

\* The record rec tells the frames of flow k in h.
countersTell(rec, h, k) ==
  /\ rec.retransmit_count = Cardinality(repeated(h, k)) % U32
  /\ rec.syn_count = Cardinality(syns(h, k)) % U32
  /\ rec.syn_ack_count = Cardinality(synAcks(h, k)) % U32
  /\ rec.rst_count = Cardinality(rsts(h, k)) % U32

tells(rec, h, k) ==
  /\ \A q : q \in rec.retransmit_set <=>
              \E j \in mine(h, k) : numbered(h[j]) /\ h[j].seq_num = q
  /\ countersTell(rec, h, k)
  /\ \A j \in mine(h, k) :
       (\A i \in mine(h, k) : j <= i) => rec.first_seen_ms = h[j].timestamp

\* The inductive invariant behind RetransmitsExact and RecordTellsFlow: those
\* do not mention retransmit_set, nor the records of the other flows.
HistoryInv ==
  /\ tracked \in Seq(TrackedFrames)
  /\ \A k : k \in DOMAIN table_ <=> mine(tracked, k) # {}
  /\ \A k \in DOMAIN table_ : tells(table_[k], tracked, k)
  /\ tracked # <<>> =>
       /\ flow = table_[tracked[Len(tracked)].flow_key]
       /\ flow.last_seen_ms = tracked[Len(tracked)].timestamp
       /\ out_is_retransmit <=> repeats(tracked, Len(tracked))

\* Counting modulo U32 is counting, modulo U32.
LEMMA CountWraps ==
  ASSUME NEW n \in Nat
  PROVE  ((n % U32) + 1) % U32 = (n + 1) % U32 /\ (n % U32) % U32 = n % U32
<1>1. U32 \in Nat \ {0}
  BY FlowAssumption
<1>2. ASSUME NEW x \in Nat, NEW u \in Nat \ {0}
      PROVE  x = u * (x \div u) + (x % u) /\ x % u \in 0 .. u - 1 /\ x \div u \in Nat
  BY <1>2
<1>3. ASSUME NEW u \in Nat \ {0}, NEW p \in Nat, NEW q \in Nat,
             NEW r \in 0 .. u - 1, NEW s \in 0 .. u - 1, u * p + r = u * q + s
      PROVE  r = s
  BY <1>3
<1>4. ASSUME NEW x \in Nat, NEW u \in Nat \ {0}
      PROVE  ((x % u) + 1) % u = (x + 1) % u /\ (x % u) % u = x % u
  <2> DEFINE q == x \div u
             r == x % u
  <2>1. x = u * q + r /\ r \in 0 .. u - 1 /\ q \in Nat
    BY <1>2, Zenon
  <2> HIDE DEF q, r
  <2>2. /\ r = u * (r \div u) + (r % u) /\ r % u \in 0 .. u - 1 /\ r \div u \in Nat
        /\ r + 1 = u * ((r + 1) \div u) + ((r + 1) % u)
        /\ (r + 1) % u \in 0 .. u - 1 /\ (r + 1) \div u \in Nat
        /\ x + 1 = u * ((x + 1) \div u) + ((x + 1) % u)
        /\ (x + 1) % u \in 0 .. u - 1 /\ (x + 1) \div u \in Nat
    <3>1. r \in Nat /\ r + 1 \in Nat /\ x + 1 \in Nat
      BY <2>1
    <3> QED
      BY <3>1, <1>2, Zenon
  <2> DEFINE p == (r + 1) \div u
             t == (r + 1) % u
             p2 == (x + 1) \div u
             t2 == (x + 1) % u
  <2>3. u * (q + p) = u * q + u * p /\ q + p \in Nat
    BY <2>1, <2>2
  <2>4. t = t2
    <3>1. u * (q + p) + t = u * p2 + t2
      BY <2>1, <2>2, <2>3
    <3> HIDE DEF p, t, p2, t2
    <3>2. p2 \in Nat /\ t \in 0 .. u - 1 /\ t2 \in 0 .. u - 1
      BY <2>2 DEF p, t, p2, t2
    <3> QED
      BY <1>3, <2>3, <3>1, <3>2, Zenon
  <2>5. r % u = r
    <3>1. u * (r \div u) + (r % u) = u * 0 + r
      BY <2>1, <2>2
    <3> QED
      BY <1>3, <2>1, <2>2, <3>1
  <2> QED
    BY <2>4, <2>5 DEF r
<1> QED
  BY <1>1, <1>4, Zenon

\* A set of frame numbers, with the next one or without it, and its 32-bit
\* counter.
LEMMA CountStep ==
  ASSUME NEW n \in Nat, NEW S \in SUBSET (1..n)
  PROVE  /\ ((Cardinality(S) % U32) + 1) % U32 = Cardinality(S \cup {n + 1}) % U32
         /\ (Cardinality(S) % U32) % U32 = Cardinality(S) % U32
<1>1. IsFiniteSet(S)
  <2>1. IsFiniteSet(1..n)
    BY FS_Interval
  <2> QED
    BY <2>1, FS_Subset, Zenon
<1>2. Cardinality(S) \in Nat
  BY <1>1, FS_CardinalityType
<1>3. n + 1 \notin S
  OBVIOUS
<1>4. Cardinality(S \cup {n + 1}) = Cardinality(S) + 1
  BY <1>1, <1>3, FS_AddElement
<1> QED
  BY <1>2, <1>4, CountWraps

\* Only TCP frames have the protocol 6, and the others have no flags.
LEMMA FrameFlags ==
  ASSUME NEW f \in TrackedFrames
  PROVE  f.protocol # 6 => f.flags = {}
<1>1. PICK d \in Dissected : f = stats_stage(d)
  BY DEF TrackedFrames
<1>2. d.kind = "tcp" <=> d.protocol = 6
  BY FlowAssumption
<1> QED
  BY <1>1, <1>2 DEF stats_stage

\* g is h with the frame f appended.
extends(g, h, f) ==
  /\ Len(h) \in Nat /\ Len(g) = Len(h) + 1 /\ g[Len(h) + 1] = f
  /\ \A j \in 1..Len(h) : g[j] = h[j]

\* A frame that is appended changes nothing about the earlier ones.
LEMMA Appended ==
  ASSUME NEW h, NEW f, NEW g, extends(g, h, f)
  PROVE  \A j \in 1..Len(h) : repeats(g, j) <=> repeats(h, j)
<1> SUFFICES ASSUME NEW j \in 1..Len(h) PROVE repeats(g, j) <=> repeats(h, j)
  OBVIOUS
<1>1. \A i \in 1..(j - 1) : g[i] = h[i]
  BY DEF extends
<1>2. g[j] = h[j]
  BY DEF extends
<1> QED
  BY <1>1, <1>2, Zenon DEF repeats

\* The frames of flow k in g are those in h, which are the same in both, and the
\* n-th, f, if it is of the flow.
joins(g, h, f, k, n) ==
  /\ g[n] = f
  /\ \A j \in mine(h, k) : g[j] = h[j] /\ j < n /\ j # n
  /\ k = f.flow_key => mine(g, k) = mine(h, k) \cup {n}
  /\ k # f.flow_key => mine(g, k) = mine(h, k)

\* An appended frame joins the frames of its flow.
LEMMA AppendedMine ==
  ASSUME NEW h, NEW f, NEW g, extends(g, h, f), NEW k
  PROVE  joins(g, h, f, k, Len(h) + 1)
<1>1. /\ Len(h) \in Nat /\ Len(g) = Len(h) + 1 /\ g[Len(h) + 1] = f
      /\ \A j \in 1..Len(h) : g[j] = h[j]
  BY Zenon DEF extends
<1>2. \A j \in mine(h, k) : g[j] = h[j] /\ j < Len(h) + 1 /\ j # Len(h) + 1
  BY <1>1 DEF mine
<1>3. mine(g, k)
        = IF k = f.flow_key THEN mine(h, k) \cup {Len(h) + 1} ELSE mine(h, k)
  BY <1>1 DEF mine
<1> QED
  BY <1>1, <1>2, <1>3 DEF joins

\* The set t is s with n if cond holds.
gains(s, t, n, cond) == t = IF cond THEN s \cup {n} ELSE s

\* The frames of the appended frame's flow are one more, and so are those of
\* them that satisfy a condition the new frame satisfies; the other flows have
\* the frames they had.
LEMMA AppendedCounts ==
  ASSUME NEW h, NEW f, NEW g, extends(g, h, f), NEW k
  PROVE  LET n == Len(h) + 1
             syn == "SYN" \in f.flags
             ack == "ACK" \in f.flags
         IN /\ k = f.flow_key =>
                 /\ mine(g, k) = mine(h, k) \cup {n}
                 /\ gains(repeated(h, k), repeated(g, k), n, repeats(g, n))
                 /\ gains(syns(h, k), syns(g, k), n, syn /\ ~ack)
                 /\ gains(synAcks(h, k), synAcks(g, k), n, syn /\ ack)
                 /\ gains(rsts(h, k), rsts(g, k), n, "RST" \in f.flags)
            /\ k # f.flow_key =>
                 /\ mine(g, k) = mine(h, k) /\ repeated(g, k) = repeated(h, k)
                 /\ syns(g, k) = syns(h, k) /\ synAcks(g, k) = synAcks(h, k)
                 /\ rsts(g, k) = rsts(h, k)
<1> DEFINE n == Len(h) + 1
<1>1. \A j \in 1..Len(h) : g[j] = h[j] /\ (repeats(g, j) <=> repeats(h, j))
  BY Appended, Zenon DEF extends
<1>2. g[n] = f /\ Len(g) = n /\ Len(h) \in Nat
  BY Zenon DEF extends
<1>3. mine(g, k) = IF k = f.flow_key THEN mine(h, k) \cup {n} ELSE mine(h, k)
  BY AppendedMine DEF joins
<1>4. mine(h, k) \subseteq 1..Len(h)
  BY DEF mine
<1> HIDE DEF n
<1>5. repeated(g, k) = IF k = f.flow_key /\ repeats(g, n)
                       THEN repeated(h, k) \cup {n} ELSE repeated(h, k)
  BY <1>1, <1>3, <1>4 DEF repeated
<1>6. syns(g, k) = IF k = f.flow_key /\ "SYN" \in f.flags /\ "ACK" \notin f.flags
                   THEN syns(h, k) \cup {n} ELSE syns(h, k)
  BY <1>1, <1>2, <1>3, <1>4 DEF syns
<1>7. synAcks(g, k) = IF k = f.flow_key /\ "SYN" \in f.flags /\ "ACK" \in f.flags
                      THEN synAcks(h, k) \cup {n} ELSE synAcks(h, k)
  BY <1>1, <1>2, <1>3, <1>4 DEF synAcks
<1>8. rsts(g, k) = IF k = f.flow_key /\ "RST" \in f.flags
                   THEN rsts(h, k) \cup {n} ELSE rsts(h, k)
  BY <1>1, <1>2, <1>3, <1>4 DEF rsts
<1> QED
  BY <1>3, <1>5, <1>6, <1>7, <1>8 DEF n, gains

\* A flow without frames is told by a new record.
LEMMA NewTells ==
  ASSUME NEW h, NEW k, mine(h, k) = {}, NEW f
  PROVE  tells(NewRecord(f), h, k)
<1>1. Cardinality({}) % U32 = 0
  BY FlowAssumption, FS_EmptySet
<1>2. repeated(h, k) = {} /\ syns(h, k) = {} /\ synAcks(h, k) = {} /\ rsts(h, k) = {}
  BY DEF repeated, syns, synAcks, rsts
<1> QED
  BY <1>1, <1>2 DEF tells, countersTell, NewRecord

\* A frame of another flow leaves what a record tells.
LEMMA OtherTells ==
  ASSUME NEW h, NEW f \in TrackedFrames, NEW g, extends(g, h, f),
         NEW k, k # f.flow_key, NEW rec, tells(rec, h, k)
  PROVE  tells(rec, g, k)
<1>1. /\ mine(g, k) = mine(h, k) /\ repeated(g, k) = repeated(h, k)
      /\ syns(g, k) = syns(h, k) /\ synAcks(g, k) = synAcks(h, k)
      /\ rsts(g, k) = rsts(h, k)
  BY AppendedCounts
<1>2. \A j \in 1..Len(h) : g[j] = h[j]
  BY Zenon DEF extends
<1>3. \A j \in mine(h, k) : g[j] = h[j]
  BY <1>2, Zenon DEF mine
<1>4. \A q : q \in rec.retransmit_set <=>
                \E j \in mine(g, k) : numbered(g[j]) /\ g[j].seq_num = q
  BY <1>1, <1>3, Zenon DEF tells
<1>5. \A j \in mine(g, k) :
        (\A i \in mine(g, k) : j <= i) => rec.first_seen_ms = g[j].timestamp
  BY <1>1, <1>3, Zenon DEF tells
<1> QED
  BY <1>1, <1>4, <1>5, Zenon DEF tells, countersTell

\* What the table says of the new frame is the truth: the set of the record
\* holds the numbers of the flow's earlier frames.
LEMMA SetTells ==
  ASSUME NEW h, NEW f \in TrackedFrames, NEW g, extends(g, h, f),
         NEW rec, tells(rec, h, f.flow_key)
  PROVE  isRetransmit(rec, f) <=> repeats(g, Len(h) + 1)
<1> DEFINE n == Len(h) + 1
           k == f.flow_key
<1>1. \A j \in 1..Len(h) : g[j] = h[j]
  BY Zenon DEF extends
<1>2. g[n] = f /\ n - 1 = Len(h)
  BY DEF extends
<1>3. repeats(g, n) <=> \E i \in mine(h, k) :
                          numbered(f) /\ numbered(h[i]) /\ h[i].seq_num = f.seq_num
  BY <1>1, <1>2 DEF repeats, mine, numbered
<1>4. f.seq_num \in rec.retransmit_set <=>
        \E j \in mine(h, k) : numbered(h[j]) /\ h[j].seq_num = f.seq_num
  BY Zenon DEF tells
<1> QED
  BY <1>3, <1>4, Zenon DEF isRetransmit, numbered

\* The counters of the updated record count the new frame.
LEMMA CountersTell ==
  ASSUME NEW h, NEW f \in TrackedFrames, NEW g, extends(g, h, f),
         NEW k, k = f.flow_key, NEW rec, tells(rec, h, k)
  PROVE  countersTell(update(rec, f), g, k)
<1> DEFINE n == Len(h)
           tcp == f.protocol = 6
           syn == tcp /\ "SYN" \in f.flags
           ack == "ACK" \in f.flags
           rst == tcp /\ "RST" \in f.flags
           new == update(rec, f)
<1>1. /\ gains(repeated(h, k), repeated(g, k), n + 1, repeats(g, n + 1))
      /\ gains(syns(h, k), syns(g, k), n + 1, "SYN" \in f.flags /\ ~ack)
      /\ gains(synAcks(h, k), synAcks(g, k), n + 1, "SYN" \in f.flags /\ ack)
      /\ gains(rsts(h, k), rsts(g, k), n + 1, "RST" \in f.flags)
  BY AppendedCounts, Zenon
<1>2. \A x : x \in f.flags => tcp
  BY FrameFlags
<1>3. isRetransmit(rec, f) <=> repeats(g, n + 1)
  BY SetTells, Zenon
<1>4. /\ gains(repeated(h, k), repeated(g, k), n + 1, isRetransmit(rec, f))
      /\ gains(syns(h, k), syns(g, k), n + 1, syn /\ ~ack)
      /\ gains(synAcks(h, k), synAcks(g, k), n + 1, syn /\ ack)
      /\ gains(rsts(h, k), rsts(g, k), n + 1, rst)
  BY <1>1, <1>2, <1>3, Zenon DEF gains
<1>5. /\ new.retransmit_count = countIf(rec.retransmit_count, isRetransmit(rec, f))
      /\ new.syn_count = countIf(rec.syn_count, syn /\ ~ack)
      /\ new.syn_ack_count = countIf(rec.syn_ack_count, syn /\ ack)
      /\ new.rst_count = countIf(rec.rst_count, rst)
  BY Zenon DEF update
<1>6. /\ repeated(h, k) \in SUBSET (1..n) /\ syns(h, k) \in SUBSET (1..n)
      /\ synAcks(h, k) \in SUBSET (1..n) /\ rsts(h, k) \in SUBSET (1..n)
  BY DEF repeated, syns, synAcks, rsts, mine
<1>7. n \in Nat
  BY DEF extends
<1> HIDE DEF n, tcp, syn, ack, rst, new
<1>8. new.retransmit_count = Cardinality(repeated(g, k)) % U32
  <2> DEFINE S == repeated(h, k)
  <2>1. /\ ((Cardinality(S) % U32) + 1) % U32 = Cardinality(S \cup {n + 1}) % U32
        /\ (Cardinality(S) % U32) % U32 = Cardinality(S) % U32
    BY <1>6, <1>7, CountStep, Zenon
  <2>2. rec.retransmit_count = Cardinality(S) % U32
    BY Zenon DEF tells, countersTell
  <2> HIDE DEF S
  <2> QED
    BY <1>4, <1>5, <2>1, <2>2 DEF countIf, addIf, gains, S
<1>9. new.syn_count = Cardinality(syns(g, k)) % U32
  <2> DEFINE S == syns(h, k)
  <2>1. /\ ((Cardinality(S) % U32) + 1) % U32 = Cardinality(S \cup {n + 1}) % U32
        /\ (Cardinality(S) % U32) % U32 = Cardinality(S) % U32
    BY <1>6, <1>7, CountStep, Zenon
  <2>2. rec.syn_count = Cardinality(S) % U32
    BY Zenon DEF tells, countersTell
  <2> HIDE DEF S
  <2> QED
    BY <1>4, <1>5, <2>1, <2>2 DEF countIf, addIf, gains, S
<1>10. new.syn_ack_count = Cardinality(synAcks(g, k)) % U32
  <2> DEFINE S == synAcks(h, k)
  <2>1. /\ ((Cardinality(S) % U32) + 1) % U32 = Cardinality(S \cup {n + 1}) % U32
        /\ (Cardinality(S) % U32) % U32 = Cardinality(S) % U32
    BY <1>6, <1>7, CountStep, Zenon
  <2>2. rec.syn_ack_count = Cardinality(S) % U32
    BY Zenon DEF tells, countersTell
  <2> HIDE DEF S
  <2> QED
    BY <1>4, <1>5, <2>1, <2>2 DEF countIf, addIf, gains, S
<1>11. new.rst_count = Cardinality(rsts(g, k)) % U32
  <2> DEFINE S == rsts(h, k)
  <2>1. /\ ((Cardinality(S) % U32) + 1) % U32 = Cardinality(S \cup {n + 1}) % U32
        /\ (Cardinality(S) % U32) % U32 = Cardinality(S) % U32
    BY <1>6, <1>7, CountStep, Zenon
  <2>2. rec.rst_count = Cardinality(S) % U32
    BY Zenon DEF tells, countersTell
  <2> HIDE DEF S
  <2> QED
    BY <1>4, <1>5, <2>1, <2>2 DEF countIf, addIf, gains, S
<1> QED
  BY <1>8, <1>9, <1>10, <1>11, Zenon DEF countersTell, new

\* update keeps a record telling its flow.
LEMMA UpdateTells ==
  ASSUME NEW h, NEW f \in TrackedFrames, NEW g, extends(g, h, f),
         NEW k, k = f.flow_key, NEW rec, tells(rec, h, k),
         mine(h, k) = {} => rec.first_seen_ms = f.timestamp
  PROVE  tells(update(rec, f), g, k)
<1> DEFINE n == Len(h) + 1
           new == update(rec, f)
<1> joins(g, h, f, k, n)
  BY AppendedMine, Zenon
<1>1. mine(g, k) = mine(h, k) \cup {n}
  BY Zenon DEF joins
<1>2. g[n] = f /\ \A j \in mine(h, k) : g[j] = h[j] /\ j < n
  BY Zenon DEF joins
<1>3. /\ new.first_seen_ms = rec.first_seen_ms
      /\ new.retransmit_set = IF numbered(f) THEN rec.retransmit_set \cup {f.seq_num}
                              ELSE rec.retransmit_set
  BY DEF update, numbered
<1>4. countersTell(new, g, k)
  BY CountersTell, Zenon
<1> HIDE DEF n, new
<1>5. \A q : q \in new.retransmit_set <=>
               \E j \in mine(g, k) : numbered(g[j]) /\ g[j].seq_num = q
  BY <1>1, <1>2, <1>3 DEF tells
<1>6. ASSUME NEW j \in mine(g, k), \A i \in mine(g, k) : j <= i
      PROVE  new.first_seen_ms = g[j].timestamp
  <2>1. CASE mine(h, k) = {}
    BY <1>1, <1>2, <1>3, <1>6, <2>1
  <2>2. CASE mine(h, k) # {}
    <3>1. j \in mine(h, k)
      <4>1. PICK i \in mine(h, k) : TRUE
        BY <2>2
      <4>2. j <= i /\ i < n
        BY <1>1, <1>2, <1>6, <4>1
      <4>3. i \in Nat /\ n \in Nat
        BY <4>1 DEF mine, n, extends
      <4>4. j # n
        BY <4>2, <4>3
      <4> QED
        BY <1>1, <4>4
    <3> QED
      BY <1>1, <1>2, <1>3, <1>6, <3>1 DEF tells
  <2> QED
    BY <2>1, <2>2
<1> QED
  BY <1>4, <1>5, <1>6, Zenon DEF tells, new

\* Tracking a frame keeps every record telling its flow.
LEMMA HistoryStep ==
  ASSUME HistoryInv, NEW d \in Dissected, track(d)
  PROVE  HistoryInv'
<1> DEFINE f == stats_stage(d)
           key == f.flow_key
           rec == recordOf(f)
           n == Len(tracked)
<1>1. f \in TrackedFrames
  BY DEF TrackedFrames
<1>2. /\ table_' = [k \in DOMAIN table_ \cup {key} |->
                      IF k = key THEN update(rec, f) ELSE table_[k]]
      /\ out_is_retransmit' = isRetransmit(rec, f)
      /\ flow' = table_'[key]
      /\ tracked' = Append(tracked, f)
  BY SMTT(30) DEF track, flow_tracker
<1>3. NewRecord(f).first_seen_ms = f.timestamp /\ update(rec, f).last_seen_ms = f.timestamp
  BY Zenon DEF NewRecord, update
<1>4. /\ key \in DOMAIN table_ => rec = table_[key]
      /\ key \notin DOMAIN table_ => rec = NewRecord(f)
  BY DEF recordOf
<1> HIDE DEF f, rec
<1>5. tracked \in Seq(TrackedFrames) /\ \A k : k \in DOMAIN table_ <=> mine(tracked, k) # {}
  BY DEF HistoryInv
<1>6. extends(tracked', tracked, f) /\ tracked' \in Seq(TrackedFrames)
  BY <1>1, <1>2, <1>5 DEF extends
<1>7. Len(tracked') = n + 1 /\ tracked'[n + 1] = f /\ n \in Nat
  BY <1>6 DEF extends
<1>8. tells(rec, tracked, key)
  <2>1. CASE key \in DOMAIN table_
    BY <1>4, <2>1 DEF HistoryInv
  <2>2. CASE key \notin DOMAIN table_
    BY <1>4, <1>5, <2>2, NewTells
  <2> QED
    BY <2>1, <2>2
<1>9. mine(tracked, key) = {} => rec.first_seen_ms = f.timestamp
  BY <1>3, <1>4, <1>5
<1>10. tells(update(rec, f), tracked', key)
  BY <1>1, <1>6, <1>8, <1>9, UpdateTells, Zenon
<1>11. ASSUME NEW k \in DOMAIN table_, k # key
       PROVE  tells(table_[k], tracked', k)
  <2>1. tells(table_[k], tracked, k)
    BY DEF HistoryInv
  <2> QED
    BY <1>1, <1>6, <1>11, <2>1, OtherTells, Zenon
<1> HIDE DEF key
<1>12. ASSUME NEW k \in DOMAIN table_' PROVE tells(table_'[k], tracked', k)
  <2>1. CASE k = key
    BY <1>2, <1>10, <2>1
  <2>2. CASE k # key
    <3>1. k \in DOMAIN table_ /\ table_'[k] = table_[k]
      BY <1>2, <2>2
    <3> QED
      BY <1>11, <2>2, <3>1
  <2> QED
    BY <2>1, <2>2
<1>13. ASSUME NEW k PROVE k \in DOMAIN table_' <=> mine(tracked', k) # {}
  <2>1. k \in DOMAIN table_' <=> k \in DOMAIN table_ \/ k = key
    BY <1>2
  <2>2. mine(tracked', k) = IF k = key THEN mine(tracked, k) \cup {n + 1}
                            ELSE mine(tracked, k)
    BY <1>6, AppendedCounts DEF key
  <2> QED
    BY <1>5, <2>1, <2>2, Zenon
<1>14. /\ flow' = table_'[tracked'[n + 1].flow_key]
       /\ flow'.last_seen_ms = tracked'[n + 1].timestamp
  <2>1. table_'[key] = update(rec, f)
    BY <1>2
  <2> QED
    BY <1>2, <1>3, <1>7, <2>1 DEF key
<1>15. out_is_retransmit' <=> repeats(tracked', n + 1)
  BY <1>1, <1>2, <1>6, <1>8, SetTells, Zenon DEF key
<1> QED
  BY <1>6, <1>7, <1>12, <1>13, <1>14, <1>15, Zenon
     DEF HistoryInv

\* In every behaviour of the flow table the records tell their flows.
THEOREM HistoryInvariant == FlowSpec => []HistoryInv
<1>1. FlowInit => HistoryInv
  <2> SUFFICES ASSUME FlowInit PROVE HistoryInv
    OBVIOUS
  <2>1. tracked \in Seq(TrackedFrames) /\ tracked = <<>> /\ \A k : mine(tracked, k) = {}
    BY DEF FlowInit, mine
  <2>2. DOMAIN table_ = {}
    BY DEF FlowInit
  <2> QED
    BY <2>1, <2>2, Zenon DEF HistoryInv
<1>2. HistoryInv /\ [FlowNext]_flowVars => HistoryInv'
  <2> SUFFICES ASSUME HistoryInv, [FlowNext]_flowVars PROVE HistoryInv'
    OBVIOUS
  <2>1. CASE FlowNext
    BY <2>1, HistoryStep DEF FlowNext
  <2>2. CASE UNCHANGED flowVars
    <3>1. table_' = table_ /\ out_is_retransmit' = out_is_retransmit
          /\ flow' = flow /\ tracked' = tracked
      BY <2>2 DEF flowVars
    <3> QED
      BY <3>1, Zenon DEF HistoryInv
  <2> QED
    BY <2>1, <2>2
<1> QED
  BY <1>1, <1>2, PTL DEF FlowSpec

\* The bytes of the frames of flow k in h, each by its frame and its place in it,
\* and the invariant that a record's total_bytes is their number.
held(h, k) == UNION {{j} \X (1..h[j].packet_size) : j \in mine(h, k)}
counted(rec, h, k) ==
  IsFiniteSet(held(h, k)) /\ rec.total_bytes = Cardinality(held(h, k))
BytesInv == \A k \in DOMAIN table_ : counted(table_[k], tracked, k)

\* A frame appended brings its bytes to its flow, and none to another.
LEMMA AppendedBytes ==
  ASSUME NEW h, NEW f \in TrackedFrames, NEW g, extends(g, h, f), NEW k,
         IsFiniteSet(held(h, k))
  PROVE  /\ k = f.flow_key =>
              /\ IsFiniteSet(held(g, k))
              /\ Cardinality(held(g, k)) = Cardinality(held(h, k)) + f.packet_size
         /\ k # f.flow_key => held(g, k) = held(h, k)
<1> DEFINE n == Len(h) + 1
           new == {n} \X (1..f.packet_size)
<1>1. joins(g, h, f, k, n)
  BY AppendedMine, Zenon
<1>2. f.packet_size \in Nat
  <2>1. PICK d \in Dissected : f = stats_stage(d)
    BY DEF TrackedFrames
  <2> QED
    BY <2>1, FlowAssumption DEF stats_stage
<1> HIDE DEF n
<1>3. ASSUME k # f.flow_key PROVE held(g, k) = held(h, k)
  BY <1>1, <1>3, Zenon DEF held, joins
<1>4. ASSUME k = f.flow_key
      PROVE  /\ IsFiniteSet(held(g, k))
             /\ Cardinality(held(g, k)) = Cardinality(held(h, k)) + f.packet_size
  <2>1. held(g, k) = held(h, k) \cup new
    BY <1>1, <1>4 DEF held, joins
  <2>2. held(h, k) \cap new = {}
    BY <1>1 DEF held, joins
  <2>3. IsFiniteSet(new) /\ Cardinality(new) = f.packet_size
    <3>1. IsFiniteSet(1..f.packet_size) /\ Cardinality(1..f.packet_size) = f.packet_size
      BY <1>2, FS_Interval
    <3>2. IsFiniteSet({n}) /\ Cardinality({n}) = 1
      BY FS_Singleton, Zenon
    <3>3. /\ IsFiniteSet(new)
          /\ Cardinality(new) = Cardinality({n}) * Cardinality(1..f.packet_size)
      BY <3>1, <3>2, FS_Product, Zenon
    <3> QED
      BY <1>2, <3>1, <3>2, <3>3
  <2> HIDE DEF new
  <2>4. /\ IsFiniteSet(held(h, k) \cup new)
        /\ Cardinality(held(h, k) \cup new)
             = Cardinality(held(h, k)) + Cardinality(new) - Cardinality({})
    BY <2>2, <2>3, FS_Union
  <2>5. Cardinality({}) = 0 /\ Cardinality(held(h, k)) \in Nat
    BY FS_EmptySet, FS_CardinalityType
  <2> QED
    BY <1>2, <2>1, <2>3, <2>4, <2>5
<1> QED
  BY <1>3, <1>4

\* Tracking a frame adds its size to the record of its flow, a new record from
\* zero, and to no other.
LEMMA BytesStep ==
  ASSUME HistoryInv, BytesInv, NEW d \in Dissected, track(d)
  PROVE  BytesInv'
<1> DEFINE f == stats_stage(d)
           key == f.flow_key
           rec == recordOf(f)
<1>1. f \in TrackedFrames
  BY DEF TrackedFrames
<1>2. /\ table_' = [k \in DOMAIN table_ \cup {key} |->
                      IF k = key THEN update(rec, f) ELSE table_[k]]
      /\ tracked' = Append(tracked, f)
  BY SMTT(30) DEF track, flow_tracker
<1>3. update(rec, f).total_bytes = rec.total_bytes + f.packet_size
      /\ NewRecord(f).total_bytes = 0
  BY Zenon DEF update, NewRecord
<1>4. /\ key \in DOMAIN table_ => rec = table_[key]
      /\ key \notin DOMAIN table_ => rec = NewRecord(f)
  BY DEF recordOf
<1> HIDE DEF f, rec
<1>5. tracked \in Seq(TrackedFrames) /\ \A k : k \in DOMAIN table_ <=> mine(tracked, k) # {}
  BY DEF HistoryInv
<1>6. extends(tracked', tracked, f)
  BY <1>1, <1>2, <1>5 DEF extends
<1>7. counted(rec, tracked, key)
  <2>1. CASE key \in DOMAIN table_
    BY <1>4, <2>1 DEF BytesInv
  <2>2. CASE key \notin DOMAIN table_
    <3>1. held(tracked, key) = {}
      BY <1>5, <2>2 DEF held
    <3> QED
      BY <1>3, <1>4, <2>2, <3>1, FS_EmptySet DEF counted
  <2> QED
    BY <2>1, <2>2
<1>8. counted(update(rec, f), tracked', key)
  BY <1>1, <1>3, <1>6, <1>7, AppendedBytes DEF counted
<1> HIDE DEF key
<1>9. ASSUME NEW k \in DOMAIN table_' PROVE counted(table_'[k], tracked', k)
  <2>1. CASE k = key
    BY <1>2, <1>8, <2>1
  <2>2. CASE k # key
    <3>1. k \in DOMAIN table_ /\ table_'[k] = table_[k] /\ counted(table_[k], tracked, k)
      BY <1>2, <2>2, Zenon DEF BytesInv
    <3>2. held(tracked', k) = held(tracked, k)
      BY <1>1, <1>6, <2>2, <3>1, AppendedBytes DEF counted, key
    <3> QED
      BY <3>1, <3>2 DEF counted
  <2> QED
    BY <2>1, <2>2
<1> QED
  BY <1>9 DEF BytesInv

\* The records' byte totals are those of their flows' frames.
THEOREM BytesInvariant == FlowSpec => []BytesInv
<1>1. FlowInit => BytesInv
  BY DEF FlowInit, BytesInv
<1>2. HistoryInv /\ BytesInv /\ [FlowNext]_flowVars => BytesInv'
  <2> SUFFICES ASSUME HistoryInv, BytesInv, [FlowNext]_flowVars PROVE BytesInv'
    OBVIOUS
  <2>1. CASE FlowNext
    BY <2>1, BytesStep DEF FlowNext
  <2>2. CASE UNCHANGED flowVars
    <3>1. table_' = table_ /\ tracked' = tracked
      BY <2>2 DEF flowVars
    <3> QED
      BY <3>1, Zenon DEF BytesInv
  <2> QED
    BY <2>1, <2>2
<1> QED
  BY <1>1, <1>2, HistoryInvariant, PTL DEF FlowSpec

\* is_retransmit is set exactly for a TCP frame whose sequence number, not
\* zero, an earlier frame of its flow had, and retransmit_count counts those
\* frames modulo 2^32, whatever frames are tracked and however many.
THEOREM FlowRetransmitsExact == FlowSpec => []RetransmitsExact
<1>1. ASSUME HistoryInv PROVE RetransmitsExact
  <2> DEFINE n == Len(tracked)
             again(j) == \E i \in ofFlow(tracked[j].flow_key, j - 1) :
                           /\ tracked[j].protocol = 6 /\ tracked[i].protocol = 6
                           /\ tracked[i].seq_num = tracked[j].seq_num
                           /\ tracked[j].seq_num # 0
  <2>1. \A j : again(j) <=> repeats(tracked, j)
    BY Zenon DEF ofFlow, repeats
  <2>2. n > 0 => tracked # <<>>
    BY <1>1 DEF HistoryInv
  <2>3. n > 0 => (out_is_retransmit <=> again(n))
    BY <1>1, <2>1, <2>2, Zenon DEF HistoryInv
  <2>4. ASSUME NEW k \in DOMAIN table_
        PROVE  table_[k].retransmit_count =
                 Cardinality({j \in ofFlow(k, n) : again(j)}) % U32
    <3>1. ofFlow(k, n) = mine(tracked, k)
      BY Zenon DEF ofFlow, mine
    <3>2. {j \in ofFlow(k, n) : again(j)} = repeated(tracked, k)
      <4> HIDE DEF again
      <4> QED
        BY <2>1, <3>1 DEF repeated
    <3>3. table_[k].retransmit_count = Cardinality(repeated(tracked, k)) % U32
      BY <1>1, Zenon DEF HistoryInv, tells, countersTell
    <3> QED
      BY <3>2, <3>3, Zenon
  <2> QED
    BY <2>3, <2>4, Zenon DEF RetransmitsExact
<1> QED
  BY <1>1, HistoryInvariant, PTL

\* The record that goes out with a frame has the time of its flow's first
\* frame and of this one, and its handshake and reset counters are those of
\* the flow's frames so far, modulo 2^32.
THEOREM FlowRecordTells == FlowSpec => []RecordTellsFlow
<1>1. ASSUME HistoryInv PROVE RecordTellsFlow
  <2> SUFFICES ASSUME Len(tracked) > 0 PROVE RecordTellsFlow
    BY Zenon DEF RecordTellsFlow
  <2> DEFINE n == Len(tracked)
             k == tracked[n].flow_key
  <2>1. tracked # <<>> /\ n \in Nat
    BY <1>1 DEF HistoryInv
  <2>2. k \in DOMAIN table_
    <3>1. n \in mine(tracked, k)
      BY <2>1 DEF mine
    <3> QED
      BY <1>1, <3>1, Zenon DEF HistoryInv
  <2>3. /\ flow = table_[k] /\ flow.last_seen_ms = tracked[n].timestamp
        /\ tells(table_[k], tracked, k)
    BY <1>1, <2>1, <2>2, Zenon DEF HistoryInv
  <2>4. ofFlow(k, n) = mine(tracked, k)
    BY Zenon DEF ofFlow, mine
  <2> HIDE DEF k
  <2>5. \A j \in ofFlow(k, n) : (\A i \in ofFlow(k, n) : j <= i) =>
          flow.first_seen_ms = tracked[j].timestamp
    BY <2>3, <2>4, Zenon DEF tells
  <2>6. flow.syn_count = Cardinality({j \in ofFlow(k, n) :
          "SYN" \in tracked[j].flags /\ "ACK" \notin tracked[j].flags}) % U32
    BY <2>3, <2>4, Zenon DEF tells, countersTell, syns
  <2>7. flow.syn_ack_count = Cardinality({j \in ofFlow(k, n) :
          {"SYN", "ACK"} \subseteq tracked[j].flags}) % U32
    BY <2>3, <2>4, Zenon DEF tells, countersTell, synAcks
  <2>8. flow.rst_count = Cardinality({j \in ofFlow(k, n) :
          "RST" \in tracked[j].flags}) % U32
    BY <2>3, <2>4, Zenon DEF tells, countersTell, rsts
  <2> QED
    BY <2>3, <2>5, <2>6, <2>7, <2>8, Zenon DEF RecordTellsFlow, k
<1> QED
  BY <1>1, HistoryInvariant, PTL
-----------------------------------------------------------------------------
\* The records.  The stages feed the flow table what it assumes, and every
\* record is that of its own frame.

\* What the stages keep is what FlowAssumption says of the flow table's input:
\* the kind follows from the protocol, and a frame that is not ARP has a size.
LEMMA StagesFeedFlowTable ==
  ASSUME NEW f \in Frames, NEW old \in Leftovers, f.ts \in Nat,
         NEW d, d = dissect(f, old), kept(d)
  PROVE  /\ d.kind \in Kinds /\ d.ts \in Nat
         /\ d.kind # "arp" => d.total_length \in Nat
         /\ d.kind = "tcp" <=> d.protocol = 6
<1> DEFINE h == asRead(f, old)
<1> HIDE DEF h
<1>1. h.total_length \in Nat
  BY LengthRead, Zenon DEF h
<1>2. \/ d = None \/ d = arpFrame(h, f.ts)
      \/ h.protocol = 6 /\ d = ipTcpFrame(h, f.ts)
      \/ h.protocol # 6 /\ (d = ipUdpFrame(h, f.ts)
                            \/ \E k \in {"icmp", "other"} : \E n :
                                 d = ipOtherFrame(h, k, f.ts, n))
  <2>1. d = None \/ d = dissector_stage(h, f.size - ETHERNET_HEADER_SIZE, f.ts)
    BY DEF dissect, h
  <2> QED
    BY <2>1 DEF dissector_stage
<1>3. d # None
  BY DEF kept, None
<1>4. CASE d = arpFrame(h, f.ts)
  BY <1>4 DEF arpFrame, Kinds
<1>5. CASE h.protocol = 6 /\ d = ipTcpFrame(h, f.ts)
  BY <1>1, <1>5 DEF ipTcpFrame, Kinds
<1>6. CASE h.protocol # 6 /\ d = ipUdpFrame(h, f.ts)
  BY <1>1, <1>6 DEF ipUdpFrame, Kinds
<1>7. ASSUME NEW k \in {"icmp", "other"}, NEW n, h.protocol # 6,
             d = ipOtherFrame(h, k, f.ts, n)
      PROVE  /\ d.kind \in Kinds /\ d.ts \in Nat
             /\ d.kind # "arp" => d.total_length \in Nat
             /\ d.kind = "tcp" <=> d.protocol = 6
  BY <1>1, <1>7 DEF ipOtherFrame, Kinds
<1> QED
  BY <1>2, <1>3, <1>4, <1>5, <1>6, <1>7

\* A round of the loop is a step of the flow table, or leaves it alone.
THEOREM PipelineImplementsFlow == PipelineSpec => FlowSpec
<1> DEFINE At == input \in Frames /\ left \in Leftovers
<1>1. PipelineInit => FlowInit /\ At
  BY DEF PipelineInit, DissectorInit
<1>2. At /\ [PipelineNext]_pipelineVars => At' /\ [FlowNext]_flowVars
  <2> SUFFICES ASSUME At, [PipelineNext]_pipelineVars
               PROVE  At' /\ [FlowNext]_flowVars
    OBVIOUS
  <2>1. CASE readNext
    BY <2>1 DEF readNext
  <2>2. CASE process
    <3>1. out' = dissect(input, left) /\ UNCHANGED <<input, left>>
      BY <2>2 DEF process, handle
    <3>2. CASE kept(out')
      <4>1. out' \in Dissected
        BY <3>1, <3>2, PipelineAssumption
      <4>2. track(out')
        BY <2>2, <3>2 DEF process
      <4> QED
        BY <3>1, <4>1, <4>2 DEF FlowNext
    <3>3. CASE ~kept(out')
      BY <2>2, <3>1, <3>3 DEF process
    <3> QED
      BY <3>2, <3>3
  <2>3. CASE UNCHANGED pipelineVars
    BY <2>3 DEF pipelineVars, dissectorVars
  <2> QED
    BY <2>1, <2>2, <2>3 DEF PipelineNext
<1> QED
  BY <1>1, <1>2, PTL DEF PipelineSpec, FlowSpec

\* What the stages promise of one frame they keep promising in the loop, where
\* every frame is read over what is left of all those before it.
THEOREM PipelineKeepsStages == PipelineSpec => [](LayersNest /\ NoStaleBytes)
<1>1. PipelineInit => DissectorInv
  BY DEF PipelineInit, DissectorInit, DissectorInv
<1>2. DissectorInv /\ [PipelineNext]_pipelineVars => DissectorInv'
  <2> SUFFICES ASSUME DissectorInv, [PipelineNext]_pipelineVars
               PROVE  DissectorInv'
    OBVIOUS
  <2>1. CASE readNext
    BY <2>1 DEF readNext, DissectorInv
  <2>2. CASE process
    BY <2>2 DEF process, handle, DissectorInv
  <2>3. CASE UNCHANGED pipelineVars
    BY <2>3 DEF pipelineVars, dissectorVars, DissectorInv
  <2> QED
    BY <2>1, <2>2, <2>3 DEF PipelineNext
<1> QED
  BY <1>1, <1>2, ResultNests, ResultFresh, PTL DEF PipelineSpec

\* What a record that is sent is made of: the last frame tracked, which is of a
\* protocol that is sent, and what the flow table returned for it.
recordOfLast ==
  \E d \in Dissected :
    /\ isPublished(stats_stage(d))
    /\ tracked # <<>> /\ tracked[Len(tracked)] = stats_stage(d)
    /\ json = buildJson(d, stats_stage(d), flow, out_is_retransmit)
RecordInv == input \in Frames /\ left \in Leftovers /\ (sent => recordOfLast)

\* Each round sends the record of the frame that it has tracked.
THEOREM RecordInvariant == PipelineSpec => []RecordInv
<1>1. PipelineInit => RecordInv
  BY DEF PipelineInit, DissectorInit, RecordInv, sent
<1>2. HistoryInv /\ RecordInv /\ [PipelineNext]_pipelineVars => RecordInv'
  <2> SUFFICES ASSUME HistoryInv, RecordInv, [PipelineNext]_pipelineVars
               PROVE  RecordInv'
    OBVIOUS
  <2>1. CASE readNext
    BY <2>1 DEF readNext, RecordInv, sent
  <2>2. CASE process
    <3>1. out' = dissect(input, left) /\ UNCHANGED <<input, left>>
      BY <2>2 DEF process, handle
    <3>2. ASSUME sent' PROVE recordOfLast'
      <4> DEFINE d == out'
      <4>1. /\ kept(d) /\ track(d) /\ isPublished(stats_stage(d))
            /\ json' = buildJson(d, stats_stage(d), flow', out_is_retransmit')
        BY <2>2, <3>2 DEF process, sent
      <4>2. d \in Dissected
        BY <3>1, <4>1, PipelineAssumption DEF RecordInv
      <4>3. tracked' = Append(tracked, stats_stage(d)) /\ tracked \in Seq(TrackedFrames)
        BY <4>1 DEF track, HistoryInv
      <4>4. tracked' # <<>> /\ tracked'[Len(tracked')] = stats_stage(d)
        BY <4>3
      <4> QED
        BY <4>1, <4>2, <4>4 DEF recordOfLast
    <3> QED
      BY <3>1, <3>2 DEF RecordInv
  <2>3. CASE UNCHANGED pipelineVars
    BY <2>3 DEF pipelineVars, dissectorVars, flowVars, RecordInv, sent, recordOfLast
  <2> QED
    BY <2>1, <2>2, <2>3 DEF PipelineNext
<1> QED
  BY <1>1, <1>2, PipelineImplementsFlow, HistoryInvariant, PTL DEF PipelineSpec

\* Every record that is sent has a protocol that the database accepts.
THEOREM PipelineSchemaAccepts == PipelineSpec => []SchemaAccepts
<1>1. RecordInv => SchemaAccepts
  BY DEF RecordInv, recordOfLast, SchemaAccepts, traffic_flows, buildJson,
         protocolToStr, isPublished
<1> QED
  BY <1>1, RecordInvariant, PTL

\* A record is that of its own frame, and its bytes are all in the direction it
\* states; PipelineRecordAccountsForFlow adds what they sum up.
THEOREM PipelineRecordOfFrame == PipelineSpec => [](sent => ofThisFrame)
<1>1. FlowInv /\ HistoryInv /\ RecordInv => (sent => ofThisFrame)
  <2> SUFFICES ASSUME FlowInv, HistoryInv, RecordInv, sent PROVE ofThisFrame
    OBVIOUS
  <2> DEFINE n == Len(tracked)
  <2>1. PICK d \in Dissected :
          /\ tracked # <<>> /\ tracked[n] = stats_stage(d)
          /\ json = buildJson(d, stats_stage(d), flow, out_is_retransmit)
    BY DEF RecordInv, recordOfLast
  <2> DEFINE frame == stats_stage(d)
             key == frame.flow_key
  <2>2. /\ json.timestamp = frame.timestamp /\ json.last_seen = flow.last_seen_ms
        /\ json.flow_key = key /\ json.seq_num = frame.seq_num
        /\ json.direction = directionStr(frame.direction)
        /\ json.total_bytes = flow.total_bytes
        /\ json.inbound_bytes = flow.inbound_bytes
        /\ json.outbound_bytes = flow.outbound_bytes
        /\ json.is_retransmit = out_is_retransmit
    BY <2>1 DEF buildJson
  <2>3. n \in Nat /\ n > 0 /\ tracked \in Seq(TrackedFrames)
    <3>1. tracked \in Seq(TrackedFrames)
      BY Zenon DEF HistoryInv
    <3> QED
      BY <2>1, <3>1
  <2>4. /\ flow = table_[key] /\ flow.last_seen_ms = frame.timestamp
        /\ out_is_retransmit <=> repeats(tracked, n)
    BY <2>1, Zenon DEF HistoryInv
  <2>5. key \in DOMAIN table_
    <3>1. n \in mine(tracked, key)
      BY <2>1, <2>3 DEF mine
    <3> QED
      BY <3>1, Zenon DEF HistoryInv
  <2>6. bytesFollow(flow, frame.direction)
    BY <2>4, <2>5, KeyGivesDirection DEF FlowInv
  <2>7. /\ directionStr(frame.direction) = "inbound" => frame.direction = "Inbound"
        /\ directionStr(frame.direction) = "outbound" => frame.direction = "Outbound"
    BY DEF directionStr
  <2>8. ASSUME out_is_retransmit
        PROVE  \E j \in ofFlow(key, n - 1) : tracked[j].seq_num = frame.seq_num
    BY <2>1, <2>3, <2>4, <2>8 DEF repeats, ofFlow
  <2> HIDE DEF n, frame, key
  <2> QED
    BY <2>2, <2>4, <2>6, <2>7, <2>8 DEF ofThisFrame, bytesFollow, n
<1> QED
  BY <1>1, RecordInvariant, PipelineImplementsFlow, FlowInvariant, HistoryInvariant, PTL

\* Every record that is sent accounts for its flow: it is that of its own frame,
\* its bytes are those of all frames of the flow that the pipeline kept, each
\* counted once, and those of its direction are all of them.
THEOREM PipelineRecordAccountsForFlow == PipelineSpec => []RecordAccountsForFlow
<1>1. ASSUME HistoryInv, BytesInv, RecordInv, sent, ofThisFrame
      PROVE  RecordAccountsForFlow
  <2> DEFINE n == Len(tracked)
             key == tracked[n].flow_key
  <2>1. PICK d \in Dissected :
          /\ tracked # <<>> /\ tracked[n] = stats_stage(d)
          /\ json = buildJson(d, stats_stage(d), flow, out_is_retransmit)
    BY <1>1, Zenon DEF RecordInv, recordOfLast
  <2>2. json.flow_key = key /\ json.total_bytes = flow.total_bytes
    BY <2>1 DEF buildJson
  <2>3. tracked \in Seq(TrackedFrames) /\ flow = table_[key]
    BY <1>1, <2>1, Zenon DEF HistoryInv
  <2>4. key \in DOMAIN table_
    <3>1. n \in mine(tracked, key)
      BY <2>1, <2>3 DEF mine
    <3> QED
      BY <1>1, <3>1 DEF HistoryInv
  <2>5. bytesOf(ofFlow(key, n)) = held(tracked, key)
    BY DEF bytesOf, held, ofFlow, mine
  <2> HIDE DEF n, key
  <2>6. json.total_bytes = Cardinality(bytesOf(ofFlow(key, n)))
    BY <1>1, <2>2, <2>3, <2>4, <2>5 DEF BytesInv, counted
  <2> QED
    BY <1>1, <2>2, <2>6, Zenon DEF RecordAccountsForFlow, n
<1>2. HistoryInv /\ BytesInv /\ RecordInv /\ (sent => ofThisFrame)
      => RecordAccountsForFlow
  BY <1>1 DEF RecordAccountsForFlow
<1> QED
  BY <1>2, RecordInvariant, PipelineRecordOfFrame, PipelineImplementsFlow,
     BytesInvariant, HistoryInvariant, PTL
=============================================================================
