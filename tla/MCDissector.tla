---------------------------- MODULE MCDissector -----------------------------
(***************************************************************************)
(* Dissector on frames whose lengths are on, just below and just above the *)
(* limits that the parsers compare them with.                              *)
(***************************************************************************)
EXTENDS Dissector

Blank ==
  [ethertype |-> ETHERTYPE_IPV4, version |-> 4, ihl |-> 5, total_length |-> 0,
   protocol |-> 0, src |-> 0, dst |-> 0, arp_types |-> TRUE, sender |-> 0,
   target |-> 0, src_port |-> 0, dst_port |-> 0, seq_num |-> 0,
   data_offset |-> 5, flags |-> {}, length |-> 8]

\* Two leftovers that differ in every field: a zero and a used buffer.
MCLeftovers ==
  {[n \in DOMAIN Blank |-> CASE n \in {"ethertype"} -> "none"
                             [] n = "arp_types" -> FALSE
                             [] n = "flags" -> {}
                             [] OTHER -> 0],
   [Blank EXCEPT !.total_length = 40, !.protocol = 6, !.src = 9, !.dst = 9,
                 !.sender = 9, !.target = 9, !.src_port = 9, !.dst_port = 9,
                 !.seq_num = 9, !.flags = {"RST"}, !.length = 9]}

ipFrames ==
  {[size |-> s, ts |-> 1,
    frame |-> [Blank EXCEPT !.version = v, !.ihl = i, !.total_length = t,
                            !.protocol = p, !.data_offset = d, !.length = u,
                            !.src = 1, !.dst = 2, !.src_port = 1, !.flags = {"SYN"}]] :
     s \in {15, 33, 34, 38, 41, 42, 53, 54, 58, 74, 94}, v \in {4, 6},
     i \in {4, 5, 6, 15}, t \in {0, 19, 20, 24, 27, 28, 39, 40, 44, 60, 65535},
     p \in {0, 1, 6, 17}, d \in {4, 5, 6}, u \in {7, 8, 20}}
otherFrames ==
  {[size |-> s, ts |-> 1,
    frame |-> [Blank EXCEPT !.ethertype = e, !.arp_types = a, !.sender = 1,
                            !.target = 2]] :
     s \in {1, 13, 14, 15, 41, 42, 60}, e \in {ETHERTYPE_ARP, "IPv6"}, a \in BOOLEAN}

MCFrames == ipFrames \cup otherFrames
=============================================================================
