------------------------------ MODULE MCEngine ------------------------------
(***************************************************************************)
(* Engine on a ring of one or two slots, with a few arriving frames.       *)
(***************************************************************************)
EXTENDS Engine

\* Frames of different fates: published, of a protocol that is not, too short
\* for the filter stage, longer than frame_buf (IP and ARP), and of no bytes.
MCWireFrames ==
  {[wire |-> 2, kind |-> "ip"], [wire |-> FRAME_BUF_SIZE, kind |-> "other"],
   [wire |-> 1, kind |-> "ip"], [wire |-> FRAME_BUF_SIZE + 1, kind |-> "ip"],
   [wire |-> FRAME_BUF_SIZE + 1, kind |-> "arp"], [wire |-> 0, kind |-> "ip"]}

\* One frame that reaches publish(), and one that does not.
MCTwoFrames == {[wire |-> 2, kind |-> "ip"], [wire |-> 2, kind |-> "ipv6"]}

MCData == EngineData
=============================================================================
