------------------------------ MODULE MCSystem ------------------------------
(***************************************************************************)
(* System with a ring of one slot and few frames.                          *)
(***************************************************************************)
EXTENDS System

\* A frame that is published, and one of a protocol that is not.
MCKinds == {[wire |-> 1, kind |-> "ip"], [wire |-> 1, kind |-> "other"]}

MCData == EngineData
=============================================================================
