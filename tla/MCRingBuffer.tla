---------------------------- MODULE MCRingBuffer ----------------------------
(***************************************************************************)
(* RingBuffer with two producers and two consumers on a small ring.        *)
(***************************************************************************)
EXTENDS RingBuffer, TLC

CONSTANT MaxWrites   \* bound: write() calls that may store something

\* Two data that fit a slot, one of them exactly, and the two refused sizes.
MCData == {[id |-> 1, size |-> 1], [id |-> 2, size |-> SLOT_SIZE],
           [id |-> 3, size |-> 0], [id |-> 4, size |-> SLOT_SIZE + 1]}

MCRingNext == RingNext /\ Len(accepted') <= MaxWrites

MCRingSpec == RingInit /\ [][MCRingNext]_ringVars

ThreadSymmetry == Permutations(Writers) \cup Permutations(Readers)
=============================================================================
