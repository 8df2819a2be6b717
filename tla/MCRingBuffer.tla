---------------------------- MODULE MCRingBuffer ----------------------------
(* The instances of RingBuffer that TLC checks.                            *)
EXTENDS RingBuffer, TLC

Symmetry == Permutations(Writers) \cup Permutations(Readers) \cup Permutations(Values)
=============================================================================
