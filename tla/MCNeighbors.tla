---------------------------- MODULE MCNeighbors ----------------------------
(* A small neighbour table; the motes that may be heard are interchangeable. *)
EXTENDS Neighbors, TLC

MoteSymmetry == Permutations(Motes)
=============================================================================
