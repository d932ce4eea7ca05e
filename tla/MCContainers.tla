---------------------------- MODULE MCContainers ----------------------------
(* A small instance of Containers for TLC.                                  *)
EXTENDS Containers, TLC

MCMetadata == {[name |-> "c", attempt |-> 0]}

Symmetry == Permutations(Workers)
=============================================================================
