-------------------------- MODULE MCCheckpointStore --------------------------
(* Model checking of CheckpointStore.  A progress property is checked, so no *)
(* symmetry is used.                                                         *)
EXTENDS CheckpointStore, TLC
=============================================================================
