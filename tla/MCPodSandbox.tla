---------------------------- MODULE MCPodSandbox ----------------------------
(* Small instances of PodSandbox for TLC.                                  *)
EXTENDS PodSandbox, TLC

\* Workers and sandbox IDs are interchangeable.
Symmetry == Permutations(Workers) \cup Permutations(Sandboxes)
=============================================================================
