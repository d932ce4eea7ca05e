------------------------------ MODULE PodMutex ------------------------------
(***************************************************************************)
(* What network.PluginManager promises (the comment on the type): the      *)
(* setup, teardown and status operations of one pod are synchronized       *)
(* against each other, and those of other pods proceed in parallel.        *)
(***************************************************************************)
CONSTANTS Workers, Pods, None

VARIABLES
  phase,  \* per worker: "idle", "waiting" or "running" an operation
  pod     \* per worker: the pod of the operation, None when idle

Init ==
  /\ phase = [w \in Workers |-> "idle"]
  /\ pod = [w \in Workers |-> None]

Request(w, p) ==
  /\ phase[w] = "idle"
  /\ phase' = [phase EXCEPT ![w] = "waiting"]
  /\ pod' = [pod EXCEPT ![w] = p]

\* Only an operation of the same pod keeps one waiting.
Enter(w) ==
  /\ phase[w] = "waiting"
  /\ \A v \in Workers : phase[v] = "running" => pod[v] # pod[w]
  /\ phase' = [phase EXCEPT ![w] = "running"]
  /\ UNCHANGED pod

Leave(w) ==
  /\ phase[w] = "running"
  /\ phase' = [phase EXCEPT ![w] = "idle"]
  /\ pod' = [pod EXCEPT ![w] = None]

Next == \E w \in Workers : (\E p \in Pods : Request(w, p)) \/ Enter(w) \/ Leave(w)

Spec == Init /\ [][Next]_<<phase, pod>>
=============================================================================
