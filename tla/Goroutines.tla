----------------------------- MODULE Goroutines -----------------------------
(***************************************************************************)
(* The parts of the service in which goroutines wait for each other: the   *)
(* locks of the network's operations, the streams of a port forwarding and *)
(* of an exec session, a call of the exec handler and the sizes of         *)
(* writable layers.  No step of one reads or writes what another has: in a *)
(* behaviour of this module one of them, chosen at the start, runs, and    *)
(* the others rest.                                                        *)
(***************************************************************************)
EXTENDS PluginManager, StreamPairs, RemoteStreams, Exec, Stats

VARIABLE part   \* the part that runs

goroutineVars == <<part, vars, pairVars, remoteVars, execVars, statsVars>>

GoroutinesInit ==
  /\ part \in {"locks", "portforward", "remotecommand", "exec", "stats"}
  /\ Init /\ ExecInit /\ StatsInit
  /\ PairsInit /\ (part # "portforward" => client = "new")
  /\ RemoteInit /\ (part # "remotecommand" => extra = "none" /\ asked = CHOOSE a \in Sessions : TRUE)

GoroutinesNext ==
  \/ part = "locks" /\ Next
     /\ UNCHANGED <<part, pairVars, remoteVars, execVars, statsVars>>
  \/ part = "portforward" /\ PairsNext
     /\ UNCHANGED <<part, vars, remoteVars, execVars, statsVars>>
  \/ part = "remotecommand" /\ RemoteNext
     /\ UNCHANGED <<part, vars, pairVars, execVars, statsVars>>
  \/ part = "exec" /\ ExecNext
     /\ UNCHANGED <<part, vars, pairVars, remoteVars, statsVars>>
  \/ part = "stats" /\ StatsNext
     /\ UNCHANGED <<part, vars, pairVars, remoteVars, execVars>>

GoroutinesFairness ==
  Fairness /\ PairsFairness /\ RemoteFairness /\ ExecFairness /\ StatsFairness

GoroutinesSpec == GoroutinesInit /\ [][GoroutinesNext]_goroutineVars /\ GoroutinesFairness

-----------------------------------------------------------------------------
\* Whatever waits inside the service gets what it waits for, or gives up: a pair
\* of streams that was never completed leaves the map, the creation of a
\* session's streams ends, a collector that was replaced ends, and so does
\* ListContainerStats, whose list waits for room in a channel, unless it waits for
\* the daemon, which is asked for the stats of a container without a deadline.
NothingHangs == PairsLeave /\ CreationEnds /\ CollectorsEnd /\ ListsReturn
=============================================================================
