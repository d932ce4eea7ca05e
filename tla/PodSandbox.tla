----------------------------- MODULE PodSandbox -----------------------------
(***************************************************************************)
(* The life of a pod sandbox: the gRPC handlers RunPodSandbox,             *)
(* StopPodSandbox, RemovePodSandbox and ListPodSandbox of core/, run by    *)
(* concurrent workers against four pieces of state that no transaction     *)
(* ties together:                                                          *)
(*                                                                         *)
(*   container     the sandbox container, held by the Docker daemon        *)
(*   checkpoint    the checkpoint file of the sandbox, on disk             *)
(*   network       what the network plugin holds for the sandbox           *)
(*   networkReady  the shim's in-memory map, lost when the shim restarts   *)
(*                                                                         *)
(* Every call to Docker, to the checkpoint manager and to the network      *)
(* plugin, and every access to the networkReady map, is one step; the      *)
(* steps of different workers interleave.  A call may fail without having  *)
(* had an effect, or return an error (a timeout) after it had its effect:  *)
(* each such failure is counted in faults.  The shim may crash between     *)
(* any two steps.                                                          *)
(***************************************************************************)
EXTENDS Integers, FiniteSets

CONSTANTS
  Workers,    \* goroutines serving CRI requests
  Sandboxes,  \* container IDs the daemon can generate
  Names,      \* sandbox names (pod and attempt) the kubelet asks for
  Requests,   \* the kinds of request served
  MaxFaults,  \* bound on injected failures
  MaxCrashes, \* bound on restarts of the shim
  None        \* no sandbox, no name

ASSUME NoneAssumption == None \notin Sandboxes /\ None \notin Names
ASSUME RequestsAssumption == Requests \subseteq {"run", "stop", "remove", "list"}
ASSUME BoundsAssumption == MaxFaults \in Nat /\ MaxCrashes \in Nat

VARIABLES
  container,    \* state of the sandbox container in the daemon
  dockerName,   \* the name the container was created with, None if randomized
  hostNetwork,  \* does the container use the host's network
  workload,     \* does the sandbox have application containers
  checkpoint,   \* the checkpoint file
  network,      \* the plugin's resources: address, interface, host ports
  networkReady, \* dockerService.networkReady; "unknown" is a missing key
  pc,           \* per worker: the next step of its handler
  id,           \* per worker: the sandbox the handler is about
  name,         \* per worker: the name RunPodSandbox was asked for
  other,        \* per worker: the container a create conflicted with
  host,         \* per worker: hostNetwork as the handler knows it
  err,          \* per worker: the error the handler has to report
  ids,          \* per worker: sandboxes ListPodSandbox still looks up
  runOK,        \* history: sandboxes whose RunPodSandbox succeeded
  stopOK,       \* history: sandboxes for which a StopPodSandbox succeeded
  removeOK,     \* history: sandboxes for which a RemovePodSandbox succeeded
  raced,        \* history: sandboxes stopped, removed or replaced while being run
  ghosts,       \* history: sandboxes listed from their checkpoint alone
  faults,       \* number of failures so far
  crashes       \* number of restarts so far

dockerVars  == <<container, dockerName, hostNetwork, workload>>
storeVars   == <<dockerVars, checkpoint, network, networkReady>>
requestVars == <<name, other, host, err, ids>>
handlerVars == <<pc, id, requestVars>>
historyVars == <<runOK, stopOK, removeOK, raced, ghosts>>
vars == <<storeVars, handlerVars, historyVars, faults, crashes>>

-----------------------------------------------------------------------------
RunPCs == {"create", "recover", "createRandom", "notReady", "checkpoint",
           "start", "dns", "setUp", "rollbackNet", "rollbackStop", "ready"}
StopPCs == {"inspect", "readCheckpoint", "checkReady", "tearDown", "markDown",
            "stop", "dropCheckpoint"}
RemovePCs == {"rmList", "rmWorkload", "rmSandbox", "rmReady", "rmCheckpoint"}
ListPCs == {"lsCheckpoints", "lsContainers", "lsMerge"}
PCs == {"idle"} \cup RunPCs \cup StopPCs \cup RemovePCs \cup ListPCs

Exists(s) == container[s] \in {"created", "running", "exited"}

\* Containers that hold name n in the daemon.
Holders(n) == {s \in Sandboxes : Exists(s) /\ dockerName[s] = n}

RunInFlight(s) == \E w \in Workers : id[w] = s /\ pc[w] \in RunPCs
InFlight(s) == \E w \in Workers : id[w] = s /\ pc[w] # "idle"

-----------------------------------------------------------------------------
Init ==
  /\ container = [s \in Sandboxes |-> "absent"]
  /\ dockerName = [s \in Sandboxes |-> None]
  /\ hostNetwork = [s \in Sandboxes |-> FALSE]
  /\ workload = [s \in Sandboxes |-> FALSE]
  /\ checkpoint = [s \in Sandboxes |-> "none"]
  /\ network = [s \in Sandboxes |-> "down"]
  /\ networkReady = [s \in Sandboxes |-> "unknown"]
  /\ pc = [w \in Workers |-> "idle"]
  /\ id = [w \in Workers |-> None]
  /\ name = [w \in Workers |-> None]
  /\ other = [w \in Workers |-> None]
  /\ host = [w \in Workers |-> FALSE]
  /\ err = [w \in Workers |-> "nil"]
  /\ ids = [w \in Workers |-> {}]
  /\ runOK = {} /\ stopOK = {} /\ removeOK = {} /\ raced = {} /\ ghosts = {}
  /\ faults = 0 /\ crashes = 0

-----------------------------------------------------------------------------
(* What a step does to its own handler and to the count of failures.       *)

At(w, l) == pc[w] = l

Goto(w, l) == pc' = [pc EXCEPT ![w] = l] /\ UNCHANGED <<id, requestVars>>

\* Go on with an error in hand.
GotoWith(w, l, e) ==
  /\ pc' = [pc EXCEPT ![w] = l]
  /\ err' = [err EXCEPT ![w] = e]
  /\ UNCHANGED <<id, name, other, host, ids>>

Return(w) ==
  /\ pc' = [pc EXCEPT ![w] = "idle"]
  /\ id' = [id EXCEPT ![w] = None]
  /\ name' = [name EXCEPT ![w] = None]
  /\ other' = [other EXCEPT ![w] = None]
  /\ host' = [host EXCEPT ![w] = FALSE]
  /\ err' = [err EXCEPT ![w] = "nil"]
  /\ ids' = [ids EXCEPT ![w] = {}]

Fault == faults < MaxFaults /\ faults' = faults + 1
TwoFaults == faults + 1 < MaxFaults /\ faults' = faults + 2
NoFault == faults' = faults

\* A request that stops, removes or replaces s while s is being run.
Overlap(s) == raced' = IF RunInFlight(s) THEN raced \cup {s} ELSE raced

SetContainer(s, v) ==
  /\ container' = [container EXCEPT ![s] = v]
  /\ UNCHANGED <<dockerName, hostNetwork, workload>>

SetCheckpoint(s, v) == checkpoint' = [checkpoint EXCEPT ![s] = v]
SetNetwork(s, v) == network' = [network EXCEPT ![s] = v]
setNetworkReady(s, v) == networkReady' = [networkReady EXCEPT ![s] = v]

-----------------------------------------------------------------------------
(* The network plugin (CNI), as RunPodSandbox and StopPodSandbox call it.  *)
(* It reads the checkpoint for the port mappings, and deletes a checkpoint *)
(* it cannot read.  ok is the outcome the handler sees.                    *)

\* Needs the network namespace of a running container.
SetUpPod(s, ok) ==
  \/ /\ container[s] = "running" /\ checkpoint[s] # "corrupt" /\ ok
     /\ SetNetwork(s, "up") /\ NoFault /\ UNCHANGED checkpoint
  \/ /\ container[s] # "running" /\ ~ok
     /\ NoFault /\ UNCHANGED <<network, checkpoint>>
  \/ /\ container[s] = "running" /\ checkpoint[s] = "corrupt" /\ ~ok
     /\ SetCheckpoint(s, "none") /\ NoFault /\ UNCHANGED network
  \/ /\ ~ok /\ Fault /\ UNCHANGED <<network, checkpoint>>
  \/ /\ container[s] = "running" /\ checkpoint[s] # "corrupt" /\ ~ok
     /\ SetNetwork(s, "up") /\ Fault /\ UNCHANGED checkpoint
  \/ /\ container[s] = "running" /\ ~ok
     /\ SetCheckpoint(s, "none") /\ Fault /\ UNCHANGED network

\* Needs no namespace.  With a checkpoint it cannot read, the deletion from
\* the loopback network drops it and is not fatal; a platform without that
\* network (Windows) fails the call.
TearDownPod(s, ok) ==
  \/ /\ checkpoint[s] # "corrupt" /\ ok
     /\ SetNetwork(s, "down") /\ NoFault /\ UNCHANGED checkpoint
  \/ /\ checkpoint[s] = "corrupt" /\ SetCheckpoint(s, "none") /\ NoFault
     /\ IF ok THEN SetNetwork(s, "down") ELSE UNCHANGED network
  \/ /\ ~ok /\ Fault /\ UNCHANGED <<network, checkpoint>>
  \/ /\ ~ok /\ Fault /\ SetNetwork(s, "down") /\ UNCHANGED checkpoint
  \/ /\ ~ok /\ Fault /\ SetCheckpoint(s, "none") /\ UNCHANGED network

-----------------------------------------------------------------------------
(* The Docker daemon.  res is what the client returns: "nil", "notFound"   *)
(* or "other"; the daemon may have obeyed although the client timed out.   *)

StopContainer(s, res) ==
  LET stopped == IF container[s] = "running" THEN "exited" ELSE container[s]
  IN \/ Exists(s) /\ res = "nil" /\ SetContainer(s, stopped) /\ NoFault
     \/ ~Exists(s) /\ res = "notFound" /\ UNCHANGED dockerVars /\ NoFault
     \/ res = "other" /\ Fault /\ UNCHANGED dockerVars
     \/ container[s] = "running" /\ res = "other" /\ Fault /\ SetContainer(s, stopped)

\* Without Force the daemon refuses to remove a running container.
RemoveContainer(s, force, res) ==
  \/ /\ Exists(s) /\ (force \/ container[s] # "running") /\ res = "nil"
     /\ SetContainer(s, "removed") /\ NoFault
  \/ /\ container[s] = "running" /\ ~force /\ res = "other"
     /\ UNCHANGED dockerVars /\ NoFault
  \/ ~Exists(s) /\ res = "notFound" /\ UNCHANGED dockerVars /\ NoFault
  \/ res = "other" /\ Fault /\ UNCHANGED dockerVars
  \/ /\ Exists(s) /\ (force \/ container[s] # "running") /\ res = "other"
     /\ Fault /\ SetContainer(s, "removed")

\* The daemon creates container s under name n (None: a randomized name).
Created(s, n, h) ==
  /\ container' = [container EXCEPT ![s] = "created"]
  /\ dockerName' = [dockerName EXCEPT ![s] = n]
  /\ hostNetwork' = [hostNetwork EXCEPT ![s] = h]
  /\ UNCHANGED workload

-----------------------------------------------------------------------------
(* RunPodSandbox.                                                          *)

\* s is the ID the daemon will generate.  Image, configuration and runtime
\* checks precede the first state change; a failure there changes nothing.
RunPodSandbox(w, s, n, h) ==
  /\ "run" \in Requests /\ At(w, "idle")
  /\ container[s] = "absent" /\ \A v \in Workers : id[v] # s
  /\ pc' = [pc EXCEPT ![w] = "create"]
  /\ id' = [id EXCEPT ![w] = s]
  /\ name' = [name EXCEPT ![w] = n]
  /\ host' = [host EXCEPT ![w] = h]
  /\ UNCHANGED <<other, err, ids, storeVars, historyVars, faults, crashes>>

\* CreateContainer; a name conflict leads to recovery.
Create(w) ==
  /\ At(w, "create")
  /\ \/ /\ Holders(name[w]) = {}
        /\ Created(id[w], name[w], host[w]) /\ Goto(w, "notReady") /\ NoFault
     \/ /\ \E c \in Holders(name[w]) : other' = [other EXCEPT ![w] = c]
        /\ pc' = [pc EXCEPT ![w] = "recover"] /\ NoFault
        /\ UNCHANGED <<id, name, host, err, ids, dockerVars>>
     \/ Fault /\ Return(w) /\ UNCHANGED dockerVars
     \/ /\ Holders(name[w]) = {}
        /\ Fault /\ Return(w) /\ Created(id[w], name[w], host[w])
  /\ UNCHANGED <<checkpoint, network, networkReady, historyVars, crashes>>

\* Slip: the container in the way is removed by force.
RecoverByForce(w) ==
  /\ At(w, "recover")
  /\ \E res \in {"nil", "notFound"} :
       /\ RemoveContainer(other[w], TRUE, res)
       /\ IF res = "notFound" THEN Goto(w, "createRandom") ELSE Return(w)
  /\ Overlap(other[w])
  /\ UNCHANGED <<checkpoint, network, networkReady, runOK, stopOK, removeOK,
                 ghosts, crashes>>

\* Remove the container in the way, and return the conflict error in the hope
\* of a retry; if it is gone already, create under a randomized name.
recoverFromCreationConflictIfNeeded(w) ==
  /\ At(w, "recover")
  /\ \E res \in {"nil", "notFound", "other"} :
       /\ RemoveContainer(other[w], FALSE, res)
       /\ IF res = "notFound" THEN Goto(w, "createRandom") ELSE Return(w)
  /\ Overlap(other[w])
  /\ UNCHANGED <<checkpoint, network, networkReady, runOK, stopOK, removeOK,
                 ghosts, crashes>>

CreateRandom(w) ==
  /\ At(w, "createRandom")
  /\ \/ Created(id[w], None, host[w]) /\ Goto(w, "notReady") /\ NoFault
     \/ Fault /\ Return(w) /\ UNCHANGED dockerVars
     \/ Fault /\ Return(w) /\ Created(id[w], None, host[w])
  /\ UNCHANGED <<checkpoint, network, networkReady, historyVars, crashes>>

\* Slip: the container is started before the checkpoint is written.
RunSetNotReadySkips(w) ==
  /\ At(w, "notReady")
  /\ setNetworkReady(id[w], "notReady")
  /\ Goto(w, "start")
  /\ UNCHANGED <<dockerVars, checkpoint, network, historyVars, faults, crashes>>

RunSetNotReady(w) ==
  /\ At(w, "notReady")
  /\ setNetworkReady(id[w], "notReady")
  /\ Goto(w, "checkpoint")
  /\ UNCHANGED <<dockerVars, checkpoint, network, historyVars, faults, crashes>>

CreateCheckpoint(w) ==
  /\ At(w, "checkpoint")
  /\ \/ SetCheckpoint(id[w], "valid") /\ Goto(w, "start") /\ NoFault
     \/ Fault /\ Return(w) /\ UNCHANGED checkpoint
  /\ UNCHANGED <<dockerVars, network, networkReady, historyVars, crashes>>

Start(w) ==
  /\ At(w, "start")
  /\ \/ Exists(id[w]) /\ SetContainer(id[w], "running") /\ Goto(w, "dns") /\ NoFault
     \/ ~Exists(id[w]) /\ Return(w) /\ UNCHANGED dockerVars /\ NoFault
     \/ Fault /\ Return(w) /\ UNCHANGED dockerVars
     \/ Exists(id[w]) /\ Fault /\ Return(w) /\ SetContainer(id[w], "running")
  /\ UNCHANGED <<checkpoint, network, networkReady, historyVars, crashes>>

\* Inspection and rewriting of resolv.conf.  Their errors live in variables
\* that shadow the one the deferred function looks at, so it runs as if the
\* handler had succeeded.
RewriteResolvFile(w) ==
  /\ At(w, "dns")
  /\ \/ NoFault /\ Goto(w, IF host[w] THEN "ready" ELSE "setUp")
     \/ ~Exists(id[w]) /\ NoFault /\ GotoWith(w, "ready", "other")
     \/ Fault /\ GotoWith(w, "ready", "other")
  /\ UNCHANGED <<storeVars, historyVars, crashes>>

\* Slip: a failed setup returns without cleaning up.
RunSetUpNoRollback(w) ==
  /\ At(w, "setUp")
  /\ \E ok \in BOOLEAN :
       /\ SetUpPod(id[w], ok)
       /\ IF ok THEN Goto(w, "ready") ELSE Return(w)
  /\ UNCHANGED <<dockerVars, networkReady, historyVars, crashes>>

RunSetUp(w) ==
  /\ At(w, "setUp")
  /\ \E ok \in BOOLEAN :
       /\ SetUpPod(id[w], ok)
       /\ Goto(w, IF ok THEN "ready" ELSE "rollbackNet")
  /\ UNCHANGED <<dockerVars, networkReady, historyVars, crashes>>

RollbackNetwork(w) ==
  /\ At(w, "rollbackNet")
  /\ \E ok \in BOOLEAN : TearDownPod(id[w], ok)
  /\ Goto(w, "rollbackStop")
  /\ UNCHANGED <<dockerVars, networkReady, historyVars, crashes>>

\* The error the deferred function sees is that of this last call.
RollbackStop(w) ==
  /\ At(w, "rollbackStop")
  /\ \E res \in {"nil", "notFound", "other"} :
       /\ StopContainer(id[w], res)
       /\ IF res = "nil" THEN GotoWith(w, "ready", "other") ELSE Return(w)
  /\ UNCHANGED <<checkpoint, network, networkReady, historyVars, crashes>>

\* The deferred function, when it finds no error, and the return.
RunSetReady(w) ==
  /\ At(w, "ready")
  /\ setNetworkReady(id[w], "ready")
  /\ runOK' = IF err[w] = "nil" THEN runOK \cup {id[w]} ELSE runOK
  /\ Return(w)
  /\ UNCHANGED <<dockerVars, checkpoint, network, stopOK, removeOK, raced,
                 ghosts, faults, crashes>>

RunStep(w) ==
  \/ Create(w) \/ recoverFromCreationConflictIfNeeded(w) \/ CreateRandom(w)
  \/ RunSetNotReady(w) \/ CreateCheckpoint(w) \/ Start(w)
  \/ RewriteResolvFile(w) \/ RunSetUp(w) \/ RollbackNetwork(w)
  \/ RollbackStop(w) \/ RunSetReady(w)

-----------------------------------------------------------------------------
(* StopPodSandbox.                                                         *)

\* The kubelet knows the IDs the daemon has generated, and may ask while
\* RunPodSandbox, whose client has given up, is still at work.
StopPodSandbox(w, s) ==
  /\ "stop" \in Requests /\ At(w, "idle") /\ container[s] # "absent"
  /\ pc' = [pc EXCEPT ![w] = "inspect"]
  /\ id' = [id EXCEPT ![w] = s]
  /\ Overlap(s)
  /\ UNCHANGED <<requestVars, storeVars, runOK, stopOK, removeOK, ghosts,
                 faults, crashes>>

\* Go on with what is known of the sandbox.
StopProceed(w, h) ==
  /\ pc' = [pc EXCEPT ![w] = "checkReady"]
  /\ host' = [host EXCEPT ![w] = h]
  /\ err' = [err EXCEPT ![w] = "nil"]
  /\ UNCHANGED <<id, name, other, ids>>

\* Slip: the network mode of the container is not looked at.
StopInspectNoMode(w) ==
  /\ At(w, "inspect")
  /\ Exists(id[w]) /\ NoFault /\ StopProceed(w, FALSE)
  /\ UNCHANGED <<storeVars, historyVars, crashes>>

\* getPodSandboxDetails.
StopInspect(w) ==
  /\ At(w, "inspect")
  /\ \/ Exists(id[w]) /\ NoFault /\ StopProceed(w, hostNetwork[id[w]])
     \/ ~Exists(id[w]) /\ NoFault /\ GotoWith(w, "readCheckpoint", "notFound")
     \/ Fault /\ GotoWith(w, "readCheckpoint", "other")
  /\ UNCHANGED <<storeVars, historyVars, crashes>>

\* Slip: a sandbox of which nothing is left is an error.
StopWithoutCheckpointFails(w) == Return(w)

\* Without a checkpoint the handler goes on only if the daemon has said that
\* there is no such container.
StopWithoutCheckpoint(w) ==
  IF err[w] = "notFound" THEN StopProceed(w, FALSE) ELSE Return(w)

\* GetCheckpoint.  What cannot be read is deleted, if that succeeds.
StopReadCheckpoint(w) ==
  LET s == id[w]
  IN /\ At(w, "readCheckpoint")
     /\ \/ /\ checkpoint[s] = "valid" /\ NoFault
           /\ StopProceed(w, hostNetwork[s]) /\ UNCHANGED checkpoint
        \/ /\ checkpoint[s] = "none" /\ NoFault
           /\ StopWithoutCheckpoint(w) /\ UNCHANGED checkpoint
        \/ /\ checkpoint[s] = "corrupt" /\ NoFault
           /\ StopWithoutCheckpoint(w) /\ SetCheckpoint(s, "none")
        \/ /\ checkpoint[s] = "corrupt" /\ Fault
           /\ StopWithoutCheckpoint(w) /\ UNCHANGED checkpoint
        \/ /\ checkpoint[s] = "valid" /\ Fault
           /\ StopWithoutCheckpoint(w) /\ SetCheckpoint(s, "none")
        \/ /\ checkpoint[s] = "valid" /\ TwoFaults
           /\ StopWithoutCheckpoint(w) /\ UNCHANGED checkpoint
     /\ UNCHANGED <<dockerVars, network, networkReady, historyVars, crashes>>

\* getNetworkReady: tear down unless the map says that it is not ready.
StopCheckReady(w) ==
  /\ At(w, "checkReady")
  /\ Goto(w, IF ~host[w] /\ networkReady[id[w]] # "notReady" THEN "tearDown" ELSE "stop")
  /\ UNCHANGED <<storeVars, historyVars, faults, crashes>>

\* Slip: the error of the teardown is dropped.
StopTearDownLogged(w) ==
  /\ At(w, "tearDown")
  /\ \E ok \in BOOLEAN :
       /\ TearDownPod(id[w], ok)
       /\ IF ok THEN Goto(w, "markDown") ELSE Goto(w, "stop")
  /\ UNCHANGED <<dockerVars, networkReady, historyVars, crashes>>

StopTearDown(w) ==
  /\ At(w, "tearDown")
  /\ \E ok \in BOOLEAN :
       /\ TearDownPod(id[w], ok)
       /\ IF ok THEN Goto(w, "markDown") ELSE GotoWith(w, "stop", "other")
  /\ UNCHANGED <<dockerVars, networkReady, historyVars, crashes>>

StopSetNotReady(w) ==
  /\ At(w, "markDown")
  /\ setNetworkReady(id[w], "notReady")
  /\ Goto(w, "stop")
  /\ UNCHANGED <<dockerVars, checkpoint, network, historyVars, faults, crashes>>

\* Return from StopPodSandbox: success iff no error was collected.
StopReturn(w) ==
  /\ Return(w)
  /\ stopOK' = IF err[w] = "nil" THEN stopOK \cup {id[w]} ELSE stopOK
  /\ UNCHANGED <<runOK, removeOK, raced, ghosts>>

StopSandbox(w) ==
  /\ At(w, "stop")
  /\ \E res \in {"nil", "notFound", "other"} :
       /\ StopContainer(id[w], res)
       /\ \/ res = "nil" /\ StopReturn(w)
          \/ res = "notFound" /\ Goto(w, "dropCheckpoint") /\ UNCHANGED historyVars
          \/ res = "other" /\ Return(w) /\ UNCHANGED historyVars
  /\ UNCHANGED <<checkpoint, network, networkReady, crashes>>

\* The error of RemoveCheckpoint is ignored.
StopDropCheckpoint(w) ==
  /\ At(w, "dropCheckpoint")
  /\ \/ SetCheckpoint(id[w], "none") /\ NoFault
     \/ UNCHANGED checkpoint /\ Fault
  /\ StopReturn(w)
  /\ UNCHANGED <<dockerVars, network, networkReady, crashes>>

StopStep(w) ==
  \/ StopInspect(w) \/ StopReadCheckpoint(w) \/ StopCheckReady(w)
  \/ StopTearDown(w) \/ StopSetNotReady(w) \/ StopSandbox(w)
  \/ StopDropCheckpoint(w)

-----------------------------------------------------------------------------
(* RemovePodSandbox.  The kubelet stops a sandbox before it removes it.    *)

RemovePodSandbox(w, s) ==
  /\ "remove" \in Requests /\ At(w, "idle") /\ s \in stopOK
  /\ pc' = [pc EXCEPT ![w] = "rmList"]
  /\ id' = [id EXCEPT ![w] = s]
  /\ Overlap(s)
  /\ UNCHANGED <<requestVars, storeVars, runOK, stopOK, removeOK, ghosts,
                 faults, crashes>>

RemoveList(w) ==
  /\ At(w, "rmList")
  /\ \/ NoFault /\ Goto(w, IF workload[id[w]] THEN "rmWorkload" ELSE "rmSandbox")
     \/ Fault /\ GotoWith(w, "rmSandbox", "other")
  /\ UNCHANGED <<storeVars, historyVars, crashes>>

\* RemoveContainer for the application containers found.
RemoveWorkload(w) ==
  LET removed == [workload EXCEPT ![id[w]] = FALSE]
  IN /\ At(w, "rmWorkload")
     /\ \/ NoFault /\ workload' = removed /\ Goto(w, "rmSandbox")
        \/ Fault /\ workload' \in {workload, removed} /\ GotoWith(w, "rmSandbox", "other")
     /\ UNCHANGED <<container, dockerName, hostNetwork, checkpoint, network,
                    networkReady, historyVars, crashes>>

RemoveSandbox(w) ==
  /\ At(w, "rmSandbox")
  /\ \E res \in {"nil", "notFound", "other"} :
       /\ RemoveContainer(id[w], TRUE, res)
       /\ IF res = "other" THEN GotoWith(w, "rmCheckpoint", "other")
                           ELSE Goto(w, "rmReady")
  /\ UNCHANGED <<checkpoint, network, networkReady, historyVars, crashes>>

\* Slip: the entry is reset, not deleted.
clearNetworkReadyReset(w) ==
  /\ At(w, "rmReady")
  /\ setNetworkReady(id[w], "notReady")
  /\ Goto(w, "rmCheckpoint")
  /\ UNCHANGED <<dockerVars, checkpoint, network, historyVars, faults, crashes>>

clearNetworkReady(w) ==
  /\ At(w, "rmReady")
  /\ setNetworkReady(id[w], "unknown")
  /\ Goto(w, "rmCheckpoint")
  /\ UNCHANGED <<dockerVars, checkpoint, network, historyVars, faults, crashes>>

\* The checkpoint goes even when the container could not be removed.
RemoveCheckpoint(w) ==
  /\ At(w, "rmCheckpoint")
  /\ \/ /\ SetCheckpoint(id[w], "none") /\ NoFault
        /\ removeOK' = IF err[w] = "nil" THEN removeOK \cup {id[w]} ELSE removeOK
     \/ UNCHANGED <<checkpoint, removeOK>> /\ Fault
  /\ Return(w)
  /\ UNCHANGED <<dockerVars, network, networkReady, runOK, stopOK, raced,
                 ghosts, crashes>>

RemoveStep(w) ==
  \/ RemoveList(w) \/ RemoveWorkload(w) \/ RemoveSandbox(w)
  \/ clearNetworkReady(w) \/ RemoveCheckpoint(w)

-----------------------------------------------------------------------------
(* ListPodSandbox without a filter, the only form that reads checkpoints.  *)

ListPodSandbox(w) ==
  /\ "list" \in Requests /\ At(w, "idle")
  /\ Goto(w, "lsCheckpoints")
  /\ UNCHANGED <<storeVars, historyVars, faults, crashes>>

\* Slip: the checkpoints are listed after the containers.
ListCheckpointsLate(w) ==
  /\ At(w, "lsCheckpoints")
  /\ pc' = [pc EXCEPT ![w] = "lsContainers"]
  /\ ids' = [ids EXCEPT ![w] = Sandboxes] /\ NoFault
  /\ UNCHANGED <<id, name, other, host, err, storeVars, historyVars, crashes>>

\* A failure to list the checkpoints is logged.
ListCheckpoints(w) ==
  /\ At(w, "lsCheckpoints")
  /\ pc' = [pc EXCEPT ![w] = "lsContainers"]
  /\ \/ NoFault /\ ids' = [ids EXCEPT ![w] = {s \in Sandboxes : checkpoint[s] # "none"}]
     \/ Fault /\ UNCHANGED ids
  /\ UNCHANGED <<id, name, other, host, err, storeVars, historyVars, crashes>>

ListContainers(w) ==
  /\ At(w, "lsContainers")
  /\ \/ /\ NoFault /\ pc' = [pc EXCEPT ![w] = "lsMerge"]
        /\ ids' = [ids EXCEPT ![w] = {s \in ids[w] : ~Exists(s)}]
        /\ UNCHANGED <<id, name, other, host, err>>
     \/ Fault /\ Return(w)
  /\ UNCHANGED <<storeVars, historyVars, crashes>>

\* One checkpoint without a container: listed if it can be read, skipped (and
\* not deleted) if it cannot.
ListMerge(w) ==
  /\ At(w, "lsMerge")
  /\ \/ \E s \in ids[w] :
          /\ ids' = [ids EXCEPT ![w] = @ \ {s}]
          /\ \/ NoFault /\ ghosts' = IF checkpoint[s] = "valid" THEN ghosts \cup {s} ELSE ghosts
             \/ Fault /\ UNCHANGED ghosts
          /\ UNCHANGED <<pc, id, name, other, host, err>>
     \/ ids[w] = {} /\ Return(w) /\ NoFault /\ UNCHANGED ghosts
  /\ UNCHANGED <<storeVars, runOK, stopOK, removeOK, raced, crashes>>

ListStep(w) == ListCheckpoints(w) \/ ListContainers(w) \/ ListMerge(w)

-----------------------------------------------------------------------------
(* The environment.                                                        *)

\* The kubelet starts containers in a sandbox that runs.
StartWorkload(s) ==
  /\ s \in runOK /\ container[s] = "running" /\ ~workload[s]
  /\ workload' = [workload EXCEPT ![s] = TRUE]
  /\ UNCHANGED <<container, dockerName, hostNetwork, checkpoint, network,
                 networkReady, handlerVars, historyVars, faults, crashes>>

\* The pause process dies.
ContainerDies(s) ==
  /\ container[s] = "running" /\ SetContainer(s, "exited")
  /\ UNCHANGED <<checkpoint, network, networkReady, handlerVars, historyVars,
                 faults, crashes>>

\* Somebody removes the container behind the shim's back.
ContainerLost(s) ==
  /\ Exists(s) /\ SetContainer(s, "removed") /\ Fault
  /\ UNCHANGED <<checkpoint, network, networkReady, handlerVars, historyVars,
                 crashes>>

CorruptCheckpoint(s) ==
  /\ checkpoint[s] = "valid" /\ SetCheckpoint(s, "corrupt") /\ Fault
  /\ UNCHANGED <<dockerVars, network, networkReady, handlerVars, historyVars,
                 crashes>>

\* The shim dies and starts again: handlers and the networkReady map are
\* lost, the daemon, the plugin and the disk keep what they have.
Crash ==
  /\ crashes < MaxCrashes /\ crashes' = crashes + 1
  /\ networkReady' = [s \in Sandboxes |-> "unknown"]
  /\ pc' = [w \in Workers |-> "idle"]
  /\ id' = [w \in Workers |-> None]
  /\ name' = [w \in Workers |-> None]
  /\ other' = [w \in Workers |-> None]
  /\ host' = [w \in Workers |-> FALSE]
  /\ err' = [w \in Workers |-> "nil"]
  /\ ids' = [w \in Workers |-> {}]
  /\ UNCHANGED <<dockerVars, checkpoint, network, historyVars, faults>>

HandlerStep(w) == RunStep(w) \/ StopStep(w) \/ RemoveStep(w) \/ ListStep(w)

Request(w) ==
  \/ \E s \in Sandboxes, n \in Names, h \in BOOLEAN : RunPodSandbox(w, s, n, h)
  \/ \E s \in Sandboxes : StopPodSandbox(w, s) \/ RemovePodSandbox(w, s)
  \/ ListPodSandbox(w)

Environment ==
  \/ \E s \in Sandboxes : \/ StartWorkload(s) \/ ContainerDies(s)
                          \/ ContainerLost(s) \/ CorruptCheckpoint(s)
  \/ Crash

Next == (\E w \in Workers : Request(w) \/ HandlerStep(w)) \/ Environment

Spec == Init /\ [][Next]_vars

-----------------------------------------------------------------------------
(* Correctness.                                                            *)

StoreTypeOK ==
  /\ container \in [Sandboxes -> {"absent", "created", "running", "exited", "removed"}]
  /\ dockerName \in [Sandboxes -> Names \cup {None}]
  /\ hostNetwork \in [Sandboxes -> BOOLEAN]
  /\ workload \in [Sandboxes -> BOOLEAN]
  /\ checkpoint \in [Sandboxes -> {"none", "valid", "corrupt"}]
  /\ network \in [Sandboxes -> {"down", "up"}]
  /\ networkReady \in [Sandboxes -> {"unknown", "ready", "notReady"}]

HandlerTypeOK ==
  /\ pc \in [Workers -> PCs]
  /\ id \in [Workers -> Sandboxes \cup {None}]
  /\ name \in [Workers -> Names \cup {None}]
  /\ other \in [Workers -> Sandboxes \cup {None}]
  /\ host \in [Workers -> BOOLEAN]
  /\ err \in [Workers -> {"nil", "notFound", "other"}]
  /\ ids \in [Workers -> SUBSET Sandboxes]
  /\ \A w \in Workers : pc[w] \notin {"idle"} \cup ListPCs => id[w] \in Sandboxes

HistoryTypeOK ==
  /\ runOK \subseteq Sandboxes /\ stopOK \subseteq Sandboxes
  /\ removeOK \subseteq Sandboxes /\ raced \subseteq Sandboxes
  /\ ghosts \subseteq Sandboxes
  /\ faults \in 0..MaxFaults /\ crashes \in 0..MaxCrashes

\* Every variable has its type, and a handler past its request has a sandbox.
TypeOK == StoreTypeOK /\ HandlerTypeOK /\ HistoryTypeOK

\* The network of s is up, and the shim believes that it has torn it down.
Forgotten(s) ==
  network[s] = "up" /\ networkReady[s] = "notReady" /\ ~RunInFlight(s)

\* Once StopPodSandbox has returned success the plugin holds nothing for the
\* sandbox, so RemovePodSandbox, which never calls the plugin, may forget it:
\* whatever the interleaving, the crashes, and up to two failures, provided
\* no stop or removal overlapped with the RunPodSandbox of the sandbox.
StopReleasesNetwork ==
  \A s \in stopOK : network[s] = "down" \/ s \in raced \/ faults >= 3

\* The networkReady entry never makes StopPodSandbox skip the teardown of a
\* network that is up, unless all three calls of RunPodSandbox's error path
\* failed (SetUpPod, TearDownPod and StopContainer), or a stop overlapped.
NetworkNotForgotten ==
  \A s \in Sandboxes : Forgotten(s) => s \in raced \/ faults >= 3

\* RunPodSandbox writes the checkpoint before the plugin is called and only
\* a handler that has released the network deletes it: without failures a
\* sandbox whose network is up can be found from its checkpoint after a
\* restart, even if its container is gone.
CheckpointCoversNetwork ==
  \A s \in Sandboxes :
    network[s] = "up" => checkpoint[s] = "valid" \/ s \in raced \/ faults >= 1

\* ListPodSandbox reads the checkpoints before the containers, so what it
\* lists from a checkpoint alone is a sandbox whose container is gone, never
\* one that is just being created.
GhostsAreGone == \A s \in ghosts : container[s] = "removed"

\* StopPodSandbox calls the plugin for a sandbox in the host's network only
\* when neither its container nor a readable checkpoint is left to tell (one
\* that exists can be neither read nor deleted only by two failures).
HostNetworkNotTornDown ==
  \A w \in Workers :
    At(w, "tearDown") /\ hostNetwork[id[w]] =>
      /\ container[id[w]] = "removed"
      /\ checkpoint[id[w]] # "valid" \/ id[w] \in raced \/ faults >= 2

\* No step but that of RemovePodSandbox for that very sandbox makes the
\* daemon remove a sandbox that runs; in particular, recovery from a name
\* conflict never does (nobody behind the shim's back excepted).
RunningIsRemovedOnlyByRequest ==
  [][\A s \in Sandboxes :
       container[s] = "running" /\ container'[s] = "removed" =>
         ContainerLost(s) \/ \E w \in Workers : At(w, "rmSandbox") /\ id[w] = s]_vars

-----------------------------------------------------------------------------
(* What comments of the code say, and the code does not do.                *)

\* "Set networking ready depending on the error return of the parent
\* function": an entry is ready only if RunPodSandbox returned success.
ReadyFollowsReturn == \A s \in Sandboxes : networkReady[s] = "ready" => s \in runOK

\* "Only tear down the pod network if we haven't done so already": a
\* StopPodSandbox that succeeded, by a teardown of its own or because it was
\* done already, leaves no network behind.
StopTearsDown == \A s \in stopOK : InFlight(s) \/ network[s] = "down"

-----------------------------------------------------------------------------
(* Progress.  Every call a handler makes returns: Docker calls and plugin  *)
(* calls carry a deadline.  The kubelet wants every sandbox gone in the    *)
(* end, and repeats StopPodSandbox, then RemovePodSandbox, until each has  *)
(* returned success.                                                       *)

KubeletRetries(s) ==
  /\ SF_vars(s \notin stopOK /\ \E w \in Workers : StopPodSandbox(w, s))
  /\ SF_vars(s \notin removeOK /\ \E w \in Workers : RemovePodSandbox(w, s))

LiveSpec ==
  /\ Spec
  /\ \A w \in Workers : WF_vars(HandlerStep(w))
  /\ \A s \in Sandboxes : KubeletRetries(s)

Cleaned(s) ==
  /\ container[s] = "removed" /\ checkpoint[s] = "none"
  /\ network[s] = "down" /\ networkReady[s] = "unknown"

\* Every container the daemon created for a sandbox, one left behind by a
\* create that timed out or by a crash included, is followed by a state in
\* which nothing of the sandbox is left in the daemon, on disk, in the
\* plugin or in memory: retrying StopPodSandbox and RemovePodSandbox is
\* enough to clean up after any failure.
EventuallyCleaned ==
  \A s \in Sandboxes : Exists(s) ~> Cleaned(s)

=============================================================================
