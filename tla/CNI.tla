-------------------------------- MODULE CNI ---------------------------------
(***************************************************************************)
(* The cni plugin.  A goroutine reads the configuration directory every    *)
(* five seconds and replaces the default network by the first valid one it *)
(* finds.  SetUpPod and TearDownPod check that there is a usable network,  *)
(* work on the loopback, and read the default network again for the        *)
(* command they are about: the directory may have changed in between, and  *)
(* between set-up and teardown.  libcni and the plugins it runs are        *)
(* external; a command may fail before or after it had its effect, also    *)
(* because its 220 seconds are over.                                       *)
(*                                                                         *)
(* Operations of one pod exclude each other (PluginManager).               *)
(***************************************************************************)
EXTENDS Integers, Sequences, SequencesExt

CONSTANTS
  Pods,         \* sandbox IDs
  Directories,  \* contents of the directory: its files in the order of their
                \* names, each a network or "bad"
  NeedRanges,   \* the networks with the ipRanges capability
  MaxChanges,   \* bound on changes of the directory
  CNIFaults,    \* bound on failing commands
  CNIRestarts   \* bound on lives

VARIABLES
  confDir,         \* the directory
  defaultNetwork,  \* plugin.defaultNetwork, "nil" if there is none
  podCidr,         \* "" or "set"; "torn" while Event writes it
  found,           \* the network the synchronisation has read, "" if none
  task,              \* per pod: the operation in progress
  outcome,          \* per pod: how its last operation ended
  attached,        \* per pod: the networks it is attached to
  checked,         \* history, per pod: the network checkInitialized saw
  unranged,        \* history: pods given an empty range by a network that needs one
  excused,         \* history: pods whose network changed after their set-up, or
                   \* whose deletion failed with the error that is ignored
  faults, lives, changes

cniVars == <<confDir, defaultNetwork, podCidr, found, task, outcome, attached, checked,
             unranged, excused, faults, lives, changes>>

Fails == faults < CNIFaults /\ faults' = faults + 1
Works == faults' = faults

Goto(p, l) == task' = [task EXCEPT ![p] = l] /\ UNCHANGED outcome
Finish(p, res) == task' = [task EXCEPT ![p] = "idle"] /\ outcome' = [outcome EXCEPT ![p] = res]

-----------------------------------------------------------------------------
\* The first file that loads, names a plugin and passes the validation.
getDefaultCNINetwork(dir) ==
  LET i == SelectInSeq(dir, LAMBDA n : n # "bad")
  IN IF i = 0 THEN "nil" ELSE dir[i]

\* The plugin is probed and initialised, both with a synchronisation.
CNIInit ==
  /\ confDir \in Directories /\ defaultNetwork = getDefaultCNINetwork(confDir)
  /\ podCidr = "" /\ found = ""
  /\ task = [p \in Pods |-> "idle"] /\ outcome = [p \in Pods |-> "new"]
  /\ attached = [p \in Pods |-> {}] /\ checked = [p \in Pods |-> "nil"]
  /\ unranged = {} /\ excused = {}
  /\ faults = 0 /\ lives = 0 /\ changes = 0

\* Somebody changes the directory; a file that is being written is bad.
ChangeDirectory ==
  /\ changes < MaxChanges /\ changes' = changes + 1
  /\ confDir' \in Directories \ {confDir}
  /\ UNCHANGED <<defaultNetwork, podCidr, found, task, outcome, attached, checked, unranged,
                 excused, faults, lives>>

\* syncNetworkConfig reads the directory, and later sets what it has found.
\* (Setting the network that is set already changes nothing, and is left out.)
SyncRead ==
  /\ found = "" /\ getDefaultCNINetwork(confDir) \notin {"nil", defaultNetwork}
  /\ found' = getDefaultCNINetwork(confDir)
  /\ UNCHANGED <<confDir, defaultNetwork, podCidr, task, outcome, attached, checked, unranged,
                 excused, faults, lives, changes>>

setDefaultNetwork(n) ==
  /\ defaultNetwork' = n /\ found' = ""
  /\ excused' = excused \cup {p \in Pods : \/ attached[p] \ {n} # {}
                                           \/ task[p] # "idle" /\ defaultNetwork # n}

SyncSet ==
  /\ found # "" /\ setDefaultNetwork(found)
  /\ UNCHANGED <<confDir, podCidr, task, outcome, attached, checked, unranged, faults, lives,
                 changes>>

\* The capabilities are those of the network of this moment.  podCidr is read
\* without the lock: while Event writes it, either value may be seen.  (A
\* string whose length is new and whose bytes are not kills the process, which
\* Restart covers.)
checkInitialized ==
  /\ defaultNetwork # "nil"
  /\ defaultNetwork \in NeedRanges => podCidr # ""

CheckMayFail ==
  \/ defaultNetwork = "nil"
  \/ defaultNetwork \in NeedRanges /\ podCidr # "set"

\* The first CIDR is kept for ever.
Event ==
  /\ podCidr # "set"
  /\ podCidr' = IF podCidr = "" THEN "torn" ELSE "set"
  /\ UNCHANGED <<confDir, defaultNetwork, found, task, outcome, attached, checked, unranged,
                 excused, faults, lives, changes>>

-----------------------------------------------------------------------------
\* checkInitialized, and the pod's namespace.
SetUpPod(p) ==
  /\ task[p] = "idle" /\ outcome[p] = "new"
  /\ \/ checkInitialized /\ Works /\ Goto(p, "addLo")
     \/ CheckMayFail /\ Works /\ Finish(p, "setUpFailed")
     \/ checkInitialized /\ Fails /\ Finish(p, "setUpFailed")
  /\ checked' = [checked EXCEPT ![p] = defaultNetwork]
  /\ UNCHANGED <<confDir, defaultNetwork, podCidr, found, attached, unranged, excused, lives,
                 changes>>

\* The loopback leaves nothing outside the pod's namespace.
AddToLoNetwork(p) ==
  /\ task[p] = "addLo"
  /\ \/ Works /\ Goto(p, "add")
     \/ Fails /\ Finish(p, "setUpFailed")
  /\ UNCHANGED <<confDir, defaultNetwork, podCidr, found, attached, checked, unranged, excused,
                 lives, changes>>

\* A failure of buildCNIRuntimeConf is one without effect.
addToNetwork(p) ==
  /\ task[p] = "add"
  /\ \E done, ok \in BOOLEAN :
       /\ ok => done
       /\ IF ok THEN Works /\ Finish(p, "up") ELSE Fails /\ Finish(p, "setUpFailed")
       /\ attached' = [attached EXCEPT ![p] = IF done THEN @ \cup {defaultNetwork} ELSE @]
       /\ unranged' = IF done /\ defaultNetwork \in NeedRanges /\ podCidr = ""
                        THEN unranged \cup {p} ELSE unranged
  /\ UNCHANGED <<confDir, defaultNetwork, podCidr, found, checked, excused, lives, changes>>

\* A missing namespace does not matter here.
TearDownPod(p) ==
  /\ task[p] = "idle" /\ outcome[p] # "new" /\ Works
  /\ \/ checkInitialized /\ Goto(p, "delLo")
     \/ CheckMayFail /\ Finish(p, "tearDownFailed")
  /\ UNCHANGED <<confDir, defaultNetwork, podCidr, found, attached, checked, unranged, excused,
                 lives, changes>>

\* An error is logged only.
DeleteFromLoNetwork(p) ==
  /\ task[p] = "delLo" /\ (Works \/ Fails) /\ Goto(p, "del")
  /\ UNCHANGED <<confDir, defaultNetwork, podCidr, found, attached, checked, unranged, excused,
                 lives, changes>>

\* Slip: every error is taken for that of a network that is gone.
deleteFromNetworkLenient(p) ==
  /\ task[p] = "del" /\ Finish(p, "tornDown")
  /\ \/ Works /\ attached' = [attached EXCEPT ![p] = @ \ {defaultNetwork}]
     \/ Fails /\ UNCHANGED attached
  /\ UNCHANGED <<confDir, defaultNetwork, podCidr, found, checked, unranged, excused, lives,
                 changes>>

\* The default network of this moment is deleted.  "no such file or directory"
\* counts as success, whichever file it is about.
deleteFromNetwork(p) ==
  /\ task[p] = "del"
  /\ \/ /\ Works /\ Finish(p, "tornDown")
        /\ attached' = [attached EXCEPT ![p] = @ \ {defaultNetwork}] /\ UNCHANGED excused
     \/ /\ Fails /\ Finish(p, "tearDownFailed") /\ UNCHANGED excused
        /\ attached' \in {attached, [attached EXCEPT ![p] = @ \ {defaultNetwork}]}
     \/ /\ Fails /\ Finish(p, "tornDown") /\ excused' = excused \cup {p}
        /\ UNCHANGED attached
  /\ UNCHANGED <<confDir, defaultNetwork, podCidr, found, checked, unranged, lives, changes>>

\* The process dies, and is probed and initialised again.
Restart ==
  /\ lives < CNIRestarts /\ lives' = lives + 1
  /\ podCidr' = ""
  /\ task' = [p \in Pods |-> "idle"]
  /\ outcome' = [p \in Pods |-> IF task[p] = "idle" THEN outcome[p] ELSE "interrupted"]
  /\ setDefaultNetwork(getDefaultCNINetwork(confDir))
  /\ UNCHANGED <<confDir, attached, checked, unranged, faults, changes>>

CNIStep(p) ==
  \/ SetUpPod(p) \/ AddToLoNetwork(p) \/ addToNetwork(p)
  \/ TearDownPod(p) \/ DeleteFromLoNetwork(p) \/ deleteFromNetwork(p)

CNINext ==
  ChangeDirectory \/ SyncRead \/ SyncSet \/ Event \/ Restart \/ \E p \in Pods : CNIStep(p)

-----------------------------------------------------------------------------
\* A pod that is torn down is attached to no network, and one that is set up to
\* exactly one, unless the default network changed after its set-up began or
\* the deletion failed with the error that is ignored.  A network that needs the
\* ranges of the pod CIDR gets none only if it is not the one SetUpPod checked.
AttachedAsTold ==
  /\ \A p \in Pods \ excused : task[p] = "idle" =>
       /\ outcome[p] = "tornDown" => attached[p] = {}
       /\ outcome[p] = "up" => attached[p] = {defaultNetwork}
  /\ \A p \in unranged : checked[p] \notin NeedRanges
=============================================================================
