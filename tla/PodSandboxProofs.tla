-------------------------- MODULE PodSandboxProofs --------------------------
(* What PodSandbox promises about the network.  See the README for the       *)
(* argument.                                                               *)
EXTENDS PodSandboxShapeProofs

\* The network of s is released, or its release is not promised.
Released(s) == network[s] = "down" \/ s \in raced \/ faults >= 3

\* How many failures it took for RunPodSandbox to get where it is with the
\* network up.
RunNetworkOf(w) ==
  LET s == id[w] IN
  /\ pc[w] \in PreSetUpPCs => network[s] = "down"
  /\ pc[w] = "rollbackNet" /\ network[s] = "up" /\ s \notin raced =>
       /\ faults >= 1
       /\ checkpoint[s] = "corrupt" => faults >= 2
       /\ ~Exists(s) => faults >= 2
       /\ checkpoint[s] = "corrupt" /\ ~Exists(s) => faults >= 3
  /\ pc[w] = "rollbackStop" /\ network[s] = "up" /\ s \notin raced =>
       /\ faults >= 2
       /\ ~Exists(s) => faults >= 3

RunNetwork == \A w \in Workers : RunNetworkOf(w)

\* StopPodSandbox has no error to report only if the network is released.
StopNetwork ==
  \A w \in Workers :
    /\ pc[w] = "markDown" => Released(id[w])
    /\ pc[w] \in {"stop", "dropCheckpoint"} /\ err[w] = "nil" => Released(id[w])

NetworkInv ==
  /\ RunNetwork /\ StopNetwork
  /\ NetworkNotForgotten /\ StopReleasesNetwork

-----------------------------------------------------------------------------
(* What is left of the network.                                            *)

\* No sandbox holds a network in the beginning.
LEMMA NetworkInit == Init => NetworkInv
  BY
     DEF Init, NetworkInv, RunNetwork, RunNetworkOf, StopNetwork, NetworkNotForgotten,
         Forgotten,
         StopReleasesNetwork, PreSetUpPCs, PreCreatePCs

\* The inductive step for the network: each step that could lose track of a
\* network that is up, or let a StopPodSandbox return over it, is accounted for.
LEMMA NetworkNext ==
  TypeOK /\ ShapeInv /\ NetworkInv /\ [Next]_vars => NetworkInv'
<1> SUFFICES ASSUME TypeOK, ShapeInv, NetworkInv, [Next]_vars PROVE NetworkInv'
  OBVIOUS
<1>t. /\ container \in [Sandboxes -> {"absent", "created", "running", "exited", "removed"}]
      /\ checkpoint \in [Sandboxes -> {"none", "valid", "corrupt"}]
      /\ network \in [Sandboxes -> {"down", "up"}]
      /\ networkReady \in [Sandboxes -> {"unknown", "ready", "notReady"}]
      /\ pc \in [Workers -> PCs] /\ id \in [Workers -> Sandboxes \cup {None}]
      /\ err \in [Workers -> {"nil", "notFound", "other"}]
      /\ host \in [Workers -> BOOLEAN] /\ hostNetwork \in [Sandboxes -> BOOLEAN]
      /\ faults \in Nat /\ stopOK \subseteq Sandboxes
      /\ \A w \in Workers : pc[w] \notin {"idle"} \cup ListPCs => id[w] \in Sandboxes
  BY BoundsAssumption DEF TypeOK, StoreTypeOK, HandlerTypeOK, HistoryTypeOK
<1> USE <1>t
    DEF vars, storeVars, dockerVars, handlerVars, requestVars, historyVars, At,
        RunPCs, StopPCs, RemovePCs, ListPCs, PreCreatePCs, PreSetUpPCs,
        NetworkInv, ShapeInv, Released, Exists
<1>1. ASSUME NEW w \in Workers, NEW s \in Sandboxes, NEW n \in Names, NEW h \in BOOLEAN, RunPodSandbox(w, s, n, h) PROVE NetworkInv'
  BY <1>1
     DEF RunNetwork, RunNetworkOf, StopNetwork, NetworkNotForgotten, Forgotten,
         RunInFlight, StopReleasesNetwork, OneRun, Overlaps, Fresh, RunPodSandbox
<1>2. ASSUME NEW w \in Workers, NEW s \in Sandboxes, StopPodSandbox(w, s) PROVE NetworkInv'
  BY <1>2
     DEF RunNetwork, RunNetworkOf, StopNetwork, NetworkNotForgotten, Forgotten,
         RunInFlight, StopReleasesNetwork, OneRun, Overlaps, StopPodSandbox, Overlap
<1>3. ASSUME NEW w \in Workers, NEW s \in Sandboxes, RemovePodSandbox(w, s) PROVE NetworkInv'
  BY <1>3
     DEF RunNetwork, RunNetworkOf, StopNetwork, NetworkNotForgotten, Forgotten,
         RunInFlight, StopReleasesNetwork, OneRun, Overlaps, RemovePodSandbox, Overlap
<1>4. ASSUME NEW w \in Workers, ListPodSandbox(w) PROVE NetworkInv'
  BY <1>4
     DEF RunNetwork, RunNetworkOf, StopNetwork, NetworkNotForgotten, Forgotten,
         RunInFlight, StopReleasesNetwork, OneRun, Overlaps, ListPodSandbox, Goto
<1>5. ASSUME NEW w \in Workers, Create(w) PROVE NetworkInv'
  <2>1. RunNetwork'
    BY <1>5, SMTT(30)
       DEF RunNetwork, RunNetworkOf, OneRun, Overlaps, Claimed, Fresh, Create,
           Created, Goto, Return, Holders, Fault, NoFault
  <2>2. StopNetwork'
    BY <1>5
       DEF StopNetwork, OneRun, Overlaps, Claimed, Fresh, Create, Created, Goto,
           Return, Holders, Fault, NoFault
  <2>3. NetworkNotForgotten'
    BY <1>5, SMTT(30)
       DEF NetworkNotForgotten, Forgotten, RunInFlight, RunNetwork, RunNetworkOf,
           OneRun, Overlaps, Claimed, Fresh, Create, Created, Goto, Return, Holders,
           Fault, NoFault
  <2>4. StopReleasesNetwork'
    BY <1>5
       DEF StopReleasesNetwork, OneRun, Overlaps, Claimed, Fresh, Create, Created,
           Goto, Return, Holders, Fault, NoFault
  <2> QED BY <2>1, <2>2, <2>3, <2>4
<1>6. ASSUME NEW w \in Workers, recoverFromCreationConflictIfNeeded(w) PROVE NetworkInv'
  <2>1. RunNetwork'
    <3>1. \A v \in Workers : pc[v] \in RunPCs /\ id[v] = other[w] => id[v] \in raced'
      BY <1>6 DEF recoverFromCreationConflictIfNeeded, Overlap, RunInFlight
    <3>2. \A s \in Sandboxes : s # other[w] => container'[s] = container[s]
      BY <1>6 DEF recoverFromCreationConflictIfNeeded, RemoveContainer, SetContainer
    <3>3. /\ UNCHANGED <<network, checkpoint>>
          /\ raced \subseteq raced' /\ faults' \in Int /\ faults' >= faults
      BY <1>6
         DEF recoverFromCreationConflictIfNeeded, RemoveContainer, Overlap, Fault,
             NoFault
    <3>4. \A v \in Workers : v # w => pc'[v] = pc[v] /\ id'[v] = id[v]
      BY <1>6 DEF recoverFromCreationConflictIfNeeded, Goto, Return
    <3>5. \/ pc'[w] = "idle"
          \/ pc[w] = "recover" /\ pc'[w] = "createRandom" /\ id'[w] = id[w]
      BY <1>6 DEF recoverFromCreationConflictIfNeeded, Goto, Return
    <3> SUFFICES ASSUME NEW v \in Workers PROVE RunNetworkOf(v)'
      BY DEF RunNetwork
    <3>6. RunNetworkOf(v)
      BY DEF RunNetwork
    <3>7. CASE v = w
      BY <3>3, <3>5, <3>6, <3>7 DEF RunNetworkOf
    <3>8. CASE v # w /\ id[v] = other[w]
      BY <3>1, <3>3, <3>4, <3>6, <3>8 DEF RunNetworkOf
    <3>9. CASE v # w /\ id[v] # other[w]
      <4>1. pc[v] \in RunPCs => container'[id[v]] = container[id[v]]
        BY <3>2, <3>9, SMTT(30)
      <4> QED BY <3>3, <3>4, <3>6, <3>9, <4>1 DEF RunNetworkOf
    <3> QED BY <3>7, <3>8, <3>9
  <2>2. StopNetwork'
    BY <1>6
       DEF StopNetwork, OneRun, Overlaps, recoverFromCreationConflictIfNeeded, Goto,
           Return, RemoveContainer, SetContainer, Overlap, Fault, NoFault, RunInFlight
  <2>3. NetworkNotForgotten'
    BY <1>6, SMTT(30)
       DEF NetworkNotForgotten, Forgotten, RunInFlight, RunNetwork, RunNetworkOf,
           OneRun, Overlaps, recoverFromCreationConflictIfNeeded, Goto, Return,
           RemoveContainer, SetContainer, Overlap, Fault, NoFault
  <2>4. StopReleasesNetwork'
    BY <1>6
       DEF StopReleasesNetwork, OneRun, Overlaps, recoverFromCreationConflictIfNeeded,
           Goto, Return, RemoveContainer, SetContainer, Overlap, Fault, NoFault,
           RunInFlight
  <2> QED BY <2>1, <2>2, <2>3, <2>4
<1>7. ASSUME NEW w \in Workers, CreateRandom(w) PROVE NetworkInv'
  <2>1. RunNetwork'
    BY <1>7, SMTT(30)
       DEF RunNetwork, RunNetworkOf, OneRun, Overlaps, Claimed, Fresh, CreateRandom,
           Created, Goto, Return, Fault, NoFault
  <2>2. StopNetwork'
    BY <1>7
       DEF StopNetwork, OneRun, Overlaps, Claimed, Fresh, CreateRandom, Created, Goto,
           Return, Fault, NoFault
  <2>3. NetworkNotForgotten'
    BY <1>7, SMTT(30)
       DEF NetworkNotForgotten, Forgotten, RunInFlight, RunNetwork, RunNetworkOf,
           OneRun, Overlaps, Claimed, Fresh, CreateRandom, Created, Goto, Return, Fault,
           NoFault
  <2>4. StopReleasesNetwork'
    BY <1>7
       DEF StopReleasesNetwork, OneRun, Overlaps, Claimed, Fresh, CreateRandom,
           Created, Goto, Return, Fault, NoFault
  <2> QED BY <2>1, <2>2, <2>3, <2>4
<1>8. ASSUME NEW w \in Workers, RunSetNotReady(w) PROVE NetworkInv'
  BY <1>8, SMTT(30)
     DEF RunNetwork, RunNetworkOf, StopNetwork, NetworkNotForgotten, Forgotten,
         RunInFlight, StopReleasesNetwork, OneRun, Overlaps, RunSetNotReady, Goto,
         setNetworkReady
<1>9. ASSUME NEW w \in Workers, CreateCheckpoint(w) PROVE NetworkInv'
  <2>1. RunNetwork'
    BY <1>9
       DEF RunNetwork, RunNetworkOf, OneRun, Overlaps, CreateCheckpoint, Goto, Return,
           SetCheckpoint, Fault, NoFault
  <2>2. StopNetwork'
    BY <1>9
       DEF StopNetwork, OneRun, Overlaps, CreateCheckpoint, Goto, Return,
           SetCheckpoint, Fault, NoFault
  <2>3. NetworkNotForgotten'
    BY <1>9, SMTT(30)
       DEF NetworkNotForgotten, Forgotten, RunInFlight, RunNetwork, RunNetworkOf,
           OneRun, Overlaps, CreateCheckpoint, Goto, Return, SetCheckpoint, Fault, NoFault
  <2>4. StopReleasesNetwork'
    BY <1>9
       DEF StopReleasesNetwork, OneRun, Overlaps, CreateCheckpoint, Goto, Return,
           SetCheckpoint, Fault, NoFault
  <2> QED BY <2>1, <2>2, <2>3, <2>4
<1>10. ASSUME NEW w \in Workers, Start(w) PROVE NetworkInv'
  <2>1. RunNetwork'
    BY <1>10, SMTT(30)
       DEF RunNetwork, RunNetworkOf, OneRun, Overlaps, Start, Goto, Return,
           SetContainer, Fault, NoFault
  <2>2. StopNetwork'
    BY <1>10
       DEF StopNetwork, OneRun, Overlaps, Start, Goto, Return, SetContainer, Fault,
           NoFault
  <2>3. NetworkNotForgotten'
    BY <1>10, SMTT(30)
       DEF NetworkNotForgotten, Forgotten, RunInFlight, RunNetwork, RunNetworkOf,
           OneRun, Overlaps, Start, Goto, Return, SetContainer, Fault, NoFault
  <2>4. StopReleasesNetwork'
    BY <1>10
       DEF StopReleasesNetwork, OneRun, Overlaps, Start, Goto, Return, SetContainer,
           Fault, NoFault
  <2> QED BY <2>1, <2>2, <2>3, <2>4
<1>11. ASSUME NEW w \in Workers, RewriteResolvFile(w) PROVE NetworkInv'
  BY <1>11
     DEF RunNetwork, RunNetworkOf, StopNetwork, NetworkNotForgotten, Forgotten,
         RunInFlight, StopReleasesNetwork, OneRun, Overlaps, RewriteResolvFile, Goto,
         GotoWith, Fault, NoFault
<1>12. ASSUME NEW w \in Workers, RunSetUp(w) PROVE NetworkInv'
  <2>1. RunNetwork'
    BY <1>12, SMTT(30)
       DEF RunNetwork, RunNetworkOf, OneRun, Overlaps, HostModes, RunSetUp, Goto,
           SetUpPod, SetNetwork, SetCheckpoint, Fault, NoFault
  <2>2. StopNetwork'
    BY <1>12, SMTT(30)
       DEF StopNetwork, OneRun, Overlaps, HostModes, RunSetUp, Goto, SetUpPod,
           SetNetwork, SetCheckpoint, Fault, NoFault
  <2>3. NetworkNotForgotten'
    BY <1>12
       DEF NetworkNotForgotten, Forgotten, RunInFlight, OneRun, Overlaps, HostModes,
           RunSetUp, Goto, SetUpPod, SetNetwork, SetCheckpoint, Fault, NoFault
  <2>4. StopReleasesNetwork'
    BY <1>12, SMTT(30)
       DEF StopReleasesNetwork, OneRun, Overlaps, HostModes, RunSetUp, Goto, SetUpPod,
           SetNetwork, SetCheckpoint, Fault, NoFault
  <2> QED BY <2>1, <2>2, <2>3, <2>4
<1>13. ASSUME NEW w \in Workers, RollbackNetwork(w) PROVE NetworkInv'
  <2>1. RunNetwork'
    BY <1>13, SMTT(30)
       DEF RunNetwork, RunNetworkOf, OneRun, Overlaps, RollbackNetwork, Goto,
           TearDownPod, SetNetwork, SetCheckpoint, Fault, NoFault
  <2>2. StopNetwork'
    BY <1>13, SMTT(30)
       DEF StopNetwork, OneRun, Overlaps, RollbackNetwork, Goto, TearDownPod,
           SetNetwork, SetCheckpoint, Fault, NoFault
  <2>3. NetworkNotForgotten'
    BY <1>13
       DEF NetworkNotForgotten, Forgotten, RunInFlight, OneRun, Overlaps,
           RollbackNetwork, Goto, TearDownPod, SetNetwork, SetCheckpoint, Fault, NoFault
  <2>4. StopReleasesNetwork'
    BY <1>13, SMTT(30)
       DEF StopReleasesNetwork, OneRun, Overlaps, RollbackNetwork, Goto, TearDownPod,
           SetNetwork, SetCheckpoint, Fault, NoFault
  <2> QED BY <2>1, <2>2, <2>3, <2>4
<1>14. ASSUME NEW w \in Workers, RollbackStop(w) PROVE NetworkInv'
  <2>1. RunNetwork'
    BY <1>14, SMTT(30)
       DEF RunNetwork, RunNetworkOf, OneRun, Overlaps, RollbackStop, GotoWith, Return,
           StopContainer, SetContainer, Fault, NoFault
  <2>2. StopNetwork'
    BY <1>14
       DEF StopNetwork, OneRun, Overlaps, RollbackStop, GotoWith, Return,
           StopContainer, SetContainer, Fault, NoFault
  <2>3. NetworkNotForgotten'
    <3>1. UNCHANGED <<network, networkReady, raced>> /\ faults' \in Int /\ faults' >= faults
      BY <1>14 DEF RollbackStop, StopContainer, Fault, NoFault
    <3>2. \A s \in Sandboxes : s # id[w] /\ RunInFlight(s) => RunInFlight(s)'
      BY <1>14 DEF RollbackStop, GotoWith, Return, RunInFlight
    <3>3. PICK s \in Sandboxes : s = id[w]
      BY <1>14 DEF RollbackStop
    <3>4. RunInFlight(s)' \/ ~Exists(s) \/ Fault
      BY <1>14, <3>3 DEF RollbackStop, StopContainer, GotoWith, RunInFlight
    <3>5. network[s] = "up" /\ s \notin raced => faults >= 2 /\ (~Exists(s) => faults >= 3)
      BY <1>14, <3>3 DEF RunNetwork, RunNetworkOf, RollbackStop
    <3>6. network[s] = "up" /\ s \notin raced => RunInFlight(s)' \/ faults' >= 3
      BY <3>1, <3>4, <3>5 DEF Fault
    <3> SUFFICES ASSUME NEW r \in Sandboxes, Forgotten(r)' PROVE (r \in raced \/ faults >= 3)'
      BY DEF NetworkNotForgotten
    <3>7. CASE r = s
      BY <3>1, <3>6, <3>7 DEF Forgotten
    <3>8. CASE r # s
      BY <3>1, <3>2, <3>3, <3>8, SMTT(30) DEF NetworkNotForgotten, Forgotten
    <3> QED BY <3>7, <3>8
  <2>4. StopReleasesNetwork'
    BY <1>14, SMTT(30)
       DEF StopReleasesNetwork, OneRun, Overlaps, RollbackStop, GotoWith, Return,
           StopContainer, SetContainer, Fault, NoFault
  <2> QED BY <2>1, <2>2, <2>3, <2>4
<1>15. ASSUME NEW w \in Workers, RunSetReady(w) PROVE NetworkInv'
  BY <1>15, SMTT(30)
     DEF RunNetwork, RunNetworkOf, StopNetwork, NetworkNotForgotten, Forgotten,
         RunInFlight, StopReleasesNetwork, OneRun, Overlaps, RunSetReady, Return,
         setNetworkReady
<1>16. ASSUME NEW w \in Workers, StopInspect(w) PROVE NetworkInv'
  BY <1>16, SMTT(30)
     DEF RunNetwork, RunNetworkOf, StopNetwork, NetworkNotForgotten, Forgotten,
         RunInFlight, StopReleasesNetwork, OneRun, Overlaps, StopInspect, StopProceed,
         GotoWith, Fault, NoFault
<1>17. ASSUME NEW w \in Workers, StopReadCheckpoint(w) PROVE NetworkInv'
  <2>1. RunNetwork'
    <3>1. \A v \in Workers : pc[v] \in RunPCs /\ id[v] = id[w] => id[v] \in raced
      BY <1>17 DEF Overlaps, StopReadCheckpoint
    <3>2. \A s \in Sandboxes : s # id[w] => checkpoint'[s] = checkpoint[s]
      BY <1>17 DEF StopReadCheckpoint, SetCheckpoint
    <3>3. UNCHANGED <<container, network, raced>> /\ faults' \in Int /\ faults' >= faults
      BY <1>17 DEF StopReadCheckpoint, Fault, TwoFaults, NoFault
    <3>4. \A v \in Workers : v # w => pc'[v] = pc[v] /\ id'[v] = id[v]
      BY <1>17, SMTT(30) DEF StopReadCheckpoint, StopWithoutCheckpoint, StopProceed, Return
    <3>5. pc'[w] \in {"idle", "checkReady"}
      BY <1>17 DEF StopReadCheckpoint, StopWithoutCheckpoint, StopProceed, Return
    <3> SUFFICES ASSUME NEW v \in Workers PROVE RunNetworkOf(v)'
      BY DEF RunNetwork
    <3>6. RunNetworkOf(v)
      BY DEF RunNetwork
    <3>7. CASE v = w
      BY <3>5, <3>7, SMTT(30) DEF RunNetworkOf
    <3>8. CASE v # w /\ id[v] = id[w]
      BY <3>1, <3>3, <3>4, <3>6, <3>8, SMTT(30) DEF RunNetworkOf
    <3>9. CASE v # w /\ id[v] # id[w]
      <4>1. pc[v] \in RunPCs => checkpoint'[id[v]] = checkpoint[id[v]]
        BY <3>2, <3>9, SMTT(30)
      <4> QED BY <3>3, <3>4, <3>6, <3>9, <4>1 DEF RunNetworkOf
    <3> QED BY <3>7, <3>8, <3>9
  <2>2. StopNetwork'
    BY <1>17, SMTT(30)
       DEF StopNetwork, OneRun, Overlaps, StopReadCheckpoint, StopProceed,
           StopWithoutCheckpoint, Return, SetCheckpoint, Fault, TwoFaults, NoFault
  <2>3. NetworkNotForgotten'
    BY <1>17, SMTT(30)
       DEF NetworkNotForgotten, Forgotten, RunInFlight, StopNetwork, OneRun, Overlaps,
           StopReadCheckpoint, StopProceed, StopWithoutCheckpoint, Return, SetCheckpoint,
           Fault, TwoFaults, NoFault
  <2>4. StopReleasesNetwork'
    BY <1>17, SMTT(30)
       DEF StopReleasesNetwork, StopNetwork, OneRun, Overlaps, StopReadCheckpoint,
           StopProceed, StopWithoutCheckpoint, Return, SetCheckpoint, Fault, TwoFaults, NoFault
  <2> QED BY <2>1, <2>2, <2>3, <2>4
<1>18. ASSUME NEW w \in Workers, StopCheckReady(w) PROVE NetworkInv'
  <2>1. RunNetwork'
    BY <1>18, SMTT(30)
       DEF RunNetwork, RunNetworkOf, OneRun, Overlaps, HostModes, StopCheckReady, Goto
  <2>2. StopNetwork'
    BY <1>18, SMTT(30)
       DEF StopNetwork, NetworkNotForgotten, Forgotten, RunInFlight, OneRun, Overlaps,
           HostModes, StopCheckReady, Goto
  <2>3. NetworkNotForgotten'
    BY <1>18, SMTT(30)
       DEF NetworkNotForgotten, Forgotten, RunInFlight, StopNetwork, OneRun, Overlaps,
           HostModes, StopCheckReady, Goto
  <2>4. StopReleasesNetwork'
    BY <1>18, SMTT(30)
       DEF StopReleasesNetwork, StopNetwork, OneRun, Overlaps, HostModes,
           StopCheckReady, Goto
  <2> QED BY <2>1, <2>2, <2>3, <2>4
<1>19. ASSUME NEW w \in Workers, StopTearDown(w) PROVE NetworkInv'
  <2>1. RunNetwork'
    BY <1>19, SMTT(30)
       DEF RunNetwork, RunNetworkOf, OneRun, Overlaps, StopTearDown, Goto, GotoWith,
           TearDownPod, SetNetwork, SetCheckpoint, Fault, NoFault
  <2>2. StopNetwork'
    BY <1>19, SMTT(30)
       DEF StopNetwork, OneRun, Overlaps, StopTearDown, Goto, GotoWith, TearDownPod,
           SetNetwork, SetCheckpoint, Fault, NoFault
  <2>3. NetworkNotForgotten'
    BY <1>19, SMTT(30)
       DEF NetworkNotForgotten, Forgotten, RunInFlight, StopNetwork, OneRun, Overlaps,
           StopTearDown, Goto, GotoWith, TearDownPod, SetNetwork, SetCheckpoint, Fault,
           NoFault
  <2>4. StopReleasesNetwork'
    BY <1>19, SMTT(30)
       DEF StopReleasesNetwork, StopNetwork, OneRun, Overlaps, StopTearDown, Goto,
           GotoWith, TearDownPod, SetNetwork, SetCheckpoint, Fault, NoFault
  <2> QED BY <2>1, <2>2, <2>3, <2>4
<1>20. ASSUME NEW w \in Workers, StopSetNotReady(w) PROVE NetworkInv'
  BY <1>20
     DEF RunNetwork, RunNetworkOf, StopNetwork, NetworkNotForgotten, Forgotten,
         RunInFlight, StopReleasesNetwork, OneRun, Overlaps, StopSetNotReady, Goto,
         setNetworkReady
<1>21. ASSUME NEW w \in Workers, StopSandbox(w) PROVE NetworkInv'
  <2>1. RunNetwork'
    <3>1. /\ UNCHANGED <<network, checkpoint, raced>> /\ faults' \in Int /\ faults' >= faults
          /\ \A s \in Sandboxes : Exists(s) => Exists(s)'
      BY <1>21, SMTT(30)
         DEF StopSandbox, StopContainer, SetContainer, StopReturn, Fault, NoFault
    <3>2. \A v \in Workers : v # w => pc'[v] = pc[v] /\ id'[v] = id[v]
      BY <1>21 DEF StopSandbox, StopReturn, Goto, Return
    <3>3. pc'[w] \in {"idle", "dropCheckpoint"}
      BY <1>21 DEF StopSandbox, StopReturn, Goto, Return
    <3> SUFFICES ASSUME NEW v \in Workers PROVE RunNetworkOf(v)'
      BY DEF RunNetwork
    <3>4. CASE v = w
      BY <3>3, <3>4, SMTT(30) DEF RunNetworkOf
    <3>5. CASE v # w
      <4>1. pc[v] \in RunPCs => (Exists(id[v]) => Exists(id[v])')
        BY <3>1, <3>2, <3>5, SMTT(30)
      <4> QED BY <3>1, <3>2, <3>5, <4>1 DEF RunNetwork, RunNetworkOf
    <3> QED BY <3>4, <3>5, SMTT(30)
  <2>2. StopNetwork'
    BY <1>21, SMTT(30)
       DEF StopNetwork, OneRun, Overlaps, StopSandbox, Goto, Return, StopReturn,
           StopContainer, SetContainer, Fault, NoFault
  <2>3. NetworkNotForgotten'
    BY <1>21, SMTT(30)
       DEF NetworkNotForgotten, Forgotten, RunInFlight, StopNetwork, OneRun, Overlaps,
           StopSandbox, Goto, Return, StopReturn, StopContainer, SetContainer, Fault,
           NoFault
  <2>4. StopReleasesNetwork'
    BY <1>21, SMTT(30)
       DEF StopReleasesNetwork, StopNetwork, OneRun, Overlaps, StopSandbox, Goto,
           Return, StopReturn, StopContainer, SetContainer, Fault, NoFault
  <2> QED BY <2>1, <2>2, <2>3, <2>4
<1>22. ASSUME NEW w \in Workers, StopDropCheckpoint(w) PROVE NetworkInv'
  <2>1. RunNetwork'
    BY <1>22, SMTT(30)
       DEF RunNetwork, RunNetworkOf, OneRun, Overlaps, StopDropCheckpoint, Return,
           StopReturn, SetCheckpoint, Fault, NoFault
  <2>2. StopNetwork'
    BY <1>22
       DEF StopNetwork, OneRun, Overlaps, StopDropCheckpoint, Return, StopReturn,
           SetCheckpoint, Fault, NoFault
  <2>3. NetworkNotForgotten'
    BY <1>22, SMTT(30)
       DEF NetworkNotForgotten, Forgotten, RunInFlight, StopNetwork, OneRun, Overlaps,
           StopDropCheckpoint, Return, StopReturn, SetCheckpoint, Fault, NoFault
  <2>4. StopReleasesNetwork'
    BY <1>22, SMTT(30)
       DEF StopReleasesNetwork, StopNetwork, OneRun, Overlaps, StopDropCheckpoint,
           Return, StopReturn, SetCheckpoint, Fault, NoFault
  <2> QED BY <2>1, <2>2, <2>3, <2>4
<1>23. ASSUME NEW w \in Workers, RemoveList(w) PROVE NetworkInv'
  BY <1>23, SMTT(30)
     DEF RunNetwork, RunNetworkOf, StopNetwork, NetworkNotForgotten, Forgotten,
         RunInFlight, StopReleasesNetwork, OneRun, Overlaps, RemoveList, Goto, GotoWith,
         Fault, NoFault
<1>24. ASSUME NEW w \in Workers, RemoveWorkload(w) PROVE NetworkInv'
  BY <1>24, SMTT(30)
     DEF RunNetwork, RunNetworkOf, StopNetwork, NetworkNotForgotten, Forgotten,
         RunInFlight, StopReleasesNetwork, OneRun, Overlaps, RemoveWorkload, Goto,
         GotoWith, Fault, NoFault
<1>25. ASSUME NEW w \in Workers, RemoveSandbox(w) PROVE NetworkInv'
  <2>1. RunNetwork'
    BY <1>25, SMTT(30)
       DEF RunNetwork, RunNetworkOf, OneRun, Overlaps, RemoveSandbox, Goto, GotoWith,
           RemoveContainer, SetContainer, Fault, NoFault
  <2>2. StopNetwork'
    BY <1>25, SMTT(30)
       DEF StopNetwork, OneRun, Overlaps, RemoveSandbox, Goto, GotoWith,
           RemoveContainer, SetContainer, Fault, NoFault
  <2>3. NetworkNotForgotten'
    BY <1>25, SMTT(30)
       DEF NetworkNotForgotten, Forgotten, RunInFlight, OneRun, Overlaps,
           RemoveSandbox, Goto, GotoWith, RemoveContainer, SetContainer, Fault, NoFault
  <2>4. StopReleasesNetwork'
    BY <1>25, SMTT(30)
       DEF StopReleasesNetwork, OneRun, Overlaps, RemoveSandbox, Goto, GotoWith,
           RemoveContainer, SetContainer, Fault, NoFault
  <2> QED BY <2>1, <2>2, <2>3, <2>4
<1>26. ASSUME NEW w \in Workers, clearNetworkReady(w) PROVE NetworkInv'
  BY <1>26, SMTT(30)
     DEF RunNetwork, RunNetworkOf, StopNetwork, NetworkNotForgotten, Forgotten,
         RunInFlight, StopReleasesNetwork, OneRun, Overlaps, clearNetworkReady, Goto,
         setNetworkReady
<1>27. ASSUME NEW w \in Workers, RemoveCheckpoint(w) PROVE NetworkInv'
  <2>1. RunNetwork'
    BY <1>27, SMTT(30)
       DEF RunNetwork, RunNetworkOf, RemoveCheckpoint, Return, SetCheckpoint, Fault,
           NoFault
  <2>2. StopNetwork'
    BY <1>27, SMTT(30)
       DEF StopNetwork, RemoveCheckpoint, Return, SetCheckpoint, Fault, NoFault
  <2>3. NetworkNotForgotten'
    BY <1>27, SMTT(30)
       DEF NetworkNotForgotten, Forgotten, RunInFlight, RunNetwork, RunNetworkOf,
           RemoveCheckpoint, Return, SetCheckpoint, Fault, NoFault
  <2>4. StopReleasesNetwork'
    BY <1>27, SMTT(30)
       DEF StopReleasesNetwork, StopNetwork, RemoveCheckpoint, Return, SetCheckpoint,
           Fault, NoFault
  <2> QED BY <2>1, <2>2, <2>3, <2>4
<1>28. ASSUME NEW w \in Workers, ListCheckpoints(w) PROVE NetworkInv'
  BY <1>28, SMTT(30)
     DEF RunNetwork, RunNetworkOf, StopNetwork, NetworkNotForgotten, Forgotten,
         RunInFlight, StopReleasesNetwork, OneRun, Overlaps, ListCheckpoints, Fault,
         NoFault
<1>29. ASSUME NEW w \in Workers, ListContainers(w) PROVE NetworkInv'
  BY <1>29, SMTT(30)
     DEF RunNetwork, RunNetworkOf, StopNetwork, NetworkNotForgotten, Forgotten,
         RunInFlight, StopReleasesNetwork, OneRun, Overlaps, ListContainers, Return,
         Fault, NoFault
<1>30. ASSUME NEW w \in Workers, ListMerge(w) PROVE NetworkInv'
  <2>1. RunNetwork'
    BY <1>30, SMTT(30)
       DEF RunNetwork, RunNetworkOf, OneRun, Overlaps, ListMerge, Return, Fault,
           NoFault
  <2>2. StopNetwork'
    BY <1>30, SMTT(30) DEF StopNetwork, OneRun, Overlaps, ListMerge, Return, Fault, NoFault
  <2>3. NetworkNotForgotten'
    BY <1>30, SMTT(30)
       DEF NetworkNotForgotten, Forgotten, RunInFlight, OneRun, Overlaps, ListMerge,
           Return, Fault, NoFault
  <2>4. StopReleasesNetwork'
    BY <1>30, SMTT(30)
       DEF StopReleasesNetwork, OneRun, Overlaps, ListMerge, Return, Fault, NoFault
  <2> QED BY <2>1, <2>2, <2>3, <2>4
<1>31. ASSUME NEW s \in Sandboxes, StartWorkload(s) PROVE NetworkInv'
  BY <1>31, SMTT(30)
     DEF RunNetwork, RunNetworkOf, StopNetwork, NetworkNotForgotten, Forgotten,
         RunInFlight, StopReleasesNetwork, OneRun, Overlaps, StartWorkload
<1>32. ASSUME NEW s \in Sandboxes, ContainerDies(s) PROVE NetworkInv'
  <2>1. RunNetwork'
    BY <1>32, SMTT(30)
       DEF RunNetwork, RunNetworkOf, ContainerDies, SetContainer
  <2>2. StopNetwork'
    BY <1>32, SMTT(30)
       DEF StopNetwork, ContainerDies, SetContainer
  <2>3. NetworkNotForgotten'
    BY <1>32, SMTT(30)
       DEF NetworkNotForgotten, Forgotten, RunInFlight, RunNetwork, RunNetworkOf,
           ContainerDies, SetContainer
  <2>4. StopReleasesNetwork'
    BY <1>32, SMTT(30)
       DEF StopReleasesNetwork, StopNetwork, ContainerDies, SetContainer
  <2> QED BY <2>1, <2>2, <2>3, <2>4
<1>33. ASSUME NEW s \in Sandboxes, ContainerLost(s) PROVE NetworkInv'
  <2>1. RunNetwork'
    BY <1>33, SMTT(30)
       DEF RunNetwork, RunNetworkOf, ContainerLost, SetContainer, Fault
  <2>2. StopNetwork'
    BY <1>33, SMTT(30)
       DEF StopNetwork, ContainerLost, SetContainer, Fault
  <2>3. NetworkNotForgotten'
    BY <1>33, SMTT(30)
       DEF NetworkNotForgotten, Forgotten, RunInFlight, RunNetwork, RunNetworkOf,
           ContainerLost, SetContainer, Fault
  <2>4. StopReleasesNetwork'
    BY <1>33, SMTT(30)
       DEF StopReleasesNetwork, StopNetwork, ContainerLost, SetContainer, Fault
  <2> QED BY <2>1, <2>2, <2>3, <2>4
<1>34. ASSUME NEW s \in Sandboxes, CorruptCheckpoint(s) PROVE NetworkInv'
  <2>1. RunNetwork'
    BY <1>34, SMTT(30)
       DEF RunNetwork, RunNetworkOf, CorruptCheckpoint, SetCheckpoint, Fault
  <2>2. StopNetwork'
    BY <1>34, SMTT(30)
       DEF StopNetwork, CorruptCheckpoint, SetCheckpoint, Fault
  <2>3. NetworkNotForgotten'
    BY <1>34, SMTT(30)
       DEF NetworkNotForgotten, Forgotten, RunInFlight, RunNetwork, RunNetworkOf,
           CorruptCheckpoint, SetCheckpoint, Fault
  <2>4. StopReleasesNetwork'
    BY <1>34, SMTT(30)
       DEF StopReleasesNetwork, StopNetwork, CorruptCheckpoint, SetCheckpoint, Fault
  <2> QED BY <2>1, <2>2, <2>3, <2>4
<1>35. ASSUME Crash PROVE NetworkInv'
  <2>1. RunNetwork'
    BY <1>35, SMTT(30)
       DEF RunNetwork, RunNetworkOf, Crash
  <2>2. StopNetwork'
    BY <1>35, SMTT(30)
       DEF StopNetwork, Crash
  <2>3. NetworkNotForgotten'
    BY <1>35, SMTT(30)
       DEF NetworkNotForgotten, Forgotten, RunInFlight, RunNetwork, RunNetworkOf,
           Crash
  <2>4. StopReleasesNetwork'
    BY <1>35, SMTT(30)
       DEF StopReleasesNetwork, StopNetwork, Crash
  <2> QED BY <2>1, <2>2, <2>3, <2>4
<1>36. CASE UNCHANGED vars
  BY <1>36, ZenonT(30)
     DEF RunNetwork, RunNetworkOf, StopNetwork, NetworkNotForgotten, Forgotten,
         RunInFlight, StopReleasesNetwork
<1> HIDE <1>t DEF vars, ShapeInv, NetworkInv
<1> QED
  BY <1>1, <1>2, <1>3, <1>4, <1>5, <1>6, <1>7, <1>8, <1>9, <1>10, <1>11, <1>12, <1>13,
     <1>14, <1>15, <1>16, <1>17, <1>18, <1>19, <1>20, <1>21, <1>22, <1>23, <1>24,
     <1>25, <1>26, <1>27, <1>28, <1>29, <1>30, <1>31, <1>32, <1>33, <1>34, <1>35,
     <1>36, SMTT(30)
     DEF Next, Request, HandlerStep, RunStep, StopStep, RemoveStep, ListStep, Environment

-----------------------------------------------------------------------------

\* After a success of StopPodSandbox the plugin holds nothing for the
\* sandbox, for any number of handlers, sandboxes, failures and restarts,
\* unless a request overlapped with its RunPodSandbox or three calls failed.
THEOREM StopReleasesNetworkAlways == Spec => []StopReleasesNetwork
<1>1. Init => TypeOK /\ ShapeInv /\ NetworkInv
  BY TypeInit, ShapeInit, NetworkInit
<1>2. TypeOK /\ ShapeInv /\ NetworkInv /\ [Next]_vars
        => (TypeOK /\ ShapeInv /\ NetworkInv)'
  BY TypeNext, ShapeNext, NetworkNext
<1>3. NetworkInv => StopReleasesNetwork
  BY DEF NetworkInv
<1> QED BY <1>1, <1>2, <1>3, PTL DEF Spec

\* StopPodSandbox never takes a network that is up for torn down, under the
\* same provisos.
THEOREM NetworkNotForgottenAlways == Spec => []NetworkNotForgotten
<1>1. Init => TypeOK /\ ShapeInv /\ NetworkInv
  BY TypeInit, ShapeInit, NetworkInit
<1>2. TypeOK /\ ShapeInv /\ NetworkInv /\ [Next]_vars
        => (TypeOK /\ ShapeInv /\ NetworkInv)'
  BY TypeNext, ShapeNext, NetworkNext
<1>3. NetworkInv => NetworkNotForgotten
  BY DEF NetworkInv
<1> QED BY <1>1, <1>2, <1>3, PTL DEF Spec

=============================================================================
