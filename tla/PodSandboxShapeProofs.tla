----------------------- MODULE PodSandboxShapeProofs ------------------------
(* Who works on which sandbox: the second layer of the inductive invariant *)
(* of PodSandbox.                                                          *)
EXTENDS PodSandboxTypeProofs

\* Steps of RunPodSandbox before the container exists.
PreCreatePCs == {"create", "recover", "createRandom"}
\* Steps of RunPodSandbox before the plugin is called.
PreSetUpPCs == PreCreatePCs \cup {"notReady", "checkpoint", "start", "dns", "setUp"}

\* A sandbox is run by one handler.
OneRun ==
  \A v, w \in Workers :
    pc[v] \in RunPCs /\ pc[w] \in RunPCs /\ id[v] = id[w] => v = w

\* The ID of a handler that has not created its container is unused, and
\* every other handler is about a container that was created.
Claimed ==
  \A w \in Workers :
    /\ pc[w] \in PreCreatePCs => container[id[w]] = "absent"
    /\ pc[w] \in (RunPCs \ PreCreatePCs) \cup StopPCs \cup RemovePCs
         => container[id[w]] # "absent"

\* Nothing is held for an unused ID.
Fresh ==
  \A s \in Sandboxes :
    container[s] = "absent" =>
      network[s] = "down" /\ networkReady[s] = "unknown" /\ s \notin stopOK

\* A handler that stops or removes a sandbox being run is an overlap, and
\* so is a success of StopPodSandbox before RunPodSandbox is done.
Overlaps ==
  \A w \in Workers :
    pc[w] \in RunPCs =>
      /\ id[w] \in stopOK => id[w] \in raced
      /\ \A v \in Workers :
           pc[v] \in StopPCs \cup RemovePCs /\ id[v] = id[w] => id[w] \in raced

\* What a handler knows of the network mode is right.
HostModes ==
  /\ \A w \in Workers :
       /\ pc[w] \in RunPCs \ PreCreatePCs => host[w] = hostNetwork[id[w]]
       /\ pc[w] = "setUp" => ~host[w]
       /\ pc[w] = "checkReady" /\ host[w] => hostNetwork[id[w]]
  /\ \A s \in Sandboxes : hostNetwork[s] => network[s] = "down"

ShapeInv == OneRun /\ Claimed /\ Fresh /\ Overlaps /\ HostModes

-----------------------------------------------------------------------------
\* No handler is at work in the beginning.
LEMMA ShapeInit == Init => ShapeInv
  BY DEF Init, ShapeInv, OneRun, Claimed, Fresh, Overlaps, HostModes, RunPCs,
         PreCreatePCs, StopPCs, RemovePCs

\* What the handlers know of their sandboxes stays true while others work.
LEMMA ShapeNext == TypeOK /\ ShapeInv /\ [Next]_vars => ShapeInv'
<1> SUFFICES ASSUME TypeOK, ShapeInv, [Next]_vars PROVE ShapeInv'
  OBVIOUS
<1>t. /\ container \in [Sandboxes -> {"absent", "created", "running", "exited", "removed"}]
      /\ network \in [Sandboxes -> {"down", "up"}]
      /\ networkReady \in [Sandboxes -> {"unknown", "ready", "notReady"}]
      /\ hostNetwork \in [Sandboxes -> BOOLEAN] /\ host \in [Workers -> BOOLEAN]
      /\ pc \in [Workers -> PCs] /\ id \in [Workers -> Sandboxes \cup {None}]
      /\ stopOK \subseteq Sandboxes
      /\ \A w \in Workers : pc[w] \notin {"idle"} \cup ListPCs => id[w] \in Sandboxes
  BY DEF TypeOK, StoreTypeOK, HandlerTypeOK, HistoryTypeOK
<1> USE <1>t
    DEF vars, storeVars, dockerVars, handlerVars, requestVars, historyVars, At,
        RunPCs, StopPCs, RemovePCs, ListPCs, PreCreatePCs, ShapeInv
<1>1. ASSUME NEW w \in Workers, NEW s \in Sandboxes, NEW n \in Names, NEW h \in BOOLEAN, RunPodSandbox(w, s, n, h) PROVE ShapeInv'
  <2>1. OneRun'
    BY <1>1 DEF OneRun, RunPodSandbox
  <2>2. Claimed'
    BY <1>1 DEF Claimed, RunPodSandbox
  <2>3. Fresh'
    BY <1>1 DEF Fresh, RunPodSandbox
  <2>4. Overlaps'
    BY <1>1 DEF Overlaps, Fresh, RunPodSandbox
  <2>5. HostModes'
    BY <1>1 DEF HostModes, RunPodSandbox
  <2> QED BY <2>1, <2>2, <2>3, <2>4, <2>5
<1>2. ASSUME NEW w \in Workers, NEW s \in Sandboxes, StopPodSandbox(w, s) PROVE ShapeInv'
  <2>1. OneRun'
    BY <1>2 DEF OneRun, StopPodSandbox, Overlap, RunInFlight
  <2>2. Claimed'
    BY <1>2 DEF Claimed, StopPodSandbox, Overlap, RunInFlight
  <2>3. Fresh'
    BY <1>2 DEF Fresh, StopPodSandbox, Overlap, RunInFlight
  <2>4. Overlaps'
    BY <1>2 DEF Overlaps, StopPodSandbox, Overlap, RunInFlight
  <2>5. HostModes'
    BY <1>2 DEF HostModes, StopPodSandbox, Overlap, RunInFlight
  <2> QED BY <2>1, <2>2, <2>3, <2>4, <2>5
<1>3. ASSUME NEW w \in Workers, NEW s \in Sandboxes, RemovePodSandbox(w, s) PROVE ShapeInv'
  <2>1. OneRun'
    BY <1>3 DEF OneRun, RemovePodSandbox, Overlap, RunInFlight
  <2>2. Claimed'
    BY <1>3 DEF Claimed, Fresh, RemovePodSandbox, Overlap, RunInFlight
  <2>3. Fresh'
    BY <1>3 DEF Fresh, RemovePodSandbox, Overlap, RunInFlight
  <2>4. Overlaps'
    BY <1>3 DEF Overlaps, RemovePodSandbox, Overlap, RunInFlight
  <2>5. HostModes'
    BY <1>3 DEF HostModes, RemovePodSandbox, Overlap, RunInFlight
  <2> QED BY <2>1, <2>2, <2>3, <2>4, <2>5
<1>4. ASSUME NEW w \in Workers, ListPodSandbox(w) PROVE ShapeInv'
  BY <1>4 DEF OneRun, Claimed, Fresh, Overlaps, HostModes, ListPodSandbox, Goto
<1>5. ASSUME NEW w \in Workers, Create(w) PROVE ShapeInv'
  <2>1. OneRun'
    BY <1>5 DEF OneRun, Create, Goto, Return
  <2>2. Claimed'
    <3>1. \A v \in Workers : v # w /\ pc[v] \in RunPCs => id[v] # id[w]
      BY <1>5 DEF OneRun, Create
    <3>2. \A v \in Workers : v # w => pc'[v] = pc[v] /\ id'[v] = id[v]
      BY <1>5 DEF Create, Goto, Return
    <3>3. \/ pc'[w] = "idle"
          \/ pc'[w] = "notReady" /\ id'[w] = id[w] /\ container'[id[w]] = "created"
          \/ pc'[w] = "recover" /\ id'[w] = id[w] /\ container' = container
      BY <1>5 DEF Create, Created, Goto, Return
    <3>4. \A s \in Sandboxes :
            /\ s # id[w] => container'[s] = container[s]
            /\ container'[s] \in {container[s], "created"}
      BY <1>5 DEF Create, Created
    <3> QED BY <1>5, <3>1, <3>2, <3>3, <3>4 DEF Claimed, Create
  <2>3. Fresh'
    BY <1>5 DEF Fresh, Create, Created, Goto, Return, Holders, Exists
  <2>4. Overlaps'
    BY <1>5 DEF Overlaps, Create, Goto, Return
  <2>5. HostModes'
    <3>1. container[id[w]] = "absent" /\ network[id[w]] = "down"
      BY <1>5 DEF Claimed, Fresh, Create
    <3>2. \A v \in Workers : v # w /\ pc[v] \in (RunPCs \ PreCreatePCs) \cup StopPCs
                             => id[v] # id[w]
      BY <3>1 DEF Claimed
    <3>3. CASE UNCHANGED dockerVars
      BY <1>5, <3>1, <3>3 DEF HostModes, Create, Created, Goto, Return
    <3>4. CASE Created(id[w], name[w], host[w])
      BY <1>5, <3>1, <3>2, <3>4 DEF HostModes, Create, Created, Goto, Return
    <3> QED BY <1>5, <3>3, <3>4 DEF Create
  <2> QED BY <2>1, <2>2, <2>3, <2>4, <2>5
<1>6. ASSUME NEW w \in Workers, recoverFromCreationConflictIfNeeded(w) PROVE ShapeInv'
  <2>1. OneRun'
    BY <1>6
       DEF OneRun, recoverFromCreationConflictIfNeeded, Goto, Return, RemoveContainer,
           SetContainer, Overlap, Exists, RunInFlight
  <2>2. Claimed'
    BY <1>6
       DEF Claimed, recoverFromCreationConflictIfNeeded, Goto, Return,
           RemoveContainer, SetContainer, Overlap, Exists, RunInFlight
  <2>3. Fresh'
    BY <1>6
       DEF Fresh, Claimed, recoverFromCreationConflictIfNeeded, Goto, Return,
           RemoveContainer, SetContainer, Overlap, Exists, RunInFlight
  <2>4. Overlaps'
    BY <1>6
       DEF Overlaps, recoverFromCreationConflictIfNeeded, Goto, Return,
           RemoveContainer, SetContainer, Overlap, Exists, RunInFlight
  <2>5. HostModes'
    BY <1>6
       DEF HostModes, Claimed, recoverFromCreationConflictIfNeeded, Goto, Return,
           RemoveContainer, SetContainer, Overlap, Exists, RunInFlight
  <2> QED BY <2>1, <2>2, <2>3, <2>4, <2>5
<1>7. ASSUME NEW w \in Workers, CreateRandom(w) PROVE ShapeInv'
  <2>1. OneRun'
    BY <1>7 DEF OneRun, CreateRandom, Goto, Return
  <2>2. Claimed'
    <3>1. \A v \in Workers : v # w /\ pc[v] \in RunPCs => id[v] # id[w]
      BY <1>7 DEF OneRun, CreateRandom
    <3>2. \A v \in Workers : v # w => pc'[v] = pc[v] /\ id'[v] = id[v]
      BY <1>7 DEF CreateRandom, Goto, Return
    <3>3. \/ pc'[w] = "idle"
          \/ pc'[w] = "notReady" /\ id'[w] = id[w] /\ container'[id[w]] = "created"
      BY <1>7 DEF CreateRandom, Created, Goto, Return
    <3>4. \A s \in Sandboxes :
            /\ s # id[w] => container'[s] = container[s]
            /\ container'[s] \in {container[s], "created"}
      BY <1>7 DEF CreateRandom, Created
    <3> QED BY <1>7, <3>1, <3>2, <3>3, <3>4 DEF Claimed, CreateRandom
  <2>3. Fresh'
    BY <1>7 DEF Fresh, CreateRandom, Created, Goto, Return
  <2>4. Overlaps'
    BY <1>7 DEF Overlaps, CreateRandom, Goto, Return
  <2>5. HostModes'
    <3>1. container[id[w]] = "absent" /\ network[id[w]] = "down"
      BY <1>7 DEF Claimed, Fresh, CreateRandom
    <3>2. \A v \in Workers : v # w /\ pc[v] \in (RunPCs \ PreCreatePCs) \cup StopPCs
                             => id[v] # id[w]
      BY <3>1 DEF Claimed
    <3>3. CASE UNCHANGED dockerVars
      BY <1>7, <3>1, <3>3 DEF HostModes, CreateRandom, Created, Goto, Return
    <3>4. CASE Created(id[w], None, host[w])
      BY <1>7, <3>1, <3>2, <3>4 DEF HostModes, CreateRandom, Created, Goto, Return
    <3> QED BY <1>7, <3>3, <3>4 DEF CreateRandom
  <2> QED BY <2>1, <2>2, <2>3, <2>4, <2>5
<1>8. ASSUME NEW w \in Workers, RunSetNotReady(w) PROVE ShapeInv'
  <2>1. OneRun'
    BY <1>8 DEF OneRun, RunSetNotReady, Goto, setNetworkReady
  <2>2. Claimed'
    BY <1>8 DEF Claimed, RunSetNotReady, Goto, setNetworkReady
  <2>3. Fresh'
    BY <1>8 DEF Fresh, Claimed, RunSetNotReady, Goto, setNetworkReady
  <2>4. Overlaps'
    BY <1>8 DEF Overlaps, RunSetNotReady, Goto, setNetworkReady
  <2>5. HostModes'
    BY <1>8 DEF HostModes, RunSetNotReady, Goto, setNetworkReady
  <2> QED BY <2>1, <2>2, <2>3, <2>4, <2>5
<1>9. ASSUME NEW w \in Workers, CreateCheckpoint(w) PROVE ShapeInv'
  BY <1>9, SMTT(30)
     DEF OneRun, Claimed, Fresh, Overlaps, HostModes, CreateCheckpoint, Goto, Return,
         SetCheckpoint
<1>10. ASSUME NEW w \in Workers, Start(w) PROVE ShapeInv'
  <2>1. OneRun'
    BY <1>10 DEF OneRun, Start, Goto, Return, SetContainer, Exists
  <2>2. Claimed'
    BY <1>10 DEF Claimed, Start, Goto, Return, SetContainer, Exists
  <2>3. Fresh'
    BY <1>10 DEF Fresh, Start, Goto, Return, SetContainer, Exists
  <2>4. Overlaps'
    BY <1>10, SMTT(30) DEF Overlaps, Start, Goto, Return, SetContainer, Exists
  <2>5. HostModes'
    BY <1>10, SMTT(30) DEF HostModes, Start, Goto, Return, SetContainer, Exists
  <2> QED BY <2>1, <2>2, <2>3, <2>4, <2>5
<1>11. ASSUME NEW w \in Workers, RewriteResolvFile(w) PROVE ShapeInv'
  <2>1. OneRun'
    BY <1>11 DEF OneRun, RewriteResolvFile, Goto, GotoWith
  <2>2. Claimed'
    BY <1>11 DEF Claimed, RewriteResolvFile, Goto, GotoWith
  <2>3. Fresh'
    BY <1>11 DEF Fresh, Claimed, RewriteResolvFile, Goto, GotoWith
  <2>4. Overlaps'
    BY <1>11 DEF Overlaps, RewriteResolvFile, Goto, GotoWith
  <2>5. HostModes'
    BY <1>11 DEF HostModes, Claimed, RewriteResolvFile, Goto, GotoWith
  <2> QED BY <2>1, <2>2, <2>3, <2>4, <2>5
<1>12. ASSUME NEW w \in Workers, RunSetUp(w) PROVE ShapeInv'
  BY <1>12, SMTT(30)
     DEF OneRun, Claimed, Fresh, Overlaps, HostModes, RunSetUp, Goto, SetUpPod,
         SetNetwork, SetCheckpoint
<1>13. ASSUME NEW w \in Workers, RollbackNetwork(w) PROVE ShapeInv'
  BY <1>13
     DEF OneRun, Claimed, Fresh, Overlaps, HostModes, RollbackNetwork, Goto,
         TearDownPod, SetNetwork, SetCheckpoint
<1>14. ASSUME NEW w \in Workers, RollbackStop(w) PROVE ShapeInv'
  <2>1. OneRun'
    BY <1>14
       DEF OneRun, RollbackStop, GotoWith, Return, StopContainer, SetContainer, Exists
  <2>2. Claimed'
    BY <1>14
       DEF Claimed, RollbackStop, GotoWith, Return, StopContainer, SetContainer, Exists
  <2>3. Fresh'
    BY <1>14, SMTT(30)
       DEF Fresh, RollbackStop, GotoWith, Return, StopContainer, SetContainer, Exists
  <2>4. Overlaps'
    BY <1>14, SMTT(30)
       DEF Overlaps, RollbackStop, GotoWith, Return, StopContainer, SetContainer, Exists
  <2>5. HostModes'
    BY <1>14
       DEF HostModes, RollbackStop, GotoWith, Return, StopContainer, SetContainer, Exists
  <2> QED BY <2>1, <2>2, <2>3, <2>4, <2>5
<1>15. ASSUME NEW w \in Workers, RunSetReady(w) PROVE ShapeInv'
  <2>1. OneRun'
    BY <1>15 DEF OneRun, RunSetReady, Return, setNetworkReady
  <2>2. Claimed'
    BY <1>15 DEF Claimed, RunSetReady, Return, setNetworkReady
  <2>3. Fresh'
    BY <1>15 DEF Fresh, Claimed, RunSetReady, Return, setNetworkReady
  <2>4. Overlaps'
    BY <1>15 DEF Overlaps, RunSetReady, Return, setNetworkReady
  <2>5. HostModes'
    BY <1>15, SMTT(30) DEF HostModes, RunSetReady, Return, setNetworkReady
  <2> QED BY <2>1, <2>2, <2>3, <2>4, <2>5
<1>16. ASSUME NEW w \in Workers, StopInspect(w) PROVE ShapeInv'
  <2>1. OneRun'
    BY <1>16 DEF OneRun, StopInspect, StopProceed, GotoWith
  <2>2. Claimed'
    BY <1>16 DEF Claimed, StopInspect, StopProceed, GotoWith
  <2>3. Fresh'
    BY <1>16 DEF Fresh, Claimed, StopInspect, StopProceed, GotoWith
  <2>4. Overlaps'
    BY <1>16 DEF Overlaps, StopInspect, StopProceed, GotoWith
  <2>5. HostModes'
    BY <1>16 DEF HostModes, Claimed, StopInspect, StopProceed, GotoWith
  <2> QED BY <2>1, <2>2, <2>3, <2>4, <2>5
<1>17. ASSUME NEW w \in Workers, StopReadCheckpoint(w) PROVE ShapeInv'
  <2>1. OneRun'
    BY <1>17
       DEF OneRun, StopReadCheckpoint, StopProceed, StopWithoutCheckpoint, Return,
           SetCheckpoint
  <2>2. Claimed'
    BY <1>17, SMTT(30)
       DEF Claimed, StopReadCheckpoint, StopProceed, StopWithoutCheckpoint, Return,
           SetCheckpoint
  <2>3. Fresh'
    BY <1>17, SMTT(30)
       DEF Fresh, StopReadCheckpoint, StopProceed, StopWithoutCheckpoint, Return,
           SetCheckpoint
  <2>4. Overlaps'
    BY <1>17, SMTT(30)
       DEF Overlaps, StopReadCheckpoint, StopProceed, StopWithoutCheckpoint, Return,
           SetCheckpoint
  <2>5. HostModes'
    BY <1>17, SMTT(30)
       DEF HostModes, StopReadCheckpoint, StopProceed, StopWithoutCheckpoint, Return,
           SetCheckpoint
  <2> QED BY <2>1, <2>2, <2>3, <2>4, <2>5
<1>18. ASSUME NEW w \in Workers, StopCheckReady(w) PROVE ShapeInv'
  BY <1>18, SMTT(30) DEF OneRun, Claimed, Fresh, Overlaps, HostModes, StopCheckReady, Goto
<1>19. ASSUME NEW w \in Workers, StopTearDown(w) PROVE ShapeInv'
  <2>1. OneRun'
    BY <1>19
       DEF OneRun, StopTearDown, Goto, GotoWith, TearDownPod, SetNetwork,
           SetCheckpoint
  <2>2. Claimed'
    BY <1>19
       DEF Claimed, StopTearDown, Goto, GotoWith, TearDownPod, SetNetwork,
           SetCheckpoint
  <2>3. Fresh'
    BY <1>19
       DEF Fresh, Claimed, StopTearDown, Goto, GotoWith, TearDownPod, SetNetwork,
           SetCheckpoint
  <2>4. Overlaps'
    BY <1>19
       DEF Overlaps, StopTearDown, Goto, GotoWith, TearDownPod, SetNetwork,
           SetCheckpoint
  <2>5. HostModes'
    BY <1>19
       DEF HostModes, Claimed, StopTearDown, Goto, GotoWith, TearDownPod, SetNetwork,
           SetCheckpoint
  <2> QED BY <2>1, <2>2, <2>3, <2>4, <2>5
<1>20. ASSUME NEW w \in Workers, StopSetNotReady(w) PROVE ShapeInv'
  <2>1. OneRun'
    BY <1>20 DEF OneRun, StopSetNotReady, Goto, setNetworkReady
  <2>2. Claimed'
    BY <1>20, SMTT(30) DEF Claimed, StopSetNotReady, Goto, setNetworkReady
  <2>3. Fresh'
    BY <1>20 DEF Fresh, Claimed, StopSetNotReady, Goto, setNetworkReady
  <2>4. Overlaps'
    BY <1>20 DEF Overlaps, StopSetNotReady, Goto, setNetworkReady
  <2>5. HostModes'
    BY <1>20, SMTT(30) DEF HostModes, StopSetNotReady, Goto, setNetworkReady
  <2> QED BY <2>1, <2>2, <2>3, <2>4, <2>5
<1>21. ASSUME NEW w \in Workers, StopSandbox(w) PROVE ShapeInv'
  <2>1. OneRun'
    BY <1>21, SMTT(30)
       DEF OneRun, StopSandbox, Goto, Return, StopReturn, StopContainer, SetContainer, Exists
  <2>2. Claimed'
    BY <1>21, SMTT(30)
       DEF Claimed, StopSandbox, Goto, Return, StopReturn, StopContainer,
           SetContainer, Exists
  <2>3. Fresh'
    BY <1>21, SMTT(30)
       DEF Fresh, Claimed, StopSandbox, Goto, Return, StopReturn, StopContainer,
           SetContainer, Exists
  <2>4. Overlaps'
    BY <1>21, SMTT(30)
       DEF Overlaps, StopSandbox, Goto, Return, StopReturn, StopContainer,
           SetContainer, Exists
  <2>5. HostModes'
    BY <1>21, SMTT(30)
       DEF HostModes, StopSandbox, Goto, Return, StopReturn, StopContainer,
           SetContainer, Exists
  <2> QED BY <2>1, <2>2, <2>3, <2>4, <2>5
<1>22. ASSUME NEW w \in Workers, StopDropCheckpoint(w) PROVE ShapeInv'
  <2>1. OneRun'
    BY <1>22, SMTT(30)
       DEF OneRun, StopDropCheckpoint, Return, StopReturn, SetCheckpoint
  <2>2. Claimed'
    BY <1>22
       DEF Claimed, StopDropCheckpoint, Return, StopReturn, SetCheckpoint
  <2>3. Fresh'
    BY <1>22
       DEF Fresh, Claimed, StopDropCheckpoint, Return, StopReturn, SetCheckpoint
  <2>4. Overlaps'
    BY <1>22, SMTT(30)
       DEF Overlaps, StopDropCheckpoint, Return, StopReturn, SetCheckpoint
  <2>5. HostModes'
    BY <1>22, SMTT(30)
       DEF HostModes, StopDropCheckpoint, Return, StopReturn, SetCheckpoint
  <2> QED BY <2>1, <2>2, <2>3, <2>4, <2>5
<1>23. ASSUME NEW w \in Workers, RemoveList(w) PROVE ShapeInv'
  <2>1. OneRun'
    BY <1>23 DEF OneRun, RemoveList, Goto, GotoWith
  <2>2. Claimed'
    BY <1>23 DEF Claimed, RemoveList, Goto, GotoWith
  <2>3. Fresh'
    BY <1>23 DEF Fresh, Claimed, RemoveList, Goto, GotoWith
  <2>4. Overlaps'
    BY <1>23 DEF Overlaps, RemoveList, Goto, GotoWith
  <2>5. HostModes'
    BY <1>23 DEF HostModes, Claimed, RemoveList, Goto, GotoWith
  <2> QED BY <2>1, <2>2, <2>3, <2>4, <2>5
<1>24. ASSUME NEW w \in Workers, RemoveWorkload(w) PROVE ShapeInv'
  BY <1>24, SMTT(30)
     DEF OneRun, Claimed, Fresh, Overlaps, HostModes, RemoveWorkload, Goto, GotoWith
<1>25. ASSUME NEW w \in Workers, RemoveSandbox(w) PROVE ShapeInv'
  <2>1. OneRun'
    BY <1>25, SMTT(30)
       DEF OneRun, RemoveSandbox, Goto, GotoWith, RemoveContainer, SetContainer, Exists
  <2>2. Claimed'
    BY <1>25, SMTT(30)
       DEF Claimed, RemoveSandbox, Goto, GotoWith, RemoveContainer, SetContainer, Exists
  <2>3. Fresh'
    BY <1>25, SMTT(30)
       DEF Fresh, RemoveSandbox, Goto, GotoWith, RemoveContainer, SetContainer, Exists
  <2>4. Overlaps'
    BY <1>25, SMTT(30)
       DEF Overlaps, RemoveSandbox, Goto, GotoWith, RemoveContainer, SetContainer, Exists
  <2>5. HostModes'
    BY <1>25, SMTT(30)
       DEF HostModes, RemoveSandbox, Goto, GotoWith, RemoveContainer, SetContainer, Exists
  <2> QED BY <2>1, <2>2, <2>3, <2>4, <2>5
<1>26. ASSUME NEW w \in Workers, clearNetworkReady(w) PROVE ShapeInv'
  BY <1>26, SMTT(30)
     DEF OneRun, Claimed, Fresh, Overlaps, HostModes, clearNetworkReady, Goto,
         setNetworkReady
<1>27. ASSUME NEW w \in Workers, RemoveCheckpoint(w) PROVE ShapeInv'
  BY <1>27, SMTT(30)
     DEF OneRun, Claimed, Fresh, Overlaps, HostModes, RemoveCheckpoint, Return,
         SetCheckpoint
<1>28. ASSUME NEW w \in Workers, ListCheckpoints(w) PROVE ShapeInv'
  BY <1>28, SMTT(30)
     DEF OneRun, Claimed, Fresh, Overlaps, HostModes, ListCheckpoints
<1>29. ASSUME NEW w \in Workers, ListContainers(w) PROVE ShapeInv'
  <2>1. OneRun'
    BY <1>29 DEF OneRun, ListContainers, Return
  <2>2. Claimed'
    BY <1>29 DEF Claimed, ListContainers, Return
  <2>3. Fresh'
    BY <1>29 DEF Fresh, Claimed, ListContainers, Return
  <2>4. Overlaps'
    BY <1>29 DEF Overlaps, ListContainers, Return
  <2>5. HostModes'
    BY <1>29 DEF HostModes, Claimed, ListContainers, Return
  <2> QED BY <2>1, <2>2, <2>3, <2>4, <2>5
<1>30. ASSUME NEW w \in Workers, ListMerge(w) PROVE ShapeInv'
  <2>1. OneRun'
    BY <1>30, SMTT(30) DEF OneRun, ListMerge, Return
  <2>2. Claimed'
    BY <1>30, SMTT(30) DEF Claimed, ListMerge, Return
  <2>3. Fresh'
    BY <1>30, SMTT(30) DEF Fresh, ListMerge, Return
  <2>4. Overlaps'
    BY <1>30, SMTT(30) DEF Overlaps, ListMerge, Return
  <2>5. HostModes'
    BY <1>30, SMTT(30) DEF HostModes, ListMerge, Return
  <2> QED BY <2>1, <2>2, <2>3, <2>4, <2>5
<1>31. ASSUME NEW s \in Sandboxes, StartWorkload(s) PROVE ShapeInv'
  BY <1>31, SMTT(30) DEF OneRun, Claimed, Fresh, Overlaps, HostModes, StartWorkload
<1>32. ASSUME NEW s \in Sandboxes, ContainerDies(s) PROVE ShapeInv'
  BY <1>32, SMTT(30) DEF OneRun, Claimed, Fresh, Overlaps, HostModes, ContainerDies, SetContainer
<1>33. ASSUME NEW s \in Sandboxes, ContainerLost(s) PROVE ShapeInv'
  BY <1>33, SMTT(30)
     DEF OneRun, Claimed, Fresh, Overlaps, HostModes, ContainerLost, SetContainer, Exists
<1>34. ASSUME NEW s \in Sandboxes, CorruptCheckpoint(s) PROVE ShapeInv'
  BY <1>34, SMTT(30)
     DEF OneRun, Claimed, Fresh, Overlaps, HostModes, CorruptCheckpoint,
         SetCheckpoint
<1>35. ASSUME Crash PROVE ShapeInv'
  BY <1>35, SMTT(30) DEF OneRun, Claimed, Fresh, Overlaps, HostModes, Crash
<1>36. CASE UNCHANGED vars
  BY <1>36 DEF OneRun, Claimed, Fresh, Overlaps, HostModes
<1> HIDE <1>t DEF vars, ShapeInv
<1> QED
  BY <1>1, <1>2, <1>3, <1>4, <1>5, <1>6, <1>7, <1>8, <1>9, <1>10, <1>11, <1>12, <1>13,
     <1>14, <1>15, <1>16, <1>17, <1>18, <1>19, <1>20, <1>21, <1>22, <1>23, <1>24,
     <1>25, <1>26, <1>27, <1>28, <1>29, <1>30, <1>31, <1>32, <1>33, <1>34, <1>35,
     <1>36, SMTT(30)
     DEF Next, Request, HandlerStep, RunStep, StopStep, RemoveStep, ListStep, Environment

=============================================================================
