----------------------- MODULE PodSandboxCoverProofs ------------------------
(* What PodSandbox promises about the checkpoints.                         *)
EXTENDS PodSandboxProofs

\* Steps of RunPodSandbox after the checkpoint was written.
PostCheckpointPCs == {"start", "dns", "setUp", "rollbackNet", "rollbackStop", "ready"}

\* Without failures no checkpoint is damaged, and one that RunPodSandbox has
\* written stays until it is done.
CoverRun ==
  /\ \A s \in Sandboxes : checkpoint[s] = "corrupt" => faults >= 1
  /\ \A w \in Workers :
       pc[w] \in PostCheckpointPCs =>
         checkpoint[id[w]] = "valid" \/ id[w] \in raced \/ faults >= 1

\* A handler that may delete the checkpoint has a network that is released: a
\* StopPodSandbox has an error in hand only after a failure, and the sandbox of
\* a RemovePodSandbox was stopped.
Deleters ==
  \A w \in Workers :
    /\ pc[w] \in {"checkReady", "tearDown", "markDown"} => err[w] = "nil"
    /\ pc[w] \in {"stop", "dropCheckpoint"} /\ err[w] # "nil" => faults >= 1
    /\ pc[w] \in RemovePCs => id[w] \in stopOK

CoverInv == CoverRun /\ Deleters /\ CheckpointCoversNetwork

-----------------------------------------------------------------------------
\* Nothing is at work in the beginning.
LEMMA CoverInit == Init => CoverInv
  BY DEF Init, CoverInv, CoverRun, Deleters, CheckpointCoversNetwork, PostCheckpointPCs,
         RemovePCs

\* The checkpoint goes only with the network.
LEMMA CoverNext ==
  TypeOK /\ ShapeInv /\ NetworkInv /\ CoverInv /\ [Next]_vars => CoverInv'
<1> SUFFICES ASSUME TypeOK, ShapeInv, NetworkInv, CoverInv, [Next]_vars PROVE CoverInv'
  OBVIOUS
<1> USE BoundsAssumption
    DEF vars, storeVars, dockerVars, handlerVars, requestVars, historyVars, At,
        TypeOK, StoreTypeOK, HandlerTypeOK, HistoryTypeOK,
        RunPCs, StopPCs, RemovePCs, ListPCs, PostCheckpointPCs, CoverInv
<1>1. ASSUME NEW w \in Workers, NEW s \in Sandboxes, NEW n \in Names, NEW h \in BOOLEAN, RunPodSandbox(w, s, n, h) PROVE CoverInv'
  <2>1. CoverRun'
    BY <1>1 DEF CoverRun, RunPodSandbox
  <2>2. Deleters'
    BY <1>1 DEF Deleters, CoverRun, RunPodSandbox
  <2>3. CheckpointCoversNetwork'
    BY <1>1 DEF CheckpointCoversNetwork, CoverRun, Deleters, RunPodSandbox
  <2> QED BY <2>1, <2>2, <2>3
<1>2. ASSUME NEW w \in Workers, NEW s \in Sandboxes, StopPodSandbox(w, s) PROVE CoverInv'
  <2>1. CoverRun'
    BY <1>2 DEF CoverRun, StopPodSandbox, Overlap
  <2>2. Deleters'
    BY <1>2 DEF Deleters, CoverRun, StopPodSandbox, Overlap
  <2>3. CheckpointCoversNetwork'
    BY <1>2 DEF CheckpointCoversNetwork, CoverRun, Deleters, StopPodSandbox, Overlap
  <2> QED BY <2>1, <2>2, <2>3
<1>3. ASSUME NEW w \in Workers, NEW s \in Sandboxes, RemovePodSandbox(w, s) PROVE CoverInv'
  <2>1. CoverRun'
    BY <1>3 DEF CoverRun, RemovePodSandbox, Overlap
  <2>2. Deleters'
    BY <1>3 DEF Deleters, CoverRun, RemovePodSandbox, Overlap
  <2>3. CheckpointCoversNetwork'
    BY <1>3 DEF CheckpointCoversNetwork, CoverRun, Deleters, RemovePodSandbox, Overlap
  <2> QED BY <2>1, <2>2, <2>3
<1>4. ASSUME NEW w \in Workers, ListPodSandbox(w) PROVE CoverInv'
  <2>1. CoverRun'
    BY <1>4 DEF CoverRun, ListPodSandbox, Goto
  <2>2. Deleters'
    BY <1>4 DEF Deleters, CoverRun, ListPodSandbox, Goto
  <2>3. CheckpointCoversNetwork'
    BY <1>4 DEF CheckpointCoversNetwork, CoverRun, Deleters, ListPodSandbox, Goto
  <2> QED BY <2>1, <2>2, <2>3
<1>5. ASSUME NEW w \in Workers, Create(w) PROVE CoverInv'
  <2>1. CoverRun'
    BY <1>5 DEF CoverRun, Create, Goto, Return, Fault, NoFault
  <2>2. Deleters'
    BY <1>5 DEF Deleters, CoverRun, Create, Goto, Return, Fault, NoFault
  <2>3. CheckpointCoversNetwork'
    BY <1>5
       DEF CheckpointCoversNetwork, CoverRun, Deleters, Create, Goto, Return, Fault,
           NoFault
  <2> QED BY <2>1, <2>2, <2>3
<1>6. ASSUME NEW w \in Workers, recoverFromCreationConflictIfNeeded(w) PROVE CoverInv'
  <2>1. CoverRun'
    BY <1>6
       DEF CoverRun, recoverFromCreationConflictIfNeeded, Goto, Return, RemoveContainer,
           SetContainer, Overlap, Exists, Fault, NoFault
  <2>2. Deleters'
    BY <1>6
       DEF Deleters, CoverRun, recoverFromCreationConflictIfNeeded, Goto, Return,
           RemoveContainer, SetContainer, Overlap, Exists, Fault, NoFault
  <2>3. CheckpointCoversNetwork'
    BY <1>6
       DEF CheckpointCoversNetwork, CoverRun, Deleters,
           recoverFromCreationConflictIfNeeded, Goto, Return, RemoveContainer,
           SetContainer, Overlap, Exists, Fault, NoFault
  <2> QED BY <2>1, <2>2, <2>3
<1>7. ASSUME NEW w \in Workers, CreateRandom(w) PROVE CoverInv'
  <2>1. CoverRun'
    BY <1>7 DEF CoverRun, CreateRandom, Goto, Return, Fault, NoFault
  <2>2. Deleters'
    BY <1>7 DEF Deleters, CoverRun, CreateRandom, Goto, Return, Fault, NoFault
  <2>3. CheckpointCoversNetwork'
    BY <1>7
       DEF CheckpointCoversNetwork, CoverRun, Deleters, CreateRandom, Goto, Return,
           Fault, NoFault
  <2> QED BY <2>1, <2>2, <2>3
<1>8. ASSUME NEW w \in Workers, RunSetNotReady(w) PROVE CoverInv'
  <2>1. CoverRun'
    BY <1>8 DEF CoverRun, RunSetNotReady, Goto
  <2>2. Deleters'
    BY <1>8 DEF Deleters, CoverRun, RunSetNotReady, Goto
  <2>3. CheckpointCoversNetwork'
    BY <1>8, SMTT(30) DEF CheckpointCoversNetwork, CoverRun, Deleters, RunSetNotReady, Goto
  <2> QED BY <2>1, <2>2, <2>3
<1>9. ASSUME NEW w \in Workers, CreateCheckpoint(w) PROVE CoverInv'
  <2>1. CoverRun'
    BY <1>9, SMTT(30)
       DEF CoverRun, CreateCheckpoint, Goto, Return, SetCheckpoint, Fault, NoFault
  <2>2. Deleters'
    BY <1>9
       DEF Deleters, CoverRun, CreateCheckpoint, Goto, Return, SetCheckpoint, Fault,
           NoFault
  <2>3. CheckpointCoversNetwork'
    BY <1>9, SMTT(30)
       DEF CheckpointCoversNetwork, CoverRun, Deleters, CreateCheckpoint, Goto, Return,
           SetCheckpoint, Fault, NoFault
  <2> QED BY <2>1, <2>2, <2>3
<1>10. ASSUME NEW w \in Workers, Start(w) PROVE CoverInv'
  <2>1. CoverRun'
    BY <1>10, SMTT(30) DEF CoverRun, Start, Goto, Return, SetContainer, Exists, Fault, NoFault
  <2>2. Deleters'
    BY <1>10, SMTT(30)
       DEF Deleters, CoverRun, Start, Goto, Return, SetContainer, Exists, Fault, NoFault
  <2>3. CheckpointCoversNetwork'
    BY <1>10
       DEF CheckpointCoversNetwork, CoverRun, Deleters, Start, Goto, Return,
           SetContainer, Exists, Fault, NoFault
  <2> QED BY <2>1, <2>2, <2>3
<1>11. ASSUME NEW w \in Workers, RewriteResolvFile(w) PROVE CoverInv'
  <2>1. CoverRun'
    BY <1>11 DEF CoverRun, RewriteResolvFile, Goto, GotoWith, Fault, NoFault
  <2>2. Deleters'
    BY <1>11 DEF Deleters, CoverRun, RewriteResolvFile, Goto, GotoWith, Fault, NoFault
  <2>3. CheckpointCoversNetwork'
    BY <1>11, SMTT(30)
       DEF CheckpointCoversNetwork, CoverRun, Deleters, RewriteResolvFile, Goto,
           GotoWith, Fault, NoFault
  <2> QED BY <2>1, <2>2, <2>3
<1>12. ASSUME NEW w \in Workers, RunSetUp(w) PROVE CoverInv'
  <2>1. CoverRun'
    BY <1>12 DEF CoverRun, RunSetUp, Goto, SetUpPod, SetNetwork, SetCheckpoint, Fault, NoFault
  <2>2. Deleters'
    BY <1>12
       DEF Deleters, CoverRun, RunSetUp, Goto, SetUpPod, SetNetwork, SetCheckpoint,
           Fault, NoFault
  <2>3. CheckpointCoversNetwork'
    BY <1>12
       DEF CheckpointCoversNetwork, CoverRun, Deleters, RunSetUp, Goto, SetUpPod,
           SetNetwork, SetCheckpoint, Fault, NoFault
  <2> QED BY <2>1, <2>2, <2>3
<1>13. ASSUME NEW w \in Workers, RollbackNetwork(w) PROVE CoverInv'
  <2>1. CoverRun'
    BY <1>13
       DEF CoverRun, RollbackNetwork, Goto, TearDownPod, SetNetwork, SetCheckpoint,
           Fault, NoFault
  <2>2. Deleters'
    BY <1>13
       DEF Deleters, CoverRun, RollbackNetwork, Goto, TearDownPod, SetNetwork,
           SetCheckpoint, Fault, NoFault
  <2>3. CheckpointCoversNetwork'
    BY <1>13, SMTT(30)
       DEF CheckpointCoversNetwork, CoverRun, Deleters, RollbackNetwork, Goto,
           TearDownPod, SetNetwork, SetCheckpoint, Fault, NoFault
  <2> QED BY <2>1, <2>2, <2>3
<1>14. ASSUME NEW w \in Workers, RollbackStop(w) PROVE CoverInv'
  <2>1. CoverRun'
    BY <1>14, SMTT(30)
       DEF CoverRun, RollbackStop, GotoWith, Return, StopContainer, SetContainer,
           Exists, Fault, NoFault
  <2>2. Deleters'
    BY <1>14
       DEF Deleters, CoverRun, RollbackStop, GotoWith, Return, StopContainer,
           SetContainer, Exists, Fault, NoFault
  <2>3. CheckpointCoversNetwork'
    BY <1>14
       DEF CheckpointCoversNetwork, CoverRun, Deleters, RollbackStop, GotoWith, Return,
           StopContainer, SetContainer, Exists, Fault, NoFault
  <2> QED BY <2>1, <2>2, <2>3
<1>15. ASSUME NEW w \in Workers, RunSetReady(w) PROVE CoverInv'
  <2>1. CoverRun'
    BY <1>15 DEF CoverRun, RunSetReady, Return
  <2>2. Deleters'
    BY <1>15 DEF Deleters, CoverRun, RunSetReady, Return
  <2>3. CheckpointCoversNetwork'
    BY <1>15, SMTT(30) DEF CheckpointCoversNetwork, CoverRun, Deleters, RunSetReady, Return
  <2> QED BY <2>1, <2>2, <2>3
<1>16. ASSUME NEW w \in Workers, StopInspect(w) PROVE CoverInv'
  <2>1. CoverRun'
    BY <1>16 DEF CoverRun, StopInspect, StopProceed, GotoWith, Fault, NoFault
  <2>2. Deleters'
    BY <1>16 DEF Deleters, CoverRun, StopInspect, StopProceed, GotoWith, Fault, NoFault
  <2>3. CheckpointCoversNetwork'
    BY <1>16, SMTT(30)
       DEF CheckpointCoversNetwork, CoverRun, Deleters, StopInspect, StopProceed,
           GotoWith, Fault, NoFault
  <2> QED BY <2>1, <2>2, <2>3
<1>17. ASSUME NEW w \in Workers, StopReadCheckpoint(w) PROVE CoverInv'
  <2>1. CoverRun'
    BY <1>17, SMTT(30)
       DEF CoverRun, StopReadCheckpoint, StopProceed, StopWithoutCheckpoint, Return,
           SetCheckpoint, Fault, NoFault, TwoFaults
  <2>2. Deleters'
    BY <1>17, SMTT(30)
       DEF Deleters, CoverRun, StopReadCheckpoint, StopProceed, StopWithoutCheckpoint,
           Return, SetCheckpoint, Fault, NoFault, TwoFaults
  <2>3. CheckpointCoversNetwork'
    BY <1>17
       DEF CheckpointCoversNetwork, CoverRun, Deleters, StopReadCheckpoint, StopProceed,
           StopWithoutCheckpoint, Return, SetCheckpoint, Fault, NoFault, TwoFaults
  <2> QED BY <2>1, <2>2, <2>3
<1>18. ASSUME NEW w \in Workers, StopCheckReady(w) PROVE CoverInv'
  <2>1. CoverRun'
    BY <1>18 DEF CoverRun, StopCheckReady, Goto
  <2>2. Deleters'
    BY <1>18 DEF Deleters, CoverRun, StopCheckReady, Goto
  <2>3. CheckpointCoversNetwork'
    BY <1>18 DEF CheckpointCoversNetwork, CoverRun, Deleters, StopCheckReady, Goto
  <2> QED BY <2>1, <2>2, <2>3
<1>19. ASSUME NEW w \in Workers, StopTearDown(w) PROVE CoverInv'
  <2>1. CoverRun'
    BY <1>19
       DEF CoverRun, StopTearDown, Goto, GotoWith, TearDownPod, SetNetwork,
           SetCheckpoint, Fault, NoFault
  <2>2. Deleters'
    BY <1>19
       DEF Deleters, CoverRun, StopTearDown, Goto, GotoWith, TearDownPod, SetNetwork,
           SetCheckpoint, Fault, NoFault
  <2>3. CheckpointCoversNetwork'
    BY <1>19
       DEF CheckpointCoversNetwork, CoverRun, Deleters, StopTearDown, Goto, GotoWith,
           TearDownPod, SetNetwork, SetCheckpoint, Fault, NoFault
  <2> QED BY <2>1, <2>2, <2>3
<1>20. ASSUME NEW w \in Workers, StopSetNotReady(w) PROVE CoverInv'
  <2>1. CoverRun'
    BY <1>20 DEF CoverRun, StopSetNotReady, Goto
  <2>2. Deleters'
    BY <1>20 DEF Deleters, CoverRun, StopSetNotReady, Goto
  <2>3. CheckpointCoversNetwork'
    BY <1>20, SMTT(30) DEF CheckpointCoversNetwork, CoverRun, Deleters, StopSetNotReady, Goto
  <2> QED BY <2>1, <2>2, <2>3
<1>21. ASSUME NEW w \in Workers, StopSandbox(w) PROVE CoverInv'
  <2>1. CoverRun'
    BY <1>21, SMTT(30)
       DEF CoverRun, StopSandbox, Goto, Return, StopReturn, StopContainer, SetContainer,
           Exists, Fault, NoFault
  <2>2. Deleters'
    BY <1>21, SMTT(30)
       DEF Deleters, CoverRun, StopSandbox, Goto, Return, StopReturn, StopContainer,
           SetContainer, Exists, Fault, NoFault
  <2>3. CheckpointCoversNetwork'
    BY <1>21, SMTT(30)
       DEF CheckpointCoversNetwork, CoverRun, Deleters, StopSandbox, Goto, Return,
           StopReturn, StopContainer, SetContainer, Exists, Fault, NoFault
  <2> QED BY <2>1, <2>2, <2>3
<1>22. ASSUME NEW w \in Workers, StopDropCheckpoint(w) PROVE CoverInv'
  <2>1. CoverRun'
    BY <1>22, SMTT(30)
       DEF CoverRun, StopDropCheckpoint, Return, StopReturn, SetCheckpoint, Fault,
           NoFault, ShapeInv, Overlaps
  <2>2. Deleters'
    BY <1>22
       DEF Deleters, CoverRun, StopDropCheckpoint, Return, StopReturn, SetCheckpoint,
           Fault, NoFault
  <2>3. CheckpointCoversNetwork'
    BY <1>22, SMTT(30)
       DEF CheckpointCoversNetwork, CoverRun, Deleters, StopDropCheckpoint, Return,
           StopReturn, SetCheckpoint, Fault, NoFault, ShapeInv, Overlaps, NetworkInv,
           StopNetwork, Released
  <2> QED BY <2>1, <2>2, <2>3
<1>23. ASSUME NEW w \in Workers, RemoveList(w) PROVE CoverInv'
  <2>1. CoverRun'
    BY <1>23, SMTT(30) DEF CoverRun, RemoveList, Goto, GotoWith, Fault, NoFault
  <2>2. Deleters'
    BY <1>23, SMTT(30) DEF Deleters, CoverRun, RemoveList, Goto, GotoWith, Fault, NoFault
  <2>3. CheckpointCoversNetwork'
    BY <1>23, SMTT(30)
       DEF CheckpointCoversNetwork, CoverRun, Deleters, RemoveList, Goto, GotoWith,
           Fault, NoFault
  <2> QED BY <2>1, <2>2, <2>3
<1>24. ASSUME NEW w \in Workers, RemoveWorkload(w) PROVE CoverInv'
  <2>1. CoverRun'
    BY <1>24, SMTT(30) DEF CoverRun, RemoveWorkload, Goto, GotoWith, Fault, NoFault
  <2>2. Deleters'
    BY <1>24, SMTT(30) DEF Deleters, CoverRun, RemoveWorkload, Goto, GotoWith, Fault, NoFault
  <2>3. CheckpointCoversNetwork'
    BY <1>24, SMTT(30)
       DEF CheckpointCoversNetwork, CoverRun, Deleters, RemoveWorkload, Goto, GotoWith,
           Fault, NoFault
  <2> QED BY <2>1, <2>2, <2>3
<1>25. ASSUME NEW w \in Workers, RemoveSandbox(w) PROVE CoverInv'
  <2>1. CoverRun'
    BY <1>25, SMTT(30)
       DEF CoverRun, RemoveSandbox, Goto, GotoWith, RemoveContainer, SetContainer,
           Exists, Fault, NoFault
  <2>2. Deleters'
    BY <1>25, SMTT(30)
       DEF Deleters, CoverRun, RemoveSandbox, Goto, GotoWith, RemoveContainer,
           SetContainer, Exists, Fault, NoFault
  <2>3. CheckpointCoversNetwork'
    BY <1>25, SMTT(30)
       DEF CheckpointCoversNetwork, CoverRun, Deleters, RemoveSandbox, Goto, GotoWith,
           RemoveContainer, SetContainer, Exists, Fault, NoFault
  <2> QED BY <2>1, <2>2, <2>3
<1>26. ASSUME NEW w \in Workers, clearNetworkReady(w) PROVE CoverInv'
  <2>1. CoverRun'
    BY <1>26, SMTT(30) DEF CoverRun, clearNetworkReady, Goto
  <2>2. Deleters'
    BY <1>26, SMTT(30) DEF Deleters, CoverRun, clearNetworkReady, Goto
  <2>3. CheckpointCoversNetwork'
    BY <1>26, SMTT(30)
       DEF CheckpointCoversNetwork, CoverRun, Deleters, clearNetworkReady, Goto
  <2> QED BY <2>1, <2>2, <2>3
<1>27. ASSUME NEW w \in Workers, RemoveCheckpoint(w) PROVE CoverInv'
  <2>1. CoverRun'
    BY <1>27, SMTT(30)
       DEF CoverRun, RemoveCheckpoint, Return, SetCheckpoint, Fault, NoFault, ShapeInv,
           Overlaps
  <2>2. Deleters'
    BY <1>27, SMTT(30)
       DEF Deleters, CoverRun, RemoveCheckpoint, Return, SetCheckpoint, Fault, NoFault
  <2>3. CheckpointCoversNetwork'
    BY <1>27, SMTT(30)
       DEF CheckpointCoversNetwork, CoverRun, Deleters, RemoveCheckpoint, Return,
           SetCheckpoint, Fault, NoFault, ShapeInv, Overlaps, NetworkInv,
           StopReleasesNetwork
  <2> QED BY <2>1, <2>2, <2>3
<1>28. ASSUME NEW w \in Workers, ListCheckpoints(w) PROVE CoverInv'
  <2>1. CoverRun'
    BY <1>28, SMTT(30) DEF CoverRun, ListCheckpoints, Fault, NoFault
  <2>2. Deleters'
    BY <1>28, SMTT(30) DEF Deleters, CoverRun, ListCheckpoints, Fault, NoFault
  <2>3. CheckpointCoversNetwork'
    BY <1>28, SMTT(30)
       DEF CheckpointCoversNetwork, CoverRun, Deleters, ListCheckpoints, Fault, NoFault
  <2> QED BY <2>1, <2>2, <2>3
<1>29. ASSUME NEW w \in Workers, ListContainers(w) PROVE CoverInv'
  <2>1. CoverRun'
    BY <1>29, SMTT(30) DEF CoverRun, ListContainers, Return, Exists, Fault, NoFault
  <2>2. Deleters'
    BY <1>29, SMTT(30) DEF Deleters, CoverRun, ListContainers, Return, Exists, Fault, NoFault
  <2>3. CheckpointCoversNetwork'
    BY <1>29, SMTT(30)
       DEF CheckpointCoversNetwork, CoverRun, Deleters, ListContainers, Return, Exists,
           Fault, NoFault
  <2> QED BY <2>1, <2>2, <2>3
<1>30. ASSUME NEW w \in Workers, ListMerge(w) PROVE CoverInv'
  <2>1. CoverRun'
    BY <1>30, SMTT(30) DEF CoverRun, ListMerge, Return, Fault, NoFault
  <2>2. Deleters'
    BY <1>30, SMTT(30) DEF Deleters, CoverRun, ListMerge, Return, Fault, NoFault
  <2>3. CheckpointCoversNetwork'
    BY <1>30 DEF CheckpointCoversNetwork, CoverRun, Deleters, ListMerge, Return, Fault, NoFault
  <2> QED BY <2>1, <2>2, <2>3
<1>31. ASSUME NEW s \in Sandboxes, StartWorkload(s) PROVE CoverInv'
  <2>1. CoverRun'
    BY <1>31 DEF CoverRun, StartWorkload
  <2>2. Deleters'
    BY <1>31 DEF Deleters, CoverRun, StartWorkload
  <2>3. CheckpointCoversNetwork'
    BY <1>31, SMTT(30) DEF CheckpointCoversNetwork, CoverRun, Deleters, StartWorkload
  <2> QED BY <2>1, <2>2, <2>3
<1>32. ASSUME NEW s \in Sandboxes, ContainerDies(s) PROVE CoverInv'
  <2>1. CoverRun'
    BY <1>32, SMTT(30) DEF CoverRun, ContainerDies, SetContainer
  <2>2. Deleters'
    BY <1>32 DEF Deleters, CoverRun, ContainerDies, SetContainer
  <2>3. CheckpointCoversNetwork'
    BY <1>32, SMTT(30)
       DEF CheckpointCoversNetwork, CoverRun, Deleters, ContainerDies, SetContainer
  <2> QED BY <2>1, <2>2, <2>3
<1>33. ASSUME NEW s \in Sandboxes, ContainerLost(s) PROVE CoverInv'
  <2>1. CoverRun'
    BY <1>33 DEF CoverRun, ContainerLost, SetContainer, Exists, Fault, NoFault
  <2>2. Deleters'
    BY <1>33, SMTT(30)
       DEF Deleters, CoverRun, ContainerLost, SetContainer, Exists, Fault, NoFault
  <2>3. CheckpointCoversNetwork'
    BY <1>33, SMTT(30)
       DEF CheckpointCoversNetwork, CoverRun, Deleters, ContainerLost, SetContainer,
           Exists, Fault, NoFault
  <2> QED BY <2>1, <2>2, <2>3
<1>34. ASSUME NEW s \in Sandboxes, CorruptCheckpoint(s) PROVE CoverInv'
  <2>1. CoverRun'
    BY <1>34, SMTT(30) DEF CoverRun, CorruptCheckpoint, SetCheckpoint, Fault, NoFault
  <2>2. Deleters'
    BY <1>34, SMTT(30)
       DEF Deleters, CoverRun, CorruptCheckpoint, SetCheckpoint, Fault, NoFault
  <2>3. CheckpointCoversNetwork'
    BY <1>34, SMTT(30)
       DEF CheckpointCoversNetwork, CoverRun, Deleters, CorruptCheckpoint,
           SetCheckpoint, Fault, NoFault
  <2> QED BY <2>1, <2>2, <2>3
<1>35. ASSUME Crash PROVE CoverInv'
  <2>1. CoverRun'
    BY <1>35 DEF CoverRun, Crash
  <2>2. Deleters'
    BY <1>35, SMTT(30) DEF Deleters, CoverRun, Crash
  <2>3. CheckpointCoversNetwork'
    BY <1>35, SMTT(30) DEF CheckpointCoversNetwork, CoverRun, Deleters, Crash
  <2> QED BY <2>1, <2>2, <2>3, SMTT(30)
<1>36. CASE UNCHANGED vars
  BY <1>36, SMTT(30) DEF CoverRun, Deleters, CheckpointCoversNetwork
<1> HIDE DEF vars, TypeOK, CoverInv
<1> QED
  BY <1>1, <1>2, <1>3, <1>4, <1>5, <1>6, <1>7, <1>8, <1>9, <1>10, <1>11, <1>12, <1>13,
     <1>14, <1>15, <1>16, <1>17, <1>18, <1>19, <1>20, <1>21, <1>22, <1>23, <1>24, <1>25,
     <1>26, <1>27, <1>28, <1>29, <1>30, <1>31, <1>32, <1>33, <1>34, <1>35, <1>36, SMTT(30)
     DEF Next, Request, HandlerStep, RunStep, StopStep, RemoveStep, ListStep, Environment

-----------------------------------------------------------------------------
\* Without a failure or an overlap a sandbox whose network is up has its
\* checkpoint, for any number of handlers, sandboxes and restarts: a restart
\* that finds the container gone can still release the network.
THEOREM CheckpointCoversNetworkAlways == Spec => []CheckpointCoversNetwork
<1>1. Init => TypeOK /\ ShapeInv /\ NetworkInv /\ CoverInv
  BY TypeInit, ShapeInit, NetworkInit, CoverInit
<1>2. TypeOK /\ ShapeInv /\ NetworkInv /\ CoverInv /\ [Next]_vars
        => (TypeOK /\ ShapeInv /\ NetworkInv /\ CoverInv)'
  BY TypeNext, ShapeNext, NetworkNext, CoverNext
<1>3. CoverInv => CheckpointCoversNetwork
  BY DEF CoverInv
<1> QED BY <1>1, <1>2, <1>3, PTL DEF Spec
=============================================================================
