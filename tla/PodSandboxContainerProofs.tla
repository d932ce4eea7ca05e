--------------------- MODULE PodSandboxContainerProofs ----------------------
(* How containers come and go, and what that means for ListPodSandbox,     *)
(* which reports no sandbox that is only being created as one that is      *)
(* gone, and for StopPodSandbox, which trusts the absence of a container.  *)
EXTENDS PodSandboxShapeProofs

\* A container that is gone stays gone, one that was created is never unused
\* again, and one that runs is removed by a request for it, or from outside.
Settles(s) ==
  /\ container[s] = "removed" => container'[s] = "removed"
  /\ container[s] # "absent" => container'[s] # "absent"
  /\ container[s] = "running" /\ container'[s] = "removed" =>
       ContainerLost(s) \/ \E w \in Workers : At(w, "rmSandbox") /\ id[w] = s

\* A checkpoint is of a container that was created.
CheckpointsClaimed == \A s \in Sandboxes : checkpoint[s] # "none" => container[s] # "absent"

\* What a listing has read of the checkpoints are sandboxes that were created;
\* after it has read the containers, they are gone.
Listed ==
  \A w \in Workers :
    /\ pc[w] \notin {"lsContainers", "lsMerge"} => ids[w] = {}
    /\ pc[w] = "lsContainers" => \A s \in ids[w] : container[s] # "absent"
    /\ pc[w] = "lsMerge" => \A s \in ids[w] : container[s] = "removed"

ListInv == CheckpointsClaimed /\ Listed /\ GhostsAreGone

\* Who takes a sandbox in the host's network for one that is not has found
\* neither its container nor its checkpoint.
Unknown(s) ==
  /\ container[s] = "removed"
  /\ checkpoint[s] # "valid" \/ s \in raced \/ faults >= 2

HostInv ==
  \A w \in Workers :
    /\ pc[w] = "readCheckpoint" /\ err[w] = "notFound" => container[id[w]] = "removed"
    /\ pc[w] = "checkReady" /\ ~host[w] /\ hostNetwork[id[w]] => Unknown(id[w])
    /\ pc[w] = "tearDown" /\ hostNetwork[id[w]] => Unknown(id[w])

-----------------------------------------------------------------------------
\* What a step may do to a container.
LEMMA ContainerSteps ==
  TypeOK /\ ShapeInv /\ [Next]_vars => \A s \in Sandboxes : Settles(s)
<1> SUFFICES ASSUME TypeOK, ShapeInv, [Next]_vars, NEW t \in Sandboxes PROVE Settles(t)
  OBVIOUS
<1> USE DEF vars, storeVars, dockerVars, handlerVars, requestVars, At,
            TypeOK, StoreTypeOK, HandlerTypeOK,
            RunPCs, StopPCs, RemovePCs, ListPCs, PreCreatePCs
<1>1. ASSUME NEW w \in Workers, NEW s \in Sandboxes, NEW n \in Names, NEW h \in BOOLEAN, RunPodSandbox(w, s, n, h) PROVE Settles(t)
  BY <1>1 DEF Settles, RunPodSandbox
<1>2. ASSUME NEW w \in Workers, NEW s \in Sandboxes, StopPodSandbox(w, s) PROVE Settles(t)
  BY <1>2 DEF Settles, StopPodSandbox
<1>3. ASSUME NEW w \in Workers, NEW s \in Sandboxes, RemovePodSandbox(w, s) PROVE Settles(t)
  BY <1>3 DEF Settles, RemovePodSandbox
<1>4. ASSUME NEW w \in Workers, ListPodSandbox(w) PROVE Settles(t)
  BY <1>4 DEF Settles, ListPodSandbox
<1>5. ASSUME NEW w \in Workers, Create(w) PROVE Settles(t)
  BY <1>5 DEF Settles, Create, Created, Claimed, ShapeInv
<1>6. ASSUME NEW w \in Workers, recoverFromCreationConflictIfNeeded(w) PROVE Settles(t)
  BY <1>6
     DEF Settles, recoverFromCreationConflictIfNeeded, RemoveContainer, SetContainer,
         Exists
<1>7. ASSUME NEW w \in Workers, CreateRandom(w) PROVE Settles(t)
  BY <1>7 DEF Settles, CreateRandom, Created, Claimed, ShapeInv
<1>8. ASSUME NEW w \in Workers, RunSetNotReady(w) PROVE Settles(t)
  BY <1>8 DEF Settles, RunSetNotReady
<1>9. ASSUME NEW w \in Workers, CreateCheckpoint(w) PROVE Settles(t)
  BY <1>9 DEF Settles, CreateCheckpoint
<1>10. ASSUME NEW w \in Workers, Start(w) PROVE Settles(t)
  BY <1>10 DEF Settles, Start, SetContainer, Exists
<1>11. ASSUME NEW w \in Workers, RewriteResolvFile(w) PROVE Settles(t)
  BY <1>11 DEF Settles, RewriteResolvFile
<1>12. ASSUME NEW w \in Workers, RunSetUp(w) PROVE Settles(t)
  BY <1>12 DEF Settles, RunSetUp
<1>13. ASSUME NEW w \in Workers, RollbackNetwork(w) PROVE Settles(t)
  BY <1>13 DEF Settles, RollbackNetwork
<1>14. ASSUME NEW w \in Workers, RollbackStop(w) PROVE Settles(t)
  BY <1>14 DEF Settles, RollbackStop, StopContainer, SetContainer, Exists
<1>15. ASSUME NEW w \in Workers, RunSetReady(w) PROVE Settles(t)
  BY <1>15 DEF Settles, RunSetReady
<1>16. ASSUME NEW w \in Workers, StopInspect(w) PROVE Settles(t)
  BY <1>16 DEF Settles, StopInspect
<1>17. ASSUME NEW w \in Workers, StopReadCheckpoint(w) PROVE Settles(t)
  BY <1>17 DEF Settles, StopReadCheckpoint
<1>18. ASSUME NEW w \in Workers, StopCheckReady(w) PROVE Settles(t)
  BY <1>18 DEF Settles, StopCheckReady
<1>19. ASSUME NEW w \in Workers, StopTearDown(w) PROVE Settles(t)
  BY <1>19 DEF Settles, StopTearDown
<1>20. ASSUME NEW w \in Workers, StopSetNotReady(w) PROVE Settles(t)
  BY <1>20 DEF Settles, StopSetNotReady
<1>21. ASSUME NEW w \in Workers, StopSandbox(w) PROVE Settles(t)
  BY <1>21 DEF Settles, StopSandbox, StopContainer, SetContainer, Exists
<1>22. ASSUME NEW w \in Workers, StopDropCheckpoint(w) PROVE Settles(t)
  BY <1>22 DEF Settles, StopDropCheckpoint
<1>23. ASSUME NEW w \in Workers, RemoveList(w) PROVE Settles(t)
  BY <1>23 DEF Settles, RemoveList
<1>24. ASSUME NEW w \in Workers, RemoveWorkload(w) PROVE Settles(t)
  BY <1>24 DEF Settles, RemoveWorkload
<1>25. ASSUME NEW w \in Workers, RemoveSandbox(w) PROVE Settles(t)
  BY <1>25 DEF Settles, RemoveSandbox, RemoveContainer, SetContainer, Exists
<1>26. ASSUME NEW w \in Workers, clearNetworkReady(w) PROVE Settles(t)
  BY <1>26 DEF Settles, clearNetworkReady
<1>27. ASSUME NEW w \in Workers, RemoveCheckpoint(w) PROVE Settles(t)
  BY <1>27 DEF Settles, RemoveCheckpoint
<1>28. ASSUME NEW w \in Workers, ListCheckpoints(w) PROVE Settles(t)
  BY <1>28 DEF Settles, ListCheckpoints
<1>29. ASSUME NEW w \in Workers, ListContainers(w) PROVE Settles(t)
  BY <1>29 DEF Settles, ListContainers, Exists
<1>30. ASSUME NEW w \in Workers, ListMerge(w) PROVE Settles(t)
  BY <1>30 DEF Settles, ListMerge
<1>31. ASSUME NEW s \in Sandboxes, StartWorkload(s) PROVE Settles(t)
  BY <1>31 DEF Settles, StartWorkload
<1>32. ASSUME NEW s \in Sandboxes, ContainerDies(s) PROVE Settles(t)
  BY <1>32 DEF Settles, ContainerDies, SetContainer
<1>33. ASSUME NEW s \in Sandboxes, ContainerLost(s) PROVE Settles(t)
  BY <1>33, ZenonT(30) DEF Settles, ContainerLost, SetContainer, Exists
<1>34. ASSUME NEW s \in Sandboxes, CorruptCheckpoint(s) PROVE Settles(t)
  BY <1>34 DEF Settles, CorruptCheckpoint
<1>35. ASSUME Crash PROVE Settles(t)
  BY <1>35 DEF Settles, Crash
<1>36. CASE UNCHANGED vars
  BY <1>36 DEF Settles
<1> HIDE DEF vars, TypeOK
<1> QED
  BY <1>1, <1>2, <1>3, <1>4, <1>5, <1>6, <1>7, <1>8, <1>9, <1>10, <1>11, <1>12, <1>13,
     <1>14, <1>15, <1>16, <1>17, <1>18, <1>19, <1>20, <1>21, <1>22, <1>23, <1>24, <1>25,
     <1>26, <1>27, <1>28, <1>29, <1>30, <1>31, <1>32, <1>33, <1>34, <1>35, <1>36, SMTT(30)
     DEF Next, Request, HandlerStep, RunStep, StopStep, RemoveStep, ListStep, Environment

\* Nothing is listed in the beginning.
LEMMA ListInit == Init => ListInv
  BY DEF Init, ListInv, CheckpointsClaimed, Listed, GhostsAreGone

\* The listing reads the checkpoints first: what it finds there and not among
\* the containers later is gone.
LEMMA ListNext == TypeOK /\ ShapeInv /\ ListInv /\ [Next]_vars => ListInv'
<1> SUFFICES ASSUME TypeOK, ShapeInv, ListInv, [Next]_vars PROVE ListInv'
  OBVIOUS
<1>0. \A s \in Sandboxes : /\ container[s] = "removed" => container'[s] = "removed"
                           /\ container[s] # "absent" => container'[s] # "absent"
  BY ContainerSteps DEF Settles
<1>t. /\ container \in [Sandboxes -> {"absent", "created", "running", "exited", "removed"}]
      /\ checkpoint \in [Sandboxes -> {"none", "valid", "corrupt"}]
      /\ pc \in [Workers -> PCs] /\ id \in [Workers -> Sandboxes \cup {None}]
      /\ ids \in [Workers -> SUBSET Sandboxes] /\ ghosts \subseteq Sandboxes
      /\ \A w \in Workers : pc[w] \notin {"idle"} \cup ListPCs => id[w] \in Sandboxes
  BY DEF TypeOK, StoreTypeOK, HandlerTypeOK, HistoryTypeOK
<1> USE <1>t
    DEF vars, storeVars, dockerVars, handlerVars, requestVars, historyVars, At,
        RunPCs, StopPCs, RemovePCs, ListPCs, PreCreatePCs,
        ListInv, CheckpointsClaimed, Listed, GhostsAreGone
<1>1. ASSUME NEW w \in Workers, NEW s \in Sandboxes, NEW n \in Names, NEW h \in BOOLEAN, RunPodSandbox(w, s, n, h) PROVE ListInv'
  BY <1>0, <1>1 DEF RunPodSandbox
<1>2. ASSUME NEW w \in Workers, NEW s \in Sandboxes, StopPodSandbox(w, s) PROVE ListInv'
  BY <1>0, <1>2 DEF StopPodSandbox
<1>3. ASSUME NEW w \in Workers, NEW s \in Sandboxes, RemovePodSandbox(w, s) PROVE ListInv'
  BY <1>0, <1>3 DEF RemovePodSandbox
<1>4. ASSUME NEW w \in Workers, ListPodSandbox(w) PROVE ListInv'
  BY <1>0, <1>4, SMTT(30) DEF ListPodSandbox, Goto
<1>5. ASSUME NEW w \in Workers, Create(w) PROVE ListInv'
  BY <1>0, <1>5, SMTT(30) DEF Create, Goto, Return
<1>6. ASSUME NEW w \in Workers, recoverFromCreationConflictIfNeeded(w) PROVE ListInv'
  BY <1>0, <1>6, SMTT(30) DEF recoverFromCreationConflictIfNeeded, Goto, Return
<1>7. ASSUME NEW w \in Workers, CreateRandom(w) PROVE ListInv'
  BY <1>0, <1>7, SMTT(30) DEF CreateRandom, Goto, Return
<1>8. ASSUME NEW w \in Workers, RunSetNotReady(w) PROVE ListInv'
  BY <1>0, <1>8 DEF RunSetNotReady, Goto
<1>9. ASSUME NEW w \in Workers, CreateCheckpoint(w) PROVE ListInv'
  <2>1. container[id[w]] # "absent" /\ UNCHANGED <<container, ghosts>>
    BY <1>9 DEF CreateCheckpoint, ShapeInv, Claimed
  <2>2. \A s \in Sandboxes : checkpoint'[s] = checkpoint[s] \/ s = id[w]
    BY <1>9 DEF CreateCheckpoint, SetCheckpoint
  <2>3. CheckpointsClaimed'
    BY <2>1, <2>2
  <2>4. Listed'
    BY <1>9, <2>1 DEF CreateCheckpoint, Goto, Return
  <2> QED BY <2>1, <2>3, <2>4
<1>10. ASSUME NEW w \in Workers, Start(w) PROVE ListInv'
  BY <1>0, <1>10 DEF Start, Goto, Return
<1>11. ASSUME NEW w \in Workers, RewriteResolvFile(w) PROVE ListInv'
  BY <1>0, <1>11 DEF RewriteResolvFile, Goto, GotoWith
<1>12. ASSUME NEW w \in Workers, RunSetUp(w) PROVE ListInv'
  BY <1>0, <1>12 DEF RunSetUp, Goto, SetUpPod, SetCheckpoint
<1>13. ASSUME NEW w \in Workers, RollbackNetwork(w) PROVE ListInv'
  BY <1>0, <1>13 DEF RollbackNetwork, Goto, TearDownPod, SetCheckpoint
<1>14. ASSUME NEW w \in Workers, RollbackStop(w) PROVE ListInv'
  BY <1>0, <1>14 DEF RollbackStop, GotoWith, Return
<1>15. ASSUME NEW w \in Workers, RunSetReady(w) PROVE ListInv'
  BY <1>0, <1>15 DEF RunSetReady, Return
<1>16. ASSUME NEW w \in Workers, StopInspect(w) PROVE ListInv'
  BY <1>0, <1>16, SMTT(30) DEF StopInspect, StopProceed, GotoWith
<1>17. ASSUME NEW w \in Workers, StopReadCheckpoint(w) PROVE ListInv'
  BY <1>0, <1>17
     DEF StopReadCheckpoint, StopProceed, StopWithoutCheckpoint, Return, SetCheckpoint
<1>18. ASSUME NEW w \in Workers, StopCheckReady(w) PROVE ListInv'
  BY <1>0, <1>18, SMTT(30) DEF StopCheckReady, Goto
<1>19. ASSUME NEW w \in Workers, StopTearDown(w) PROVE ListInv'
  BY <1>0, <1>19, SMTT(30) DEF StopTearDown, Goto, GotoWith, TearDownPod, SetCheckpoint
<1>20. ASSUME NEW w \in Workers, StopSetNotReady(w) PROVE ListInv'
  BY <1>0, <1>20 DEF StopSetNotReady, Goto
<1>21. ASSUME NEW w \in Workers, StopSandbox(w) PROVE ListInv'
  BY <1>0, <1>21 DEF StopSandbox, Goto, Return, StopReturn
<1>22. ASSUME NEW w \in Workers, StopDropCheckpoint(w) PROVE ListInv'
  BY <1>0, <1>22 DEF StopDropCheckpoint, Return, StopReturn, SetCheckpoint
<1>23. ASSUME NEW w \in Workers, RemoveList(w) PROVE ListInv'
  BY <1>0, <1>23, SMTT(30) DEF RemoveList, Goto, GotoWith
<1>24. ASSUME NEW w \in Workers, RemoveWorkload(w) PROVE ListInv'
  BY <1>0, <1>24, SMTT(30) DEF RemoveWorkload, Goto, GotoWith
<1>25. ASSUME NEW w \in Workers, RemoveSandbox(w) PROVE ListInv'
  BY <1>0, <1>25, SMTT(30) DEF RemoveSandbox, Goto, GotoWith
<1>26. ASSUME NEW w \in Workers, clearNetworkReady(w) PROVE ListInv'
  BY <1>0, <1>26, SMTT(30) DEF clearNetworkReady, Goto
<1>27. ASSUME NEW w \in Workers, RemoveCheckpoint(w) PROVE ListInv'
  BY <1>0, <1>27 DEF RemoveCheckpoint, Return, SetCheckpoint
<1>28. ASSUME NEW w \in Workers, ListCheckpoints(w) PROVE ListInv'
  BY <1>0, <1>28 DEF ListCheckpoints
<1>29. ASSUME NEW w \in Workers, ListContainers(w) PROVE ListInv'
  BY <1>0, <1>29, SMTT(30) DEF ListContainers, Return, Exists
<1>30. ASSUME NEW w \in Workers, ListMerge(w) PROVE ListInv'
  BY <1>0, <1>30 DEF ListMerge, Return
<1>31. ASSUME NEW s \in Sandboxes, StartWorkload(s) PROVE ListInv'
  BY <1>0, <1>31 DEF StartWorkload
<1>32. ASSUME NEW s \in Sandboxes, ContainerDies(s) PROVE ListInv'
  BY <1>0, <1>32 DEF ContainerDies
<1>33. ASSUME NEW s \in Sandboxes, ContainerLost(s) PROVE ListInv'
  BY <1>0, <1>33, SMTT(30) DEF ContainerLost
<1>34. ASSUME NEW s \in Sandboxes, CorruptCheckpoint(s) PROVE ListInv'
  BY <1>0, <1>34, SMTT(30) DEF CorruptCheckpoint, SetCheckpoint
<1>35. ASSUME Crash PROVE ListInv'
  BY <1>0, <1>35 DEF Crash
<1>36. CASE UNCHANGED vars
  BY <1>36
<1> HIDE <1>t DEF vars, ListInv, CheckpointsClaimed, Listed, GhostsAreGone
<1> QED
  BY <1>1, <1>2, <1>3, <1>4, <1>5, <1>6, <1>7, <1>8, <1>9, <1>10, <1>11, <1>12, <1>13,
     <1>14, <1>15, <1>16, <1>17, <1>18, <1>19, <1>20, <1>21, <1>22, <1>23, <1>24, <1>25,
     <1>26, <1>27, <1>28, <1>29, <1>30, <1>31, <1>32, <1>33, <1>34, <1>35, <1>36
     DEF Next, Request, HandlerStep, RunStep, StopStep, RemoveStep, ListStep, Environment

\* Nothing is being stopped in the beginning.
LEMMA HostInit == Init => HostInv
  BY DEF Init, HostInv

\* Nothing brings the container back, and whoever writes the checkpoint again
\* overlaps with the stop.
LEMMA HostNext == TypeOK /\ ShapeInv /\ HostInv /\ [Next]_vars => HostInv'
<1> SUFFICES ASSUME TypeOK, ShapeInv, HostInv, [Next]_vars PROVE HostInv'
  OBVIOUS
<1>0. \A s \in Sandboxes : container[s] = "removed" => container'[s] = "removed"
  BY ContainerSteps, SMTT(30) DEF Settles
<1>t. /\ pc \in [Workers -> PCs] /\ id \in [Workers -> Sandboxes \cup {None}]
      /\ host \in [Workers -> BOOLEAN]
      /\ err \in [Workers -> {"nil", "notFound", "other"}]
      /\ hostNetwork \in [Sandboxes -> BOOLEAN]
      /\ checkpoint \in [Sandboxes -> {"none", "valid", "corrupt"}]
      /\ faults \in Nat
  BY BoundsAssumption DEF TypeOK, StoreTypeOK, HandlerTypeOK, HistoryTypeOK
<1>u. \A w \in Workers :
        pc[w] \in {"inspect", "readCheckpoint", "checkReady", "tearDown"} => id[w] \in Sandboxes
  BY DEF TypeOK, HandlerTypeOK, ListPCs
<1> USE <1>t, <1>u
    DEF vars, storeVars, dockerVars, handlerVars, requestVars, historyVars, At,
        HostInv, Unknown
<1>1. ASSUME NEW w \in Workers, NEW s \in Sandboxes, NEW n \in Names, NEW h \in BOOLEAN, RunPodSandbox(w, s, n, h) PROVE HostInv'
  BY <1>0, <1>1, SMTT(30) DEF RunPodSandbox
<1>2. ASSUME NEW w \in Workers, NEW s \in Sandboxes, StopPodSandbox(w, s) PROVE HostInv'
  BY <1>0, <1>2, SMTT(30) DEF StopPodSandbox, Overlap
<1>3. ASSUME NEW w \in Workers, NEW s \in Sandboxes, RemovePodSandbox(w, s) PROVE HostInv'
  BY <1>0, <1>3 DEF RemovePodSandbox, Overlap
<1>4. ASSUME NEW w \in Workers, ListPodSandbox(w) PROVE HostInv'
  BY <1>0, <1>4, SMTT(30) DEF ListPodSandbox, Goto
<1>5. ASSUME NEW w \in Workers, Create(w) PROVE HostInv'
  <2>1. container[id[w]] = "absent" /\ UNCHANGED <<checkpoint, raced>>
    <3>1. pc[w] \in PreCreatePCs /\ UNCHANGED <<checkpoint, raced>>
      BY <1>5 DEF Create, PreCreatePCs
    <3> QED BY <3>1 DEF ShapeInv, Claimed
  <2>2. \A s \in Sandboxes : s # id[w] => hostNetwork'[s] = hostNetwork[s]
    BY <1>5, SMTT(30) DEF Create, Created
  <2>3. \A v \in Workers :
          v # w => pc'[v] = pc[v] /\ id'[v] = id[v] /\ err'[v] = err[v] /\ host'[v] = host[v]
    BY <1>5, SMTT(30) DEF Create, Goto, Return
  <2>4. pc'[w] \notin {"readCheckpoint", "checkReady", "tearDown"}
    BY <1>5, SMTT(30) DEF Create, Goto, Return
  <2>5. faults' >= faults /\ faults' \in Int
    BY <1>5, SMTT(30) DEF Create, Fault, NoFault
  <2>6. \A v \in Workers : pc[v] \in StopPCs => id[v] # id[w]
    BY <2>1 DEF ShapeInv, Claimed
  <2> QED BY <1>0, <2>1, <2>2, <2>3, <2>4, <2>5, <2>6 DEF StopPCs
<1>6. ASSUME NEW w \in Workers, recoverFromCreationConflictIfNeeded(w) PROVE HostInv'
  BY <1>0, <1>6, SMTT(30)
     DEF recoverFromCreationConflictIfNeeded, Goto, Return, RemoveContainer,
         SetContainer, Overlap, Exists, Fault, NoFault
<1>7. ASSUME NEW w \in Workers, CreateRandom(w) PROVE HostInv'
  <2>1. container[id[w]] = "absent" /\ UNCHANGED <<checkpoint, raced>>
    <3>1. pc[w] \in PreCreatePCs /\ UNCHANGED <<checkpoint, raced>>
      BY <1>7 DEF CreateRandom, PreCreatePCs
    <3> QED BY <3>1 DEF ShapeInv, Claimed
  <2>2. \A s \in Sandboxes : s # id[w] => hostNetwork'[s] = hostNetwork[s]
    BY <1>7, SMTT(30) DEF CreateRandom, Created
  <2>3. \A v \in Workers :
          v # w => pc'[v] = pc[v] /\ id'[v] = id[v] /\ err'[v] = err[v] /\ host'[v] = host[v]
    BY <1>7, SMTT(30) DEF CreateRandom, Goto, Return
  <2>4. pc'[w] \notin {"readCheckpoint", "checkReady", "tearDown"}
    BY <1>7, SMTT(30) DEF CreateRandom, Goto, Return
  <2>5. faults' >= faults /\ faults' \in Int
    BY <1>7 DEF CreateRandom, Fault, NoFault
  <2>6. \A v \in Workers : pc[v] \in StopPCs => id[v] # id[w]
    BY <2>1 DEF ShapeInv, Claimed
  <2> QED BY <1>0, <2>1, <2>2, <2>3, <2>4, <2>5, <2>6 DEF StopPCs
<1>8. ASSUME NEW w \in Workers, RunSetNotReady(w) PROVE HostInv'
  BY <1>0, <1>8, SMTT(30) DEF RunSetNotReady, Goto
<1>9. ASSUME NEW w \in Workers, CreateCheckpoint(w) PROVE HostInv'
  BY <1>0, <1>9, SMTT(30)
     DEF CreateCheckpoint, Goto, Return, SetCheckpoint, Fault, NoFault, ShapeInv,
         Overlaps, RunPCs, StopPCs
<1>10. ASSUME NEW w \in Workers, Start(w) PROVE HostInv'
  BY <1>0, <1>10, SMTT(30) DEF Start, Goto, Return, SetContainer, Exists, Fault, NoFault
<1>11. ASSUME NEW w \in Workers, RewriteResolvFile(w) PROVE HostInv'
  BY <1>0, <1>11, SMTT(30) DEF RewriteResolvFile, Goto, GotoWith, Fault, NoFault
<1>12. ASSUME NEW w \in Workers, RunSetUp(w) PROVE HostInv'
  BY <1>0, <1>12, SMTT(30)
     DEF RunSetUp, Goto, SetUpPod, SetNetwork, SetCheckpoint, Fault, NoFault
<1>13. ASSUME NEW w \in Workers, RollbackNetwork(w) PROVE HostInv'
  BY <1>0, <1>13, SMTT(30)
     DEF RollbackNetwork, Goto, TearDownPod, SetNetwork, SetCheckpoint, Fault, NoFault
<1>14. ASSUME NEW w \in Workers, RollbackStop(w) PROVE HostInv'
  BY <1>0, <1>14, SMTT(30)
     DEF RollbackStop, GotoWith, Return, StopContainer, SetContainer, Exists, Fault,
         NoFault
<1>15. ASSUME NEW w \in Workers, RunSetReady(w) PROVE HostInv'
  BY <1>0, <1>15, SMTT(30) DEF RunSetReady, Return
<1>16. ASSUME NEW w \in Workers, StopInspect(w) PROVE HostInv'
  <2>1. container[id[w]] \in {"created", "running", "exited", "removed"}
    BY <1>16
       DEF StopInspect, ShapeInv, Claimed, StopPCs, TypeOK, StoreTypeOK
  <2> QED BY <1>0, <1>16, <2>1
          DEF StopInspect, StopProceed, GotoWith, Exists, Fault, NoFault
<1>17. ASSUME NEW w \in Workers, StopReadCheckpoint(w) PROVE HostInv'
  <2>1. \A v \in Workers :
          v # w => pc'[v] = pc[v] /\ id'[v] = id[v] /\ err'[v] = err[v] /\ host'[v] = host[v]
    BY <1>17 DEF StopReadCheckpoint, StopProceed, StopWithoutCheckpoint, Return
  <2>2. /\ UNCHANGED <<hostNetwork, raced>>
        /\ \A s \in Sandboxes : checkpoint'[s] = checkpoint[s] \/ checkpoint'[s] = "none"
    BY <1>17 DEF StopReadCheckpoint, SetCheckpoint
  <2>3. faults' \in Int /\ faults' >= faults
    BY <1>17 DEF StopReadCheckpoint, Fault, NoFault, TwoFaults
  <2>4. pc[w] = "readCheckpoint" /\ id[w] \in Sandboxes
    BY <1>17 DEF StopReadCheckpoint
  <2>5. \/ pc'[w] = "idle"
        \/ /\ pc'[w] = "checkReady" /\ id'[w] = id[w]
           /\ \/ host'[w] = hostNetwork[id[w]]
              \/ err[w] = "notFound" /\ (checkpoint'[id[w]] # "valid" \/ faults' >= 2)
    BY <1>17, <2>4, SMTT(30)
       DEF StopReadCheckpoint, StopProceed, StopWithoutCheckpoint, Return, SetCheckpoint,
           TwoFaults
  <2> QED BY <1>0, <2>1, <2>2, <2>3, <2>4, <2>5
<1>18. ASSUME NEW w \in Workers, StopCheckReady(w) PROVE HostInv'
  BY <1>0, <1>18, SMTT(30) DEF StopCheckReady, Goto
<1>19. ASSUME NEW w \in Workers, StopTearDown(w) PROVE HostInv'
  BY <1>0, <1>19, SMTT(30)
     DEF StopTearDown, Goto, GotoWith, TearDownPod, SetNetwork, SetCheckpoint, Fault,
         NoFault
<1>20. ASSUME NEW w \in Workers, StopSetNotReady(w) PROVE HostInv'
  BY <1>0, <1>20, SMTT(30) DEF StopSetNotReady, Goto
<1>21. ASSUME NEW w \in Workers, StopSandbox(w) PROVE HostInv'
  BY <1>0, <1>21, SMTT(30)
     DEF StopSandbox, Goto, Return, StopReturn, StopContainer, SetContainer, Exists,
         Fault, NoFault
<1>22. ASSUME NEW w \in Workers, StopDropCheckpoint(w) PROVE HostInv'
  BY <1>0, <1>22, SMTT(30)
     DEF StopDropCheckpoint, Return, StopReturn, SetCheckpoint, Fault, NoFault
<1>23. ASSUME NEW w \in Workers, RemoveList(w) PROVE HostInv'
  BY <1>0, <1>23, SMTT(30) DEF RemoveList, Goto, GotoWith, Fault, NoFault
<1>24. ASSUME NEW w \in Workers, RemoveWorkload(w) PROVE HostInv'
  BY <1>0, <1>24, SMTT(30) DEF RemoveWorkload, Goto, GotoWith, Fault, NoFault
<1>25. ASSUME NEW w \in Workers, RemoveSandbox(w) PROVE HostInv'
  BY <1>0, <1>25, SMTT(30)
     DEF RemoveSandbox, Goto, GotoWith, RemoveContainer, SetContainer, Exists, Fault,
         NoFault
<1>26. ASSUME NEW w \in Workers, clearNetworkReady(w) PROVE HostInv'
  BY <1>0, <1>26, SMTT(30) DEF clearNetworkReady, Goto
<1>27. ASSUME NEW w \in Workers, RemoveCheckpoint(w) PROVE HostInv'
  BY <1>0, <1>27, SMTT(30) DEF RemoveCheckpoint, Return, SetCheckpoint, Fault, NoFault
<1>28. ASSUME NEW w \in Workers, ListCheckpoints(w) PROVE HostInv'
  BY <1>0, <1>28, SMTT(30) DEF ListCheckpoints, Fault, NoFault
<1>29. ASSUME NEW w \in Workers, ListContainers(w) PROVE HostInv'
  BY <1>0, <1>29 DEF ListContainers, Return, Exists, Fault, NoFault
<1>30. ASSUME NEW w \in Workers, ListMerge(w) PROVE HostInv'
  BY <1>0, <1>30, SMTT(30) DEF ListMerge, Return, Fault, NoFault
<1>31. ASSUME NEW s \in Sandboxes, StartWorkload(s) PROVE HostInv'
  BY <1>0, <1>31, SMTT(30) DEF StartWorkload
<1>32. ASSUME NEW s \in Sandboxes, ContainerDies(s) PROVE HostInv'
  BY <1>0, <1>32, SMTT(30) DEF ContainerDies, SetContainer
<1>33. ASSUME NEW s \in Sandboxes, ContainerLost(s) PROVE HostInv'
  BY <1>0, <1>33, SMTT(30) DEF ContainerLost, SetContainer, Exists, Fault, NoFault
<1>34. ASSUME NEW s \in Sandboxes, CorruptCheckpoint(s) PROVE HostInv'
  BY <1>0, <1>34, SMTT(30) DEF CorruptCheckpoint, SetCheckpoint, Fault, NoFault
<1>35. ASSUME Crash PROVE HostInv'
  BY <1>0, <1>35, SMTT(30) DEF Crash
<1>36. CASE UNCHANGED vars
  BY <1>36
<1> HIDE <1>t, <1>u DEF vars, HostInv, Unknown
<1> QED
  BY <1>1, <1>2, <1>3, <1>4, <1>5, <1>6, <1>7, <1>8, <1>9, <1>10, <1>11, <1>12, <1>13,
     <1>14, <1>15, <1>16, <1>17, <1>18, <1>19, <1>20, <1>21, <1>22, <1>23, <1>24, <1>25,
     <1>26, <1>27, <1>28, <1>29, <1>30, <1>31, <1>32, <1>33, <1>34, <1>35, <1>36, SMTT(30)
     DEF Next, Request, HandlerStep, RunStep, StopStep, RemoveStep, ListStep, Environment

-----------------------------------------------------------------------------
\* What ListPodSandbox reports from a checkpoint alone is a sandbox whose
\* container is gone, for any number of handlers, failures and restarts.
THEOREM GhostsAreGoneAlways == Spec => []GhostsAreGone
<1>1. Init => TypeOK /\ ShapeInv /\ ListInv
  BY TypeInit, ShapeInit, ListInit
<1>2. TypeOK /\ ShapeInv /\ ListInv /\ [Next]_vars => (TypeOK /\ ShapeInv /\ ListInv)'
  BY TypeNext, ShapeNext, ListNext
<1>3. ListInv => GhostsAreGone
  BY DEF ListInv
<1> QED BY <1>1, <1>2, <1>3, PTL DEF Spec

\* The daemon removes a sandbox that runs only for a RemovePodSandbox of it:
\* recovery from a name conflict never takes a running sandbox away.
THEOREM RunningIsRemovedOnlyByRequestAlways == Spec => RunningIsRemovedOnlyByRequest
<1>1. Init => TypeOK /\ ShapeInv
  BY TypeInit, ShapeInit
<1>2. TypeOK /\ ShapeInv /\ [Next]_vars => (TypeOK /\ ShapeInv)'
  BY TypeNext, ShapeNext
<1>3. TypeOK /\ ShapeInv /\ [Next]_vars =>
        [\A s \in Sandboxes :
           container[s] = "running" /\ container'[s] = "removed" =>
             ContainerLost(s) \/ \E w \in Workers : At(w, "rmSandbox") /\ id[w] = s]_vars
  BY ContainerSteps DEF Settles
<1> QED BY <1>1, <1>2, <1>3, PTL DEF Spec, RunningIsRemovedOnlyByRequest

\* StopPodSandbox calls the plugin for a sandbox in the host's network only if
\* neither its container nor a readable checkpoint was there to tell.
THEOREM HostNetworkNotTornDownAlways == Spec => []HostNetworkNotTornDown
<1>1. Init => TypeOK /\ ShapeInv /\ HostInv
  BY TypeInit, ShapeInit, HostInit
<1>2. TypeOK /\ ShapeInv /\ HostInv /\ [Next]_vars => (TypeOK /\ ShapeInv /\ HostInv)'
  BY TypeNext, ShapeNext, HostNext, SMTT(30)
<1>3. HostInv => HostNetworkNotTornDown
  BY DEF HostInv, Unknown, HostNetworkNotTornDown, At
<1> QED BY <1>1, <1>2, <1>3, PTL DEF Spec
=============================================================================
