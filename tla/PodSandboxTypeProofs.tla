------------------------ MODULE PodSandboxTypeProofs ------------------------
(* Type correctness of PodSandbox.                                        *)
EXTENDS PodSandbox, TLAPS

\* A fresh shim, with no sandbox, is well typed.
LEMMA TypeInit == Init => TypeOK
  BY NoneAssumption, BoundsAssumption
     DEF Init, TypeOK, StoreTypeOK, HandlerTypeOK, HistoryTypeOK,
         PCs, RunPCs, StopPCs, RemovePCs, ListPCs

\* What the ways to leave a step do to the handler's own variables.
LEMMA GotoType ==
  ASSUME HandlerTypeOK, NEW w \in Workers, NEW l \in PCs, Goto(w, l),
         l \notin {"idle"} \cup ListPCs => id[w] \in Sandboxes
  PROVE  HandlerTypeOK'
  BY DEF HandlerTypeOK, Goto, requestVars

\* A step that records an error or a lookup result keeps the local types.
LEMMA GotoWithType ==
  ASSUME HandlerTypeOK, NEW w \in Workers, NEW l \in PCs,
         NEW e \in {"nil", "notFound", "other"}, GotoWith(w, l, e),
         l \notin {"idle"} \cup ListPCs => id[w] \in Sandboxes
  PROVE  HandlerTypeOK'
  BY DEF HandlerTypeOK, GotoWith

\* A handler that returns clears its locals.
LEMMA ReturnType ==
  ASSUME HandlerTypeOK, NEW w \in Workers, Return(w)
  PROVE  HandlerTypeOK'
  BY DEF HandlerTypeOK, Return, PCs

\* StopPodSandbox going on with the sandbox it has looked up.
LEMMA StopProceedType ==
  ASSUME HandlerTypeOK, NEW w \in Workers, NEW h \in BOOLEAN, StopProceed(w, h),
         id[w] \in Sandboxes
  PROVE  HandlerTypeOK'
  BY DEF HandlerTypeOK, StopProceed, PCs, StopPCs

\* Every step of every handler, of the environment and a crash keep the types.
LEMMA TypeNext == TypeOK /\ [Next]_vars => TypeOK'
<1> SUFFICES ASSUME TypeOK, [Next]_vars PROVE TypeOK'
  OBVIOUS
<1> USE NoneAssumption, BoundsAssumption
    DEF vars, storeVars, dockerVars, handlerVars, historyVars, At
<1>0. StoreTypeOK /\ HandlerTypeOK /\ HistoryTypeOK
  BY DEF TypeOK
<1>1. ASSUME NEW w \in Workers, NEW s \in Sandboxes, NEW n \in Names, NEW h \in BOOLEAN, RunPodSandbox(w, s, n, h) PROVE TypeOK'
  <2>1. StoreTypeOK'
    BY <1>0, <1>1
       DEF StoreTypeOK, HandlerTypeOK, PCs, RunPCs, StopPCs, RemovePCs, ListPCs,
           RunPodSandbox
  <2>2. HandlerTypeOK'
    BY <1>0, <1>1
       DEF HandlerTypeOK, requestVars, PCs, RunPCs, StopPCs, RemovePCs, ListPCs,
           RunPodSandbox
  <2>3. HistoryTypeOK'
    BY <1>0, <1>1 DEF HistoryTypeOK, RunPodSandbox
  <2> QED BY <2>1, <2>2, <2>3 DEF TypeOK
<1>2. ASSUME NEW w \in Workers, NEW s \in Sandboxes, StopPodSandbox(w, s) PROVE TypeOK'
  <2>1. StoreTypeOK'
    BY <1>0, <1>2
       DEF StoreTypeOK, HandlerTypeOK, PCs, RunPCs, StopPCs, RemovePCs, ListPCs,
           StopPodSandbox
  <2>2. HandlerTypeOK'
    BY <1>0, <1>2
       DEF HandlerTypeOK, requestVars, PCs, RunPCs, StopPCs, RemovePCs, ListPCs,
           StopPodSandbox
  <2>3. HistoryTypeOK'
    BY <1>0, <1>2 DEF HistoryTypeOK, StopPodSandbox, Overlap
  <2> QED BY <2>1, <2>2, <2>3 DEF TypeOK
<1>3. ASSUME NEW w \in Workers, NEW s \in Sandboxes, RemovePodSandbox(w, s) PROVE TypeOK'
  <2>1. StoreTypeOK'
    BY <1>0, <1>3
       DEF StoreTypeOK, HandlerTypeOK, PCs, RunPCs, StopPCs, RemovePCs, ListPCs,
           RemovePodSandbox
  <2>2. HandlerTypeOK'
    BY <1>0, <1>3
       DEF HandlerTypeOK, requestVars, PCs, RunPCs, StopPCs, RemovePCs, ListPCs,
           RemovePodSandbox
  <2>3. HistoryTypeOK'
    BY <1>0, <1>3 DEF HistoryTypeOK, RemovePodSandbox, Overlap
  <2> QED BY <2>1, <2>2, <2>3 DEF TypeOK
<1>4. ASSUME NEW w \in Workers, ListPodSandbox(w) PROVE TypeOK'
  <2>1. StoreTypeOK'
    BY <1>0, <1>4
       DEF StoreTypeOK, HandlerTypeOK, PCs, RunPCs, StopPCs, RemovePCs, ListPCs,
           ListPodSandbox
  <2>2. HandlerTypeOK'
    BY <1>0, <1>4, GotoType
       DEF PCs, RunPCs, StopPCs, RemovePCs, ListPCs, ListPodSandbox
  <2>3. HistoryTypeOK'
    BY <1>0, <1>4 DEF HistoryTypeOK, ListPodSandbox
  <2> QED BY <2>1, <2>2, <2>3 DEF TypeOK
<1>5. ASSUME NEW w \in Workers, Create(w) PROVE TypeOK'
  <2>1. StoreTypeOK'
    BY <1>0, <1>5, SMTT(30)
       DEF StoreTypeOK, HandlerTypeOK, PCs, RunPCs, StopPCs, RemovePCs, ListPCs,
           Create, Created, Exists
  <2>2. HandlerTypeOK'
    BY <1>0, <1>5, GotoType, ReturnType
       DEF HandlerTypeOK, requestVars, Holders, PCs, RunPCs, StopPCs, RemovePCs,
           ListPCs, Create
  <2>3. HistoryTypeOK'
    BY <1>0, <1>5 DEF HistoryTypeOK, Create, Fault, NoFault
  <2> QED BY <2>1, <2>2, <2>3 DEF TypeOK
<1>6. ASSUME NEW w \in Workers, recoverFromCreationConflictIfNeeded(w) PROVE TypeOK'
  <2>1. StoreTypeOK'
    BY <1>0, <1>6
       DEF StoreTypeOK, HandlerTypeOK, PCs, RunPCs, StopPCs, RemovePCs, ListPCs,
           recoverFromCreationConflictIfNeeded, RemoveContainer, SetContainer
  <2>2. pc[w] \in PCs /\ id[w] \in Sandboxes
    BY <1>0, <1>6
       DEF HandlerTypeOK, PCs, RunPCs, StopPCs, RemovePCs, ListPCs,
           recoverFromCreationConflictIfNeeded
  <2>3. HandlerTypeOK'
    BY <1>0, <1>6, <2>2, GotoType, ReturnType
       DEF PCs, RunPCs, StopPCs, RemovePCs, ListPCs, recoverFromCreationConflictIfNeeded
  <2>4. HistoryTypeOK'
    <3>1. raced' \subseteq Sandboxes
      BY <1>0, <1>6 DEF HistoryTypeOK, HandlerTypeOK, RunInFlight, RunPCs, ListPCs,
         recoverFromCreationConflictIfNeeded, Overlap
    <3>2. (Fault \/ NoFault) /\ UNCHANGED <<runOK, stopOK, removeOK, ghosts, crashes>>
      BY <1>6 DEF recoverFromCreationConflictIfNeeded, RemoveContainer
    <3> QED BY <1>0, <3>1, <3>2 DEF HistoryTypeOK, Fault, NoFault
  <2> QED BY <2>1, <2>3, <2>4 DEF TypeOK
<1>7. ASSUME NEW w \in Workers, CreateRandom(w) PROVE TypeOK'
  <2>1. StoreTypeOK'
    BY <1>0, <1>7, SMTT(30)
       DEF StoreTypeOK, HandlerTypeOK, PCs, RunPCs, StopPCs, RemovePCs, ListPCs,
           CreateRandom, Created
  <2>2. pc[w] \in PCs /\ id[w] \in Sandboxes
    BY <1>0, <1>7
       DEF HandlerTypeOK, PCs, RunPCs, StopPCs, RemovePCs, ListPCs, CreateRandom
  <2>3. HandlerTypeOK'
    BY <1>0, <1>7, <2>2, GotoType, ReturnType, SMTT(30)
       DEF PCs, RunPCs, StopPCs, RemovePCs, ListPCs, CreateRandom
  <2>4. HistoryTypeOK'
    BY <1>0, <1>7, <2>2 DEF HistoryTypeOK, CreateRandom, Fault, NoFault
  <2> QED BY <2>1, <2>3, <2>4 DEF TypeOK
<1>8. ASSUME NEW w \in Workers, RunSetNotReady(w) PROVE TypeOK'
  <2>1. StoreTypeOK'
    BY <1>0, <1>8
       DEF StoreTypeOK, HandlerTypeOK, PCs, RunPCs, StopPCs, RemovePCs, ListPCs,
           RunSetNotReady, setNetworkReady
  <2>2. pc[w] \in PCs /\ id[w] \in Sandboxes
    BY <1>0, <1>8
       DEF HandlerTypeOK, PCs, RunPCs, StopPCs, RemovePCs, ListPCs, RunSetNotReady
  <2>3. HandlerTypeOK'
    BY <1>0, <1>8, <2>2, GotoType
       DEF PCs, RunPCs, StopPCs, RemovePCs, ListPCs, RunSetNotReady
  <2>4. HistoryTypeOK'
    BY <1>0, <1>8, <2>2 DEF HistoryTypeOK, RunSetNotReady
  <2> QED BY <2>1, <2>3, <2>4 DEF TypeOK
<1>9. ASSUME NEW w \in Workers, CreateCheckpoint(w) PROVE TypeOK'
  <2>1. StoreTypeOK'
    BY <1>0, <1>9, SMTT(30)
       DEF StoreTypeOK, HandlerTypeOK, PCs, RunPCs, StopPCs, RemovePCs, ListPCs,
           CreateCheckpoint, SetCheckpoint
  <2>2. pc[w] \in PCs /\ id[w] \in Sandboxes
    BY <1>0, <1>9
       DEF HandlerTypeOK, PCs, RunPCs, StopPCs, RemovePCs, ListPCs, CreateCheckpoint
  <2>3. HandlerTypeOK'
    BY <1>0, <1>9, <2>2, GotoType, ReturnType, SMTT(30)
       DEF PCs, RunPCs, StopPCs, RemovePCs, ListPCs, CreateCheckpoint
  <2>4. HistoryTypeOK'
    BY <1>0, <1>9, <2>2 DEF HistoryTypeOK, CreateCheckpoint, Fault, NoFault
  <2> QED BY <2>1, <2>3, <2>4 DEF TypeOK
<1>10. ASSUME NEW w \in Workers, Start(w) PROVE TypeOK'
  <2>1. StoreTypeOK'
    BY <1>0, <1>10
       DEF StoreTypeOK, HandlerTypeOK, PCs, RunPCs, StopPCs, RemovePCs, ListPCs,
           Start, SetContainer
  <2>2. pc[w] \in PCs /\ id[w] \in Sandboxes
    BY <1>0, <1>10 DEF HandlerTypeOK, PCs, RunPCs, StopPCs, RemovePCs, ListPCs, Start
  <2>3. HandlerTypeOK'
    BY <1>0, <1>10, <2>2, GotoType, ReturnType
       DEF PCs, RunPCs, StopPCs, RemovePCs, ListPCs, Start
  <2>4. HistoryTypeOK'
    BY <1>0, <1>10, <2>2 DEF HistoryTypeOK, Start, Fault, NoFault
  <2> QED BY <2>1, <2>3, <2>4 DEF TypeOK
<1>11. ASSUME NEW w \in Workers, RewriteResolvFile(w) PROVE TypeOK'
  <2>1. StoreTypeOK'
    BY <1>0, <1>11
       DEF StoreTypeOK, HandlerTypeOK, PCs, RunPCs, StopPCs, RemovePCs, ListPCs,
           RewriteResolvFile
  <2>2. pc[w] \in PCs /\ id[w] \in Sandboxes
    BY <1>0, <1>11
       DEF HandlerTypeOK, PCs, RunPCs, StopPCs, RemovePCs, ListPCs, RewriteResolvFile
  <2>3. HandlerTypeOK'
    BY <1>0, <1>11, <2>2, GotoType, GotoWithType, SMTT(30)
       DEF PCs, RunPCs, StopPCs, RemovePCs, ListPCs, RewriteResolvFile
  <2>4. HistoryTypeOK'
    BY <1>0, <1>11, <2>2 DEF HistoryTypeOK, RewriteResolvFile, Fault, NoFault
  <2> QED BY <2>1, <2>3, <2>4 DEF TypeOK
<1>12. ASSUME NEW w \in Workers, RunSetUp(w) PROVE TypeOK'
  <2>1. StoreTypeOK'
    BY <1>0, <1>12
       DEF StoreTypeOK, HandlerTypeOK, PCs, RunPCs, StopPCs, RemovePCs, ListPCs,
           RunSetUp, SetUpPod, SetNetwork, SetCheckpoint
  <2>2. pc[w] \in PCs /\ id[w] \in Sandboxes
    BY <1>0, <1>12 DEF HandlerTypeOK, PCs, RunPCs, StopPCs, RemovePCs, ListPCs, RunSetUp
  <2>3. HandlerTypeOK'
    BY <1>0, <1>12, <2>2, GotoType
       DEF PCs, RunPCs, StopPCs, RemovePCs, ListPCs, RunSetUp
  <2>4. HistoryTypeOK'
    BY <1>0, <1>12, <2>2 DEF HistoryTypeOK, RunSetUp, SetUpPod, Fault, NoFault
  <2> QED BY <2>1, <2>3, <2>4 DEF TypeOK
<1>13. ASSUME NEW w \in Workers, RollbackNetwork(w) PROVE TypeOK'
  <2>1. StoreTypeOK'
    BY <1>0, <1>13
       DEF StoreTypeOK, HandlerTypeOK, PCs, RunPCs, StopPCs, RemovePCs, ListPCs,
           RollbackNetwork, TearDownPod, SetNetwork, SetCheckpoint
  <2>2. pc[w] \in PCs /\ id[w] \in Sandboxes
    BY <1>0, <1>13, SMTT(30)
       DEF HandlerTypeOK, PCs, RunPCs, StopPCs, RemovePCs, ListPCs, RollbackNetwork
  <2>3. HandlerTypeOK'
    BY <1>0, <1>13, <2>2, GotoType, SMTT(30)
       DEF PCs, RunPCs, StopPCs, RemovePCs, ListPCs, RollbackNetwork
  <2>4. HistoryTypeOK'
    BY <1>0, <1>13, <2>2, SMTT(30)
       DEF HistoryTypeOK, RollbackNetwork, TearDownPod, Fault, NoFault
  <2> QED BY <2>1, <2>3, <2>4 DEF TypeOK
<1>14. ASSUME NEW w \in Workers, RollbackStop(w) PROVE TypeOK'
  <2>1. StoreTypeOK'
    BY <1>0, <1>14
       DEF StoreTypeOK, HandlerTypeOK, PCs, RunPCs, StopPCs, RemovePCs, ListPCs,
           RollbackStop, StopContainer, SetContainer
  <2>2. pc[w] \in PCs /\ id[w] \in Sandboxes
    BY <1>0, <1>14
       DEF HandlerTypeOK, PCs, RunPCs, StopPCs, RemovePCs, ListPCs, RollbackStop
  <2>3. HandlerTypeOK'
    BY <1>0, <1>14, <2>2, GotoWithType, ReturnType
       DEF PCs, RunPCs, StopPCs, RemovePCs, ListPCs, RollbackStop
  <2>4. HistoryTypeOK'
    BY <1>0, <1>14, <2>2 DEF HistoryTypeOK, RollbackStop, StopContainer, Fault, NoFault
  <2> QED BY <2>1, <2>3, <2>4 DEF TypeOK
<1>15. ASSUME NEW w \in Workers, RunSetReady(w) PROVE TypeOK'
  <2>1. StoreTypeOK'
    BY <1>0, <1>15
       DEF StoreTypeOK, HandlerTypeOK, PCs, RunPCs, StopPCs, RemovePCs, ListPCs,
           RunSetReady, setNetworkReady
  <2>2. pc[w] \in PCs /\ id[w] \in Sandboxes
    BY <1>0, <1>15, SMTT(30)
       DEF HandlerTypeOK, PCs, RunPCs, StopPCs, RemovePCs, ListPCs, RunSetReady
  <2>3. HandlerTypeOK'
    BY <1>0, <1>15, <2>2, ReturnType
       DEF PCs, RunPCs, StopPCs, RemovePCs, ListPCs, RunSetReady
  <2>4. HistoryTypeOK'
    BY <1>0, <1>15, <2>2 DEF HistoryTypeOK, RunSetReady
  <2> QED BY <2>1, <2>3, <2>4 DEF TypeOK
<1>16. ASSUME NEW w \in Workers, StopInspect(w) PROVE TypeOK'
  <2>1. StoreTypeOK'
    BY <1>0, <1>16
       DEF StoreTypeOK, HandlerTypeOK, PCs, RunPCs, StopPCs, RemovePCs, ListPCs,
           StopInspect
  <2>2. pc[w] \in PCs /\ id[w] \in Sandboxes
    BY <1>0, <1>16, SMTT(30)
       DEF HandlerTypeOK, PCs, RunPCs, StopPCs, RemovePCs, ListPCs, StopInspect
  <2>3. HandlerTypeOK'
    BY <1>0, <1>16, <2>2, StopProceedType, GotoWithType, SMTT(30)
       DEF PCs, RunPCs, StopPCs, RemovePCs, ListPCs, StopInspect, StoreTypeOK
  <2>4. HistoryTypeOK'
    BY <1>0, <1>16, <2>2 DEF HistoryTypeOK, StopInspect, Fault, NoFault
  <2> QED BY <2>1, <2>3, <2>4 DEF TypeOK
<1>17. ASSUME NEW w \in Workers, StopReadCheckpoint(w) PROVE TypeOK'
  <2>1. StoreTypeOK'
    BY <1>0, <1>17, SMTT(30)
       DEF StoreTypeOK, HandlerTypeOK, PCs, RunPCs, StopPCs, RemovePCs, ListPCs,
           StopReadCheckpoint, SetCheckpoint
  <2>2. pc[w] \in PCs /\ id[w] \in Sandboxes
    BY <1>0, <1>17
       DEF HandlerTypeOK, PCs, RunPCs, StopPCs, RemovePCs, ListPCs, StopReadCheckpoint
  <2>3. HandlerTypeOK'
    <3>1. hostNetwork[id[w]] \in BOOLEAN
      BY <1>0, <2>2, SMTT(30) DEF StoreTypeOK
    <3>2. Return(w) \/ \E h \in BOOLEAN : StopProceed(w, h)
      BY <1>17, <3>1, Zenon DEF StopReadCheckpoint, StopWithoutCheckpoint
    <3> QED BY <1>0, <2>2, <3>2, StopProceedType, ReturnType, SMTT(30)
  <2>4. HistoryTypeOK'
    <3>1. UNCHANGED <<runOK, stopOK, removeOK, raced, ghosts, crashes>>
      BY <1>17 DEF StopReadCheckpoint
    <3>2. Fault \/ TwoFaults \/ NoFault
      BY <1>17, Zenon DEF StopReadCheckpoint
    <3> QED BY <1>0, <3>1, <3>2 DEF HistoryTypeOK, Fault, TwoFaults, NoFault
  <2> QED BY <2>1, <2>3, <2>4 DEF TypeOK
<1>18. ASSUME NEW w \in Workers, StopCheckReady(w) PROVE TypeOK'
  <2>1. StoreTypeOK'
    BY <1>0, <1>18
       DEF StoreTypeOK, HandlerTypeOK, PCs, RunPCs, StopPCs, RemovePCs, ListPCs,
           StopCheckReady
  <2>2. pc[w] \in PCs /\ id[w] \in Sandboxes
    BY <1>0, <1>18
       DEF HandlerTypeOK, PCs, RunPCs, StopPCs, RemovePCs, ListPCs, StopCheckReady
  <2>3. HandlerTypeOK'
    BY <1>0, <1>18, <2>2, GotoType
       DEF PCs, RunPCs, StopPCs, RemovePCs, ListPCs, StopCheckReady
  <2>4. HistoryTypeOK'
    BY <1>0, <1>18, <2>2 DEF HistoryTypeOK, StopCheckReady
  <2> QED BY <2>1, <2>3, <2>4 DEF TypeOK
<1>19. ASSUME NEW w \in Workers, StopTearDown(w) PROVE TypeOK'
  <2>1. StoreTypeOK'
    BY <1>0, <1>19
       DEF StoreTypeOK, HandlerTypeOK, PCs, RunPCs, StopPCs, RemovePCs, ListPCs,
           StopTearDown, TearDownPod, SetNetwork, SetCheckpoint
  <2>2. pc[w] \in PCs /\ id[w] \in Sandboxes
    BY <1>0, <1>19, SMTT(30)
       DEF HandlerTypeOK, PCs, RunPCs, StopPCs, RemovePCs, ListPCs, StopTearDown
  <2>3. HandlerTypeOK'
    BY <1>0, <1>19, <2>2, GotoType, GotoWithType, SMTT(30)
       DEF PCs, RunPCs, StopPCs, RemovePCs, ListPCs, StopTearDown
  <2>4. HistoryTypeOK'
    BY <1>0, <1>19, <2>2 DEF HistoryTypeOK, StopTearDown, TearDownPod, Fault, NoFault
  <2> QED BY <2>1, <2>3, <2>4 DEF TypeOK
<1>20. ASSUME NEW w \in Workers, StopSetNotReady(w) PROVE TypeOK'
  <2>1. StoreTypeOK'
    BY <1>0, <1>20
       DEF StoreTypeOK, HandlerTypeOK, PCs, RunPCs, StopPCs, RemovePCs, ListPCs,
           StopSetNotReady, setNetworkReady
  <2>2. pc[w] \in PCs /\ id[w] \in Sandboxes
    BY <1>0, <1>20, SMTT(30)
       DEF HandlerTypeOK, PCs, RunPCs, StopPCs, RemovePCs, ListPCs, StopSetNotReady
  <2>3. HandlerTypeOK'
    BY <1>0, <1>20, <2>2, GotoType, SMTT(30)
       DEF PCs, RunPCs, StopPCs, RemovePCs, ListPCs, StopSetNotReady
  <2>4. HistoryTypeOK'
    BY <1>0, <1>20, <2>2, SMTT(30) DEF HistoryTypeOK, StopSetNotReady
  <2> QED BY <2>1, <2>3, <2>4 DEF TypeOK
<1>21. ASSUME NEW w \in Workers, StopSandbox(w) PROVE TypeOK'
  <2>1. StoreTypeOK'
    BY <1>0, <1>21
       DEF StoreTypeOK, HandlerTypeOK, PCs, RunPCs, StopPCs, RemovePCs, ListPCs,
           StopSandbox, StopContainer, SetContainer
  <2>2. pc[w] \in PCs /\ id[w] \in Sandboxes
    BY <1>0, <1>21, SMTT(30)
       DEF HandlerTypeOK, PCs, RunPCs, StopPCs, RemovePCs, ListPCs, StopSandbox
  <2>3. HandlerTypeOK'
    BY <1>0, <1>21, <2>2, GotoType, ReturnType, SMTT(30)
       DEF PCs, RunPCs, StopPCs, RemovePCs, ListPCs, StopSandbox, StopReturn
  <2>4. HistoryTypeOK'
    <3>1. Fault \/ NoFault
      BY <1>21, ZenonT(30) DEF StopSandbox, StopContainer
    <3>2. StopReturn(w) \/ UNCHANGED historyVars
      BY <1>21 DEF StopSandbox
    <3>3. crashes' = crashes
      BY <1>21 DEF StopSandbox
    <3> QED BY <1>0, <2>2, <3>1, <3>2, <3>3, SMTT(30) DEF HistoryTypeOK, StopReturn, Fault, NoFault
  <2> QED BY <2>1, <2>3, <2>4 DEF TypeOK
<1>22. ASSUME NEW w \in Workers, StopDropCheckpoint(w) PROVE TypeOK'
  <2>1. StoreTypeOK'
    BY <1>0, <1>22
       DEF StoreTypeOK, HandlerTypeOK, PCs, RunPCs, StopPCs, RemovePCs, ListPCs,
           StopDropCheckpoint, SetCheckpoint
  <2>2. pc[w] \in PCs /\ id[w] \in Sandboxes
    BY <1>0, <1>22
       DEF HandlerTypeOK, PCs, RunPCs, StopPCs, RemovePCs, ListPCs, StopDropCheckpoint
  <2>3. HandlerTypeOK'
    BY <1>0, <1>22, <2>2, ReturnType
       DEF PCs, RunPCs, StopPCs, RemovePCs, ListPCs, StopDropCheckpoint, StopReturn
  <2>4. HistoryTypeOK'
    BY <1>0, <1>22, <2>2
       DEF HistoryTypeOK, StopDropCheckpoint, StopReturn, Fault, NoFault
  <2> QED BY <2>1, <2>3, <2>4 DEF TypeOK
<1>23. ASSUME NEW w \in Workers, RemoveList(w) PROVE TypeOK'
  <2>1. StoreTypeOK'
    BY <1>0, <1>23
       DEF StoreTypeOK, HandlerTypeOK, PCs, RunPCs, StopPCs, RemovePCs, ListPCs,
           RemoveList
  <2>2. pc[w] \in PCs /\ id[w] \in Sandboxes
    BY <1>0, <1>23
       DEF HandlerTypeOK, PCs, RunPCs, StopPCs, RemovePCs, ListPCs, RemoveList
  <2>3. HandlerTypeOK'
    BY <1>0, <1>23, <2>2, GotoType, GotoWithType
       DEF PCs, RunPCs, StopPCs, RemovePCs, ListPCs, RemoveList
  <2>4. HistoryTypeOK'
    BY <1>0, <1>23, <2>2 DEF HistoryTypeOK, RemoveList, Fault, NoFault
  <2> QED BY <2>1, <2>3, <2>4 DEF TypeOK
<1>24. ASSUME NEW w \in Workers, RemoveWorkload(w) PROVE TypeOK'
  <2>1. pc[w] \in PCs /\ id[w] \in Sandboxes
    BY <1>0, <1>24
       DEF HandlerTypeOK, PCs, RunPCs, StopPCs, RemovePCs, ListPCs, RemoveWorkload
  <2>2. /\ workload' = workload \/ workload' = [workload EXCEPT ![id[w]] = FALSE]
        /\ UNCHANGED <<container, dockerName, hostNetwork, checkpoint, network,
                       networkReady>>
    BY <1>24, Zenon DEF RemoveWorkload
  <2>3. workload' \in [Sandboxes -> BOOLEAN]
    BY <1>0, <2>1, <2>2, Zenon DEF StoreTypeOK
  <2>4. StoreTypeOK'
    BY <1>0, <2>2, <2>3 DEF StoreTypeOK
  <2>5. HandlerTypeOK'
    BY <1>0, <1>24, <2>1, GotoType, GotoWithType
       DEF PCs, RunPCs, StopPCs, RemovePCs, ListPCs, RemoveWorkload
  <2>6. (Fault \/ NoFault) /\ UNCHANGED <<runOK, stopOK, removeOK, raced, ghosts, crashes>>
    BY <1>24, Zenon DEF RemoveWorkload
  <2>7. HistoryTypeOK'
    BY <1>0, <2>6 DEF HistoryTypeOK, Fault, NoFault
  <2> QED BY <2>4, <2>5, <2>7 DEF TypeOK
<1>25. ASSUME NEW w \in Workers, RemoveSandbox(w) PROVE TypeOK'
  <2>1. StoreTypeOK'
    BY <1>0, <1>25
       DEF StoreTypeOK, HandlerTypeOK, PCs, RunPCs, StopPCs, RemovePCs, ListPCs,
           RemoveSandbox, RemoveContainer, SetContainer
  <2>2. pc[w] \in PCs /\ id[w] \in Sandboxes
    BY <1>0, <1>25, SMTT(30)
       DEF HandlerTypeOK, PCs, RunPCs, StopPCs, RemovePCs, ListPCs, RemoveSandbox
  <2>3. HandlerTypeOK'
    BY <1>0, <1>25, <2>2, GotoType, GotoWithType, SMTT(30)
       DEF PCs, RunPCs, StopPCs, RemovePCs, ListPCs, RemoveSandbox
  <2>4. HistoryTypeOK'
    BY <1>0, <1>25, <2>2, SMTT(30)
       DEF HistoryTypeOK, RemoveSandbox, RemoveContainer, Fault, NoFault
  <2> QED BY <2>1, <2>3, <2>4 DEF TypeOK
<1>26. ASSUME NEW w \in Workers, clearNetworkReady(w) PROVE TypeOK'
  <2>1. StoreTypeOK'
    BY <1>0, <1>26
       DEF StoreTypeOK, HandlerTypeOK, PCs, RunPCs, StopPCs, RemovePCs, ListPCs,
           clearNetworkReady, setNetworkReady
  <2>2. pc[w] \in PCs /\ id[w] \in Sandboxes
    BY <1>0, <1>26
       DEF HandlerTypeOK, PCs, RunPCs, StopPCs, RemovePCs, ListPCs, clearNetworkReady
  <2>3. HandlerTypeOK'
    BY <1>0, <1>26, <2>2, GotoType
       DEF PCs, RunPCs, StopPCs, RemovePCs, ListPCs, clearNetworkReady
  <2>4. HistoryTypeOK'
    BY <1>0, <1>26, <2>2 DEF HistoryTypeOK, clearNetworkReady
  <2> QED BY <2>1, <2>3, <2>4 DEF TypeOK
<1>27. ASSUME NEW w \in Workers, RemoveCheckpoint(w) PROVE TypeOK'
  <2>1. StoreTypeOK'
    BY <1>0, <1>27
       DEF StoreTypeOK, HandlerTypeOK, PCs, RunPCs, StopPCs, RemovePCs, ListPCs,
           RemoveCheckpoint, SetCheckpoint
  <2>2. pc[w] \in PCs /\ id[w] \in Sandboxes
    BY <1>0, <1>27
       DEF HandlerTypeOK, PCs, RunPCs, StopPCs, RemovePCs, ListPCs, RemoveCheckpoint
  <2>3. HandlerTypeOK'
    BY <1>0, <1>27, <2>2, ReturnType, SMTT(30)
       DEF PCs, RunPCs, StopPCs, RemovePCs, ListPCs, RemoveCheckpoint
  <2>4. HistoryTypeOK'
    BY <1>0, <1>27, <2>2, SMTT(30) DEF HistoryTypeOK, RemoveCheckpoint, Fault, NoFault
  <2> QED BY <2>1, <2>3, <2>4 DEF TypeOK
<1>28. ASSUME NEW w \in Workers, ListCheckpoints(w) PROVE TypeOK'
  <2>1. StoreTypeOK'
    BY <1>0, <1>28, SMTT(30)
       DEF StoreTypeOK, HandlerTypeOK, PCs, RunPCs, StopPCs, RemovePCs, ListPCs,
           ListCheckpoints
  <2>2. HandlerTypeOK'
    BY <1>0, <1>28
       DEF HandlerTypeOK, requestVars, PCs, RunPCs, StopPCs, RemovePCs, ListPCs,
           ListCheckpoints
  <2>3. HistoryTypeOK'
    BY <1>0, <1>28 DEF HistoryTypeOK, ListCheckpoints, Fault, NoFault
  <2> QED BY <2>1, <2>2, <2>3 DEF TypeOK
<1>29. ASSUME NEW w \in Workers, ListContainers(w) PROVE TypeOK'
  <2>1. StoreTypeOK'
    BY <1>0, <1>29, SMTT(30)
       DEF StoreTypeOK, HandlerTypeOK, PCs, RunPCs, StopPCs, RemovePCs, ListPCs,
           ListContainers
  <2>2. HandlerTypeOK'
    BY <1>0, <1>29, ReturnType
       DEF HandlerTypeOK, requestVars, PCs, RunPCs, StopPCs, RemovePCs, ListPCs,
           ListContainers
  <2>3. HistoryTypeOK'
    <3>1. (Fault \/ NoFault) /\ UNCHANGED <<historyVars, crashes>>
      BY <1>29 DEF ListContainers
    <3> QED BY <1>0, <3>1 DEF HistoryTypeOK, Fault, NoFault
  <2> QED BY <2>1, <2>2, <2>3 DEF TypeOK
<1>30. ASSUME NEW w \in Workers, ListMerge(w) PROVE TypeOK'
  <2>1. StoreTypeOK'
    BY <1>0, <1>30, SMTT(30)
       DEF StoreTypeOK, HandlerTypeOK, PCs, RunPCs, StopPCs, RemovePCs, ListPCs,
           ListMerge
  <2>2. HandlerTypeOK'
    BY <1>0, <1>30, ReturnType
       DEF HandlerTypeOK, requestVars, PCs, RunPCs, StopPCs, RemovePCs, ListPCs,
           ListMerge
  <2>3. HistoryTypeOK'
    <3>1. (Fault \/ NoFault) /\ UNCHANGED <<runOK, stopOK, removeOK, raced, crashes>>
      BY <1>30 DEF ListMerge
    <3>2. ghosts' \subseteq Sandboxes
      BY <1>0, <1>30 DEF HistoryTypeOK, HandlerTypeOK, ListMerge
    <3> QED BY <1>0, <3>1, <3>2 DEF HistoryTypeOK, Fault, NoFault
  <2> QED BY <2>1, <2>2, <2>3 DEF TypeOK
<1>31. ASSUME NEW s \in Sandboxes, StartWorkload(s) PROVE TypeOK'
  <2>1. StoreTypeOK'
    BY <1>0, <1>31, SMTT(30)
       DEF StoreTypeOK, HandlerTypeOK, PCs, RunPCs, StopPCs, RemovePCs, ListPCs,
           StartWorkload
  <2>2. HandlerTypeOK'
    BY <1>0, <1>31
       DEF HandlerTypeOK, requestVars, PCs, RunPCs, StopPCs, RemovePCs, ListPCs,
           StartWorkload
  <2>3. HistoryTypeOK'
    BY <1>0, <1>31, SMTT(30) DEF HistoryTypeOK, StartWorkload
  <2> QED BY <2>1, <2>2, <2>3, SMTT(30) DEF TypeOK
<1>32. ASSUME NEW s \in Sandboxes, ContainerDies(s) PROVE TypeOK'
  <2>1. StoreTypeOK'
    BY <1>0, <1>32, SMTT(30)
       DEF StoreTypeOK, HandlerTypeOK, PCs, RunPCs, StopPCs, RemovePCs, ListPCs,
           ContainerDies, SetContainer
  <2>2. HandlerTypeOK'
    BY <1>0, <1>32, SMTT(30)
       DEF HandlerTypeOK, requestVars, PCs, RunPCs, StopPCs, RemovePCs, ListPCs,
           ContainerDies
  <2>3. HistoryTypeOK'
    BY <1>0, <1>32, SMTT(30) DEF HistoryTypeOK, ContainerDies
  <2> QED BY <2>1, <2>2, <2>3 DEF TypeOK
<1>33. ASSUME NEW s \in Sandboxes, ContainerLost(s) PROVE TypeOK'
  <2>1. StoreTypeOK'
    BY <1>0, <1>33, SMTT(30)
       DEF StoreTypeOK, HandlerTypeOK, PCs, RunPCs, StopPCs, RemovePCs, ListPCs,
           ContainerLost, SetContainer
  <2>2. HandlerTypeOK'
    BY <1>0, <1>33
       DEF HandlerTypeOK, requestVars, PCs, RunPCs, StopPCs, RemovePCs, ListPCs,
           ContainerLost
  <2>3. HistoryTypeOK'
    BY <1>0, <1>33, SMTT(30) DEF HistoryTypeOK, ContainerLost, Fault
  <2> QED BY <2>1, <2>2, <2>3 DEF TypeOK
<1>34. ASSUME NEW s \in Sandboxes, CorruptCheckpoint(s) PROVE TypeOK'
  <2>1. StoreTypeOK'
    BY <1>0, <1>34, SMTT(30)
       DEF StoreTypeOK, HandlerTypeOK, PCs, RunPCs, StopPCs, RemovePCs, ListPCs,
           CorruptCheckpoint, SetCheckpoint
  <2>2. HandlerTypeOK'
    BY <1>0, <1>34
       DEF HandlerTypeOK, requestVars, PCs, RunPCs, StopPCs, RemovePCs, ListPCs,
           CorruptCheckpoint
  <2>3. HistoryTypeOK'
    BY <1>0, <1>34 DEF HistoryTypeOK, CorruptCheckpoint, Fault
  <2> QED BY <2>1, <2>2, <2>3 DEF TypeOK
<1>35. ASSUME Crash PROVE TypeOK'
  <2>1. StoreTypeOK'
    BY <1>0, <1>35, SMTT(30)
       DEF StoreTypeOK, HandlerTypeOK, PCs, RunPCs, StopPCs, RemovePCs, ListPCs, Crash
  <2>2. HandlerTypeOK'
    BY <1>0, <1>35, SMTT(30)
       DEF HandlerTypeOK, requestVars, PCs, RunPCs, StopPCs, RemovePCs, ListPCs, Crash
  <2>3. HistoryTypeOK'
    BY <1>0, <1>35, SMTT(30) DEF HistoryTypeOK, Crash
  <2> QED BY <2>1, <2>2, <2>3, SMTT(30) DEF TypeOK
<1>36. CASE UNCHANGED vars
  BY <1>36, <1>0, ZenonT(30)
     DEF TypeOK, StoreTypeOK, HandlerTypeOK, HistoryTypeOK, requestVars
<1> HIDE DEF vars
<1> QED
  BY <1>1, <1>2, <1>3, <1>4, <1>5, <1>6, <1>7, <1>8, <1>9, <1>10, <1>11, <1>12, <1>13,
     <1>14, <1>15, <1>16, <1>17, <1>18, <1>19, <1>20, <1>21, <1>22, <1>23, <1>24,
     <1>25, <1>26, <1>27, <1>28, <1>29, <1>30, <1>31, <1>32, <1>33, <1>34, <1>35,
     <1>36
     DEF Next, Request, HandlerStep, RunStep, StopStep, RemoveStep, ListStep, Environment

\* Every variable keeps its type, whatever the constants are.
THEOREM TypeCorrect == Spec => []TypeOK
  BY TypeInit, TypeNext, PTL DEF Spec

=============================================================================
