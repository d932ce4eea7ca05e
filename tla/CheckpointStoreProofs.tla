------------------------ MODULE CheckpointStoreProofs ------------------------
(***************************************************************************)
(* Proofs about CheckpointStore, for any sets of callers, keys, values and *)
(* temporary names, and any number of failures and crashes.                *)
(***************************************************************************)
EXTENDS CheckpointStore, TLAPS

\* The arguments of the call in progress.
Arguments(w) ==
  /\ pc[w] \in {"tempFile", "read", "delete"} \cup WritePCs => key[w] \in Keys
  /\ pc[w] \in {"tempFile"} \cup WritePCs => value[w] \in Values

\* What writeFile has achieved before each of its system calls.
Progress(w) ==
  /\ pc[w] \in {"sync", "close", "rename"} => data[temp[w]] = value[w]
  /\ pc[w] \in {"close", "rename"} => flushed[temp[w]]

\* The inductive invariant: a file only ever enters the place of a key with
\* its data complete and on the disk.
IInv ==
  /\ TypeOK
  /\ \A w \in Workers : Arguments(w) /\ Progress(w)
  /\ \A k \in Keys : synced[k]
  /\ NeverTorn

-----------------------------------------------------------------------------
\* The empty store satisfies the invariant.
LEMMA InitInv == Init => IInv
  BY NamesAssumption, BoundsAssumption
     DEF Init, IInv, TypeOK, PCs, WritePCs, Arguments, Progress, NeverTorn

\* Every call starts with its arguments and without the mutex.
LEMMA CallInv ==
  ASSUME IInv, NEW w \in Workers,
         NEW l \in {"tempFile", "read", "delete", "list"},
         NEW k \in Keys \cup {None}, NEW v \in Values \cup {None}, Call(w, l, k, v),
         l # "list" => k \in Keys, l = "tempFile" => v \in Values
  PROVE  IInv'
<1>1. TypeOK'
  BY DEF IInv, TypeOK, Call, fileVars, tempVars, answers, PCs, WritePCs
<1>2. ASSUME NEW u \in Workers PROVE (Arguments(u) /\ Progress(u))'
  BY DEF IInv, TypeOK, Call, fileVars, tempVars, Arguments, Progress, PCs, WritePCs
<1>3. (\A j \in Keys : synced[j])' /\ NeverTorn'
  BY SMTT(30) DEF IInv, NeverTorn, Call, fileVars
<1> QED BY <1>1, <1>2, <1>3 DEF IInv

\* Every system call of a call in progress keeps the invariant.
LEMMA StepInv == ASSUME IInv, NEW w \in Workers, Step(w) PROVE IInv'
<1> USE DEF IInv, TypeOK, PCs, WritePCs, fileVars, tempVars, answers
<1> USE NamesAssumption, BoundsAssumption
<1>0. \A u \in Workers : u # w => Arguments(u) /\ Progress(u)
  OBVIOUS
<1>r. ASSUME NEW res \in {"ok", "failed"}, Return(w, res), mutex = None, UNCHANGED tempVars
      PROVE  /\ mutex' \in Workers \cup {None} /\ pc' \in [Workers -> PCs]
             /\ key' \in [Workers -> Keys \cup {None}]
             /\ value' \in [Workers -> Values \cup {None}]
             /\ temp' \in [Workers -> TempNames \cup {None}]
             /\ outcome' \in [Workers -> {"none", "ok", "failed"}]
             /\ data' \in [TempNames -> Values \cup {None, Torn}]
             /\ flushed' \in [TempNames -> BOOLEAN]
             /\ \A u \in Workers : pc'[u] \notin WritePCs /\ mutex' # u
  BY <1>r DEF Return
<1>f. ASSUME Fault \/ NoFault PROVE faults' \in 0..MaxFaults
  BY <1>f DEF Fault, NoFault
<1>1. CASE TempFile(w)
  <2>1. TypeOK'
    <3>1. CASE pc'[w] = "write"
      <4>1. PICK t \in TempNames :
              /\ data[t] = None /\ data' = [data EXCEPT ![t] = Torn]
              /\ flushed' = [flushed EXCEPT ![t] = FALSE]
              /\ temp' = [temp EXCEPT ![w] = t] /\ mutex' = w
              /\ pc' = [pc EXCEPT ![w] = "write"]
              /\ UNCHANGED <<key, value, outcome, faults>>
        BY <1>1, <3>1 DEF TempFile, Return, NoFault
      <4>2. \A u \in Workers : pc[u] \notin WritePCs
        BY <1>1 DEF TempFile
      <4> QED BY <1>1, <4>1, <4>2 DEF TempFile
    <3>2. CASE pc'[w] # "write"
      <4>1. Fault /\ Return(w, "failed") /\ UNCHANGED tempVars
        BY <1>1, <3>2 DEF TempFile
      <4> QED BY <1>1, <4>1 DEF TempFile, Return, Fault
    <3> QED BY <3>1, <3>2
  <2>2. ASSUME NEW u \in Workers PROVE (Arguments(u) /\ Progress(u))'
    BY <1>1 DEF TempFile, Return, Arguments, Progress
  <2>3. (\A j \in Keys : synced[j])' /\ NeverTorn'
    BY <1>1 DEF TempFile, NeverTorn
  <2> QED BY <2>1, <2>2, <2>3
<1>2. CASE Write(w)
  <2>1. TypeOK'
    BY <1>2 DEF Write, Goto, Fault, NoFault, Arguments
  <2>2. ASSUME NEW u \in Workers PROVE (Arguments(u) /\ Progress(u))'
    BY <1>2 DEF Write, Goto, Arguments, Progress
  <2>3. (\A j \in Keys : synced[j])' /\ NeverTorn'
    BY <1>2 DEF Write, NeverTorn
  <2> QED BY <2>1, <2>2, <2>3
<1>3. CASE Sync(w)
  <2>1. TypeOK'
    <3>1. temp[w] \in TempNames /\ mutex = w
      BY <1>3 DEF Sync
    <3>a. flushed' = [flushed EXCEPT ![temp[w]] = TRUE] \/ flushed' = flushed
      BY <1>3 DEF Sync
    <3>b. faults' \in 0..MaxFaults
      BY <1>3 DEF Sync, Fault, NoFault
    <3>2. flushed' \in [TempNames -> BOOLEAN] /\ faults' \in 0..MaxFaults
      BY <3>1, <3>a, <3>b, Zenon
    <3>3. \E l \in {"close", "cleanUp"} : Goto(w, l)
      BY <1>3 DEF Sync
    <3> QED BY <1>3, <3>1, <3>2, <3>3 DEF Sync, Goto
  <2>2. ASSUME NEW u \in Workers PROVE (Arguments(u) /\ Progress(u))'
    BY <1>3 DEF Sync, Goto, Arguments, Progress
  <2>3. (\A j \in Keys : synced[j])' /\ NeverTorn'
    BY <1>3 DEF Sync, NeverTorn
  <2> QED BY <2>1, <2>2, <2>3
<1>4. CASE Close(w)
  <2>1. TypeOK'
    BY <1>4 DEF Close, Goto, Fault, NoFault
  <2>2. ASSUME NEW u \in Workers PROVE (Arguments(u) /\ Progress(u))'
    BY <1>4 DEF Close, Goto, Arguments, Progress
  <2>3. (\A j \in Keys : synced[j])' /\ NeverTorn'
    BY <1>4 DEF Close, NeverTorn
  <2> QED BY <2>1, <2>2, <2>3
<1>5. CASE Rename(w)
  <2>0. /\ key[w] \in Keys /\ data[temp[w]] = value[w] /\ value[w] \in Values
        /\ flushed[temp[w]] /\ temp[w] \in TempNames
    BY <1>5, SMTT(30) DEF Rename, Arguments, Progress
  <2>1. TypeOK'
    <3>1. CASE Fault /\ Goto(w, "cleanUp") /\ UNCHANGED <<fileVars, data>>
      BY <1>5, <3>1 DEF Rename, Goto, Fault
    <3>2. CASE /\ file' = [file EXCEPT ![key[w]] = data[temp[w]]]
               /\ synced' = [synced EXCEPT ![key[w]] = flushed[temp[w]]]
               /\ data' = [data EXCEPT ![temp[w]] = None]
               /\ NoFault /\ Return(w, "ok")
      BY <1>5, <2>0, <3>2 DEF Rename, Return, NoFault
    <3> QED BY <1>5, <3>1, <3>2 DEF Rename
  <2>2. ASSUME NEW u \in Workers PROVE (Arguments(u) /\ Progress(u))'
    BY <1>5 DEF Rename, Goto, Return, Arguments, Progress
  <2>3. (\A j \in Keys : synced[j])' /\ NeverTorn'
    BY <1>5, <2>0 DEF Rename, NeverTorn
  <2> QED BY <2>1, <2>2, <2>3
<1>6. CASE CleanUp(w)
  <2>1. TypeOK'
    BY <1>6 DEF CleanUp, Return, Fault, NoFault
  <2>2. ASSUME NEW u \in Workers PROVE (Arguments(u) /\ Progress(u))'
    BY <1>6 DEF CleanUp, Return, Arguments, Progress
  <2>3. (\A j \in Keys : synced[j])' /\ NeverTorn'
    BY <1>6 DEF CleanUp, NeverTorn
  <2> QED BY <2>1, <2>2, <2>3
<1>7. CASE Read(w)
  <2>1. TypeOK'
    <3>1. PICK res \in {"ok", "failed"} : Return(w, res)
      BY <1>7 DEF Read
    <3>2. mutex = None /\ UNCHANGED <<tempVars, fileVars, disk, listed, crashes>> /\ (Fault \/ NoFault)
      BY <1>7 DEF Read
    <3>3. got' \in [Workers -> Values \cup {None, Torn}]
      BY <1>7 DEF Read, Arguments
    <3> HIDE DEF IInv, tempVars, fileVars, answers, PCs, WritePCs
    <3>4. faults' \in 0..MaxFaults
      BY <1>f, <3>2
    <3> QED BY <1>r, <3>1, <3>2, <3>3, <3>4 DEF IInv, fileVars, answers
  <2>2. ASSUME NEW u \in Workers PROVE (Arguments(u) /\ Progress(u))'
    BY <1>7 DEF Read, Return, Arguments, Progress
  <2>3. (\A j \in Keys : synced[j])' /\ NeverTorn'
    BY <1>7 DEF Read, NeverTorn
  <2> QED BY <2>1, <2>2, <2>3
<1>8. CASE Delete(w)
  <2>1. TypeOK'
    <3>1. PICK res \in {"ok", "failed"} : Return(w, res)
      BY <1>8 DEF Delete
    <3>2. mutex = None /\ UNCHANGED <<tempVars, synced, disk, answers, crashes>> /\ (Fault \/ NoFault)
      BY <1>8 DEF Delete
    <3>3. file' \in [Keys -> Values \cup {None, Torn}]
      BY <1>8 DEF Delete, Arguments
    <3> HIDE DEF IInv, tempVars, fileVars, answers, PCs, WritePCs
    <3>4. faults' \in 0..MaxFaults
      BY <1>f, <3>2
    <3> QED BY <1>r, <3>1, <3>2, <3>3, <3>4 DEF IInv, fileVars, answers
  <2>2. ASSUME NEW u \in Workers PROVE (Arguments(u) /\ Progress(u))'
    BY <1>8 DEF Delete, Return, Arguments, Progress
  <2>3. (\A j \in Keys : synced[j])' /\ NeverTorn'
    BY <1>8 DEF Delete, NeverTorn, Arguments
  <2> QED BY <2>1, <2>2, <2>3
<1>9. CASE List(w)
  <2>1. ReadDir \ TempNames \in SUBSET (Keys \cup TempNames)
    BY DEF ReadDir
  <2>2. TypeOK'
    <3>1. PICK res \in {"ok", "failed"} : Return(w, res)
      BY <1>9 DEF List
    <3>2. mutex = None /\ UNCHANGED <<tempVars, fileVars, disk, got, crashes>> /\ (Fault \/ NoFault)
      BY <1>9 DEF List
    <3>3. listed' \in [Workers -> SUBSET (Keys \cup TempNames)]
      BY <1>9, <2>1 DEF List, Arguments
    <3> HIDE DEF IInv, tempVars, fileVars, answers, PCs, WritePCs
    <3>4. faults' \in 0..MaxFaults
      BY <1>f, <3>2
    <3> QED BY <1>r, <3>1, <3>2, <3>3, <3>4 DEF IInv, fileVars, answers
  <2>3. ASSUME NEW u \in Workers PROVE (Arguments(u) /\ Progress(u))'
    BY <1>9 DEF List, Return, Arguments, Progress
  <2>4. (\A j \in Keys : synced[j])' /\ NeverTorn'
    BY <1>9 DEF List, NeverTorn
  <2> QED BY <2>2, <2>3, <2>4
<1> QED BY <1>1, <1>2, <1>3, <1>4, <1>5, <1>6, <1>7, <1>8, <1>9 DEF Step

\* The file system and the end of the process keep the invariant: what is
\* written back is complete, so what a loss of power leaves is complete.
LEMMA EnvironmentInv ==
  ASSUME IInv, (\E k \in Keys : WriteBack(k)) \/ Crash \/ PowerLoss
  PROVE  IInv'
<1> USE DEF IInv, TypeOK, PCs, WritePCs, fileVars, tempVars, answers
<1> USE NamesAssumption, BoundsAssumption
<1>1. CASE \E k \in Keys : WriteBack(k)
  BY <1>1 DEF WriteBack, NeverTorn, Arguments, Progress
<1>2. CASE Crash
  BY <1>2 DEF Crash, Stopped, NeverTorn, Arguments, Progress
<1>3. CASE PowerLoss
  BY <1>3 DEF PowerLoss, Stopped, NeverTorn, Arguments, Progress
<1> QED BY <1>1, <1>2, <1>3

\* Every step keeps the invariant.
LEMMA NextInv == IInv /\ [Next]_vars => IInv'
<1> SUFFICES ASSUME IInv, [Next]_vars PROVE IInv'
  OBVIOUS
<1>1. ASSUME NEW w \in Workers, NEW k \in Keys, NEW v \in Values,
             CreateCheckpoint(w, k, v)
      PROVE  IInv'
  BY <1>1, CallInv DEF CreateCheckpoint
<1>2. ASSUME NEW w \in Workers, NEW k \in Keys, GetCheckpoint(w, k) PROVE IInv'
  BY <1>2, CallInv DEF GetCheckpoint
<1>3. ASSUME NEW w \in Workers, NEW k \in Keys, RemoveCheckpoint(w, k) PROVE IInv'
  BY <1>3, CallInv DEF RemoveCheckpoint
<1>4. ASSUME NEW w \in Workers, ListCheckpoints(w) PROVE IInv'
  BY <1>4, CallInv DEF ListCheckpoints
<1>5. ASSUME NEW w \in Workers, Step(w) PROVE IInv'
  BY <1>5, StepInv
<1>6. CASE UNCHANGED vars
  BY <1>6
     DEF IInv, TypeOK, NeverTorn, Arguments, Progress, vars, fileVars, tempVars, answers
<1> QED BY <1>1, <1>2, <1>3, <1>4, <1>5, <1>6, EnvironmentInv DEF Next

\* The inductive invariant holds throughout.
LEMMA Invariance == Spec => []IInv
  BY InitInv, NextInv, PTL DEF Spec

\* Every variable keeps its type, and the mutex has its one holder.
THEOREM TypeCorrect == Spec => []TypeOK
<1>1. IInv => TypeOK
  BY DEF IInv
<1> QED BY <1>1, Invariance, PTL

\* No interleaving, failure, death of the process or loss of power leaves an
\* incomplete checkpoint under a key.
THEOREM NeverTornAlways == Spec => []NeverTorn
<1>1. IInv => NeverTorn
  BY DEF IInv
<1> QED BY <1>1, Invariance, PTL

-----------------------------------------------------------------------------
(* The refinement.                                                         *)

\* The abstract operation of each program counter.
LEMMA OpOf ==
  ASSUME TypeOK, NEW w \in Workers
  PROVE  /\ pc[w] = "idle" <=> op[w] = "none"
         /\ pc[w] = "read" <=> op[w] = "get"
         /\ pc[w] = "delete" <=> op[w] = "remove"
         /\ pc[w] = "list" <=> op[w] = "list"
         /\ pc[w] \in {"tempFile"} \cup WritePCs <=> op[w] = "put"
  BY DEF TypeOK, PCs, WritePCs, op

\* A step that moves one worker moves its abstract operation only.
LEMMA OpMoves ==
  ASSUME TypeOK, NEW w \in Workers, NEW l \in PCs, pc' = [pc EXCEPT ![w] = l]
  PROVE  op' = [op EXCEPT ![w] = IF l = "idle" THEN "none"
                                 ELSE IF l = "read" THEN "get"
                                 ELSE IF l = "delete" THEN "remove"
                                 ELSE IF l = "list" THEN "list"
                                 ELSE "put"]
  BY ZenonT(30) DEF TypeOK, op

\* The start of a call is the start of the abstract call.
LEMMA CallSimulates ==
  ASSUME TypeOK, NEW w \in Workers,
         NEW l \in {"tempFile", "read", "delete", "list"}, NEW k, NEW v,
         Call(w, l, k, v)
  PROVE  Abstract!Call(w, IF l = "read" THEN "get" ELSE IF l = "delete" THEN "remove"
                          ELSE IF l = "list" THEN "list" ELSE "put", k, v)
<1>1. l \in PCs /\ l # "idle" /\ pc[w] = "idle" /\ pc' = [pc EXCEPT ![w] = l]
  BY DEF Call, PCs
<1>2. op[w] = "none"
  BY <1>1, OpOf
<1> QED BY <1>1, <1>2, OpMoves, ZenonT(30)
           DEF Abstract!Call, Abstract!answers, Call, fileVars, answers

\* Return is the abstract return.
LEMMA ReturnSimulates ==
  ASSUME TypeOK, NEW w \in Workers, NEW res, Return(w, res), UNCHANGED disk
  PROVE  Abstract!Return(w, res)
<1>1. "idle" \in PCs /\ pc' = [pc EXCEPT ![w] = "idle"]
  BY DEF Return, PCs
<1> QED BY <1>1, OpMoves, ZenonT(30) DEF Return, Abstract!Return

\* A step inside writeFile that does not return is invisible.
LEMMA GotoSimulates ==
  ASSUME TypeOK, NEW w \in Workers, pc[w] \in {"tempFile"} \cup WritePCs,
         NEW l \in WritePCs, pc' = [pc EXCEPT ![w] = l]
  PROVE  op' = op
<1>1. l \in PCs /\ l \notin {"idle", "read", "delete", "list"}
  BY DEF PCs, WritePCs
<1>2. op' = [op EXCEPT ![w] = "put"]
  BY <1>1, OpMoves, ZenonT(30)
<1>3. op[w] = "put"
  BY OpOf
<1> QED BY <1>2, <1>3 DEF op

\* Each step of a call is a step of the abstract store or invisible.  The
\* write takes effect with Rename, because the temporary file then holds the
\* value to be written.
LEMMA StepSimulates ==
  ASSUME IInv, NEW w \in Workers, Step(w)
  PROVE  [Abstract!Next]_(Abstract!vars)
<1> USE DEF IInv
<1>0. (Abstract!Put(w) \/ Abstract!Remove(w) \/ Abstract!Get(w) \/ Abstract!List(w)
        \/ Abstract!Fail(w)) => Abstract!Next
  BY DEF Abstract!Next
<1>a. ASSUME pc[w] # "idle", Return(w, "failed"), UNCHANGED <<file, disk, answers>>
      PROVE  Abstract!Fail(w)
  BY <1>a, OpOf, ReturnSimulates DEF Abstract!Fail, Abstract!answers, answers
<1>b. ASSUME pc[w] \in {"tempFile"} \cup WritePCs,
             NEW l \in WritePCs, pc' = [pc EXCEPT ![w] = l],
             UNCHANGED <<file, disk, key, value, outcome, answers>>
      PROVE  UNCHANGED Abstract!vars
  BY <1>b, GotoSimulates, ZenonT(30) DEF Abstract!vars, Abstract!answers, answers
<1>1. CASE TempFile(w)
  BY <1>0, <1>1, <1>a, <1>b DEF TempFile, fileVars, WritePCs
<1>2. CASE Write(w) \/ Sync(w) \/ Close(w)
  BY <1>2, <1>b DEF Write, Sync, Close, Goto, fileVars, WritePCs
<1>3. CASE Rename(w)
  <2>1. CASE Goto(w, "cleanUp") /\ UNCHANGED fileVars
    BY <1>3, <2>1, <1>b DEF Rename, Goto, fileVars, WritePCs
  <2>2. CASE file' = [file EXCEPT ![key[w]] = data[temp[w]]] /\ Return(w, "ok")
    <3>1. data[temp[w]] = value[w] /\ pc[w] \in WritePCs
      BY <1>3 DEF Rename, Progress, WritePCs
    <3>2. op[w] = "put"
      BY <3>1, OpOf, SMTT(30)
    <3>3. Abstract!Return(w, "ok")
      BY <1>3, <2>2, ReturnSimulates, SMTT(30) DEF Rename
    <3> QED
      BY <1>0, <1>3, <2>2, <3>1, <3>2, <3>3, SMTT(30)
         DEF Rename, Abstract!Put, Abstract!answers, answers
  <2> QED BY <1>3, <2>1, <2>2 DEF Rename
<1>4. CASE CleanUp(w)
  BY <1>0, <1>4, <1>a DEF CleanUp, fileVars
<1>5. CASE Read(w)
  <2>1. CASE Return(w, "failed") /\ UNCHANGED got
    BY <1>0, <1>5, <1>a, <2>1 DEF Read, fileVars, answers
  <2>2. CASE got' = [got EXCEPT ![w] = file[key[w]]] /\ Return(w, "ok")
    BY <1>0, <1>5, <2>2, OpOf, ReturnSimulates DEF Read, Abstract!Get, fileVars
  <2> QED BY <1>5, <2>1, <2>2, SMTT(30) DEF Read
<1>6. CASE Delete(w)
  <2>1. CASE Return(w, "failed") /\ UNCHANGED file
    BY <1>0, <1>6, <1>a, <2>1, SMTT(30) DEF Delete
  <2>2. CASE file' = [file EXCEPT ![key[w]] = None] /\ Return(w, "ok")
    BY <1>0, <1>6, <2>2, OpOf, ReturnSimulates
       DEF Delete, Abstract!Remove, Abstract!answers, answers
  <2> QED BY <1>6, <2>1, <2>2, SMTT(30) DEF Delete
<1>7. CASE List(w)
  <2>1. CASE Return(w, "failed") /\ UNCHANGED listed
    BY <1>0, <1>7, <1>a, <2>1, SMTT(30) DEF List, fileVars, answers
  <2>2. CASE listed' = [listed EXCEPT ![w] = ReadDir \ TempNames] /\ Return(w, "ok")
    <3>1. ReadDir \ TempNames = {k \in Keys : file[k] # None}
      BY NamesAssumption DEF ReadDir
    <3> QED
      BY <1>0, <1>7, <2>2, <3>1, OpOf, ReturnSimulates, ZenonT(30)
         DEF List, Abstract!List, fileVars
  <2> QED BY <1>7, <2>1, <2>2 DEF List
<1> QED BY <1>1, <1>2, <1>3, <1>4, <1>5, <1>6, <1>7 DEF Step

\* What the file system does, and the end of the process, are steps of the
\* abstract store.
LEMMA EnvironmentSimulates ==
  ASSUME IInv, (\E k \in Keys : WriteBack(k)) \/ Crash \/ PowerLoss
  PROVE  Abstract!Next
<1>1. ASSUME Stopped PROVE Abstract!Idle'
  BY <1>1 DEF Stopped, Abstract!Idle, op
<1>2. ASSUME NEW k \in Keys, WriteBack(k) PROVE Abstract!Flush(k)
  <2>1. disk' = [disk EXCEPT ![k] = file[k]]
    BY <1>2, ZenonT(30) DEF IInv, WriteBack
  <2> QED BY <1>2, <2>1, ZenonT(30)
             DEF WriteBack, Abstract!Flush, Abstract!answers, fileVars, answers, op
<1>3. CASE Crash
  BY <1>1, <1>3 DEF Crash, Abstract!Next, Abstract!Crash, fileVars
<1>4. CASE PowerLoss
  BY <1>1, <1>4 DEF PowerLoss, Abstract!Next, Abstract!PowerLoss
<1> QED BY <1>2, <1>3, <1>4 DEF Abstract!Next

\* CheckpointStore implements AtomicStore: writing a temporary file, syncing
\* and renaming it is a single transaction.
THEOREM Implementation == Spec => ImplementsAtomicStore
<1>1. Init => Abstract!Init
  BY DEF Init, Abstract!Init, Abstract!Idle, op
<1>2. IInv /\ [Next]_vars => [Abstract!Next]_(Abstract!vars)
  <2> SUFFICES ASSUME IInv, [Next]_vars PROVE [Abstract!Next]_(Abstract!vars)
    OBVIOUS
  <2>0. TypeOK
    BY DEF IInv
  <2>1. ASSUME NEW w \in Workers, NEW k \in Keys, NEW v \in Values,
               CreateCheckpoint(w, k, v)
        PROVE  Abstract!Next
    <3>1. Abstract!Call(w, "put", k, v)
      BY <2>0, <2>1, CallSimulates DEF CreateCheckpoint
    <3> QED BY <3>1 DEF Abstract!Next
  <2>2. ASSUME NEW w \in Workers, NEW k \in Keys, GetCheckpoint(w, k)
        PROVE  Abstract!Next
    <3>1. Abstract!Call(w, "get", k, None)
      BY <2>0, <2>2, CallSimulates DEF GetCheckpoint
    <3> QED BY <3>1 DEF Abstract!Next
  <2>3. ASSUME NEW w \in Workers, NEW k \in Keys, RemoveCheckpoint(w, k)
        PROVE  Abstract!Next
    <3>1. Abstract!Call(w, "remove", k, None)
      BY <2>0, <2>3, CallSimulates DEF RemoveCheckpoint
    <3> QED BY <3>1 DEF Abstract!Next
  <2>4. ASSUME NEW w \in Workers, ListCheckpoints(w) PROVE Abstract!Next
    <3>1. Abstract!Call(w, "list", None, None)
      BY <2>0, <2>4, CallSimulates DEF ListCheckpoints
    <3> QED BY <3>1 DEF Abstract!Next
  <2>5. CASE UNCHANGED vars
    BY <2>5 DEF vars, fileVars, answers, Abstract!vars, Abstract!answers, op
  <2> QED
    BY <2>1, <2>2, <2>3, <2>4, <2>5, StepSimulates, EnvironmentSimulates DEF Next
<1> QED BY <1>1, <1>2, Invariance, PTL DEF Spec, ImplementsAtomicStore, Abstract!Spec

=============================================================================
