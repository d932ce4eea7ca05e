------------------------ MODULE PluginManagerProofs -------------------------
(* Proofs about PluginManager.  See the README for the argument.           *)
EXTENDS PluginManager, FiniteSetTheorems, TLAPS

\* No two pods share a lock.
OwnLock == \A p, q \in Pods : pods[p] = pods[q] /\ pods[p] # None => p = q

\* A mutex is locked by the worker that operates with it, and by no other.
Holder ==
  \A w \in Workers :
    /\ pc[w] = "operating" => mu[lock[w]] = w
    /\ \A l \in Locks : mu[l] = w => pc[w] = "operating" /\ lock[w] = l

IInv == TypeOK /\ OwnLock /\ Holder /\ RefcountIsUsers

\* Without operations the map is empty and every mutex is free.
LEMMA InitInv == Init => IInv
  BY NoneAssumption, FS_EmptySet
     DEF Init, IInv, TypeOK, OwnLock, Holder, RefcountIsUsers, Users

\* The operations in flight for a pod can be counted.
LEMMA UsersFinite == \A p \in Pods : IsFiniteSet(Users(p))
  BY WorkersAssumption, FS_Subset DEF Users

\* podLock counts its worker on the one lock of the pod.
LEMMA podLockInv ==
  ASSUME IInv, NEW w \in Workers, NEW p \in Pods, podLock(w, p)
  PROVE  IInv'
<1> USE NoneAssumption DEF podLock, Locking
<1>1. TypeOK'
  BY DEF IInv, TypeOK
<1>2. OwnLock'
  BY DEF IInv, TypeOK, OwnLock, Unused
<1>3. Holder'
  BY DEF IInv, TypeOK, Holder, Unused
<1>4. w \notin Users(p) /\ Users(p)' = Users(p) \cup {w}
  BY DEF IInv, TypeOK, Users
<1>5. \A q \in Pods : q # p => Users(q)' = Users(q)
  BY DEF IInv, TypeOK, Users
<1>6. Cardinality(Users(p)') = Cardinality(Users(p)) + 1
  BY <1>4, UsersFinite, FS_AddElement, ZenonT(30)
<1>7. RefcountIsUsers'
  <2> SUFFICES ASSUME NEW q \in Pods
               PROVE  /\ pods'[q] # None => /\ Users(q)' # {}
                                            /\ refcount'[pods'[q]] = Cardinality(Users(q)')
                      /\ \A v \in Users(q)' : pods'[q] = lock'[v]
    BY DEF RefcountIsUsers
  <2>1. CASE q # p
    <3>1. pods'[q] = pods[q]
      BY <2>1 DEF IInv, TypeOK
    <3>2. pods[q] # None => refcount'[pods[q]] = refcount[pods[q]]
      BY <2>1 DEF IInv, TypeOK, OwnLock, Unused
    <3>3. \A v \in Users(q) : lock'[v] = lock[v]
      BY DEF IInv, TypeOK, Users
    <3> QED BY <1>5, <2>1, <3>1, <3>2, <3>3 DEF IInv, RefcountIsUsers
  <2>2. CASE q = p /\ pods[p] # None
    BY <1>4, <1>6, <2>2 DEF IInv, TypeOK, RefcountIsUsers, Users
  <2>3. CASE q = p /\ pods[p] = None
    <3>1. Users(p) = {}
      BY <2>3, ZenonT(30) DEF IInv, TypeOK, RefcountIsUsers, Users
    <3>2. Cardinality(Users(p)') = 1
      BY <1>6, <3>1, FS_EmptySet
    <3>3. PICK l \in Locks : /\ pods'[p] = l /\ refcount'[l] = 1 /\ lock'[w] = l
      BY <2>3 DEF IInv, TypeOK
    <3> QED BY <1>4, <2>3, <3>1, <3>2, <3>3, ZenonT(30)
  <2> QED BY <2>1, <2>2, <2>3
<1> QED BY <1>1, <1>2, <1>3, <1>7 DEF IInv

\* Locking the mutex makes its worker the only one in the plugin for the pod.
LEMMA LockInv ==
  ASSUME IInv, NEW w \in Workers, Lock(w)
  PROVE  IInv'
<1>1. TypeOK' /\ OwnLock' /\ Holder'
  BY NoneAssumption DEF IInv, TypeOK, OwnLock, Holder, Lock
<1>2. \A p \in Pods : Users(p)' = Users(p)
  BY DEF IInv, TypeOK, Users, Lock
<1>3. RefcountIsUsers'
  BY <1>2 DEF IInv, RefcountIsUsers, Lock
<1> QED BY <1>1, <1>3 DEF IInv

\* podUnlock finds the lock of its worker with a positive count.
LEMMA UnlockFindsLock ==
  ASSUME IInv, NEW w \in Workers, pc[w] = "operating"
  PROVE  /\ pod[w] \in Pods /\ pods[pod[w]] = lock[w] /\ lock[w] \in Locks
         /\ w \in Users(pod[w])
         /\ refcount[lock[w]] = Cardinality(Users(pod[w])) /\ refcount[lock[w]] > 0
<1>1. pod[w] \in Pods /\ lock[w] \in Locks /\ w \in Users(pod[w])
  BY DEF IInv, TypeOK, Users
<1>2. pods[pod[w]] = lock[w] /\ refcount[lock[w]] = Cardinality(Users(pod[w]))
  BY <1>1, NoneAssumption DEF IInv, RefcountIsUsers
<1>3. Cardinality(Users(pod[w])) # 0 /\ Cardinality(Users(pod[w])) \in Nat
  BY <1>1, UsersFinite, FS_EmptySet, FS_CardinalityType
<1> QED BY <1>1, <1>2, <1>3

\* podUnlock counts its worker out, and forgets the lock with the last one.
LEMMA podUnlockInv ==
  ASSUME IInv, NEW w \in Workers, podUnlock(w)
  PROVE  IInv'
<1>0. pc[w] = "operating"
  BY DEF podUnlock, Done
<1>1. PICK p \in Pods, l \in Locks :
        /\ p = pod[w] /\ l = lock[w] /\ pods[p] = l /\ w \in Users(p)
        /\ refcount[l] = Cardinality(Users(p)) /\ refcount[l] > 0
  BY <1>0, UnlockFindsLock
<1>2. /\ pods' = IF refcount[l] = 1 THEN [pods EXCEPT ![p] = None] ELSE pods
      /\ refcount' = [refcount EXCEPT ![l] = @ - 1]
      /\ mu' = [mu EXCEPT ![l] = None]
  BY <1>1, NoneAssumption DEF podUnlock
<1>3. /\ pc' = [pc EXCEPT ![w] = "idle"]
      /\ pod' = [pod EXCEPT ![w] = None]
      /\ lock' = [lock EXCEPT ![w] = None]
  BY DEF podUnlock, Done
<1>4. TypeOK'
  BY <1>1, <1>2, <1>3 DEF IInv, TypeOK
<1>5. OwnLock'
  BY <1>1, <1>2 DEF IInv, TypeOK, OwnLock
<1>6. Holder'
  BY <1>0, <1>1, <1>2, <1>3, NoneAssumption DEF IInv, TypeOK, Holder
<1>7. Users(p)' = Users(p) \ {w}
  BY <1>1, <1>3, NoneAssumption DEF IInv, TypeOK, Users
<1>8. \A q \in Pods : q # p => Users(q)' = Users(q)
  BY <1>1, <1>3, NoneAssumption DEF IInv, TypeOK, Users
<1>9. refcount'[l] = Cardinality(Users(p)')
  BY <1>1, <1>2, <1>7, UsersFinite, FS_RemoveElement, ZenonT(30) DEF IInv, TypeOK
<1>10. refcount[l] = 1 <=> Users(p)' = {}
  <2>1. refcount'[l] = refcount[l] - 1 /\ refcount[l] \in Nat
    BY <1>2 DEF IInv, TypeOK
  <2>2. Cardinality(Users(p)') = 0 <=> Users(p)' = {}
    BY <1>1, <1>7, UsersFinite, FS_RemoveElement, FS_EmptySet, ZenonT(30)
  <2> QED BY <1>9, <2>1, <2>2
<1>11. RefcountIsUsers'
  <2> SUFFICES ASSUME NEW q \in Pods
               PROVE  /\ pods'[q] # None => /\ Users(q)' # {}
                                            /\ refcount'[pods'[q]] = Cardinality(Users(q)')
                      /\ \A v \in Users(q)' : pods'[q] = lock'[v]
    BY DEF RefcountIsUsers
  <2>1. CASE q # p
    <3>1. pods'[q] = pods[q] /\ (pods[q] # None => refcount'[pods[q]] = refcount[pods[q]])
      BY <1>1, <1>2, <2>1 DEF IInv, TypeOK, OwnLock
    <3>2. \A v \in Users(q) : lock'[v] = lock[v]
      BY <1>1, <1>3, <2>1 DEF IInv, TypeOK, Users
    <3> QED BY <1>8, <2>1, <3>1, <3>2 DEF IInv, RefcountIsUsers
  <2>2. CASE q = p /\ refcount[l] = 1
    BY <1>2, <1>10, <2>2 DEF IInv, TypeOK
  <2>3. CASE q = p /\ refcount[l] # 1
    <3>1. \A v \in Users(p)' : lock'[v] = lock[v] /\ lock[v] = l
      BY <1>1, <1>3, <1>7 DEF IInv, TypeOK, Users, RefcountIsUsers
    <3> QED BY <1>1, <1>2, <1>9, <1>10, <2>3, <3>1
  <2> QED BY <2>1, <2>2, <2>3
<1> QED BY <1>4, <1>5, <1>6, <1>11 DEF IInv

\* Every step keeps the inductive invariant.
LEMMA NextInv == IInv /\ [Next]_vars => IInv'
<1> SUFFICES ASSUME IInv, [Next]_vars PROVE IInv'
  OBVIOUS
<1>1. ASSUME NEW w \in Workers, NEW p \in Pods, podLock(w, p) PROVE IInv'
  BY <1>1, podLockInv
<1>2. ASSUME NEW w \in Workers, Lock(w) PROVE IInv'
  BY <1>2, LockInv
<1>3. ASSUME NEW w \in Workers, podUnlock(w) PROVE IInv'
  BY <1>3, podUnlockInv
<1>4. CASE UNCHANGED vars
  <2>1. TypeOK' /\ OwnLock' /\ Holder'
    BY <1>4 DEF vars, IInv, TypeOK, OwnLock, Holder
  <2>2. \A p \in Pods : Users(p)' = Users(p)
    BY <1>4 DEF vars, Users
  <2>3. RefcountIsUsers'
    BY <1>4, <2>2 DEF vars, IInv, RefcountIsUsers
  <2> QED BY <2>1, <2>3 DEF IInv
<1> QED BY <1>1, <1>2, <1>3, <1>4 DEF Next

\* The inductive invariant holds throughout.
LEMMA Invariance == Spec => []IInv
  BY InitInv, NextInv, PTL DEF Spec

-----------------------------------------------------------------------------

\* For any number of callers, pods and lock objects, the operations of one
\* pod exclude each other in the plugin.
THEOREM MutualExclusionAlways == Spec => []MutualExclusion
<1>1. IInv => MutualExclusion
  <2> SUFFICES ASSUME IInv, NEW v \in Workers, NEW w \in Workers,
                      pc[v] = "operating", pc[w] = "operating", pod[v] = pod[w]
               PROVE  v = w
    BY DEF MutualExclusion
  <2>1. lock[v] = lock[w]
    BY UnlockFindsLock
  <2> QED BY <2>1 DEF IInv, Holder
<1> QED BY <1>1, Invariance, PTL

\* The reference count of a pod's lock is the number of operations in flight
\* for the pod, so the lock stays in the map exactly as long as it is needed.
THEOREM RefcountIsUsersAlways == Spec => []RefcountIsUsers
<1>1. IInv => RefcountIsUsers
  BY DEF IInv
<1> QED BY <1>1, Invariance, PTL

\* A worker waits for no worker of another pod.
THEOREM OtherPodsProceedAlways == Spec => []OtherPodsProceed
<1>1. IInv => OtherPodsProceed
  <2> SUFFICES ASSUME IInv, NEW v \in Workers, NEW w \in Workers,
                      pc[w] = "locking", mu[lock[w]] = v
               PROVE  pod[v] = pod[w]
    BY DEF OtherPodsProceed
  <2>1. pod[w] \in Pods /\ lock[w] \in Locks /\ w \in Users(pod[w])
    BY DEF IInv, TypeOK, Users
  <2>2. pc[v] = "operating" /\ lock[v] = lock[w]
    BY <2>1 DEF IInv, Holder
  <2>3. pods[pod[w]] = lock[w]
    BY <2>1 DEF IInv, RefcountIsUsers
  <2>4. pod[v] \in Pods /\ pods[pod[v]] = lock[v]
    BY <2>2, UnlockFindsLock
  <2> QED BY <2>1, <2>2, <2>3, <2>4, NoneAssumption DEF IInv, OwnLock
<1> QED BY <1>1, Invariance, PTL

\* PluginManager implements PodMutex, which is what its comment promises.
THEOREM Implementation == Spec => ImplementsPodMutex
<1>1. Init => Mutex!Init
  BY DEF Init, Mutex!Init, phase
<1>2. IInv /\ IInv' /\ [Next]_vars => [Mutex!Next]_<<phase, pod>>
  <2> SUFFICES ASSUME IInv, IInv', [Next]_vars PROVE [Mutex!Next]_<<phase, pod>>
    OBVIOUS
  <2>0. TypeOK
    BY DEF IInv
  <2>1. ASSUME NEW w \in Workers, NEW p \in Pods, podLock(w, p) PROVE Mutex!Request(w, p)
    <3>1. /\ pc[w] = "idle" /\ pc' = [pc EXCEPT ![w] = "locking"]
          /\ pod' = [pod EXCEPT ![w] = p]
      BY <2>1 DEF podLock, Locking
    <3>2. phase[w] = "idle" /\ phase' = [phase EXCEPT ![w] = "waiting"]
      BY <2>0, <3>1, ZenonT(30) DEF TypeOK, phase
    <3> QED BY <3>1, <3>2 DEF Mutex!Request
  <2>2. ASSUME NEW w \in Workers, Lock(w) PROVE Mutex!Enter(w)
    <3>1. phase[w] = "waiting" /\ phase' = [phase EXCEPT ![w] = "running"] /\ UNCHANGED pod
      BY <2>0, <2>2, ZenonT(30) DEF Lock, TypeOK, phase
    <3>2. ASSUME NEW v \in Workers, phase[v] = "running" PROVE pod[v] # pod[w]
      <4>1. pc[v] = "operating" /\ pc[w] = "locking" /\ mu[lock[w]] = None
        BY <2>0, <2>2, <3>2 DEF Lock, TypeOK, phase
      <4>2. w \in Users(pod[w]) /\ pod[w] \in Pods
        BY <2>0, <4>1 DEF TypeOK, Users
      <4>3. pods[pod[w]] = lock[w]
        BY <4>2 DEF IInv, RefcountIsUsers
      <4>4. pods[pod[v]] = lock[v] /\ mu[lock[v]] = v
        BY <4>1, UnlockFindsLock DEF IInv, Holder
      <4> QED BY <4>1, <4>3, <4>4, NoneAssumption
    <3> QED BY <3>1, <3>2 DEF Mutex!Enter
  <2>3. ASSUME NEW w \in Workers, podUnlock(w) PROVE Mutex!Leave(w)
    BY <2>0, <2>3, ZenonT(30) DEF podUnlock, Done, TypeOK, phase, Mutex!Leave
  <2>4. CASE UNCHANGED vars
    BY <2>4 DEF vars, phase
  <2> QED BY <2>1, <2>2, <2>3, <2>4 DEF Next, Mutex!Next
<1> QED BY <1>1, <1>2, Invariance, PTL DEF Spec, ImplementsPodMutex, Mutex!Spec

=============================================================================
