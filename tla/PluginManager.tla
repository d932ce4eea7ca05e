--------------------------- MODULE PluginManager ----------------------------
(***************************************************************************)
(* The per-pod locks of network.PluginManager.  SetUpPod, TearDownPod and  *)
(* GetPodNetworkStatus take the lock of the pod in two steps: podLock      *)
(* finds or makes the pod's lock in the pods map and counts a reference,   *)
(* and only then, outside podsLock, the mutex is locked.  podUnlock finds  *)
(* the lock again by the pod's name, and drops it from the map with the    *)
(* last reference.  The bodies of podLock and podUnlock run under podsLock *)
(* and are single steps.                                                   *)
(***************************************************************************)
EXTENDS Integers, FiniteSets

CONSTANTS
  Workers,  \* goroutines that call the plugin manager
  Pods,     \* full pod names
  Locks,    \* addresses of podLock objects
  None

ASSUME WorkersAssumption == IsFiniteSet(Workers)
ASSUME NoneAssumption == None \notin Workers /\ None \notin Pods /\ None \notin Locks

VARIABLES
  pods,      \* PluginManager.pods; None is a missing key
  refcount,  \* podLock.refcount
  mu,        \* podLock.mu: the worker that has locked it, or None
  pc,        \* per worker: "idle", "locking", "operating"
  pod,       \* per worker: fullPodName
  lock       \* per worker: the lock whose mutex podLock returned

vars == <<pods, refcount, mu, pc, pod, lock>>

Init ==
  /\ pods = [p \in Pods |-> None]
  /\ refcount = [l \in Locks |-> 0]
  /\ mu = [l \in Locks |-> None]
  /\ pc = [w \in Workers |-> "idle"]
  /\ pod = [w \in Workers |-> None]
  /\ lock = [w \in Workers |-> None]

\* A new object: nothing refers to its address.
Unused(l) == (\A p \in Pods : pods[p] # l) /\ (\A w \in Workers : lock[w] # l)

Locking(w, p, l) ==
  /\ pc[w] = "idle"
  /\ pc' = [pc EXCEPT ![w] = "locking"]
  /\ pod' = [pod EXCEPT ![w] = p]
  /\ lock' = [lock EXCEPT ![w] = l]

\* Slip: a lock that is in the map already is not counted again.
podLockUncounted(w, p) ==
  \E l \in Locks :
    /\ Locking(w, p, l)
    /\ \/ pods[p] = l /\ UNCHANGED <<pods, refcount, mu>>
       \/ /\ pods[p] = None /\ Unused(l)
          /\ pods' = [pods EXCEPT ![p] = l]
          /\ refcount' = [refcount EXCEPT ![l] = 1]
          /\ mu' = [mu EXCEPT ![l] = None]

podLock(w, p) ==
  \E l \in Locks :
    /\ Locking(w, p, l)
    /\ \/ /\ pods[p] = l
          /\ refcount' = [refcount EXCEPT ![l] = @ + 1]
          /\ UNCHANGED <<pods, mu>>
       \/ /\ pods[p] = None /\ Unused(l)
          /\ pods' = [pods EXCEPT ![p] = l]
          /\ refcount' = [refcount EXCEPT ![l] = 1]
          /\ mu' = [mu EXCEPT ![l] = None]

\* The operation has the mutex and calls the plugin.
Lock(w) ==
  /\ pc[w] = "locking" /\ mu[lock[w]] = None
  /\ mu' = [mu EXCEPT ![lock[w]] = w]
  /\ pc' = [pc EXCEPT ![w] = "operating"]
  /\ UNCHANGED <<pods, refcount, pod, lock>>

Done(w) ==
  /\ pc[w] = "operating"
  /\ pc' = [pc EXCEPT ![w] = "idle"]
  /\ pod' = [pod EXCEPT ![w] = None]
  /\ lock' = [lock EXCEPT ![w] = None]

\* Slip: the lock leaves the map although others wait for it.
podUnlockDrops(w) ==
  LET l == pods[pod[w]]
  IN /\ Done(w)
     /\ pods' = [pods EXCEPT ![pod[w]] = None]
     /\ IF l = None THEN UNCHANGED <<refcount, mu>>
        ELSE /\ refcount' = [refcount EXCEPT ![l] = @ - 1]
             /\ mu' = [mu EXCEPT ![l] = None]

\* Slip: the mutex is unlocked with the last reference only.
podUnlockLast(w) ==
  LET l == pods[pod[w]]
  IN /\ Done(w)
     /\ refcount' = [refcount EXCEPT ![l] = @ - 1]
     /\ IF refcount[l] = 1
          THEN mu' = [mu EXCEPT ![l] = None] /\ pods' = [pods EXCEPT ![pod[w]] = None]
          ELSE UNCHANGED <<mu, pods>>

\* The plugin has returned; the deferred podUnlock.  A missing lock, or one
\* without references, is left locked.
podUnlock(w) ==
  LET l == pods[pod[w]]
      missing == l = None
      stale == ~missing /\ refcount[l] = 0
      last == ~missing /\ refcount[l] = 1
  IN /\ Done(w)
     /\ pods' = IF stale \/ last THEN [pods EXCEPT ![pod[w]] = None] ELSE pods
     /\ refcount' = IF missing \/ stale THEN refcount
                    ELSE [refcount EXCEPT ![l] = @ - 1]
     /\ mu' = IF missing \/ stale THEN mu ELSE [mu EXCEPT ![l] = None]

Next == \E w \in Workers : (\E p \in Pods : podLock(w, p)) \/ Lock(w) \/ podUnlock(w)

Spec == Init /\ [][Next]_vars

\* Plugin calls return, and a goroutine blocked on a sync.Mutex gets it when
\* it is unlocked often enough (a waiter that has starved is served first).
Fairness == \A w \in Workers : WF_vars(podUnlock(w)) /\ SF_vars(Lock(w))

-----------------------------------------------------------------------------
\* Every variable has its type.
TypeOK ==
  /\ pods \in [Pods -> Locks \cup {None}]
  /\ refcount \in [Locks -> Nat]
  /\ mu \in [Locks -> Workers \cup {None}]
  /\ pc \in [Workers -> {"idle", "locking", "operating"}]
  /\ pod \in [Workers -> Pods \cup {None}]
  /\ lock \in [Workers -> Locks \cup {None}]
  /\ \A w \in Workers : pc[w] # "idle" => pod[w] \in Pods /\ lock[w] \in Locks

\* Two operations of one pod are never in the plugin together, although a
\* pod may go through many lock objects.
MutualExclusion ==
  \A v, w \in Workers :
    pc[v] = "operating" /\ pc[w] = "operating" /\ pod[v] = pod[w] => v = w

\* Workers between podLock and podUnlock of pod p.
Users(p) == {w \in Workers : pc[w] # "idle" /\ pod[w] = p}

\* "Count of in-flight operations for this pod": podUnlock always finds the
\* lock its worker has locked, with a positive count, and the map holds the
\* locks of pods with operations in flight only.
RefcountIsUsers ==
  \A p \in Pods :
    /\ pods[p] # None => Users(p) # {} /\ refcount[pods[p]] = Cardinality(Users(p))
    /\ \A w \in Users(p) : pods[p] = lock[w]

\* "Network operations of other pods can proceed in parallel": a worker
\* waits only for a worker of the same pod.
OtherPodsProceed ==
  \A v, w \in Workers : pc[w] = "locking" /\ mu[lock[w]] = v => pod[v] = pod[w]

\* Every operation gets its turn in the plugin.
EveryOperationRuns == \A w \in Workers : []<>(pc[w] # "locking")

-----------------------------------------------------------------------------
phase == [w \in Workers |-> CASE pc[w] = "idle" -> "idle"
                              [] pc[w] = "locking" -> "waiting"
                              [] pc[w] = "operating" -> "running"]

Mutex == INSTANCE PodMutex

\* The locks implement the promise: every step is one of PodMutex's.
ImplementsPodMutex == Mutex!Spec
=============================================================================
