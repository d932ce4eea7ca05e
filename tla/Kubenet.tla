------------------------------ MODULE Kubenet -------------------------------
(***************************************************************************)
(* The kubenet plugin: SetUpPod, TearDownPod, GetPodNetworkStatus and the  *)
(* pod CIDR event, over the CNI bridge plugin and its address management   *)
(* (external), the traffic shaper and the host port managers.  The plugin  *)
(* manager lets one operation of a pod in at a time (PluginManager,        *)
(* MutualExclusion), so a pod has one operation; the operations of         *)
(* different pods interleave between any two commands.  A command may      *)
(* fail, and one that changes state elsewhere may fail after it had its    *)
(* effect.  The process may die between two steps: what it keeps in memory *)
(* is lost, what it told the kernel stays.                                 *)
(***************************************************************************)
EXTENDS HostportManager, BandwidthShaper

CONSTANTS
  Addrs,            \* addresses the bridge can give, each <<family, number>>
  Limits,           \* per pod: the directions its annotations limit, in order
  CIDREvents,       \* the lists of CIDRs an event can bring, as families;
                    \* "bad" is one that does not parse
  DualStack,        \* config.IPv6DualStackEnabled
  NonMasquerade,    \* the family of nonMasqueradeCIDR, "" if it is everything
  MaxCIDRs,         \* bound on Len(podCIDRs)
  KubenetFaults,    \* bound on failing commands
  KubenetRestarts,  \* bound on restarts
  NoAddr            \* no address

ASSUME KubenetAssumption ==
  /\ {MaxClass, MaxCIDRs, KubenetFaults, KubenetRestarts} \subseteq Nat
  /\ \A a \in Addrs : a[1] \in Families

VARIABLES
  netConfig,  \* the families of the plugin's network; <<>> is nil
  podCIDRs,   \* the families of the CIDRs taken from events
  podIPs,     \* per pod: its cached addresses
  leases,     \* per pod: the addresses the bridge plugin holds for it
  op,         \* per pod: the operation in progress
  result,     \* per pod: how its last operation ended
  lost,       \* history: pods whose addresses were forgotten before everything
              \* that depends on them was gone
  unserved,   \* history: pods whose Add failed though no command failed and
              \* their host ports were free
  contested,  \* history: pods given an address another had still cached
  inherits,   \* history: pods given an address that had a filter
  kfaults,    \* number of failures so far
  restarts    \* number of restarts so far

pastVars == <<lost, unserved, contested, inherits>>
kubenetVars == <<hostportVars, tcVars, netConfig, podCIDRs, podIPs, leases, op, result,
                 pastVars, kfaults, restarts>>

\* todo: addresses the current loop has not done; ip: the one at hand; want:
\* directions of it still to limit; class: what nextClassID returned; maps:
\* the teardown has read the port mappings.
NoOp == [pc |-> "idle", setup |-> FALSE, err |-> FALSE, todo |-> {}, ip |-> NoAddr,
         want |-> <<>>, class |-> 0, maps |-> TRUE]

Outbound(t) == EnsureRule(t, <<"POSTROUTING">>, Rule(<<"outbound">>, Masquerade))

Masqueraded(ts) == IF NonMasquerade = "" THEN ts ELSE [ts EXCEPT ![NonMasquerade] = Outbound(@)]

KubenetInit ==
  /\ nat = Masqueraded([f \in Families |-> EmptyTable]) /\ hostPortMap = [f \in Families |-> <<>>]
  /\ ShaperInit
  /\ netConfig = <<>> /\ podCIDRs = <<>>
  /\ podIPs = [p \in Pods |-> {}] /\ leases = [p \in Pods |-> {}]
  /\ op = [p \in Pods |-> NoOp] /\ result = [p \in Pods |-> "new"]
  /\ lost = {} /\ unserved = {} /\ contested = {} /\ inherits = {}
  /\ kfaults = 0 /\ restarts = 0

Fails == kfaults < KubenetFaults /\ kfaults' = kfaults + 1
Works == kfaults' = kfaults

At(p, l) == op[p].pc = l

\* setup has returned an error: SetUpPod goes on with teardown.
Rollback(p) == op' = [op EXCEPT ![p].pc = "del"] /\ UNCHANGED result

Finish(p, res) == op' = [op EXCEPT ![p] = NoOp] /\ result' = [result EXCEPT ![p] = res]

\* ensureMasqRule after an operation; an error is logged only.
ensureMasqRule == nat' = Masqueraded(nat)

-----------------------------------------------------------------------------
\* The CIDRs before the first that does not parse are kept in any case.
Event ==
  /\ netConfig = <<>>
  /\ \E cidrs \in CIDREvents :
       LET seen == IF DualStack THEN cidrs ELSE SubSeq(cidrs, 1, 1)
           good == SelectInSeq(seen, LAMBDA c : c = "bad")
           kept == IF good = 0 THEN seen ELSE SubSeq(seen, 1, good - 1)
       IN /\ Len(podCIDRs) + Len(kept) <= MaxCIDRs
          /\ podCIDRs' = podCIDRs \o kept
          /\ netConfig' = IF good = 0 THEN podCIDRs' ELSE <<>>
  /\ UNCHANGED <<hostportVars, tcVars, podIPs, leases, op, result, pastVars, kfaults, restarts>>

\* Without a network, or without the CNI binaries, SetUpPod returns at once.
SetUpPod(p) ==
  /\ At(p, "idle") /\ result[p] = "new"
  /\ \/ /\ netConfig # <<>> /\ Works
        /\ op' = [op EXCEPT ![p].pc = "add", ![p].setup = TRUE] /\ UNCHANGED result
     \/ netConfig = <<>> /\ Works /\ Finish(p, "setUpFailed")
     \/ netConfig # <<>> /\ Fails /\ Finish(p, "setUpFailed")
  /\ UNCHANGED <<hostportVars, tcVars, netConfig, podCIDRs, podIPs, leases, pastVars, restarts>>

Leased == UNION {leases[p] : p \in Pods}

\* What the bridge plugin may hand out: a free address in each range.  Ranges
\* that overlap are refused.
Offers ==
  {as \in SUBSET (Addrs \ Leased) :
     /\ IsInjective(netConfig) /\ Cardinality(as) = Len(netConfig)
     /\ {a[1] : a \in as} = ToSet(netConfig)}

\* The loopback and then the bridge; loopback leaves nothing outside the
\* pod's own namespace.  The addresses are cached.
AddToNetwork(p) ==
  /\ At(p, "add")
  /\ \/ \E as \in Offers :
          /\ leases' = [leases EXCEPT ![p] = as]
          /\ contested' = IF \E q \in Pods : as \cap podIPs[q] # {} THEN contested \cup {p} ELSE contested
          /\ inherits' = IF \E x \in filters : x.cidr \in as THEN inherits \cup {p} ELSE inherits
          /\ \/ /\ Works
                /\ podIPs' = [podIPs EXCEPT ![p] = @ \cup as]
                /\ op' = [op EXCEPT ![p].pc = "shaper"] /\ UNCHANGED result
             \/ Fails /\ Rollback(p) /\ UNCHANGED podIPs
     \/ (IF Offers = {} THEN Works ELSE Fails) /\ Rollback(p) /\ UNCHANGED <<podIPs, leases, contested, inherits>>
  /\ UNCHANGED <<hostportVars, tcVars, netConfig, podCIDRs, lost, unserved, restarts>>

\* addTrafficShaping: the shaper is there after this step, and the pod's
\* annotations are parsed.
Shaper(p) ==
  /\ At(p, "shaper")
  /\ \/ ReconcileInterface(FALSE) /\ Works
     \/ ~shaper /\ qdisc # "htb" /\ ReconcileInterface(TRUE) /\ Fails
  /\ UNCHANGED <<classes, filters>>
  /\ IF Limits[p] = <<"bad">> THEN Rollback(p)
     ELSE /\ op' = [op EXCEPT ![p].pc = "shape",
                             ![p].todo = IF Limits[p] = <<>> THEN {} ELSE podIPs[p]]
          /\ UNCHANGED result
  /\ UNCHANGED <<hostportVars, netConfig, podCIDRs, podIPs, leases, pastVars, restarts>>

\* An address that has a filter is left as it is.  After the last one
\* addPortMapping reads the pod's port mappings.
ReconcileCIDR(p) ==
  /\ At(p, "shape")
  /\ \/ /\ op[p].todo = {} /\ Works
        /\ op' = [op EXCEPT ![p].pc = "ports",
                           ![p].todo = IF PortMappings[p] = <<>> THEN {} ELSE podIPs[p]]
        /\ UNCHANGED result
     \/ \E a \in op[p].todo :
          /\ Works
          /\ op' = IF findCIDRClass(a) # {} THEN [op EXCEPT ![p].todo = @ \ {a}]
                   ELSE [op EXCEPT ![p].pc = "limit", ![p].todo = @ \ {a}, ![p].ip = a,
                                   ![p].want = Limits[p]]
          /\ UNCHANGED result
     \/ Fails /\ Rollback(p)
  /\ UNCHANGED <<hostportVars, tcVars, netConfig, podCIDRs, podIPs, leases, pastVars, restarts>>

\* Limit: a class and a filter for each direction.
NextClass(p) ==
  /\ At(p, "limit")
  /\ \/ /\ op[p].want = <<>> /\ Works
        /\ op' = [op EXCEPT ![p].pc = "shape"] /\ UNCHANGED result
     \/ /\ op[p].want # <<>> /\ FreeClasses # {} /\ Works
        /\ op' = [op EXCEPT ![p].pc = "addClass", ![p].class = nextClassID] /\ UNCHANGED result
     \/ op[p].want # <<>> /\ FreeClasses = {} /\ Works /\ Rollback(p)
     \/ op[p].want # <<>> /\ Fails /\ Rollback(p)
  /\ UNCHANGED <<hostportVars, tcVars, netConfig, podCIDRs, podIPs, leases, pastVars, restarts>>

MakeNewClass(p) ==
  /\ At(p, "addClass")
  /\ \/ /\ CanAddClass(op[p].class) /\ Works /\ AddClass(op[p].class)
        /\ op' = [op EXCEPT ![p].pc = "addFilter"] /\ UNCHANGED result
     \/ ~CanAddClass(op[p].class) /\ Works /\ Rollback(p) /\ UNCHANGED tcVars
     \/ CanAddClass(op[p].class) /\ Fails /\ Rollback(p) /\ UNCHANGED tcVars
  /\ UNCHANGED <<hostportVars, netConfig, podCIDRs, podIPs, leases, pastVars, restarts>>

\* Slip: the second direction is forgotten.
LimitDirectionOnce(p) ==
  /\ At(p, "addFilter") /\ Works
  /\ AddFilter(op[p].ip, Head(op[p].want), op[p].class, p)
  /\ op' = [op EXCEPT ![p].pc = "limit", ![p].want = <<>>]
  /\ UNCHANGED <<result, hostportVars, netConfig, podCIDRs, podIPs, leases, pastVars, restarts>>

LimitDirection(p) ==
  /\ At(p, "addFilter")
  /\ \/ /\ Works /\ AddFilter(op[p].ip, Head(op[p].want), op[p].class, p)
        /\ op' = [op EXCEPT ![p].pc = "limit", ![p].want = Tail(@)] /\ UNCHANGED result
     \/ Fails /\ Rollback(p) /\ UNCHANGED tcVars
  /\ UNCHANGED <<hostportVars, netConfig, podCIDRs, podIPs, leases, pastVars, restarts>>

\* addPortMapping: the manager of one address makes the chains all mappings
\* share.  After the last address SetUpPod returns.
EnsureChains(p) ==
  /\ At(p, "ports")
  /\ \/ op[p].todo = {} /\ ensureMasqRule /\ Works /\ Finish(p, "up")
     \/ \E a \in op[p].todo :
          /\ op' = [op EXCEPT ![p].pc = "addPorts", ![p].todo = @ \ {a}, ![p].ip = a]
          /\ IF NoHostports(p, a[1]) THEN UNCHANGED nat
             ELSE ensureKubeHostportChains(a[1], 4)
          /\ Works /\ UNCHANGED result
     \/ /\ Fails /\ Rollback(p)
        /\ \E a \in op[p].todo, n \in 0..3 :
             ~NoHostports(p, a[1]) /\ ensureKubeHostportChains(a[1], n)
  /\ UNCHANGED <<hostPortMap, tcVars, netConfig, podCIDRs, podIPs, leases, pastVars, restarts>>

\* Add.  A port is taken, or a command fails, or the sockets are open and
\* iptables-restore takes the lines or refuses them.
AddPorts(p) ==
  LET f == op[p].ip[1]
  IN /\ At(p, "addPorts")
     /\ \/ /\ NoHostports(p, f) /\ UNCHANGED <<hostportVars, unserved>>
           /\ op' = [op EXCEPT ![p].pc = "ports"] /\ Works /\ UNCHANGED result
        \/ /\ ~NoHostports(p, f) /\ Rollback(p) /\ UNCHANGED <<hostportVars, unserved>>
           /\ IF Taken(p, f) \/ ~CanOpen(p, f) THEN Works ELSE Fails
        \/ /\ ~NoHostports(p, f) /\ CanOpen(p, f)
           /\ \E stuck \in SUBSET ToSet(ToOpen(p, f)) :
                /\ AddHostports(p, f, op[p].ip, stuck)
                /\ IF stuck = {} THEN Works ELSE ~AddLoads(p, f, op[p].ip) /\ Fails
           /\ IF AddLoads(p, f, op[p].ip)
                THEN op' = [op EXCEPT ![p].pc = "ports"] /\ UNCHANGED <<result, unserved>>
                ELSE Rollback(p) /\ unserved' = unserved \cup {p}
     /\ UNCHANGED <<tcVars, netConfig, podCIDRs, podIPs, leases, lost, contested, inherits, restarts>>

-----------------------------------------------------------------------------
TearDownPod(p) ==
  /\ At(p, "idle") /\ result[p] # "new" /\ Works
  /\ IF netConfig = <<>> THEN Finish(p, "tearDownFailed")
     ELSE op' = [op EXCEPT ![p].pc = "del"] /\ UNCHANGED result
  /\ lost' = IF podIPs[p] # {} /\ leases[p] \subseteq podIPs[p] THEN lost \ {p} ELSE lost
  /\ UNCHANGED <<hostportVars, tcVars, netConfig, podCIDRs, podIPs, leases, unserved, contested,
                 inherits, restarts>>

\* What SetUpPod or TearDownPod returns after a teardown that ended with err.
TornDown(p, err) ==
  IF op[p].setup THEN "setUpFailed" ELSE IF err THEN "tearDownFailed" ELSE "tornDown"

\* The bridge plugin deletes the interface and frees the addresses, or fails.
delContainerFromNetwork(p, deleted) == leases' = IF deleted THEN [leases EXCEPT ![p] = {}] ELSE leases

\* The loopback and then the bridge is deleted.  An error that says "no such file
\* or directory" is ignored, whichever file it is about.  If no address is cached,
\* teardown returns without an error here, whatever happened before.  Otherwise
\* it reads the port mappings, and goes on without them if it can't.
DelFromNetwork(p) ==
  /\ At(p, "del")
  /\ \E deleted, failed, read \in BOOLEAN :
       LET ignored == ~deleted /\ ~failed
           faulty == ~deleted \/ failed \/ ~read
       IN /\ read \/ (deleted /\ ~failed)
          /\ IF faulty THEN Fails ELSE Works
          /\ delContainerFromNetwork(p, deleted)
          /\ IF podIPs[p] = {}
               THEN /\ read /\ Finish(p, TornDown(p, FALSE))
                    /\ IF op[p].setup THEN UNCHANGED nat ELSE ensureMasqRule
                    /\ lost' = IF ignored \/ (failed /\ op[p].setup) THEN lost \cup {p} ELSE lost
               ELSE /\ op' = [op EXCEPT ![p].pc = "unmap", ![p].todo = podIPs[p],
                                       ![p].maps = read, ![p].err = failed \/ ~read]
                    /\ lost' = IF ignored THEN lost \cup {p} ELSE lost
                    /\ UNCHANGED <<nat, result>>
  /\ UNCHANGED <<hostPortMap, tcVars, netConfig, podCIDRs, podIPs, unserved, contested, inherits,
                 restarts>>

\* The host ports of one address, if there are port mappings.  Remove may fail
\* before it did anything, and at the closing of a socket.
UnmapPorts(p) ==
  /\ At(p, "unmap")
  /\ \E a \in op[p].todo :
       LET f == a[1]
           goto(err) == op' = [op EXCEPT ![p].pc = "reset", ![p].todo = @ \ {a},
                                        ![p].ip = a, ![p].err = @ \/ err]
       IN IF ~op[p].maps \/ NoHostports(p, f)
            THEN goto(FALSE) /\ Works /\ UNCHANGED hostportVars
            ELSE \/ goto(TRUE) /\ Fails /\ UNCHANGED hostportVars
                 \/ \E stuck \in SUBSET (HostportsOf(p, f) \cap DOMAIN hostPortMap[f]) :
                      /\ RemoveHostports(p, f, stuck)
                      /\ goto(stuck # {} \/ ~RemoveLoads(p, f))
                      /\ IF stuck = {} THEN Works ELSE Fails
  /\ UNCHANGED <<tcVars, netConfig, podCIDRs, podIPs, leases, result, pastVars, restarts>>

\* The limits of the address, after the first use of the shaper in this life has
\* set up the bridge; errors are logged only.  The address is dropped from the
\* cache in any case.  After the last one teardown returns.
ResetShaping(p) ==
  /\ At(p, "reset")
  /\ podIPs' = [podIPs EXCEPT ![p] = @ \ {op[p].ip}]
  /\ \E broken, failed \in BOOLEAN :
       /\ failed => findCIDRClass(op[p].ip) # {}
       /\ broken => ~shaper /\ qdisc # "htb"
       /\ ReconcileInterface(broken) /\ Reset(op[p].ip, failed)
       /\ IF failed \/ broken THEN Fails ELSE Works
       /\ lost' = IF failed \/ op[p].err THEN lost \cup {p} ELSE lost
  /\ IF op[p].todo # {}
       THEN op' = [op EXCEPT ![p].pc = "unmap"] /\ UNCHANGED <<nat, result>>
       ELSE /\ Finish(p, TornDown(p, op[p].err))
            /\ IF op[p].setup \/ op[p].err THEN UNCHANGED nat ELSE ensureMasqRule
  /\ UNCHANGED <<hostPortMap, netConfig, podCIDRs, leases, unserved, contested, inherits, restarts>>

-----------------------------------------------------------------------------
\* Addresses that are not cached are read in the pod's network namespace, one
\* family after the other, and those that could be read are cached.
GetPodNetworkStatus(p) ==
  /\ At(p, "idle") /\ result[p] # "new" /\ podIPs[p] = {} /\ leases[p] # {}
  /\ \E as \in SUBSET leases[p] \ {{}} :
       /\ IF as = leases[p] THEN Works ELSE Fails
       /\ podIPs' = [podIPs EXCEPT ![p] = as]
  /\ UNCHANGED <<hostportVars, tcVars, netConfig, podCIDRs, leases, op, result, pastVars,
                 restarts>>

\* The process dies with its sockets and its memory, and Init runs again.
Restart ==
  /\ restarts < KubenetRestarts /\ restarts' = restarts + 1
  /\ lost' = lost \cup {p \in Pods : ~At(p, "idle") \/ podIPs[p] \cup leases[p] # {}}
  /\ hostPortMap' = [f \in Families |-> <<>>] /\ ensureMasqRule
  /\ shaper' = FALSE /\ netConfig' = <<>> /\ podCIDRs' = <<>>
  /\ podIPs' = [p \in Pods |-> {}]
  /\ op' = [p \in Pods |-> NoOp]
  /\ result' = [p \in Pods |-> IF At(p, "idle") THEN result[p] ELSE "interrupted"]
  /\ UNCHANGED <<qdisc, classes, filters, leases, unserved, contested, inherits, kfaults>>

KubenetStep(p) ==
  \/ SetUpPod(p) \/ AddToNetwork(p) \/ Shaper(p) \/ ReconcileCIDR(p) \/ NextClass(p)
  \/ MakeNewClass(p) \/ LimitDirection(p) \/ EnsureChains(p) \/ AddPorts(p)
  \/ TearDownPod(p) \/ DelFromNetwork(p) \/ UnmapPorts(p) \/ ResetShaping(p)
  \/ GetPodNetworkStatus(p)

KubenetNext == Event \/ Restart \/ \E p \in Pods : KubenetStep(p)

KubenetSpec == KubenetInit /\ [][KubenetNext]_kubenetVars

-----------------------------------------------------------------------------
(* Correctness.                                                            *)

Idle(p) == At(p, "idle")

\* A set-up that failed has been rolled back and a teardown that succeeded is
\* complete: no address, no socket and no limit of the pod is left.  Except when
\* its addresses were forgotten on the way: teardown drops the errors it has
\* collected if no address is cached (kubenet_linux.go:579), takes an address
\* out of the cache whatever failed before (626), and ignores the failure of the
\* bridge plugin that says "no such file or directory" (827).
Released ==
  \A p \in Pods :
    Idle(p) /\ result[p] \in {"setUpFailed", "tornDown"} /\ p \notin lost =>
      /\ leases[p] = {}
      /\ \A f \in Families : p \notin Range(hostPortMap[f])
      /\ \A x \in filters : x.owner # p

\* A pod that is set up is limited in the directions it asks for, by limits of
\* its own: there is a filter of the pod, it leads to a class, and no other filter
\* does.  Except for a pod whose address another pod's teardown still worked on,
\* which may take the limits away; and a pod whose address came with a filter that
\* a failed teardown or a restart had left behind, which it has instead of its own.
Limited ==
  /\ \A p \in Pods \ contested :
       Idle(p) /\ result[p] = "up" =>
         \A a \in leases[p], d \in ToSet(Limits[p]) :
           \E x \in filters : x.cidr = a /\ (p \in inherits \/ (x.dir = d /\ x.owner = p))
  /\ \A x \in filters : x.class \in classes
  /\ \A x, y \in filters : x.class = y.class => x = y

\* An operation of a pod leaves the limits of the other pods alone, though limits
\* are found by address and an address may have had another pod before; unless
\* that pod's teardown still worked on it when it was given to this one.
OthersKept ==
  [][\A p \in Pods \ contested : op'[p] = op[p] =>
       \A x \in filters : x.owner = p /\ x.cidr \in leases[p] => x \in filters']_kubenetVars

\* "Add implements port mappings" (hostport_manager.go:43): it succeeds if the
\* ports are free and no command fails.
PortsMapped == unserved = {}
=============================================================================
