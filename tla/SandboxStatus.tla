--------------------------- MODULE SandboxStatus ---------------------------
(***************************************************************************)
(* PodSandboxStatus of one sandbox: the addresses it reports while the     *)
(* sandbox is run, stopped, and the process restarted.  A request inspects *)
(* the container, looks whether the network is ready, and asks the plugin, *)
(* three steps that nothing holds together; RunPodSandbox and              *)
(* StopPodSandbox are reduced to the steps that a request can tell apart.  *)
(***************************************************************************)
EXTENDS Naturals, Sequences

CONSTANTS StatusCallers, MaxStatusFaults

VARIABLES
  statusPod,  \* the plugin, the addresses its network gives, dual stack, host network
  box,        \* the sandbox's container
  netReady,   \* networkReady of the sandbox: "unknown" if it has no entry
  wired,      \* the addresses in the sandbox's network namespace
  cachedIPs,  \* podIPs of kubenet
  life,       \* the handler that works on the sandbox, and its next step
  asks,       \* per caller: its request for the status
  odd,        \* what happened that may leave half a network or hide one
  statusFaults

statusVars == <<statusPod, box, netReady, wired, cachedIPs, life, asks, odd, statusFaults>>

Protocols == {"v4", "v6"}

StatusPods ==
  {p \in [plugin : {"cni", "kubenet", "noop"}, ips : (SUBSET Protocols) \ {{}},
          dual : BOOLEAN, hostNetwork : BOOLEAN] :
     p.plugin = "kubenet" /\ ~p.dual => \E ip \in Protocols : p.ips = {ip}}

NoAsk == [pc |-> "idle", docker |-> {}, calm |-> FALSE, early |-> FALSE, ips |-> <<>>]

StatusInit ==
  /\ statusPod \in StatusPods /\ box = "none" /\ netReady = "unknown" /\ wired = {} /\ cachedIPs = {}
  /\ life = [pc |-> "create", of |-> "run"] /\ asks = [c \in StatusCallers |-> NoAsk]
  /\ odd = {} /\ statusFaults = 0

StatusFault == statusFaults < MaxStatusFaults /\ statusFaults' = statusFaults + 1

Goes(step) == life' = [life EXCEPT !.pc = step]

-----------------------------------------------------------------------------
\* RunPodSandbox creates the container.
RunCreates ==
  /\ life.pc = "create" /\ box' = "created" /\ Goes("mark")
  /\ UNCHANGED <<statusPod, netReady, wired, cachedIPs, asks, odd, statusFaults>>

\* setNetworkReady(false), a step after the container exists.
RunMarks ==
  /\ life.pc = "mark" /\ netReady' = "no" /\ Goes("start")
  /\ UNCHANGED <<statusPod, box, wired, cachedIPs, asks, odd, statusFaults>>

\* The container starts; docker itself gives it the addresses if there is no
\* plugin.  A failure to start is an error of the handler.  One to rewrite
\* resolv.conf is too, but in a variable that the deferred function does not see.
RunStarts ==
  /\ life.pc = "start"
  /\ \/ StatusFault /\ Goes("up") /\ UNCHANGED <<box, wired>>
     \/ /\ box' = "running"
        /\ wired' = IF statusPod.plugin = "noop" /\ ~statusPod.hostNetwork THEN statusPod.ips ELSE {}
        /\ \/ Goes(IF statusPod.hostNetwork \/ statusPod.plugin = "noop" THEN "ready" ELSE "wire")
              /\ UNCHANGED statusFaults
           \/ StatusFault /\ Goes("unready")
  /\ UNCHANGED <<statusPod, netReady, cachedIPs, asks, odd>>

\* SetUpPod under the pod's lock: an address at a time, then the rest of the
\* set-up, which may fail anywhere.  kubenet keeps the addresses once it has all.
RunWires ==
  /\ life.pc = "wire"
  /\ \/ \E ip \in statusPod.ips \ wired :
          /\ wired' = wired \cup {ip}
          /\ cachedIPs' = IF statusPod.plugin = "kubenet" /\ wired' = statusPod.ips THEN statusPod.ips ELSE cachedIPs
          /\ UNCHANGED <<life, statusFaults>>
     \/ wired = statusPod.ips /\ Goes("ready") /\ UNCHANGED <<wired, cachedIPs, statusFaults>>
     \/ StatusFault /\ Goes("undo") /\ UNCHANGED <<wired, cachedIPs>>
  /\ UNCHANGED <<statusPod, box, netReady, asks, odd>>

\* The deferred function: the network is ready if the last error is nil.
RunEnds ==
  /\ life.pc \in {"ready", "unready"} /\ netReady' = "yes"
  /\ Goes(IF life.pc = "ready" THEN "serving" ELSE "up")
  /\ UNCHANGED <<statusPod, box, wired, cachedIPs, asks, odd, statusFaults>>

\* The clean-up of a set-up that failed takes the lock again.
RunUndoes ==
  /\ life.pc = "undo" /\ Goes("tear")
  /\ UNCHANGED <<statusPod, box, netReady, wired, cachedIPs, asks, odd, statusFaults>>

\* StopPodSandbox: the network is torn down unless that was done before.
StopBegins ==
  /\ life.pc \in {"serving", "up"}
  /\ life' = [of |-> "stop", pc |-> IF ~statusPod.hostNetwork /\ netReady # "no" THEN "tear" ELSE "halt"]
  /\ asks' = [c \in StatusCallers |-> [asks[c] EXCEPT !.calm = FALSE]]
  /\ UNCHANGED <<statusPod, box, netReady, wired, cachedIPs, odd, statusFaults>>

\* TearDownPod under the pod's lock.  A failure leaves what is not yet removed,
\* and the sandbox ready.
TearsDown ==
  /\ life.pc = "tear"
  /\ \/ \E ip \in wired :
          /\ statusPod.plugin # "noop" /\ wired' = wired \ {ip} /\ cachedIPs' = cachedIPs \ {ip}
          /\ UNCHANGED <<life, netReady, odd, statusFaults>>
     \/ /\ wired = {} \/ statusPod.plugin = "noop"
        /\ netReady' = IF life.of = "stop" THEN "no" ELSE netReady
        /\ Goes("halt") /\ UNCHANGED <<wired, cachedIPs, odd, statusFaults>>
     \/ StatusFault /\ Goes("halt") /\ odd' = odd \cup {"torn"} /\ UNCHANGED <<wired, cachedIPs, netReady>>
  /\ UNCHANGED <<statusPod, box, asks>>

\* StopContainer, the last call of both: in RunPodSandbox its nil error is what
\* the deferred function sees.
Halts ==
  /\ life.pc = "halt" /\ Goes("up")
  /\ \/ /\ box' = "stopped" /\ wired' = {}
        /\ netReady' = IF life.of = "run" THEN "yes" ELSE netReady
        /\ UNCHANGED statusFaults
     \/ StatusFault /\ UNCHANGED <<box, wired, netReady>>
  /\ UNCHANGED <<statusPod, cachedIPs, asks, odd>>

\* The process ends and starts again; the sandbox stays as it is.
StatusRestart ==
  /\ life.pc # "create" /\ netReady' = "unknown" /\ cachedIPs' = {}
  /\ life' = [life EXCEPT !.pc = IF @ = "serving" THEN @ ELSE "up"]
  /\ asks' = [c \in StatusCallers |-> NoAsk]
  /\ odd' = IF wired \in {{}, statusPod.ips} THEN odd ELSE odd \cup {"died"}
  /\ UNCHANGED <<statusPod, box, wired, statusFaults>>

-----------------------------------------------------------------------------
\* The lock of the pod, held by SetUpPod and TearDownPod.
podLocked == life.pc \in {"wire", "tear"}

InOrder(S) == (IF "v4" \in S THEN <<"v4">> ELSE <<>>) \o (IF "v6" \in S THEN <<"v6">> ELSE <<>>)

\* getCachedPodIPs lists a set: in any order.
InAnyOrder(S) == {InOrder(S)} \cup (IF S = Protocols THEN {<<"v6", "v4">>} ELSE {})

\* How GetPodNetworkStatus of the plugin may list the addresses S: kubenet answers
\* from its cache, also when it has just read them.
Listed(S) == IF statusPod.plugin = "kubenet" THEN InAnyOrder(S) ELSE {InOrder(S)}

\* The first address only, of the family that is tried first, without dual stack.
GetPodIPs(S) == IF statusPod.dual \/ "v4" \notin S THEN S ELSE {"v4"}

\* getPodSandboxDetails: docker knows of addresses if it gave them.
StatusBegins(c) ==
  /\ asks[c].pc \in {"idle", "done"} /\ box # "none"
  /\ asks' = [asks EXCEPT ![c] =
       [pc |-> "checks", docker |-> IF statusPod.plugin = "noop" THEN wired ELSE {},
        calm |-> life.pc = "serving", early |-> FALSE, ips |-> <<>>]]
  /\ UNCHANGED <<statusPod, box, netReady, wired, cachedIPs, life, odd, statusFaults>>

\* getIPs, to where it asks the plugin: not on the host's network, and not if
\* the sandbox is known and its network is not ready.
ChecksReady(c) ==
  /\ asks[c].pc = "checks"
  /\ asks' = [asks EXCEPT
       ![c].pc = IF statusPod.hostNetwork \/ netReady = "no" THEN "done" ELSE "asks",
       ![c].early = life.pc = "mark"]
  /\ UNCHANGED <<statusPod, box, netReady, wired, cachedIPs, life, odd, statusFaults>>

\* The addresses of the plugin, or docker's if it has none.
StatusAnswer(c, S) ==
  \E ips \in (IF S = {} THEN {InOrder(asks[c].docker)} ELSE Listed(S)) :
    asks' = [asks EXCEPT ![c].pc = "done", ![c].ips = ips]

\* nsenter and ip in the namespace of a running container, once per family;
\* a family whose command fails is left out.  kubenet keeps what it read.
Reads(c) ==
  /\ box = "running"
  /\ \E read \in SUBSET wired :
       /\ IF read = wired THEN UNCHANGED <<statusFaults, odd>>
          ELSE StatusFault /\ odd' = odd \cup {"unread"}
       /\ StatusAnswer(c, GetPodIPs(read))
       /\ cachedIPs' = IF statusPod.plugin = "kubenet" THEN GetPodIPs(read) ELSE cachedIPs

\* GetPodNetworkStatus of the plugin.
PluginStatus(c) ==
  /\ \/ statusPod.plugin # "noop" /\ cachedIPs = {} /\ Reads(c)
     \/ cachedIPs # {} /\ StatusAnswer(c, cachedIPs) /\ UNCHANGED <<cachedIPs, odd, statusFaults>>
     \/ /\ statusPod.plugin = "noop" \/ (cachedIPs = {} /\ box # "running")
        /\ StatusAnswer(c, {}) /\ UNCHANGED <<cachedIPs, odd, statusFaults>>
  /\ UNCHANGED <<statusPod, box, netReady, wired, life>>

\* Slip: the plugin is asked without the pod's lock.
AsksPluginUnlocked(c) == asks[c].pc = "asks" /\ PluginStatus(c)

\* GetPodNetworkStatus of the plugin manager.
AsksPlugin(c) == asks[c].pc = "asks" /\ ~podLocked /\ PluginStatus(c)

StatusNext ==
  \/ RunCreates \/ RunMarks \/ RunStarts \/ RunWires \/ RunEnds \/ RunUndoes
  \/ StopBegins \/ TearsDown \/ Halts \/ StatusRestart
  \/ \E c \in StatusCallers : StatusBegins(c) \/ ChecksReady(c) \/ AsksPlugin(c)

StatusSpec == StatusInit /\ [][StatusNext]_statusVars

-----------------------------------------------------------------------------
\* The addresses that a healthy sandbox reports.
AllIPs ==
  IF statusPod.hostNetwork THEN {} ELSE IF statusPod.plugin = "noop" THEN statusPod.ips
                                        ELSE GetPodIPs(statusPod.ips)

\* A status reports all the addresses of the pod or none: it does not show a
\* network that is being set up, one whose set-up failed or one that is being torn
\* down.  The IPv4 address comes first, but for kubenet, whose two addresses come
\* in any order.  Not so if a teardown failed half-way, the process died in one,
\* a family could not be read, or the request found the sandbox before it was
\* marked as not ready.  A sandbox that RunPodSandbox answered with success, and
\* that nobody stops during the request, has its addresses in its status, after a
\* restart that forgot networkReady as well.
AddressesTold ==
  \A c \in StatusCallers : asks[c].pc = "done" =>
    /\ ~asks[c].early /\ odd = {} => asks[c].ips \in {<<>>} \cup Listed(AllIPs)
    /\ asks[c].calm /\ "unread" \notin odd => asks[c].ips \in Listed(AllIPs)

\* "We look for an ipv4 address before ipv6" (getIPs): the address that a status
\* gives as that of the pod is the IPv4 one, if the pod has one.
IPv4First ==
  \A c \in StatusCallers :
    asks[c].pc = "done" /\ (\E i \in DOMAIN asks[c].ips : asks[c].ips[i] = "v4") => Head(asks[c].ips) = "v4"
=============================================================================
