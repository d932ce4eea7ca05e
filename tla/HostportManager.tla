-------------------------- MODULE HostportManager ---------------------------
(***************************************************************************)
(* network/hostport: the host ports of pods.  A manager, one for each      *)
(* family of addresses, opens a socket on every host port of a pod, so     *)
(* that nobody else takes the port, and writes to the nat table, for every *)
(* port mapping, a chain of its own that redirects to the pod, with a jump *)
(* to it from KUBE-HOSTPORTS.  Add and Remove work on the sockets and the  *)
(* table under one mutex and are one step each; the chains all mappings    *)
(* share are made before the mutex is taken.                               *)
(*                                                                         *)
(* A socket is named by the pod whose Add opened it.                       *)
(***************************************************************************)
EXTENDS Integers, FiniteSets, IPTables

CONSTANTS
  Pods,          \* sandbox IDs
  Families,      \* IP families, "4" and "6": one manager each
  PortMappings   \* per pod: its sequence of port mappings

VARIABLES
  nat,         \* per family: the nat table
  hostPortMap  \* per family: hostportManager.hostPortMap

hostportVars == <<nat, hostPortMap>>

kubeHostportsChain == <<"KUBE-HOSTPORTS">>
Masquerade == <<"MASQUERADE">>
DNAT == <<"DNAT">>

\* A hash of the four, 16 characters of it, taken to be injective.
getHostportChain(id, pm) == <<"KUBE-HP", id, pm.hostPort, pm.protocol, pm.hostIP>>

\* hostIP is the family of the mapping's HostIP, "" if it has none.
gatherHostportMappings(pms, f) ==
  SelectSeq(pms, LAMBDA pm : pm.hostPort > 0 /\ pm.hostIP \in {"", f})

portMappingToHostport(pm, f) ==
  [ipFamily |-> f, ip |-> pm.hostIP, port |-> pm.hostPort, protocol |-> pm.protocol]

Hostports(pms, f) == [i \in DOMAIN pms |-> portMappingToHostport(pms[i], f)]

\* The ports openHostports opens: no port is opened for SCTP.
ToOpen(id, f) ==
  Hostports(SelectSeq(gatherHostportMappings(PortMappings[id], f),
                      LAMBDA pm : pm.protocol # "sctp"), f)

\* Opening stops at the first port that is taken and then closes what it opened:
\* all ports are opened, or none.  A mapping that is there twice is in its own way.
CanOpen(id, f) == IsInjective(ToOpen(id, f))

\* A socket is on one of the ports, as far as the manager knows.
Taken(id, f) == ToSet(ToOpen(id, f)) \cap DOMAIN hostPortMap[f] # {}

Opened(id, f) == [hp \in ToSet(ToOpen(id, f)) |-> id] @@ hostPortMap[f]

\* The ports of the mappings of a pod.
HostportsOf(id, f) == ToSet(Hostports(gatherHostportMappings(PortMappings[id], f), f))

\* Sockets are closed whoever opened them; those in stuck fail to close and stay.
closeHostports(sockets, hps, stuck) == [hp \in DOMAIN sockets \ (hps \ stuck) |-> sockets[hp]]

-----------------------------------------------------------------------------
\* The four changes of ensureKubeHostportChains, in order.
Ensured(t, n) ==
  LET made == EnsureChain(t, kubeHostportsChain)
      jumps == <<RuleLine("-A", <<"OUTPUT">>, Rule(<<"local">>, kubeHostportsChain)),
                 RuleLine("-A", <<"PREROUTING">>, Rule(<<"local">>, kubeHostportsChain)),
                 RuleLine("-A", <<"POSTROUTING">>, Rule(<<"localhost">>, Masquerade))>>
  IN IF n = 0 THEN t
     ELSE FoldLeft(LAMBDA u, l : EnsureRule(u, l.chain, l.rule), made, SubSeq(jumps, 1, n - 1))

\* The first n of them are made.
ensureKubeHostportChains(f, n) == nat' = [nat EXCEPT ![f] = Ensured(@, n)]

\* Chains and rules of host ports in the table.
IsHostportChain(c) == c = kubeHostportsChain \/ c[1] = "KUBE-HP"

ExistingChains(t) == {c \in DOMAIN t : IsHostportChain(c)}

ExistingRules(t) == SaveInto(t, ExistingChains(t))

\* Rules that are in none of the chains cs and lead to none.
filterRules(lines, cs) ==
  SelectSeq(lines, LAMBDA l : l.chain \notin cs /\ l.rule.to \notin cs)

\* The value kept for an existing chain is not its line but "{}", the JSON of an
\* empty struct.  Add and Remove write it all the same.
ValueLine(c) == RuleLine("{}", c, Rule(<<>>, <<>>))
ValueLines(cs) == LET seq == SetToSeq(cs) IN [i \in DOMAIN seq |-> ValueLine(seq[i])]

\* What Add writes for one mapping.  The jump goes in front of the others.
MappingLines(id, pm, ip) ==
  LET c == getHostportChain(id, pm)
  IN <<RuleLine("-I", kubeHostportsChain, Rule(<<"port", pm.hostPort, pm.protocol>>, c)),
       RuleLine("-A", c, Rule(<<"source", ip>>, <<"KUBE-MARK-MASQ">>)),
       RuleLine("-A", c, Rule(<<"pod", ip, pm.containerPort>>, DNAT))>>

ChainsOf(id, f) ==
  LET pms == gatherHostportMappings(PortMappings[id], f)
  IN [i \in DOMAIN pms |-> getHostportChain(id, pms[i])]

AddLines(id, f, ip) ==
  LET pms == gatherHostportMappings(PortMappings[id], f)
      chains == ChainsOf(id, f)
  IN [i \in DOMAIN chains |-> ChainLine(chains[i])]
       \o ValueLines(ExistingChains(nat[f]) \ ToSet(chains))
       \o FlattenSeq([i \in DOMAIN pms |-> MappingLines(id, pms[i], ip)])
       \o filterRules(ExistingRules(nat[f]), ToSet(chains))

RemoveLines(id, f) ==
  LET chains == ChainsOf(id, f)
      present == SelectSeq(chains, LAMBDA c : c \in DOMAIN nat[f])
  IN ValueLines(ExistingChains(nat[f])) \o filterRules(ExistingRules(nat[f]), ToSet(chains))
       \o [i \in DOMAIN present |-> DeleteLine(present[i])]

\* Nothing to add or to remove.
NoHostports(id, f) == gatherHostportMappings(PortMappings[id], f) = <<>>

\* Add, once the ports are open: if iptables-restore refuses the lines they are
\* closed again.
AddLoads(id, f, ip) == Understood(AddLines(id, f, ip))

AddHostports(id, f, ip, stuck) ==
  /\ nat' = [nat EXCEPT ![f] = RestoreAll(@, AddLines(id, f, ip))]
  /\ hostPortMap' = [hostPortMap EXCEPT ![f] =
       IF AddLoads(id, f, ip) THEN Opened(id, f)
       ELSE closeHostports(Opened(id, f), HostportsOf(id, f), stuck)]

\* Without a chain of the pod in the table there is nothing to load; lines that
\* are refused leave the sockets open.
RemoveLoads(id, f) ==
  ToSet(ChainsOf(id, f)) \cap DOMAIN nat[f] = {} \/ Understood(RemoveLines(id, f))

\* Slip: without a chain Remove returns at once.
RemoveHostportsOnly(id, f, stuck) ==
  IF ToSet(ChainsOf(id, f)) \cap DOMAIN nat[f] = {} THEN UNCHANGED hostportVars
  ELSE /\ nat' = [nat EXCEPT ![f] = RestoreAll(@, RemoveLines(id, f))]
       /\ hostPortMap' = [hostPortMap EXCEPT ![f] = closeHostports(@, HostportsOf(id, f), stuck)]

RemoveHostports(id, f, stuck) ==
  /\ nat' = IF ToSet(ChainsOf(id, f)) \cap DOMAIN nat[f] = {} THEN nat
            ELSE [nat EXCEPT ![f] = RestoreAll(@, RemoveLines(id, f))]
  /\ hostPortMap' = IF RemoveLoads(id, f)
       THEN [hostPortMap EXCEPT ![f] = closeHostports(@, HostportsOf(id, f), stuck)]
       ELSE hostPortMap
=============================================================================
