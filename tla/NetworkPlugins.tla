--------------------------- MODULE NetworkPlugins ---------------------------
(***************************************************************************)
(* The network plugin of the process: the one its name on the command line *)
(* chooses, kubenet, cni or none.  Both plugins are probed; the one that   *)
(* is not chosen is never called.                                          *)
(***************************************************************************)
EXTENDS Kubenet

CONSTANTS PluginNames, CNIPods, Directories, NeedRanges, MaxChanges, CNIFaults, CNIRestarts

VARIABLES
  plugin,  \* the plugin in use
  confDir, defaultNetwork, podCidr, found, task, outcome, attached, checked, unranged,
  excused, faults, lives, changes

\* (Its operations for different pods share the default network and the CIDR, and
\* write neither.)
Cni == INSTANCE CNI WITH Pods <- CNIPods

cniVars == <<confDir, defaultNetwork, podCidr, found, task, outcome, attached, checked,
             unranged, excused, faults, lives, changes>>
networkVars == <<kubenetVars, cniVars, plugin>>

\* The process does not start with a name that no plugin has.
InitNetworkPlugin(name) ==
  IF name \in {"", "no-op"} THEN "noop" ELSE IF name \in {"cni", "kubenet"} THEN name ELSE "none"

\* (The bridge matters to kubenet only, the directory to cni only.)
NetworkInit ==
  /\ \E name \in PluginNames : plugin = InitNetworkPlugin(name) /\ plugin # "none"
  /\ KubenetInit /\ Cni!CNIInit
  /\ plugin # "kubenet" => qdisc = "other"
  /\ plugin # "cni" => confDir = <<>>

\* The operations of the no-op plugin do nothing and succeed.
Noop ==
  /\ plugin = "noop"
  /\ \E p \in Pods : \/ result[p] = "new" /\ Finish(p, "up")
                     \/ result[p] # "new" /\ Finish(p, "tornDown")
  /\ UNCHANGED <<hostportVars, tcVars, netConfig, podCIDRs, podIPs, leases, pastVars, kfaults,
                 restarts>>

NetworkNext ==
  /\ \/ plugin = "kubenet" /\ KubenetNext /\ UNCHANGED cniVars
     \/ plugin = "cni" /\ Cni!CNINext /\ UNCHANGED kubenetVars
     \/ Noop /\ UNCHANGED cniVars
  /\ UNCHANGED plugin

NetworkSpec == NetworkInit /\ [][NetworkNext]_networkVars

-----------------------------------------------------------------------------
\* cni: a pod is attached to one network while it is set up, and to none when
\* it is torn down, unless the network changed in between (CNI).
AttachedAsTold == Cni!AttachedAsTold
=============================================================================
