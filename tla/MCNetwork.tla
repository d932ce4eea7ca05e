----------------------------- MODULE MCNetwork ------------------------------
(* A small instance of NetworkPlugins for TLC.                              *)
EXTENDS NetworkPlugins

CONSTANTS p1, p2

TCP(port) == [hostPort |-> port, containerPort |-> 1, protocol |-> "tcp", hostIP |-> ""]

MCAddrs == {<<"4", 1>>, <<"4", 2>>}

\* p1 has a mapping without host port; p2 has a host port, and one for SCTP.
MCPortMappings ==
  [p \in Pods |->
     IF p = p1 THEN <<TCP(0)>> ELSE <<TCP(80), [TCP(81) EXCEPT !.protocol = "sctp"]>>]

MCLimits ==
  [p \in Pods |-> IF p = p1 THEN <<"download", "upload">> ELSE <<"download">>]

MCCIDREvents == {<<"4">>, <<"bad">>}

MCDirectories == {<<>>, <<"bad">>, <<"A">>, <<"bad", "R">>, <<"R", "A">>}
=============================================================================
