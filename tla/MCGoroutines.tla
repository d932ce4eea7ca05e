---------------------------- MODULE MCGoroutines ----------------------------
(***************************************************************************)
(* Module Goroutines for TLC.                                              *)
(***************************************************************************)
EXTENDS Goroutines

Session(transport, version, tty) ==
  [stdin |-> ~tty, stdout |-> TRUE, stderr |-> FALSE, tty |-> tty, transport |-> transport,
   version |-> version]
MCSessions ==
  {Session("spdy", "v4", FALSE), Session("spdy", "v3", TRUE), Session("spdy", "v2", FALSE),
   Session("spdy", "v1", TRUE), Session("websocket", "v4", TRUE), Session("websocket", "v1", FALSE)}
=============================================================================
