----------------------------- MODULE MCService -----------------------------
(***************************************************************************)
(* Module Service for TLC.                                                 *)
(***************************************************************************)
EXTENDS Service

CONSTANTS r1, r2, r3   \* requests of the streaming server

Streams(tty, stderr) == [tty |-> tty, stdin |-> TRUE, stdout |-> TRUE, stderr |-> stderr]

MCKindOf == (r1 :> "exec") @@ (r2 :> "attach") @@ (r3 :> "portforward")
MCOptions == (r1 :> Streams(TRUE, FALSE)) @@ (r2 :> Streams(FALSE, TRUE)) @@ (r3 :> Streams(TRUE, TRUE))

MCLabelKeys == {<<"k">>, <<"annotation.", "k">>, <<"io.kubernetes.container.name">>}
MCSyscalls == {"sethostname", "mkdir"}
=============================================================================
