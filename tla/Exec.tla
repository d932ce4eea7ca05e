-------------------------------- MODULE Exec --------------------------------
(***************************************************************************)
(* Commands in a running container: ExecInContainer with the goroutines it *)
(* starts, one that waits for the signal that the command runs and then    *)
(* passes on the sizes of the terminal, and one in StartExec that attaches *)
(* to the command, gives the signal over an unbuffered channel and copies  *)
(* the streams.  The container, the command and the daemon are external.   *)
(***************************************************************************)
EXTENDS Integers

CONSTANTS
  Calls,        \* calls, each a session
  Timed,        \* the calls of ExecSync with a timeout
  Terminals,    \* the calls that come with a channel of terminal sizes
  MaxRetries,   \* maxRetries: inspections of a command that should have ended
  MaxExecFaults \* bound on failing calls of the daemon

VARIABLES
  up,          \* is the container running
  x,           \* the state of every call
  execFaults

execVars == <<up, x, execFaults>>

NoCall ==
  [main |-> "idle", resizer |-> "none", starter |-> "none", execErr |-> "none",
   proc |-> "none", code |-> 0, out |-> FALSE, tries |-> 0, result |-> "none",
   resized |-> FALSE, abandoned |-> FALSE]

ExecInit == up = TRUE /\ x = [e \in Calls |-> NoCall] /\ execFaults = 0

DaemonFails == execFaults < MaxExecFaults /\ execFaults' = execFaults + 1
DaemonWorks == execFaults' = execFaults

-----------------------------------------------------------------------------
\* The external parts.  A command may leave its output and go on.
ContainerStops ==
  /\ up /\ up' = FALSE
  /\ x' = [e \in Calls |-> IF x[e].proc = "running"
                             THEN [x[e] EXCEPT !.proc = "ended", !.code = 1, !.out = FALSE]
                             ELSE [x[e] EXCEPT !.out = FALSE]]
  /\ UNCHANGED execFaults

CommandEnds(e) ==
  /\ x[e].proc = "running"
  /\ \E code \in {0, 1} :
       x' = [x EXCEPT ![e].proc = "ended", ![e].code = code, ![e].out = FALSE]
  /\ UNCHANGED <<up, execFaults>>

OutputCloses(e) ==
  /\ x[e].out /\ x' = [x EXCEPT ![e].out = FALSE]
  /\ UNCHANGED <<up, execFaults>>

-----------------------------------------------------------------------------
\* The call returns; done is closed.
Returns(e, result) == x' = [x EXCEPT ![e].main = "done", ![e].result = result]

\* CheckContainerStatus, and the call goes on at l or fails.
Checked(e, l) ==
  /\ x[e].main = "idle"
  /\ IF up THEN x' = [x EXCEPT ![e].main = l] ELSE Returns(e, "error")
  /\ UNCHANGED <<up, execFaults>>

\* ExecSync, or the session of a URL.
Call(e) == Checked(e, "create")

CreateExec(e) ==
  /\ x[e].main = "create"
  /\ \/ /\ up /\ DaemonWorks
        /\ x' = [x EXCEPT ![e].main = "select", ![e].resizer = "wait", ![e].starter = "attach"]
     \/ (IF up THEN DaemonFails ELSE DaemonWorks) /\ Returns(e, "error")
  /\ UNCHANGED up

\* The starter's send and the resizer's receipt.
Signal(e) ==
  /\ x[e].starter = "signal" /\ x[e].resizer = "wait"
  /\ x' = [x EXCEPT ![e].starter = "hold",
                    ![e].resizer = IF e \in Terminals THEN "resizing" ELSE "gone"]
  /\ UNCHANGED <<up, execFaults>>

\* The call has returned first: nobody will receive.
ResizerLeaves(e) ==
  /\ x[e].resizer = "wait" /\ x[e].main = "done"
  /\ x' = [x EXCEPT ![e].resizer = "gone", ![e].abandoned = TRUE]
  /\ UNCHANGED <<up, execFaults>>

\* handleResizing: a size is passed on; the channel closes with the call.
Resizes(e) ==
  /\ x[e].resizer = "resizing"
  /\ \/ ~x[e].resized /\ x' = [x EXCEPT ![e].resized = TRUE]
     \/ x[e].main = "done" /\ x' = [x EXCEPT ![e].resizer = "gone"]
  /\ UNCHANGED <<up, execFaults>>

\* StartExec: attaching takes as long as the daemon takes.
Attaches(e) ==
  /\ x[e].starter = "attach"
  /\ \/ /\ up /\ DaemonWorks
        /\ x' = [x EXCEPT ![e].starter = "signal", ![e].proc = "running", ![e].out = TRUE]
     \/ /\ IF up THEN DaemonFails ELSE DaemonWorks
        /\ x' = [x EXCEPT ![e].starter = "gone", ![e].execErr = "error"]
  /\ UNCHANGED up

\* How holdHijackedConnection may return: when the output ends, or when a stream
\* cannot be read or written, as that of a client who left.
HoldErrors(e) == IF x[e].out THEN {"error"} ELSE {"nil", "error"}

\* Slip: the channel for the error has no buffer.
HoldEndsUnbuffered(e) ==
  /\ x[e].starter = "hold" /\ x[e].main = "select"
  /\ \E err \in HoldErrors(e) : x' = [x EXCEPT ![e].starter = "gone", ![e].execErr = err]
  /\ UNCHANGED <<up, execFaults>>

\* StartExec returns, and its error waits in the channel.
HoldEnds(e) ==
  /\ x[e].starter = "hold"
  /\ \E err \in HoldErrors(e) : x' = [x EXCEPT ![e].starter = "gone", ![e].execErr = err]
  /\ UNCHANGED <<up, execFaults>>

Selects(e) ==
  /\ x[e].main = "select"
  /\ \/ e \in Timed /\ Returns(e, "deadline")
     \/ x[e].execErr = "error" /\ Returns(e, "error")
     \/ x[e].execErr = "nil" /\ x' = [x EXCEPT ![e].main = "inspect"]
  /\ UNCHANGED <<up, execFaults>>

Result(code) == IF code = 0 THEN "success" ELSE "exit"

\* Slip: the exit code is taken as it is.
InspectsOnce(e) ==
  /\ x[e].main = "inspect" /\ DaemonWorks /\ Returns(e, Result(x[e].code))
  /\ UNCHANGED up

\* An inspection may show a command that has ended as still running.
Inspects(e) ==
  /\ x[e].main = "inspect"
  /\ \/ x[e].proc = "ended" /\ DaemonWorks /\ Returns(e, Result(x[e].code))
     \/ /\ DaemonWorks
        /\ x' = [x EXCEPT ![e].tries = @ + 1,
                          ![e].main = IF x[e].tries + 1 = MaxRetries THEN "done" ELSE @,
                          ![e].result = IF x[e].tries + 1 = MaxRetries THEN "success" ELSE @]
     \/ DaemonFails /\ Returns(e, "error")
  /\ UNCHANGED up

ExecNext ==
  \/ ContainerStops
  \/ \E e \in Calls :
       \/ Call(e) \/ CreateExec(e) \/ Attaches(e) \/ Signal(e) \/ ResizerLeaves(e)
       \/ Resizes(e) \/ HoldEnds(e) \/ Selects(e) \/ Inspects(e)
       \/ CommandEnds(e) \/ OutputCloses(e)

\* The goroutines of a call run, and its timer goes off; nothing is assumed of
\* the daemon, of the command and of the clients.
ExecFairness ==
  \A e \in Calls : /\ WF_execVars(Signal(e)) /\ WF_execVars(ResizerLeaves(e))
                   /\ WF_execVars(~x[e].out /\ HoldEnds(e))
                   /\ WF_execVars(Selects(e)) /\ WF_execVars(Inspects(e))

ExecSpec == ExecInit /\ [][ExecNext]_execVars /\ ExecFairness

-----------------------------------------------------------------------------
(* Correctness.                                                            *)

\* What ExecSync says of the command is true: it succeeded, or it ended with
\* another code; unless maxRetries inspections in a row showed it running,
\* when a success is reported.
ResultTrue ==
  \A e \in Calls :
    /\ x[e].result = "exit" => x[e].proc = "ended" /\ x[e].code = 1
    /\ x[e].result = "success" => \/ x[e].proc = "ended" /\ x[e].code = 0
                                  \/ x[e].tries = MaxRetries
\* Nothing stays behind.  A call with a timeout that has made its command
\* returns, whatever the command does and however long the daemon takes to
\* attach to it.  The goroutine in StartExec ends once its command has ended,
\* and with it the connection to the daemon; unless the call had returned
\* before the signal was received: then it waits forever.
ExecEnds ==
  /\ \A e \in Timed : []<>(x[e].main \notin {"select", "inspect"})
  /\ []<>(\A e \in Calls : x[e].proc = "ended" => x[e].starter = "gone" \/ x[e].abandoned)
=============================================================================
