--------------------------- MODULE RemoteStreams ---------------------------
(***************************************************************************)
(* The streams of an exec session (package streaming/remotecommand): the   *)
(* server waits until the client has opened the streams that the session   *)
(* asks for and each of them was answered, or for a timeout; then it runs  *)
(* the command and writes its status on the error stream.                  *)
(***************************************************************************)
EXTENDS Naturals, FiniteSets

CONSTANTS
  Sessions,     \* options, transport and version of the sessions
  ExtraKinds    \* the kinds of one more stream that the client may open

ASSUME RemoteAssumption == \A session \in Sessions : session.version \in {"v1", "v2", "v3", "v4"}

VARIABLES
  asked,      \* the options of the session, the transport and the version
  extra,      \* the kind of one more stream that the client may open, or "none"
  place,      \* per stream: where it, or the goroutine that waits for its reply, is
  replied,    \* the streams whose reply frame is enqueued
  context,    \* per kind: the stream of the session
  received,   \* receivedStreams
  creation,   \* createStreams
  told        \* what the client reads on the error stream, and the true result

remoteVars == <<asked, extra, place, replied, context, received, creation, told>>

Kinds == {"error", "stdin", "stdout", "stderr", "resize"}

\* The kinds a version waits for, how it writes the status, and if it resets the
\* error stream and closes stdin when it has all.
v4ProtocolHandler == [kinds |-> Kinds, status |-> "json", resets |-> FALSE]
v3ProtocolHandler == [kinds |-> Kinds, status |-> "text", resets |-> FALSE]

\* Slip: the second version resets the error stream too.
v2Resets == [kinds |-> Kinds \ {"resize"}, status |-> "text", resets |-> TRUE]

v2ProtocolHandler == [kinds |-> Kinds \ {"resize"}, status |-> "text", resets |-> FALSE]
v1ProtocolHandler == [kinds |-> Kinds \ {"resize"}, status |-> "text", resets |-> TRUE]

Handler ==
  CASE asked.version = "v4" -> v4ProtocolHandler
    [] asked.version = "v3" -> v3ProtocolHandler
    [] asked.version = "v2" -> v2ProtocolHandler
    [] OTHER -> v1ProtocolHandler

\* The kinds that the client is to open.
Expected ==
  {"error"} \cup {k \in {"stdin", "stdout", "stderr"} : asked[k]}
  \cup (IF asked.tty /\ "resize" \in Handler.kinds THEN {"resize"} ELSE {})

expectedStreams == Cardinality(Expected)

Slots == Kinds \cup {"extra"}

KindOfSlot(s) == IF s = "extra" THEN extra ELSE s

RemoteInit ==
  /\ asked \in Sessions /\ extra \in ExtraKinds \cup {"none"}
  /\ place = [s \in Slots |-> "unsent"] /\ replied = {}
  /\ context = [k \in Kinds |-> "nil"] /\ received = 0 /\ creation = "new"
  /\ told = [status |-> "none", result |-> "none"]

\* The upgrade, and the timer.
CreateHTTPStreams ==
  /\ creation = "new" /\ asked.transport = "spdy" /\ creation' = "waits"
  /\ UNCHANGED <<asked, extra, place, replied, context, received, told>>

\* createWebSocketStreams: the streams are channels of the one connection.
CreateWebSocketStreams ==
  /\ creation = "new" /\ asked.transport = "websocket" /\ creation' = "ok"
  /\ context' = [k \in Kinds |-> IF k \in Expected \cup {"resize"} THEN k ELSE "nil"]
  /\ UNCHANGED <<asked, extra, place, replied, received, told>>

\* A stream of the client: a goroutine offers it to the server, and waits for
\* ever if the server no longer does.
Offered(s) ==
  /\ creation = "waits" /\ place[s] = "unsent"
  /\ IF s = "extra" THEN extra # "none" ELSE s \in Expected
  /\ place' = [place EXCEPT ![s] = "offered"]
  /\ UNCHANGED <<asked, extra, replied, context, received, creation, told>>

\* Slip: the reply to a stream of a kind that is not known is waited for as well.
TakenAny(s) ==
  /\ creation = "waits" /\ place[s] = "offered"
  /\ place' = [place EXCEPT ![s] = "waits"]
  /\ context' = IF KindOfSlot(s) \in Handler.kinds THEN [context EXCEPT ![KindOfSlot(s)] = s] ELSE context
  /\ UNCHANGED <<asked, extra, replied, received, creation, told>>

\* waitForStreams takes a stream; one of a kind it does not know is dropped.
Taken(s) ==
  /\ creation = "waits" /\ place[s] = "offered"
  /\ IF KindOfSlot(s) \in Handler.kinds
     THEN /\ place' = [place EXCEPT ![s] = "waits"]
          /\ context' = [context EXCEPT ![KindOfSlot(s)] = s]
     ELSE place' = [place EXCEPT ![s] = "dropped"] /\ UNCHANGED context
  /\ UNCHANGED <<asked, extra, replied, received, creation, told>>

\* The reply frame of a stream that was taken goes into the queue.
ReplySent(s) ==
  /\ place[s] \notin {"unsent", "offered"} /\ s \notin replied /\ replied' = replied \cup {s}
  /\ UNCHANGED <<asked, extra, place, context, received, creation, told>>

\* waitStreamReply: the reply, or stop; if both have happened, either.
ReplySeen(s) ==
  /\ place[s] = "waits" /\ s \in replied /\ place' = [place EXCEPT ![s] = "notifies"]
  /\ UNCHANGED <<asked, extra, replied, context, received, creation, told>>
WaiterStops(s) ==
  /\ place[s] = "waits" /\ creation \in {"ok", "timeout"} /\ place' = [place EXCEPT ![s] = "stopped"]
  /\ UNCHANGED <<asked, extra, replied, context, received, creation, told>>

\* waitForStreams counts the replies.  Who has seen a reply waits for this step,
\* for ever if the server waits no more.
Counted(s) ==
  /\ creation = "waits" /\ place[s] = "notifies" /\ place' = [place EXCEPT ![s] = "counted"]
  /\ received' = received + 1
  /\ creation' = IF received' = expectedStreams THEN "ok" ELSE "waits"
  /\ UNCHANGED <<asked, extra, replied, context, told>>

\* The timer.  The session ends; nothing closes the connection.
Expires ==
  /\ creation = "waits" /\ creation' = "timeout"
  /\ UNCHANGED <<asked, extra, place, replied, context, received, told>>

\* v1WriteStatusFunc: the message of a failure; v4WriteStatusFunc: all of it.  A
\* stream that was reset takes nothing.
writeStatus(result) ==
  IF context["error"] = "nil" THEN "panic"
  ELSE IF asked.transport = "spdy" /\ Handler.resets THEN ""
  ELSE IF Handler.status = "json" THEN result
  ELSE IF result = "success" THEN "" ELSE "failure"

\* ServeExec runs the command, writes its status and closes the connection.
ServeExec(result) ==
  /\ creation = "ok" /\ creation' = "closed"
  /\ told' = [status |-> writeStatus(result), result |-> result]
  /\ UNCHANGED <<asked, extra, place, replied, context, received>>

RemoteNext ==
  \/ CreateHTTPStreams \/ CreateWebSocketStreams \/ Expires
  \/ \E s \in Slots :
       Offered(s) \/ Taken(s) \/ ReplySent(s) \/ ReplySeen(s) \/ WaiterStops(s) \/ Counted(s)
  \/ \E result \in {"success", "exit", "failure"} : ServeExec(result)

\* Time passes.
RemoteFairness == WF_remoteVars(Expires)

RemoteSpec == RemoteInit /\ [][RemoteNext]_remoteVars /\ RemoteFairness

-----------------------------------------------------------------------------
\* A session that starts has the streams it asked for, whatever else the client
\* opened that is none of the handler's.  waitForStreams counts replies, not
\* kinds: a second stream of a kind would be counted for one that is missing.
\* Over SPDY each stream was answered by then, and so before its connection may
\* be closed: that is what the replies are waited for.
ContextComplete ==
  creation \in {"ok", "closed"} /\ extra \notin Handler.kinds =>
    /\ \A k \in Expected : context[k] # "nil"
    /\ asked.transport = "spdy" => \A k \in Kinds : context[k] # "nil" => context[k] \in replied

\* The client learns that its command failed, and from the fourth version on
\* with what exit code.  The first version resets the error stream before, as
\* the comment in its handler says.
FailureTold ==
  told.result \notin {"none", "success"} /\ extra \notin Handler.kinds
  /\ (asked.transport = "spdy" => asked.version # "v1") =>
    IF asked.version = "v4" THEN told.status = told.result ELSE told.status = "failure"

\* The wait for streams ends.
CreationEnds == []<>(creation # "waits")
=============================================================================
