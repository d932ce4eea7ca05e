----------------------------- MODULE Streaming -----------------------------
(***************************************************************************)
(* The streaming server: Exec, Attach and PortForward check the container, *)
(* leave the request in the cache and answer with a URL; the client that   *)
(* fetches the URL gets the request served, once.  What a session does     *)
(* with its streams is the matter of module Exec.                          *)
(***************************************************************************)
EXTENDS RequestCache

CONSTANTS
  KindOf,     \* the endpoint each request is for
  Options,    \* the streams each request asks for
  MaxNow      \* bound on the clock

VARIABLES
  url,       \* per request: the URL that was answered, with or without a host
  host,      \* does the base URL have a host: the server listens
  running,   \* is the container running
  session    \* per request: the endpoint that opened its session

streamVars == <<url, host, running, session>>

StreamingInit ==
  /\ CacheInit /\ url = [r \in Requests |-> "none"] /\ host = FALSE
  /\ running = TRUE /\ session = [r \in Requests |-> "none"]

\* validateExecRequest and validateAttachRequest; the other has no streams.
Valid(r) ==
  LET o == Options[r]
  IN KindOf[r] = "portforward" \/ (~(o.tty /\ o.stderr) /\ (o.stdin \/ o.stdout \/ o.stderr))

\* Exec, Attach and PortForward of the service, and GetExec, GetAttach and
\* GetPortForward of the server.
GetURL(r) ==
  /\ running /\ Valid(r)
  /\ \/ \E t \in Tokens :
          /\ Insert(r, t)
          /\ url' = IF r \in inserted' THEN [url EXCEPT ![r] = IF host THEN "full" ELSE "path"]
                    ELSE url
     \/ InsertFails(r) /\ UNCHANGED url
  /\ UNCHANGED <<host, running, session>>

\* CheckContainerStatus of StreamingRuntime, and the session.
Opens(r, endpoint) ==
  session' = IF running THEN [session EXCEPT ![r] = endpoint] ELSE session

\* Slip: a request is served whatever the endpoint it comes from.
ServeAnyway(t, endpoint) ==
  /\ t \in DOMAIN tokens /\ Consume(t)
  /\ IF Expired(tokens[t]) THEN UNCHANGED session ELSE Opens(tokens[t].req, endpoint)
  /\ UNCHANGED <<url, host, running>>

\* serveExec, serveAttach, servePortForward.  The token is used up even if the
\* request is for another endpoint.  The container is checked once more: it may
\* have stopped since the URL was answered.
Serve(t, endpoint) ==
  /\ t \in DOMAIN tokens /\ Consume(t)
  /\ LET r == tokens[t].req
     IN IF Expired(tokens[t]) \/ KindOf[r] # endpoint THEN UNCHANGED session
        ELSE Opens(r, endpoint)
  /\ UNCHANGED <<url, host, running>>

\* Start: the server listens, and its address goes into the base URL.
ServerStarts ==
  ~host /\ host' = TRUE /\ UNCHANGED <<cacheVars, url, running, session>>

ContainerEnds ==
  running /\ running' = FALSE /\ UNCHANGED <<cacheVars, url, host, session>>

StreamingNext ==
  \/ \E r \in Requests : GetURL(r)
  \/ \E t \in Tokens, endpoint \in {"exec", "attach", "portforward"} : Serve(t, endpoint)
  \/ ServerStarts \/ ContainerEnds
  \/ now < MaxNow /\ Tick /\ UNCHANGED streamVars

StreamingSpec == StreamingInit /\ [][StreamingNext]_<<cacheVars, streamVars>>

-----------------------------------------------------------------------------
\* A session is what was asked for, and only for a request that was answered:
\* by the endpoint of its kind, however late or often the clients come and
\* whatever endpoint they use.
SessionAsAsked ==
  \A r \in Requests : session[r] # "none" => session[r] = KindOf[r] /\ served[r] = 1
=============================================================================
