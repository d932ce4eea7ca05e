---------------------------- MODULE StreamPairs ----------------------------
(***************************************************************************)
(* Port forwarding over one upgraded connection (package                   *)
(* streaming/portforward): the client opens a data and an error stream for *)
(* each connection it forwards, the main loop puts them together by their  *)
(* request id, and a goroutine per pair waits for the pair to be complete  *)
(* or for a timeout and then takes it, by its id, out of the table.        *)
(***************************************************************************)
EXTENDS Integers, Sequences

CONSTANTS
  Forwards,   \* the connections that the client forwards
  Repeats,    \* those for which it may open the data stream once more
  MaxStreams  \* bound on the streams it opens

VARIABLES
  client,    \* does the client give the streams a request id
  opened,    \* the streams in the order of their numbers: connection and type
  arrived,   \* the streams that the main loop has taken
  hand,      \* the stream the main loop has in hand, and the index of its pair
  table,     \* streamPairs: the index of the pair of a request id
  made,      \* all the pairs, in the order of their creation
  loop       \* has the loop ended: the connection is closed

pairVars == <<client, opened, arrived, hand, table, made, loop>>

Nothing == [stream |-> 0, pair |-> 0]

PairsInit ==
  /\ client \in {"new", "old"} /\ opened = <<>> /\ arrived = {} /\ hand = Nothing
  /\ table = <<>> /\ made = <<>> /\ loop = "runs"

\* The client opens the error stream of a connection, then its data stream.
OpensStream(f, type) ==
  LET count(t) == Len(SelectSeq(opened, LAMBDA s : s = [of |-> f, type |-> t]))
  IN /\ loop = "runs" /\ Len(opened) < MaxStreams
     /\ IF type = "error" THEN count("error") = 0
        ELSE count("error") = 1 /\ count("data") < (IF f \in Repeats THEN 2 ELSE 1)
     /\ opened' = Append(opened, [of |-> f, type |-> type])
     /\ UNCHANGED <<client, arrived, hand, table, made, loop>>

\* A stream has an odd number.
Identifier(n) == 2 * n - 1

\* Slip: the data stream is taken to have the number before the error stream's.
requestIDBefore(n) ==
  IF client = "new" THEN opened[n].of
  ELSE IF opened[n].type = "error" THEN Identifier(n) ELSE Identifier(n) + 2

\* The header's id, or for an old client the number that the error stream of the
\* same connection has if no other stream was opened in between.
requestID(n) ==
  IF client = "new" THEN opened[n].of
  ELSE IF opened[n].type = "error" THEN Identifier(n) ELSE Identifier(n) - 2

newPortForwardPair(id) ==
  [id |-> id, data |-> 0, error |-> 0, completed |-> 0, monitor |-> "waits", forward |-> "no"]

\* The table with the pair i for the id, and without a pair for it.
WithPair(id, i) == [k \in DOMAIN table \cup {id} |-> IF k = id THEN i ELSE table[k]]
WithoutPair(id) == [k \in DOMAIN table \ {id} |-> table[k]]

\* Who passes on a stream that was received waits for room in the channel, for
\* ever if the loop has ended: the loop takes any of them next.  (A stream with
\* a bad port or type is refused and never gets here.)
httpStreamReceived(n) ==
  loop = "runs" /\ hand = Nothing /\ n \notin arrived /\ arrived' = arrived \cup {n}

\* The pair of the stream, which is made if there is none, and its monitor.
getStreamPair(n) ==
  /\ httpStreamReceived(n)
  /\ LET id == requestID(n)
     IN IF id \in DOMAIN table
        THEN hand' = [stream |-> n, pair |-> table[id]] /\ UNCHANGED <<table, made>>
        ELSE /\ made' = Append(made, newPortForwardPair(id))
             /\ table' = WithPair(id, Len(made) + 1)
             /\ hand' = [stream |-> n, pair |-> Len(made) + 1]
  /\ UNCHANGED <<client, opened, loop>>

\* add: an error if the pair has a stream of the type.  The stream that completes
\* the pair closes its channel, and the pair is forwarded.
Added(p, n) ==
  LET q == [p EXCEPT ![opened[n].type] = n]
  IN IF p[opened[n].type] # 0 THEN p
     ELSE IF q.data # 0 /\ q.error # 0 THEN [q EXCEPT !.completed = @ + 1, !.forward = "runs"]
     ELSE q

add ==
  /\ hand # Nothing /\ made' = [made EXCEPT ![hand.pair] = Added(@, hand.stream)] /\ hand' = Nothing
  /\ UNCHANGED <<client, opened, arrived, table, loop>>

\* monitorStreamPair to the end of its select: the timeout may come at any time,
\* before or after the pair is complete.
MonitorWakes(i) ==
  /\ made[i].monitor = "waits" /\ made' = [made EXCEPT ![i].monitor = "removes"]
  /\ UNCHANGED <<client, opened, arrived, hand, table, loop>>

\* removeStreamPair, by the request id.
removeStreamPair(i) ==
  /\ made[i].monitor = "removes" /\ made' = [made EXCEPT ![i].monitor = "gone"]
  /\ table' = WithoutPair(made[i].id)
  /\ UNCHANGED <<client, opened, arrived, hand, loop>>

\* Slip: who has forwarded a pair takes it out of the table.
portForwardRemoves(i) ==
  /\ made[i].forward = "runs" /\ made' = [made EXCEPT ![i].forward = "done"]
  /\ table' = WithoutPair(made[i].id)
  /\ UNCHANGED <<client, opened, arrived, hand, loop>>

\* portForward: the forwarder returns, and both streams are closed.
portForward(i) ==
  /\ made[i].forward = "runs" /\ made' = [made EXCEPT ![i].forward = "done"]
  /\ UNCHANGED <<client, opened, arrived, hand, table, loop>>

\* The connection is closed: the loop ends when it next waits.
ConnectionCloses ==
  /\ loop = "runs" /\ hand = Nothing /\ loop' = "ended"
  /\ UNCHANGED <<client, opened, arrived, hand, table, made>>

PairsNext ==
  \/ \E f \in Forwards, type \in {"error", "data"} : OpensStream(f, type)
  \/ \E n \in DOMAIN opened : getStreamPair(n)
  \/ add \/ ConnectionCloses
  \/ \E i \in DOMAIN made : MonitorWakes(i) \/ removeStreamPair(i) \/ portForward(i)

\* The main loop and the monitors run, and time passes.
PairsFairness ==
  WF_pairVars(add \/ \E i \in DOMAIN made : MonitorWakes(i) \/ removeStreamPair(i))

PairsSpec == PairsInit /\ [][PairsNext]_pairVars /\ PairsFairness

-----------------------------------------------------------------------------
\* Does the number of a stream tell its connection, if the client does not?
Orderly ==
  client = "new" \/
  \A n \in DOMAIN opened :
    opened[n].type = "data" => n > 1 /\ opened[n - 1] = [of |-> opened[n].of, type |-> "error"]

\* What is forwarded is one connection of the client: a data stream is never
\* forwarded with the error stream of another connection, in whatever order the
\* streams come and whichever pairs have timed out.  An old client must not open
\* connections at the same time, as the comment in requestID says.
SameConnection ==
  Orderly =>
    \A i \in DOMAIN made :
      made[i].forward # "no" => opened[made[i].data].of = opened[made[i].error].of

\* A monitor removes its own pair: an id has one pair whose monitor is not gone,
\* the one in the table.  Removal is by id: with a second one, a monitor that is
\* late would remove the pair of a later request.
MonitorsOwnPair ==
  \A i \in DOMAIN made :
    made[i].monitor # "gone" => made[i].id \in DOMAIN table /\ table[made[i].id] = i

\* Every pair leaves the table, complete or not.
PairsLeave == []<>(table = <<>>)
=============================================================================
