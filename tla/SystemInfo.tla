----------------------------- MODULE SystemInfo -----------------------------
(***************************************************************************)
(* What the service knows of the daemon: Version, Status and the runtime   *)
(* handlers come from the daemon's answers through a Cache, whose Memoize  *)
(* holds the lock of an entry while the daemon is asked.  A value stands   *)
(* for the moment at which it was true, so that its age can be told.       *)
(***************************************************************************)
EXTENDS Integers, Sequences

CONSTANTS
  Clients,     \* concurrent requests
  MinTTL,      \* systemInfoCacheMinTTL
  MaxCall,     \* the client's timeout: no call of the daemon takes longer
  MaxClock     \* bound on time

ASSUME InfoAssumption ==
  /\ MinTTL \in Nat \ {0} /\ MaxCall \in Nat /\ MaxClock \in Nat
  /\ "none" \notin Clients

VARIABLES
  clock,
  items,       \* the entries of the cache
  holder,      \* the client that holds the lock of an entry
  req          \* the state of every request

infoVars == <<clock, items, holder, req>>

CacheKeys == {"docker_version", "docker_info", "docker_info_handlers"}
NoHolder == "none"
RequestOf(todo, fresh) == [todo |-> todo, asking |-> FALSE, start |-> 0, info |-> 0, fresh |-> fresh]

\* What a request looks up, in order: the daemon's info alone, or what Status
\* and CreateContainer need.
Lookups == {<<"docker_info">>, <<"docker_version", "docker_info", "docker_info_handlers">>}

\* An entry that is new was generated at the zero time, long ago.
newEntry == [value |-> 0, generated |-> -MinTTL, lastTimeTaken |-> 0]

InfoInit ==
  /\ clock = 0 /\ items = [k \in CacheKeys |-> newEntry]
  /\ holder = [k \in CacheKeys |-> NoHolder] /\ req = [p \in Clients |-> RequestOf(<<>>, TRUE)]

\* How old the value of a key may be when it is used.
MaxAge(k) == IF k = "docker_info_handlers" THEN 2 * MinTTL + 2 * MaxCall ELSE MinTTL + 2 * MaxCall

\* The request has the value v of its key k.  Info is passed on to the handlers.
Got(p, k, v) ==
  req' = [req EXCEPT ![p] =
    [todo |-> Tail(@.todo), asking |-> FALSE, start |-> 0,
     info |-> IF k = "docker_info" THEN v ELSE 0, fresh |-> @.fresh /\ clock - v < MaxAge(k)]]

\* The lookup failed: Status reports that the daemon is not ready and goes on,
\* everything else ends.
Failed(p, k) ==
  \E rest \in {<<>>} \cup (IF k = "docker_version" THEN {Tail(req[p].todo)} ELSE {}) :
    req' = [req EXCEPT ![p] = RequestOf(rest, req[p].fresh)]

Request(p) ==
  /\ req[p].todo = <<>> /\ \E r \in Lookups : req' = [req EXCEPT ![p] = RequestOf(r, TRUE)]
  /\ UNCHANGED <<clock, items, holder>>

\* Slip: a hit makes the entry young again.
MemoizeRenews(p) ==
  /\ req[p].todo # <<>> /\ ~req[p].asking
  /\ LET k == Head(req[p].todo)
         e == items[k]
     IN /\ holder[k] = NoHolder
        /\ IF clock - e.generated < MinTTL + e.lastTimeTaken
             THEN Got(p, k, e.value) /\ items' = [items EXCEPT ![k].generated = clock] /\ UNCHANGED holder
             ELSE /\ req' = [req EXCEPT ![p].asking = TRUE, ![p].start = clock]
                  /\ holder' = [holder EXCEPT ![k] = p] /\ UNCHANGED items
  /\ UNCHANGED clock

\* Memoize, until fn is called: the lock is taken, and given back on a hit.
Memoize(p) ==
  /\ req[p].todo # <<>> /\ ~req[p].asking
  /\ LET k == Head(req[p].todo)
         e == items[k]
     IN /\ holder[k] = NoHolder
        /\ IF clock - e.generated < MinTTL + e.lastTimeTaken
             THEN Got(p, k, e.value) /\ UNCHANGED holder
             ELSE /\ req' = [req EXCEPT ![p].asking = TRUE, ![p].start = clock]
                  /\ holder' = [holder EXCEPT ![k] = p]
  /\ UNCHANGED <<clock, items>>

Unlock(p, k) == holder' = [holder EXCEPT ![k] = NoHolder]

\* The rest of Memoize.  The daemon answers with what was true at some moment
\* of the call; getRuntimeHandlers computes the handlers from the info at hand.
\* An error is not kept.
Answer(p) ==
  /\ req[p].asking
  /\ LET k == Head(req[p].todo)
         moments == IF k = "docker_info_handlers" THEN {req[p].info} ELSE req[p].start..clock
     IN \/ /\ \E v \in moments :
                /\ items' = [items EXCEPT ![k] = [value |-> v, generated |-> clock,
                                                  lastTimeTaken |-> clock - req[p].start]]
                /\ Got(p, k, v)
           /\ Unlock(p, k)
        \/ Failed(p, k) /\ Unlock(p, k) /\ UNCHANGED items
  /\ UNCHANGED clock

\* Only a call of the daemon takes time, and never more than MaxCall.
Waits(p) ==
  req[p].todo # <<>> =>
    LET k == Head(req[p].todo)
    IN IF req[p].asking THEN k # "docker_info_handlers" /\ clock - req[p].start < MaxCall
                        ELSE holder[k] # NoHolder

TimePasses ==
  /\ clock < MaxClock /\ (\A p \in Clients : Waits(p)) /\ clock' = clock + 1
  /\ UNCHANGED <<items, holder, req>>

InfoNext == TimePasses \/ \E p \in Clients : Request(p) \/ Memoize(p) \/ Answer(p)

InfoSpec == InfoInit /\ [][InfoNext]_infoVars

-----------------------------------------------------------------------------
(* Correctness.                                                            *)

\* What a request is told was true less than MaxAge ago: one TTL and twice the
\* longest call, and one TTL more for the handlers, which are kept again after
\* they were computed from an info that was kept.  "Only one call with a given key
\* will be executed at a time" (cache.go), and the lock of a key is held by nobody
\* but the request whose call runs, whether that succeeds or fails.
AnswersFresh ==
  /\ \A p \in Clients : req[p].fresh
  /\ \A p, q \in Clients :
       p # q /\ req[p].asking /\ req[q].asking => Head(req[p].todo) # Head(req[q].todo)
  /\ \A k \in CacheKeys : holder[k] # NoHolder =>
       req[holder[k]].asking /\ Head(req[holder[k]].todo) = k
=============================================================================
