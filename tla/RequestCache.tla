---------------------------- MODULE RequestCache ----------------------------
(***************************************************************************)
(* The cache of the streaming server: Exec, Attach and PortForward leave   *)
(* their request in it and hand out a URL with a token; the client of that *)
(* URL takes the request out, once, within a minute.  Every operation      *)
(* holds the lock of the cache throughout, so it is one step; the clock    *)
(* moves between them.                                                     *)
(***************************************************************************)
EXTENDS Integers, Sequences, FiniteSets, TLC

CONSTANTS
  Requests,      \* the requests, each a pointer of its own
  Tokens,        \* what eight random characters can be
  MaxInFlight,   \* maxInFlight
  CacheTTL       \* cacheTTL

ASSUME CacheAssumption == MaxInFlight \in Nat /\ CacheTTL \in Nat

VARIABLES
  now,        \* the clock
  ll,         \* the entries, the newest first
  tokens,     \* the entry of every token
  inserted,   \* history: the requests that were inserted
  waiting,    \* history: the entries inserted and not taken out
  served,     \* history: how often each request was given out
  refused     \* history: did the last call find the cache full

cacheVars == <<now, ll, tokens, inserted, waiting, served, refused>>

Entry == [token : Tokens, req : Requests, expireTime : Nat]

CacheInit ==
  /\ now = 0 /\ ll = <<>> /\ tokens = [t \in {} |-> 0]
  /\ inserted = {} /\ waiting = {} /\ served = [r \in Requests |-> 0] /\ refused = FALSE

\* Slip: the moment it expires is too late already.
ExpiredEarly(e) == now >= e.expireTime

Expired(e) == now > e.expireTime

-----------------------------------------------------------------------------
\* Operations of the list and of the map.

PushFront(l, e) == [i \in 1..(Len(l) + 1) |-> IF i = 1 THEN e ELSE l[i - 1]]

WithoutIndex(l, k) == [i \in 1..(Len(l) - 1) |-> IF i < k THEN l[i] ELSE l[i + 1]]

Without(m, ts) == [t \in DOMAIN m \ ts |-> m[t]]

With(m, t, e) == [u \in DOMAIN m \cup {t} |-> IF u = t THEN e ELSE m[u]]

-----------------------------------------------------------------------------
\* gc takes the oldest entry while it is expired: k entries stay.
Kept(k) ==
  /\ k \in 0..Len(ll)
  /\ \A i \in (k + 1)..Len(ll) : Expired(ll[i])
  /\ k > 0 => ~Expired(ll[k])

Gone(k) == {ll[i].token : i \in (k + 1)..Len(ll)}

Collected(k) == [i \in 1..k |-> ll[i]]

\* Slip: the collection comes after the check.
InsertLate(req, t) ==
  /\ req \notin inserted
  /\ \E k \in 0..Len(ll) :
       /\ Kept(k)
       /\ \/ /\ Len(ll) = MaxInFlight /\ refused' = TRUE
             /\ ll' = Collected(k) /\ tokens' = Without(tokens, Gone(k))
             /\ UNCHANGED <<inserted, waiting>>
          \/ LET e == [token |-> t, req |-> req, expireTime |-> now + CacheTTL]
             IN /\ Len(ll) < MaxInFlight /\ t \notin DOMAIN Without(tokens, Gone(k))
                /\ refused' = FALSE
                /\ ll' = PushFront(Collected(k), e)
                /\ tokens' = With(Without(tokens, Gone(k)), t, e)
                /\ inserted' = inserted \cup {req} /\ waiting' = waiting \cup {e}
  /\ UNCHANGED <<now, served>>

\* Insert and uniqueToken: t is the token drawn that is not in use.
Insert(req, t) ==
  /\ req \notin inserted
  /\ \E k \in 0..Len(ll) :
       /\ Kept(k)
       /\ \/ /\ k = MaxInFlight /\ refused' = TRUE
             /\ ll' = Collected(k) /\ tokens' = Without(tokens, Gone(k))
             /\ UNCHANGED <<inserted, waiting>>
          \/ LET e == [token |-> t, req |-> req, expireTime |-> now + CacheTTL]
             IN /\ k # MaxInFlight /\ t \notin DOMAIN Without(tokens, Gone(k))
                /\ refused' = FALSE
                /\ ll' = PushFront(Collected(k), e)
                /\ tokens' = With(Without(tokens, Gone(k)), t, e)
                /\ inserted' = inserted \cup {req} /\ waiting' = waiting \cup {e}
  /\ UNCHANGED <<now, served>>

\* No token: the source of random numbers fails, or ten draws are in use.
InsertFails(req) ==
  /\ req \notin inserted
  /\ \E k \in 0..Len(ll) :
       /\ Kept(k) /\ k # MaxInFlight /\ refused' = FALSE
       /\ ll' = Collected(k) /\ tokens' = Without(tokens, Gone(k))
  /\ UNCHANGED <<now, inserted, waiting, served>>

\* An entry is taken out whether or not it has expired, and its request given
\* out if it has not.  A token that is not there changes nothing.
Consume(t) ==
  /\ t \in DOMAIN tokens
  /\ LET e == tokens[t]
     IN /\ \E k \in 1..Len(ll) : ll[k] = e /\ ll' = WithoutIndex(ll, k)
        /\ tokens' = Without(tokens, {t})
        /\ waiting' = waiting \ {e}
        /\ served' = IF Expired(e) THEN served ELSE [served EXCEPT ![e.req] = @ + 1]
  /\ UNCHANGED <<now, inserted, refused>>

\* Time passes.
Tick == now' = now + 1 /\ UNCHANGED <<ll, tokens, inserted, waiting, served, refused>>

CacheNext ==
  \/ \E req \in Requests, t \in Tokens : Insert(req, t)
  \/ \E req \in Requests : InsertFails(req)
  \/ \E t \in Tokens : Consume(t)
  \/ Tick

CacheSpec == CacheInit /\ [][CacheNext]_cacheVars

-----------------------------------------------------------------------------
(* Correctness.                                                            *)

\* The list and the map hold the same entries, under distinct tokens and with
\* distinct requests, no more than maxInFlight of them, and the list is ordered
\* by age: gc, which looks at the end of the list only, relies on it.
CacheOK ==
  /\ Len(ll) <= MaxInFlight
  /\ DOMAIN tokens = {ll[i].token : i \in 1..Len(ll)}
  /\ \A i \in 1..Len(ll) : tokens[ll[i].token] = ll[i]
  /\ \A i, j \in 1..Len(ll) :
       i < j => ll[i].token # ll[j].token /\ ll[i].req # ll[j].req
                /\ ll[i].expireTime >= ll[j].expireTime

\* A request that was given a URL, was not fetched and has not expired can still
\* be fetched: neither gc nor the fetching of other requests loses it.
LiveRequestsKept ==
  \A e \in waiting : now <= e.expireTime => e.token \in DOMAIN tokens /\ tokens[e.token] = e

\* The token is good for one use: no request is given out twice, whatever the
\* order in which clients, collections and new requests come.
ServedOnce == \A r \in Requests : served[r] <= 1

\* A request is refused only if maxInFlight others can still be fetched.
RefusedOnlyWhenFull ==
  [][refused' /\ ~refused =>
       Cardinality({e \in waiting : now <= e.expireTime}) >= MaxInFlight]_cacheVars
=============================================================================
