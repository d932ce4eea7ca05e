----------------------------- MODULE AtomicStore -----------------------------
(***************************************************************************)
(* What the checkpoint manager promises its callers (store.Store, "must be *)
(* thread-safe", and writeFile, "in a single transaction"): every call     *)
(* takes effect in one step between its start and its return, a call that  *)
(* fails has no effect, and a call that the death of the process cuts off  *)
(* has had all of its effect or none.  A loss of power may take the store  *)
(* back, key by key, to what had reached the disk; it never damages a      *)
(* value.                                                                  *)
(***************************************************************************)
CONSTANTS Workers, Keys, Values, None

VARIABLES
  stored,   \* the value of each key, None if it has none
  durable,  \* the value each key would have after a loss of power
  op,       \* per worker: the call in progress, "none" if there is none
  key,      \* per worker: the key of the call
  value,    \* per worker: the value to write
  outcome,  \* per worker: how its last call ended
  got,      \* per worker: what it read last
  listed    \* per worker: the keys it listed last

answers == <<got, listed>>
vars == <<stored, durable, op, key, value, outcome, answers>>

Idle ==
  /\ op = [w \in Workers |-> "none"]
  /\ key = [w \in Workers |-> None]
  /\ value = [w \in Workers |-> None]
  /\ outcome = [w \in Workers |-> "none"]
  /\ got = [w \in Workers |-> None]
  /\ listed = [w \in Workers |-> {}]

Init ==
  /\ stored = [k \in Keys |-> None]
  /\ durable = [k \in Keys |-> None]
  /\ Idle

Call(w, o, k, v) ==
  /\ op[w] = "none"
  /\ op' = [op EXCEPT ![w] = o]
  /\ key' = [key EXCEPT ![w] = k]
  /\ value' = [value EXCEPT ![w] = v]
  /\ outcome' = [outcome EXCEPT ![w] = "none"]
  /\ UNCHANGED <<stored, durable, answers>>

Return(w, res) ==
  /\ op' = [op EXCEPT ![w] = "none"]
  /\ key' = [key EXCEPT ![w] = None]
  /\ value' = [value EXCEPT ![w] = None]
  /\ outcome' = [outcome EXCEPT ![w] = res]
  /\ UNCHANGED durable

Put(w) ==
  /\ op[w] = "put" /\ Return(w, "ok")
  /\ stored' = [stored EXCEPT ![key[w]] = value[w]]
  /\ UNCHANGED answers

Remove(w) ==
  /\ op[w] = "remove" /\ Return(w, "ok")
  /\ stored' = [stored EXCEPT ![key[w]] = None]
  /\ UNCHANGED answers

Get(w) ==
  /\ op[w] = "get" /\ Return(w, "ok")
  /\ got' = [got EXCEPT ![w] = stored[key[w]]]
  /\ UNCHANGED <<stored, listed>>

List(w) ==
  /\ op[w] = "list" /\ Return(w, "ok")
  /\ listed' = [listed EXCEPT ![w] = {k \in Keys : stored[k] # None}]
  /\ UNCHANGED <<stored, got>>

Fail(w) == op[w] # "none" /\ Return(w, "failed") /\ UNCHANGED <<stored, answers>>

Flush(k) ==
  /\ durable' = [durable EXCEPT ![k] = stored[k]]
  /\ UNCHANGED <<stored, op, key, value, outcome, answers>>

Crash == Idle' /\ UNCHANGED <<stored, durable>>

PowerLoss == Idle' /\ stored' = durable /\ UNCHANGED durable

Next ==
  \/ \E w \in Workers :
       \/ \E k \in Keys, v \in Values : Call(w, "put", k, v)
       \/ \E k \in Keys, o \in {"get", "remove"} : Call(w, o, k, None)
       \/ Call(w, "list", None, None)
       \/ Put(w) \/ Remove(w) \/ Get(w) \/ List(w) \/ Fail(w)
  \/ \E k \in Keys : Flush(k)
  \/ Crash
  \/ PowerLoss

Spec == Init /\ [][Next]_vars
=============================================================================
