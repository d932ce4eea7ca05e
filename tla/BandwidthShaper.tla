--------------------------- MODULE BandwidthShaper --------------------------
(***************************************************************************)
(* network/bandwidth: the limits of pods, set with tc on the bridge.  A    *)
(* limit is a class, found free by nextClassID, and a filter that sends    *)
(* the traffic of an address into the class.  tc itself is external: its   *)
(* classes and filters are the state.  Every command of tc is one step of  *)
(* its caller; a filter remembers, as history, the pod it was made for.    *)
(***************************************************************************)
EXTENDS Integers, FiniteSets, Sequences, FiniteSetsExt

CONSTANT MaxClass  \* the last class nextClassID tries: 9999

VARIABLES
  shaper,   \* is kubenet's bandwidthShaper set
  qdisc,    \* the bridge's queueing discipline: "none", "other" or "htb"
  classes,  \* the numbers of the classes
  filters   \* the filters: [cidr, dir, class, owner]

tcVars == <<shaper, qdisc, classes, filters>>

\* The bridge has another discipline, or an earlier life of the process has
\* left a class on it.
ShaperInit ==
  /\ shaper = FALSE /\ filters = {}
  /\ \/ qdisc = "other" /\ classes = {}
     \/ qdisc = "htb" /\ classes = {1}

\* The first use sets up the bridge, unless that was done in an earlier life.
\* Another discipline is deleted first.  kubenet ignores an error, and does
\* not try again.
ReconcileInterface(fails) ==
  /\ shaper' = TRUE
  /\ IF shaper \/ qdisc = "htb" THEN UNCHANGED qdisc
     ELSE qdisc' \in IF fails THEN {qdisc, "none"} ELSE {"htb"}

\* Slip: the whole range of the family is matched.
findCIDRClassLoose(cidr) == {x \in filters : x.cidr[1] = cidr[1]}

findCIDRClass(cidr) == {x \in filters : x.cidr = cidr}

FreeClasses == 1..MaxClass \ classes

nextClassID == Min(FreeClasses)

\* tc class add refuses a class that exists.
CanAddClass(c) == qdisc = "htb" /\ c \notin classes

AddClass(c) == classes' = classes \cup {c} /\ UNCHANGED <<shaper, qdisc, filters>>

AddFilter(cidr, d, c, p) ==
  /\ filters' = filters \cup {[cidr |-> cidr, dir |-> d, class |-> c, owner |-> p]}
  /\ UNCHANGED <<shaper, qdisc, classes>>

\* The filters of the address, in order, each with its class, up to the first
\* failure; the filter at which it fails may be gone and its class left.
Reset(cidr, fails) ==
  LET found == findCIDRClass(cidr)
      done == IF fails THEN SUBSET found ELSE {found}
  IN \E fs \in done : \E cs \in IF fails THEN {fs} \cup {fs \ {x} : x \in fs} ELSE {fs} :
       /\ fails => cs # found
       /\ filters' = filters \ fs
       /\ classes' = classes \ {x.class : x \in cs}

=============================================================================
