------------------------------- MODULE Stats -------------------------------
(***************************************************************************)
(* The sizes of the containers' writable layers.  ListContainerStats sends *)
(* the containers it lists over a channel of one place to the goroutine of *)
(* startStatsCollection, which starts a collector, a goroutine of its own, *)
(* for every new container and stops those of containers not in the list.  *)
(***************************************************************************)
EXTENDS Integers, Sequences, SequencesExt

CONSTANTS
  StatsContainers,   \* containers of the node
  StatsCallers,      \* concurrent calls of ListContainerStats
  MaxLists,          \* bound on the lists taken
  MaxCollectors      \* at least the collectors these lists can start

VARIABLES
  living,       \* the containers that exist
  dead,         \* the containers that were removed: an ID is not used again
  stats,        \* the collector of each container, 0 for none
  collectors,   \* the collectors started so far
  clist,        \* the channel
  lister,       \* the state of each call
  lists         \* lists taken so far

statsVars == <<living, dead, stats, collectors, clist, lister, lists>>

NoList == [pc |-> "idle", ids |-> {}, filtered |-> FALSE, taken |-> 0]

StatsInit ==
  /\ living = {} /\ dead = {} /\ stats = [c \in StatsContainers |-> 0]
  /\ collectors = <<>> /\ clist = <<>>
  /\ lister = [p \in StatsCallers |-> NoList] /\ lists = 0

ContainerComes ==
  /\ \E c \in StatsContainers \ (living \cup dead) : living' = living \cup {c}
  /\ UNCHANGED <<dead, stats, collectors, clist, lister, lists>>

ContainerGoes ==
  /\ \E c \in living : living' = living \ {c} /\ dead' = dead \cup {c}
  /\ UNCHANGED <<stats, collectors, clist, lister, lists>>

-----------------------------------------------------------------------------
\* ListContainerStats: the list, which a filter may have made shorter, or an error.
ListContainers(p) ==
  /\ lister[p].pc = "idle" /\ lists < MaxLists /\ lists' = lists + 1
  /\ \/ \E ids \in SUBSET living :
          lister' = [lister EXCEPT ![p] = [pc |-> "send", ids |-> ids, filtered |-> ids # living,
                                           taken |-> lists']]
     \/ UNCHANGED lister
  /\ UNCHANGED <<living, dead, stats, collectors, clist>>

Send(p) ==
  /\ lister[p].pc = "send" /\ Len(clist) < 1
  /\ clist' = Append(clist, lister[p])
  /\ lister' = [lister EXCEPT ![p].pc = "read"]
  /\ UNCHANGED <<living, dead, stats, collectors, lists>>

\* The workers, in any order; a container whose stats cannot be read is left
\* out, and the size is left out until its collector has one.
GetContainerStats(p) ==
  /\ lister[p].pc = "read"
  /\ IF lister[p].ids = {}
       THEN lister' = [lister EXCEPT ![p] = NoList]
       ELSE \E c \in lister[p].ids : lister' = [lister EXCEPT ![p].ids = @ \ {c}]
  /\ UNCHANGED <<living, dead, stats, collectors, clist, lists>>

-----------------------------------------------------------------------------
newCstats(c, l) == [of |-> c, pc |-> "inspect", initialized |-> FALSE, stopping |-> FALSE, taken |-> l.taken]

\* The containers of a list that have no collector.
Fresh(ids) == SetToSeq({c \in ids : stats[c] = 0})

\* Slip: only new containers are entered in containerIDMap.
LeftNotFresh(ids) == {c \in StatsContainers : stats[c] # 0}

\* The containers with a collector that are not in a list.
Left(ids) == {c \in StatsContainers \ ids : stats[c] # 0}

\* Slip: the collectors that are left are deleted and not stopped.
StoppedNever(ids) == collectors

\* One goroutine per collector that is left waits until it can stop it.
Stopped(ids) ==
  [k \in DOMAIN collectors |->
     [collectors[k] EXCEPT !.stopping = @ \/ \E c \in Left(ids) : stats[c] = k]]

\* startStatsCollection: one list, under the lock of the cache.
Collect ==
  /\ clist # <<>> /\ clist' = Tail(clist)
  /\ LET l == Head(clist)
         new == Fresh(l.ids)
     IN /\ collectors' = Stopped(l.ids) \o [i \in DOMAIN new |-> newCstats(new[i], l)]
        /\ stats' = [c \in StatsContainers |->
                       IF c \in Left(l.ids) THEN 0
                       ELSE IF Contains(new, c) THEN Len(collectors) + SelectInSeq(new, LAMBDA d : d = c)
                       ELSE stats[c]]
  /\ UNCHANGED <<living, dead, lister, lists>>

\* startCollect: the inspection gives the size, fails or takes too long ...
InspectWithSize(k) ==
  /\ collectors[k].pc = "inspect"
  /\ \E size \in {FALSE, collectors[k].of \in living} :
       collectors' = [collectors EXCEPT ![k].pc = "select", ![k].initialized = @ \/ size]
  /\ UNCHANGED <<living, dead, stats, clist, lister, lists>>

\* ... and then the collector waits for stopCh or for the end of its sleep.
StopReceived(k) ==
  /\ collectors[k].pc = "select" /\ collectors[k].stopping
  /\ collectors' = [collectors EXCEPT ![k].pc = "gone"]
  /\ UNCHANGED <<living, dead, stats, clist, lister, lists>>

SleepEnds(k) ==
  /\ collectors[k].pc = "select"
  /\ collectors' = [collectors EXCEPT ![k].pc = "inspect"]
  /\ UNCHANGED <<living, dead, stats, clist, lister, lists>>

StatsNext ==
  \/ ContainerComes \/ ContainerGoes \/ Collect
  \/ \E p \in StatsCallers : ListContainers(p) \/ Send(p) \/ GetContainerStats(p)
  \/ \E k \in DOMAIN collectors : InspectWithSize(k) \/ StopReceived(k) \/ SleepEnds(k)

\* The goroutines run, and an inspection is answered or ends at its deadline.
\* GetContainerStats has no deadline: the daemon may leave it without an answer
\* for ever.  The send on stopCh is ready whenever the collector comes to its
\* select: it is received at last.
StatsFairness ==
  /\ WF_statsVars(Collect)
  /\ \A p \in StatsCallers : WF_statsVars(Send(p)) /\ WF_statsVars(lister[p].ids = {} /\ GetContainerStats(p))
  /\ \A k \in 1..MaxCollectors : WF_statsVars(k \in DOMAIN collectors /\ InspectWithSize(k))
  /\ SF_statsVars(\E k \in DOMAIN collectors : StopReceived(k))

-----------------------------------------------------------------------------
(* Correctness.                                                            *)

\* A container that exists keeps its collector, and with it the size it has
\* reported; except when a list made shorter by a filter, or one older than the
\* list that brought the container in, is processed.
SizesKept ==
  [][\A c \in living :
       stats[c] # 0 /\ stats'[c] # stats[c] =>
         Head(clist).filtered \/ Head(clist).taken < collectors[stats[c]].taken]_statsVars

\* No collector is orphaned: one that is not, or no longer, the collector of its
\* container in the cache ends, however long its inspections take.
CollectorsEnd ==
  []<>(\A k \in DOMAIN collectors : collectors[k].pc = "gone" \/ stats[collectors[k].of] = k)

\* ListContainerStats returns, though every call waits for room in the channel,
\* unless the daemon owes it the stats of a container.
ListsReturn ==
  []<>(\A p \in StatsCallers : lister[p].pc = "idle" \/ (lister[p].pc = "read" /\ lister[p].ids # {}))
=============================================================================
