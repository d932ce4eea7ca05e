----------------------------- MODULE Containers -----------------------------
(***************************************************************************)
(* The containers of pods: CreateContainer with its recovery from a name   *)
(* conflict, StartContainer with the symbolic link to the container's log, *)
(* StopContainer and RemoveContainer, and the states that ContainerStatus  *)
(* and ListContainers report.  Every call of the Docker daemon and every   *)
(* change of the file system is a step; handlers run concurrently, may be  *)
(* cut off by a death of the process, and a call of the daemon may fail,   *)
(* also after it had its effect, when the client's two minutes are over.   *)
(* The daemon, which removes a container in steps and can leave it dead,   *)
(* the operator, who can pause one, and the container's own process are    *)
(* external.                                                               *)
(***************************************************************************)
EXTENDS Integers, Sequences

CONSTANTS
  Workers,         \* handlers that may run at a time
  Metadata,        \* containers the kubelet asks for: [name, attempt]
  MaxContainers,   \* bound on containers created: the IDs are 1..MaxContainers
  MaxFaults,       \* bound on failing calls, deaths of the process and pauses
  None

ASSUME ContainersAssumption ==
  /\ MaxContainers \in Nat /\ None \notin Metadata /\ None \notin {"created", "running", "exited"}
  /\ \A m \in Metadata : m = [name |-> m.name, attempt |-> m.attempt]

Cids == 1..MaxContainers

VARIABLES
  daemon,      \* the containers that exist, by ID
  created,     \* the number of containers created so far
  stuck,       \* names held by a container that the daemon does not find
  links,       \* per log path, that is per metadata: the container it leads to
  logFile,     \* does the daemon's log driver write a file
  h,           \* per worker: the handler in progress
  started,     \* history: containers whose last StartContainer succeeded
  overlapped,  \* history: metadata for which two handlers overlapped
  recovered,   \* history: metadata of containers a recovery took away
  vanished,    \* history: metadata for which a recovery found nothing to remove
  faults

history == <<started, overlapped, recovered, vanished>>
vars == <<daemon, created, stuck, links, logFile, h, history, faults>>

Idle == [pc |-> "idle", c |-> 0, m |-> None, err |-> FALSE]

Fails == faults < MaxFaults /\ faults' = faults + 1
Works == faults' = faults

-----------------------------------------------------------------------------
\* The pod's name, namespace and UID are those of one pod.
makeContainerName(m) == <<"k8s", m.name, "pod", "ns", "uid", m.attempt>>

\* A random number is appended; that it is never the same twice is assumed.
randomizeName(name) == Append(name, created + 100)

\* A random suffix is tolerated.
parseContainerName(name) == [name |-> name[2], attempt |-> name[6]]

MetadataOf(c) == parseContainerName(daemon[c].name)

Running(c) == c \in DOMAIN daemon /\ daemon[c].running
Mode(c, mode) == c \in DOMAIN daemon /\ daemon[c].mode = mode

\* What ContainerStatus makes of the state of a container.
ContainerState(s) ==
  IF s.running THEN "running"
  ELSE IF s.finished THEN "exited"      \* it has run
  ELSE IF s.code # 0 THEN "exited"      \* it could not be started
  ELSE "created"

\* The state of a container by the daemon, which filters a listing by it, and
\* how the text starts that the daemon lists it with.
DockerStatus(s) ==
  CASE s.running -> IF s.mode = "paused" THEN "paused" ELSE "running"
    [] ~s.running /\ s.mode \in {"removing", "dead"} -> s.mode
    [] OTHER -> IF s.finished THEN "exited" ELSE "created"
StatusText(s) ==
  [running |-> "Up", paused |-> "Up", exited |-> "Exited", created |-> "Created",
   removing |-> "Removal In Progress", dead |-> "Dead"][DockerStatus(s)]

\* Slip: what is not up has ended.
toRuntimeAPIContainerStateUp(text) == IF text = "Up" THEN "running" ELSE "exited"

toRuntimeAPIContainerState(text) ==
  CASE text = "Up" -> "running" [] text = "Exited" -> "exited" [] text = "Created" -> "created"
    [] OTHER -> "unknown"

toDockerContainerStatus(state) == IF state \in {"created", "running", "exited"} THEN state ELSE "unknown"

toRuntimeAPIContainer(c) ==
  [id |-> c, metadata |-> MetadataOf(c), state |-> toRuntimeAPIContainerState(StatusText(daemon[c]))]

\* filter is a state, or None.
ListContainers(filter) ==
  {toRuntimeAPIContainer(c) : c \in
     {c \in DOMAIN daemon : filter # None => DockerStatus(daemon[c]) = toDockerContainerStatus(filter)}}

-----------------------------------------------------------------------------
Init ==
  /\ daemon = <<>> /\ created = 0 /\ stuck = {}
  /\ links = [m \in Metadata |-> 0] /\ logFile \in BOOLEAN
  /\ h = [w \in Workers |-> Idle]
  /\ started = {} /\ overlapped = {} /\ recovered = {} /\ vanished = {}
  /\ faults = 0

Goto(w, l) == h' = [h EXCEPT ![w].pc = l]
Return(w) == h' = [h EXCEPT ![w] = Idle]

\* A removal goes on at the daemon, also when the handler gave up.
Removing(m) == \E c \in DOMAIN daemon : Mode(c, "removing") /\ MetadataOf(c) = m

\* A handler for m is in progress.
Busy(m) == \E w \in Workers : h[w].pc # "idle" /\ h[w].m = m

Begin(w, l, c, m) ==
  /\ h[w].pc = "idle"
  /\ h' = [h EXCEPT ![w] = [pc |-> l, c |-> c, m |-> m, err |-> FALSE]]
  /\ overlapped' = IF Busy(m) \/ Removing(m) THEN overlapped \cup {m} ELSE overlapped

\* The kubelet may ask for any container it was given the ID of, and for one
\* that is gone.  (Its metadata is history: the request has the ID only.)
CallOn(w, l, c) ==
  /\ c <= created
  /\ \E m \in Metadata : (c \in DOMAIN daemon => m = MetadataOf(c)) /\ Begin(w, l, c, m)

CreateContainer(w) ==
  /\ created < MaxContainers
  /\ \E m \in Metadata : Begin(w, "prepare", 0, m)
  /\ UNCHANGED <<daemon, created, stuck, links, logFile, started, recovered, vanished, faults>>

StartContainer(w) ==
  /\ \E c \in Cids : CallOn(w, "start", c) /\ started' = started \ {c}
  /\ UNCHANGED <<daemon, created, stuck, links, logFile, recovered, vanished, faults>>

StopContainer(w) ==
  /\ \E c \in Cids : CallOn(w, "stop", c)
  /\ UNCHANGED <<daemon, created, stuck, links, logFile, started, recovered, vanished, faults>>

RemoveContainer(w) ==
  /\ \E c \in Cids : CallOn(w, "inspect", c) /\ started' = started \ {c}
  /\ UNCHANGED <<daemon, created, stuck, links, logFile, recovered, vanished, faults>>

-----------------------------------------------------------------------------
\* The daemon.
NewContainer(name) ==
  /\ created < MaxContainers /\ created' = created + 1
  /\ daemon' = [c \in DOMAIN daemon \cup {created + 1} |->
                  IF c = created + 1
                    THEN [name |-> name, mode |-> "live", running |-> FALSE, finished |-> FALSE, code |-> 0]
                    ELSE daemon[c]]

\* A removal ends the process first; a container that is removed, or died of a
\* removal, is not started again.
BeginRemoval(c) ==
  daemon' = [daemon EXCEPT ![c].mode = "removing", ![c].running = FALSE,
                           ![c].finished = @ \/ daemon[c].running]

EndRemoval ==
  /\ \E c \in {c \in DOMAIN daemon : Mode(c, "removing")} :
       \/ daemon' = [d \in DOMAIN daemon \ {c} |-> daemon[d]] /\ Works
       \/ daemon' = [daemon EXCEPT ![c].mode = "dead"] /\ Fails
  /\ UNCHANGED <<created, stuck, links, logFile, h, history>>

\* The handler waits for the end of the removal, or for the client's timeout.
Removed(w) ==
  /\ h[w].pc = "removing" /\ Return(w)
  /\ IF Mode(h[w].c, "removing") THEN Fails ELSE Works
  /\ UNCHANGED <<daemon, created, stuck, links, logFile, history>>

\* The operator pauses a running container, and unpauses it.
Pause ==
  /\ \E c \in DOMAIN daemon :
       /\ Running(c)
       /\ \/ Mode(c, "live") /\ Fails /\ daemon' = [daemon EXCEPT ![c].mode = "paused"]
          \/ Mode(c, "paused") /\ Works /\ daemon' = [daemon EXCEPT ![c].mode = "live"]
  /\ UNCHANGED <<created, stuck, links, logFile, h, history>>

\* The container that has the name; 0 for one the daemon does not find.
Holders(name) ==
  {c \in DOMAIN daemon : daemon[c].name = name} \cup (IF name \in stuck THEN {0} ELSE {})

\* A name stays reserved after its container is gone, for a while.
NameStuck ==
  /\ \E m \in Metadata : /\ Holders(makeContainerName(m)) = {} /\ Fails
                         /\ stuck' = stuck \cup {makeContainerName(m)}
  /\ UNCHANGED <<daemon, created, links, logFile, h, history>>

NameFreed ==
  /\ \E name \in stuck : stuck' = stuck \ {name}
  /\ UNCHANGED <<daemon, created, links, logFile, h, history, faults>>

\* The container's process ends, with success: of a container that has run the
\* code makes no difference to anything modelled here.
Exit ==
  /\ \E c \in DOMAIN daemon :
       /\ Running(c) /\ Mode(c, "live")
       /\ daemon' = [daemon EXCEPT ![c].running = FALSE, ![c].finished = TRUE]
  /\ UNCHANGED <<created, stuck, links, logFile, h, history, faults>>

-----------------------------------------------------------------------------
\* CreateContainer: the version, the sandbox, the runtime handlers, and the
\* conversion of the configuration; any of it may fail.
Prepare(w) ==
  /\ h[w].pc = "prepare"
  /\ \/ Works /\ Goto(w, "create")
     \/ Fails /\ Return(w)
  /\ UNCHANGED <<daemon, created, stuck, links, logFile, history>>

Create(w) ==
  LET name == makeContainerName(h[w].m)
  IN /\ h[w].pc = "create"
     /\ \/ Holders(name) = {} /\ NewContainer(name) /\ (Works \/ Fails) /\ Return(w)
        \/ /\ Works /\ UNCHANGED <<daemon, created>>
           /\ \E c \in Holders(name) :
                h' = [h EXCEPT ![w].pc = "recover", ![w].c = c]
        \/ Fails /\ Return(w) /\ UNCHANGED <<daemon, created>>
     /\ UNCHANGED <<stuck, links, logFile, history>>

\* The daemon takes the removal of a container that neither runs nor is being
\* removed.
Removable(c) == c \in DOMAIN daemon /\ ~Running(c) /\ ~Mode(c, "removing")

\* Slip: any failure to remove the container leads to another name.
RecoverAlways(w) ==
  /\ h[w].pc = "recover"
  /\ \/ /\ Removable(h[w].c) /\ Works /\ BeginRemoval(h[w].c)
        /\ recovered' = recovered \cup {h[w].m} /\ Goto(w, "removing") /\ UNCHANGED vanished
     \/ /\ Works \/ Fails
        /\ vanished' = IF h[w].c \in DOMAIN daemon THEN vanished ELSE vanished \cup {h[w].m}
        /\ Goto(w, "createRandom") /\ UNCHANGED <<daemon, recovered>>
  /\ UNCHANGED <<created, stuck, links, logFile, started, overlapped>>

\* A container that is not running is removed, and the conflict returned as an
\* error.  A running one stays.  If it is not found, another name is tried.
recoverFromCreationConflictIfNeeded(w) ==
  /\ h[w].pc = "recover"
  /\ \/ /\ Removable(h[w].c) /\ Works /\ BeginRemoval(h[w].c)
        /\ recovered' = recovered \cup {h[w].m} /\ Goto(w, "removing") /\ UNCHANGED vanished
     \/ /\ h[w].c \in DOMAIN daemon /\ (IF Removable(h[w].c) THEN Fails ELSE Works)
        /\ Return(w) /\ UNCHANGED <<daemon, recovered, vanished>>
     \/ /\ h[w].c \notin DOMAIN daemon /\ Works /\ Goto(w, "createRandom")
        /\ vanished' = vanished \cup {h[w].m} /\ UNCHANGED <<daemon, recovered>>
     \/ /\ h[w].c \notin DOMAIN daemon /\ Fails
        /\ Return(w) /\ UNCHANGED <<daemon, recovered, vanished>>
  /\ UNCHANGED <<created, stuck, links, logFile, started, overlapped>>

CreateRandom(w) ==
  /\ h[w].pc = "createRandom" /\ Return(w)
  /\ \/ NewContainer(randomizeName(makeContainerName(h[w].m))) /\ (Works \/ Fails)
     \/ Fails /\ UNCHANGED <<daemon, created>>
  /\ UNCHANGED <<stuck, links, logFile, history>>

-----------------------------------------------------------------------------
\* StartContainer: whatever the daemon answers, the link comes next.  A
\* container that cannot be run has an exit code and no time of its end.
Start(w) ==
  LET c == h[w].c
      next(err) == h' = [h EXCEPT ![w].pc = "logPath", ![w].err = err]
  IN /\ h[w].pc = "start"
     /\ \/ /\ Mode(c, "live") /\ daemon' = [daemon EXCEPT ![c].running = TRUE, ![c].code = 0]
           /\ \E err \in BOOLEAN : next(err) /\ IF err THEN Fails ELSE Works
        \/ /\ Mode(c, "live") /\ ~Running(c) /\ Fails /\ next(TRUE)
           /\ daemon' \in {daemon, [daemon EXCEPT ![c].code = 1]}
        \/ ~Mode(c, "live") /\ Works /\ next(TRUE) /\ UNCHANGED daemon
     /\ UNCHANGED <<created, stuck, links, logFile, history>>

\* StartContainer returns the error of the link, or else that of the start.
Started(w, linkError) ==
  /\ started' = IF linkError \/ h[w].err THEN started ELSE started \cup {h[w].c}
  /\ Return(w)

\* getContainerLogPath.  Without a log file there is nothing to link.
LogPath(w) ==
  /\ h[w].pc = "logPath"
  /\ \/ /\ h[w].c \in DOMAIN daemon /\ Works
        /\ IF logFile THEN Goto(w, "unlink") /\ UNCHANGED started ELSE Started(w, FALSE)
     \/ (IF h[w].c \in DOMAIN daemon THEN Fails ELSE Works) /\ Started(w, TRUE)
  /\ UNCHANGED <<daemon, created, stuck, links, logFile, overlapped, recovered, vanished>>

\* An error of the removal is ignored.
Unlink(w) ==
  /\ h[w].pc = "unlink" /\ Goto(w, "symlink")
  /\ \/ links' = [links EXCEPT ![h[w].m] = 0] /\ Works
     \/ Fails /\ UNCHANGED links
  /\ UNCHANGED <<daemon, created, stuck, logFile, history>>

\* Slip: an error of the link is logged only.
SymlinkLogged(w) ==
  /\ h[w].pc = "symlink" /\ Works /\ Started(w, FALSE)
  /\ links' = [links EXCEPT ![h[w].m] = IF @ = 0 THEN h[w].c ELSE @]
  /\ UNCHANGED <<daemon, created, stuck, logFile, overlapped, recovered, vanished>>

\* A file in the way is an error.
Symlink(w) ==
  /\ h[w].pc = "symlink"
  /\ \/ /\ links[h[w].m] = 0 /\ Works /\ Started(w, FALSE)
        /\ links' = [links EXCEPT ![h[w].m] = h[w].c]
     \/ /\ (IF links[h[w].m] # 0 THEN Works ELSE Fails) /\ Started(w, TRUE)
        /\ UNCHANGED links
  /\ UNCHANGED <<daemon, created, stuck, logFile, overlapped, recovered, vanished>>

Stop(w) ==
  /\ h[w].pc = "stop" /\ Return(w)
  /\ \/ /\ daemon' = IF Running(h[w].c)
                       THEN [daemon EXCEPT ![h[w].c].running = FALSE, ![h[w].c].finished = TRUE,
                                           ![h[w].c].mode = "live"]
                       ELSE daemon
        /\ Works \/ Fails
     \/ Fails /\ UNCHANGED daemon
  /\ UNCHANGED <<created, stuck, links, logFile, history>>

-----------------------------------------------------------------------------
\* RemoveContainer: the log path is read from the container, so one that is
\* gone is an error.
RemoveInspect(w) ==
  /\ h[w].pc = "inspect"
  /\ \/ /\ h[w].c \in DOMAIN daemon /\ Works
        /\ h' = [h EXCEPT ![w].pc = "removeLink", ![w].m = MetadataOf(h[w].c)]
     \/ (IF h[w].c \in DOMAIN daemon THEN Fails ELSE Works) /\ Return(w)
  /\ UNCHANGED <<daemon, created, stuck, links, logFile, history>>

\* Slip: a link that can't be removed does not matter.
RemoveLinkTries(w) ==
  /\ h[w].pc = "removeLink" /\ Goto(w, "remove")
  /\ \/ Works /\ links' = [links EXCEPT ![h[w].m] = 0]
     \/ Fails /\ UNCHANGED links
  /\ UNCHANGED <<daemon, created, stuck, logFile, history>>

RemoveLink(w) ==
  /\ h[w].pc = "removeLink"
  /\ \/ Works /\ links' = [links EXCEPT ![h[w].m] = 0] /\ Goto(w, "remove")
     \/ Fails /\ Return(w) /\ UNCHANGED links
  /\ UNCHANGED <<daemon, created, stuck, logFile, history>>

\* By force.  The removal of a container that is being removed, or is gone, is
\* an error.
Remove(w) ==
  /\ h[w].pc = "remove"
  /\ \/ /\ h[w].c \in DOMAIN daemon /\ ~Mode(h[w].c, "removing")
        /\ Works /\ BeginRemoval(h[w].c) /\ Goto(w, "removing")
     \/ /\ IF h[w].c \in DOMAIN daemon /\ ~Mode(h[w].c, "removing") THEN Fails ELSE Works
        /\ Return(w) /\ UNCHANGED daemon
  /\ UNCHANGED <<created, stuck, links, logFile, history>>

\* The process dies.
Crash ==
  /\ Fails /\ h' = [w \in Workers |-> Idle]
  /\ UNCHANGED <<daemon, created, stuck, links, logFile, history>>

Step(w) ==
  \/ CreateContainer(w) \/ Prepare(w) \/ Create(w) \/ recoverFromCreationConflictIfNeeded(w)
  \/ CreateRandom(w) \/ StartContainer(w) \/ Start(w) \/ LogPath(w) \/ Unlink(w) \/ Symlink(w)
  \/ StopContainer(w) \/ Stop(w) \/ RemoveContainer(w) \/ RemoveInspect(w) \/ RemoveLink(w)
  \/ Remove(w) \/ Removed(w)

Next == NameStuck \/ NameFreed \/ EndRemoval \/ Pause \/ Exit \/ Crash \/ \E w \in Workers : Step(w)

Spec == Init /\ [][Next]_vars

-----------------------------------------------------------------------------
(* Correctness.                                                            *)

Twins(c, d) == c # d /\ MetadataOf(c) = MetadataOf(d)

\* When nothing is in progress for it, a log path leads to a container that
\* exists: RemoveContainer takes the link away first, and gives up if it
\* can't.  Two things leave a link to nothing: handlers of the same container
\* that overlap, and a recovery, which removes the container only.  A container
\* that was started with success, and is there, has its own log linked, unless
\* it has a twin or handlers overlapped.
LogsLinked ==
  /\ \A m \in Metadata \ (overlapped \cup recovered) :
       ~Busy(m) => links[m] = 0 \/ links[m] \in DOMAIN daemon
  /\ \A c \in started \cap DOMAIN daemon :
       LET m == MetadataOf(c)
       IN ~Busy(m) /\ m \notin overlapped /\ (\A d \in DOMAIN daemon : ~Twins(c, d)) /\
          m \notin vanished /\ logFile => links[m] = c

\* Two containers with the same metadata exist only if a recovery found that the
\* container it was to remove is gone, and made one with a name of its own.
TwinsOnlyByRecovery ==
  \A c, d \in DOMAIN daemon : Twins(c, d) => MetadataOf(c) \in vanished

\* A listing of the containers and the status of each tell the same state, but
\* for the containers whose status goes by less than the daemon's text: one that
\* could not be started is listed as created, by the text, and has exited by its
\* status (container_status.go:96); one that is being removed, or died of it, is
\* listed as unknown, and has the status it had, but never as one that runs.
\* A listing by state has the containers that are listed with that state, but
\* for the paused ones, which are listed as running and found by no filter.
ListedAsReported ==
  LET all == ListContainers(None)
      failed(c) == daemon[c].code # 0 /\ ~daemon[c].finished
      leaving(c) == Mode(c, "removing") \/ Mode(c, "dead")
      told(c) == {e.state : e \in {e \in all : e.id = c}}
  IN /\ {e.id : e \in all} = DOMAIN daemon
     /\ \A c \in DOMAIN daemon :
          told(c) = {IF leaving(c) THEN "unknown" ELSE IF failed(c) THEN "created"
                     ELSE ContainerState(daemon[c])}
     /\ \A c \in DOMAIN daemon : leaving(c) => ContainerState(daemon[c]) # "running"
     /\ \A state \in {"created", "running", "exited"} :
          ListContainers(state) = {e \in all : e.state = state /\ ~Mode(e.id, "paused")}
=============================================================================
