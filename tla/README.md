# A TLA+ verification of cri-dockerd

cri-dockerd is the shim through which a kubelet drives the Docker daemon: it
serves the Container Runtime Interface (CRI) over gRPC, and turns each request
into calls to the daemon, to a network plugin, and to a directory of
checkpoint files. Nothing ties those together in a transaction. A request is a
sequence of calls, any of which may fail or take effect after its caller has
given up; requests run concurrently; the shim may be restarted at any point;
and it relies on the kubelet's retries to clean up. The models here are about
that: what holds between the daemon, the disk, the kernel's tables and the
shim's memory, whatever is interrupted, interleaved or repeated.

`PROJECT.json` has the machine-readable side: the components, the source lines
each definition models, the runs with the mutations that show each property
to be sensitive to the code, the hazards, the findings and the theorems.

## The parts of the system

| Part | Source | Module |
|---|---|---|
| Pod sandboxes: run, stop, remove, list | `core/sandbox_*.go` | `PodSandbox` |
| Status of a sandbox, its addresses | `core/sandbox_status.go`, `core/sandbox_helpers.go` | `SandboxStatus` |
| Checkpoints on disk | `store/`, `core/checkpoint.go` | `CheckpointStore`, `AtomicStore` |
| Per-pod serialisation of network plugin calls | `network/plugins.go` | `PluginManager`, `PodMutex` |
| Choice of the network plugin | `network/plugins.go`, `core/docker_service.go` | `NetworkPlugins` |
| CNI plugin | `network/cni/` | `CNI` |
| kubenet plugin | `network/kubenet/` | `Kubenet` |
| Host ports and the nat table | `network/hostport/` | `HostportManager`, `IPTables` |
| Traffic shaper | `network/bandwidth/` | `BandwidthShaper` |
| Application containers and their logs | `core/container_*.go`, `core/logs.go` | `Containers` |
| Streaming server and its request cache | `streaming/server.go`, `streaming/request_cache.go` | `Streaming`, `RequestCache` |
| Streams of a port forwarding, of an exec session | `streaming/portforward`, `streaming/remotecommand` | `StreamPairs`, `RemoteStreams` |
| Exec | `core/exec.go`, `libdocker/` | `Exec` |
| Statistics | `core/stats*.go` | `Stats` |
| What is known of the daemon, through the memoizing cache | `core/docker_service.go`, `utils/cache.go` | `SystemInfo` |
| Images: pull, status, removal | `core/image.go`, `libdocker/` | `Images` |
| Translation of CRI structures to Docker ones and back | `core/convert.go`, `core/helpers*.go`, `core/security_context.go`, ... | `Translation` |

How they interact. `RunPodSandbox` creates the pause container in the daemon,
marks its network "not ready" in the map `networkReady`, writes a checkpoint,
starts the container, rewrites `resolv.conf`, and has the plugin manager call
the plugin, which reads the checkpoint for the port mappings.
`StopPodSandbox` looks the sandbox up in the daemon or, failing that, in the
checkpoint, tears the network down unless `networkReady` says that this is
not needed, and stops the container. `RemovePodSandbox` never calls the
plugin: a network that is up by then stays up. `PodSandboxStatus` reads the
same map and asks the plugin for addresses. Exec, attach and port forwarding
leave a request with the streaming server and answer with a URL; the session
runs when the URL is fetched.

The modules compose accordingly. `Kubenet` extends `HostportManager` (over
`IPTables`) and `BandwidthShaper`, whose operations are steps of its set-up and
teardown. `NetworkPlugins` puts `Kubenet` and an instance of `CNI` together
under the name on the command line. `Streaming` extends `RequestCache`.
`Service` and `Goroutines` put side by side parts that share no state, the
second the parts made of goroutines that wait for each other: a behaviour of
either runs one part, chosen at the start, since interleaving two that neither
read nor write each other's variables reaches no state of either that it does
not reach alone. Three compositions rest on a promise. A plugin call is one
step per sandbox in `PodSandbox`, and a pod has one operation at a time in
`Kubenet` and `CNI`, because the plugin manager serialises the calls of a pod,
which `PluginManagerProofs` proves. A checkpoint operation is one step because
the checkpoint manager implements `AtomicStore`, which `CheckpointStoreProofs`
proves. (One exception is listed with the hazards: a teardown without the
pod's name takes another lock than one with it.)

## The modules

### PodSandbox

State: per sandbox ID the daemon's container (`container`, `dockerName`,
`hostNetwork`, `workload`), the checkpoint file, the plugin's resources
(`network`) and the map `networkReady`, whose missing key is `"unknown"`; per
worker the local variables of the handler it runs (`pc`, `id`, `name`,
`other`, `host`, `err`, `ids`). The variables `runOK`, `stopOK`, `removeOK`,
`raced` and `ghosts` are history, and no step of the shim reads them; the
kubelet knows `runOK` and `stopOK` from the answers it got.

Every external call and every access to `networkReady` (which has its own
lock) is one action: `Create`, `recoverFromCreationConflictIfNeeded`,
`CreateRandom`, `RunSetNotReady`, `CreateCheckpoint`, `Start`,
`RewriteResolvFile`, `RunSetUp`, `RollbackNetwork`, `RollbackStop` and
`RunSetReady` are `RunPodSandbox` in the order of `core/sandbox_run.go`, and
the other handlers are split in the same way. Three things deserve a word.

* *Failures.* A call fails without effect, or returns an error after its
  effect (a deadline that expired): each costs one of `MaxFaults`. A checkpoint
  that a reader could not read and that is deleted for it costs one too.
  `ContainerLost` and `CorruptCheckpoint`, accidents outside the shim, are
  failures as well.
* *The error variable.* The deferred function of `RunPodSandbox` looks at one
  variable `err`. Errors of the inspection and of `resolv.conf` are in
  variables that shadow it, and in the error path of the set-up the results of
  `TearDownPod` and `StopContainer` overwrite it. So `RewriteResolvFile` and
  `RollbackStop` go on to `"ready"` with an error to report, as the code does.
* *The plugin.* `SetUpPod` needs the network namespace of a running container.
  Both plugin calls read the checkpoint and delete one they cannot read
  (`core/sandbox_port_forward.go`, `GetPodPortMappings`); for `TearDownPod`
  the first to do so is the deletion from the loopback network, whose error is
  only logged.

What is abstracted: checks of image, configuration and runtime handler come
before the first state change and are left out; `StartWorkload` stands for the
containers a kubelet starts in a sandbox, and their removal is one action; a
listing with a filter reads no checkpoints and is left out. A Docker call that
times out has had its effect, if ever, by the time the error is returned.
The kubelet removes a sandbox only after a stop of it has succeeded.

### SandboxStatus

One sandbox that is run, stopped and survives a restart, in the few steps a
status request can tell apart, and requests that inspect the container, look
at `networkReady` and ask the plugin: three steps that nothing holds together.
The plugin is asked under the pod's lock, so it never answers in the middle of
a set-up or teardown; kubenet's cache of addresses, the fall-back to Docker's
own addresses when the plugin fails, and a family that cannot be read are in
the model. kubenet lists its cache, which is a set, in any order.

### PluginManager and PodMutex

`PodMutex` is the promise: at most one operation per pod is in the plugin.
`PluginManager` is the code: `podLock` finds or makes the pod's lock object
and counts a reference under the manager's own lock, `Lock` waits for the
object's mutex, and `podUnlock` drops the reference, deletes an entry nobody
refers to, and unlocks. Lock objects are identities, so that a second object
for the same pod, the thing that could go wrong, can be told from the first.

### CheckpointStore and AtomicStore

`AtomicStore` is the promise: each call takes effect in one step or fails
without effect; a call cut off by the death of the process has had all of its
effect or none; a loss of power may take keys back to what had reached the
disk, and damages none. `CheckpointStore` is the code down to the system calls
of `writeFile`. The file system is external and modelled as POSIX describes
it: changes are visible at once; the entry of a key reaches the disk some
time later (`WriteBack`), and data is certain to be there only after `Sync`.
The directory is never synced, so an acknowledged write may be lost with the
power; the abstract store says so.

### Kubenet, HostportManager, IPTables, BandwidthShaper, CNI, NetworkPlugins

`IPTables` is one table, as operators: chains with their rules in order, and
what an `iptables-restore --noflush` of a sequence of lines makes of it. The
commands are external: a restore flushes a chain that is declared, appends
every rule it is given, and refuses all lines if it does not understand one.
(The stand-in of the repository's tests, `network/hostport/fake_iptables.go`,
skips such lines and drops rules that are there already; it is not what the
program runs.) `HostportManager` has Add and Remove as one step each (both hold
the manager's mutex): the ports to open, the sockets, the lines they write, and
what is undone on failure. The lines that Add and Remove write for the chains
which are there are `{}`, the value kept for a chain, and no restore takes
them: with host ports no pod can be set up, and what remains of the protocol
of the ports is that the rollback gives back what was opened. With the chain's
line in its place (`ChainLine` for `ValueLine`), `PortsMapped` holds in the
instance of the violation. A socket is named by the pod whose Add opened it.
`BandwidthShaper` has every command of `tc` as a step, since two pods may
interleave between the search for a free class and its use. `Kubenet` is
`SetUpPod` (bridge, cached addresses, limits, host ports), its rollback,
`TearDownPod`, the pod CIDR event and a restart that loses what is in memory.
The provisos of its properties are history variables: `lost`, `contested` and
`inherits` each stand for one thing the code does not prevent, listed below.

`CNI` has the configuration directory, the goroutine that reads it every five
seconds (a read and, later, the assignment), the pod CIDR event, and set-up
and teardown as check, loopback and default network. `checkInitialized` and
the use of the default network are different steps; what a pod was set up
with is not remembered by the code.

### Containers

Create with the recovery from a name conflict, start with the link to the log,
stop, remove, and the states reported by status and listing. A container's
identity, name and metadata are separate: names are freed late by a daemon
that is removing a container (`NameStuck`, `NameFreed`), and a recovery may
make a second container of the same metadata under a random name. The daemon
removes a container in two steps, between which others see it as being
removed, and which may leave it dead; an operator may pause one. The listing
goes by the first word of the daemon's text and by its filter, the status by
the fields of an inspection, and the two know different states.

### The parts in Service and Goroutines

* `RequestCache` and `Streaming`: the map and the list of the cache, gc by
  age, tokens, and a server whose three endpoints fetch a request once.
* `StreamPairs`: the main loop that puts streams together by request ID (given
  by the client or computed from the number of the stream), and a monitor per
  pair that removes it by ID, after completion or a timeout.
* `RemoteStreams`: the loop that collects the streams of a session, a waiter
  for each reply, the expiry, the handlers of the protocol versions, the
  status on the error stream.
* `Exec`: the goroutines of `ExecInContainer` and `StartExec`, the unbuffered
  signal between them, the resizer, the timeout, the inspection loop; the
  connection may end with an error at any time.
* `Stats`: lists taken by callers, a channel with one place, the collector
  loop, a goroutine per container with its stop channel.
* `SystemInfo`: `Memoize` with its two locks; a value is the moment at which it
  was true, so its age can be told after it went through two caches.
* `Images`: the daemon's images and tags; a pull whose messages are decoded
  while a reporter reads the last one at intervals and, a step later, may
  cancel; the pull of the sandbox image with several credentials; removal by
  ID, which removes a list of names; the two lookups of a status. A reference
  is a tag, a name without one, a digest, an ID, one that is cut short or
  lacks the algorithm, the first digits of an ID, or a digest made of an ID:
  the kinds that `matchImageTagOrSHA` and `matchImageIDOnly` treat differently,
  and for which the daemon's own lookup differs from theirs.
* `Translation`: pure functions as operators, one step per configuration.
  `modifyContainerNamespaceOptions`, `applySandboxResources` and so on
  are applied in the order of the code to a record of the fields that are
  compared. Strings that are composed and taken apart again (labels with a
  prefix, `container:<id>`, `uid:gid`) are tuples. A seccomp profile is a
  default action and rules, some with conditions of Docker's format, which the
  decoding into the runtime's format drops.

## What the runs check

| Run | Instance | Distinct states | Properties |
|---|---|---|---|
| `sandbox_faults` | 2 workers, 1 sandbox, all requests, 3 failures, 1 restart | 704,338 | `StopReleasesNetwork`, `NetworkNotForgotten`, `CheckpointCoversNetwork`, `GhostsAreGone`, `HostNetworkNotTornDown` |
| `sandbox_conflicts` | 1 worker, 2 sandboxes with one name, 1 failure, fair | 118,845 | `RunningIsRemovedOnlyByRequest`, `EventuallyCleaned` |
| `sandbox_live` | 1 worker, 1 sandbox, 2 failures, 2 restarts, fair | 21,780 | `EventuallyCleaned` |
| `store` | 2 workers, 1 key, 1 value, 2 temporary names, 1 failure, 1 death or loss of power, fair | 223,495 | `NeverTorn`, `ImplementsAtomicStore`, `EveryCallReturns` |
| `network` | kubenet: 2 pods that want one host port, 2 addresses, 1 failure, 1 restart; cni: 1 pod, 3 changes of the directory, 2 failures, 1 restart | 917,367 | `Released`, `Limited`, `OthersKept`; `AttachedAsTold` |
| `containers` | 2 workers, 2 containers of one metadata, 2 failures, deaths or pauses | 1,137,528 | `LogsLinked`, `TwinsOnlyByRecovery`, `ListedAsReported` |
| `service` | one part at a time, see below; fair | 741,412 | see below |
| `goroutines` | one part at a time, see below; fair | 58,962 | see below |

The part of `service` or `goroutines` that runs is chosen in the initial state:

| Run | Part | Instance | Distinct states | Properties |
|---|---|---|---|---|
| `service` | streaming | 3 requests, 2 in flight, a time to live of 1 | 34,872 | `LiveRequestsKept`, `RefusedOnlyWhenFull`, `SessionAsAsked` |
| | daemon information | 2 clients, a time to live of 1, calls of at most 1, a clock to 5 | 276,302 | `AnswersFresh` |
| | images | 2 tags, 2 IDs, a pull with 2 messages and a removal or status at a time, 1 failure | 399,238 | `StalledPullsEnd`, `RemovesItsImage`, `ImageAnswersTrue` |
| | sandbox status | 1 request, 2 failures | 20,388 | `AddressesTold` |
| | translation | about 5,000 configurations | 10,612 | `PodAsAsked`, `DataKept` |
| `goroutines` | locks of pods | 4 workers, 2 pods, 4 lock objects | 4,097 | `RefcountIsUsers`, `ImplementsPodMutex`, `EveryOperationRuns` |
| | port forwarding | 2 connections, 3 streams | 6,902 | `SameConnection`, `MonitorsOwnPair` |
| | exec session | 6 kinds of session, one stream too many | 19,490 | `ContextComplete`, `FailureTold` |
| | exec | a session with a terminal and a timed call, 1 failure | 11,255 | `ResultTrue`, `ExecEnds` |
| | statistics | 1 container, 2 callers, 3 lists | 17,218 | `SizesKept` |

`NothingHangs` is about port forwarding, exec sessions and statistics together:
whatever waits in them gets what it waits for or gives up, except for a list
to which the daemon owes the stats of a container. `PodAsAsked` and `DataKept`
are conjunctions of properties of `Translation`, each documented there.

Four more runs end in a violation, and each shows a place where the code does
not do what a comment says.

| Run | Property | What happens |
|---|---|---|
| `sandbox_ready_violation` | `ReadyFollowsReturn` | `RunPodSandbox` fails and marks the network ready (`core/sandbox_run.go:90`). |
| `sandbox_stop_violation` | `StopTearsDown` | A `StopPodSandbox` that overlaps with the sandbox's `RunPodSandbox` reads "not ready", skips the teardown and succeeds; the network is up afterwards (`core/sandbox_stop.go:88`). |
| `hostports_violation` | `PortsMapped` | Add writes `{}` for the chains that are there, iptables-restore refuses it, and no host port is ever mapped (`network/hostport/hostport_manager.go:443`). |
| `address_order_violation` | `IPv4First` | kubenet lists the addresses of a dual-stack pod in any order, and the status gives the first one as the pod's (`network/kubenet/kubenet_linux.go:1049`). |

### What the code does not guarantee

The passing properties carry exactly the provisos that the code leaves, as
history variables or as conditions in their text. They are collected here.

* *Sandboxes.* `StopReleasesNetwork` and `NetworkNotForgotten` exempt
  sandboxes stopped, removed or replaced while they were being run (`raced`)
  and behaviours with three failures: `SetUpPod`, `TearDownPod` and
  `StopContainer` failing in a row leave a network up that no later stop tears
  down (`core/sandbox_run.go:195`). Both provisos are tight.
* *Checkpoints.* `ListPodSandbox` compares with an error value nobody returns
  (`store/checksum.go:33`) and never deletes a corrupt checkpoint. A write cut
  off by a crash leaves its temporary file, which nothing removes.
* *kubenet.* A teardown that finds no cached address, as after a restart,
  drops the errors it has collected (`network/kubenet/kubenet_linux.go:579`);
  one that fails takes the address out of the cache all the same (626); and an
  error of the bridge plugin that says "no such file or directory", about
  whatever file, is taken for success (827). All three leave addresses,
  sockets or limits behind (`lost`). An address may be given to a pod while the
  teardown of its former owner still removes limits by address (`contested`),
  or with a filter that a failed teardown or a restart left, which the pod then
  has instead of its own (`inherits`): `Limited` says of it only that it has a
  filter.
* *cni.* A pod is torn down with the default network of the moment, and an
  error that says "no such file or directory" is taken for success; a network
  that is replaced between the check and its use may get no ranges.
* *Containers.* A recovery that finds its conflicting container gone makes a
  twin. A container that could not be started is listed as created and has
  the status exited. One that is being removed, or that a failed removal left
  dead, is listed as unknown, and its status is exited or created. A paused one
  is running by both, and a listing of the running ones does not have it.
  `LogsLinked` exempts containers whose handlers overlapped, a removal that
  outlives its handler included.
* *Streaming.* The URL has no host until the goroutine that serves it listens.
  `waitForStreams` counts replies, not kinds: a second stream of one kind is
  counted for a missing one. A timeout leaves the waiters of the streams, and
  the connection. Version 1 of the protocol resets the error stream
  before the status is written.
* *Exec.* After `maxRetries` inspections of a command that still runs, success
  is reported. If the call returns before the command's start was signalled,
  the goroutine in `StartExec` waits forever.
* *Statistics.* A list made with a filter, or one older than the last, stops
  the collectors of containers that are alive. The call for the stats of a
  container has no deadline (`libdocker/kube_docker_client.go:624`), so
  `ListContainerStats` hangs for as long as the daemon does not answer.
* *Daemon information.* Runtime handlers are kept for a time to live after
  they were computed from an information that was itself kept.
* *Images.* The reporter's first tick dereferences a message that may not have
  come (`libdocker/kube_docker_client.go:376`); the model ends in `panicked`
  there. Once a report has seen the image being extracted, a stall is never
  canceled. The reporter reads without a lock that it keeps: the image may be
  extracted when the pull is canceled. A list of tags to remove may be stale
  when a pull moves one. `RemoveImage` with a tag, a digest or part of an ID
  removes nothing and answers with success (`core/image.go:174`). An ID that is
  cut short is refused by both matchers, and reported as absent.
* *Status.* A request that finds the container before it is marked not ready
  may see half a network; a failed teardown leaves kubenet's cached address.
  kubenet's two addresses come in any order.
* *Translation.* A profile of which no rule is left yields no option, that is
  the daemon's own profile. The conditions of a rule (`includes`, `excludes`)
  are lost on the way to the daemon, so the rule holds always. The namespace
  modes that a status reports are those of the sandbox's container: the pid
  modes POD and TARGET come back as CONTAINER.

### Bounds

* *Two workers* in `PodSandbox` and `Containers`. Handlers share state only
  per sandbox or per container name; the hazards are between two handlers of
  one, or two that contend for one name. The proofs have no bound on workers:
  `sandbox_conflicts`, whose liveness property leaves room for one worker,
  checks `RunningIsRemovedOnlyByRequest` as well, which is proved for any number.
* *One or two sandboxes.* Two are what a name conflict takes. Two containers
  are an original and its twin, or one that replaces it. With three and one
  failure the containers were checked once: 4,940,071 states.
* *Three failures* in `sandbox_faults`: at three the promise ends, and below
  it every combination of failures is explored. `sandbox_live` has two and two
  restarts: a restart in `RunPodSandbox` and one in the clean-up.
* *Locks.* One object per worker is enough, since a worker refers to one at a
  time; with four workers a lock can be held, waited for and deleted while a
  second one is made.
* *Store.* A temporary name for each file that can be left behind, and one
  more. With one value an old checkpoint and a new one are the same; torn and
  missing ones are not, and two values were checked when the module was
  written (350,300 states).
* *Network.* Two pods are the least that can contend for a port, an address or
  a class. Three limits and a class left by an earlier life are one more than
  there are class numbers, so that `nextClassID` runs out.
* *Service and Goroutines.* Requests over the number in flight by one; time
  over the time to live by one, and for what is known of the daemon over the
  four units that runtime handlers may be old, at most; two messages of a pull,
  so that extraction follows a download; for port forwarding, four and five
  streams were checked once as well. A collector can be replaced once and its list be older than the last;
  an image's tag can be moved to the other image while it is removed.

Symmetry (of workers and sandboxes) is used only in runs without liveness
properties. Deadlock is not checked in `service` and `goroutines`, where parts
end when their bounded inputs are used up.

### Fairness

* A handler that has begun goes on (weak fairness): the calls of the sandbox
  handlers to the daemon and to CNI carry deadlines. `GetContainerStats` and
  `ImagePull` do not, and nothing is assumed of them.
* The kubelet repeats `StopPodSandbox`, then `RemovePodSandbox`, until it
  succeeds (strong fairness of the request: a worker becomes free again and
  again). The code says that it counts on this: "kubelet will retry on any
  error returned by StopPodSandbox" (`core/sandbox_stop.go:79`).
* A waiter for a Go mutex gets it (strong fairness of `Lock` and
  of the store's steps): in starvation mode `sync.Mutex` hands over to the
  first in the queue.
* A goroutine that can run does, and a timer that is set goes off
  (weak fairness in `StreamPairs`, `RemoteStreams`, `Exec`, `Stats`,
  `Images`). A send that waits is received by a select that comes back to it
  again and again (strong fairness of `StopReceived`): a select chooses at
  random among the cases that are ready.
* Nothing is assumed of the daemon's progress in a pull, of the commands that
  exec runs, or of the clients of the streaming server.
* Failures and restarts are bounded, so they come to an end; nothing is
  promised while they go on.

## What is proved

TLAPS checks every proof, for all values of the constants: any number of
workers, sandboxes, names, pods, keys, requests, failures and restarts. The
assumptions are the `ASSUME`s of the component modules: `None` is none of the
other values, the bounds are natural numbers, workers (for counting
references) and temporary names are finite sets, and checkpoint keys are not
names of temporary files, which `ValidateKey` guarantees.

**`PodSandboxTypeProofs`, `PodSandboxShapeProofs`, `PodSandboxProofs`**:
`TypeCorrect`, `StopReleasesNetworkAlways`, `NetworkNotForgottenAlways`.
Neither property is inductive. The inductive invariant has three layers, one
per module.

1. `TypeOK`.
2. `ShapeInv`: a sandbox is run by one handler (`OneRun`); handlers before the
   create have an unused ID and all others a used one (`Claimed`); nothing is
   held for an unused ID (`Fresh`); a stop that is at work, or succeeded,
   while the sandbox is being run has made it `raced` (`Overlaps`); what
   a handler knows of the network mode is right (`HostModes`).
3. `NetworkInv`: the two properties, with `RunNetwork`, which counts the
   failures it takes for `RunPodSandbox` to be where it is with the network up
   (none before the set-up, one before the teardown of the error path, two
   after it, one more each if the checkpoint is corrupt or the container gone),
   and `StopNetwork`: a stop past its teardown without an error has a released
   network.

The count is the argument: to leave `RunPodSandbox` with "not ready" and the
network up takes `SetUpPod`, `TearDownPod` and `StopContainer` to fail.

**`PodSandboxContainerProofs`**: `GhostsAreGoneAlways`,
`HostNetworkNotTornDownAlways`, `RunningIsRemovedOnlyByRequestAlways`. All
three rest on one lemma about single steps, `ContainerSteps`: a container that
is gone stays gone, one that was created never counts as unused again, and one
that runs is removed by a request for it or from outside. `ListInv` follows a
listing through its two reads: what it has read of the checkpoints are sandboxes
that were created, and what is left after the containers were read is gone.
`HostInv` follows a stop: one that takes a sandbox in the host's network for
another has found the container gone, and the checkpoint unreadable, rewritten
by an overlapping run, or failing twice.

**`PodSandboxCoverProofs`**: `CheckpointCoversNetworkAlways`. The invariant
`CoverInv` is inductive together with `NetworkInv`: `CoverRun` keeps the
checkpoint from the moment `RunPodSandbox` has written it, and `Deleters` says
that whoever may delete it has a network that is released, because a stop without
an error released it, and a sandbox that is being removed was stopped before.

**`PluginManagerProofs`**: `MutualExclusionAlways`, `RefcountIsUsersAlways`,
`OtherPodsProceedAlways`, `Implementation`. The invariant adds to the count of
references that no two pods share an object (`OwnLock`), and that a worker
inside holds the object which is its pod's entry in the map (`Holder`); the
entry cannot be deleted under it because the count includes it.

**`CheckpointStoreProofs`**: `TypeCorrect`, `NeverTornAlways`,
`Implementation`. The invariant says of each point in `writeFile` which
temporary file exists, with which contents, and from where on its data is on
the disk; so whatever `Rename` installs is synced. The refinement maps
`Rename`, `Read`, `Delete` and `List` to the atomic effect of the call, and
all other system calls to stuttering.

**`StreamingProofs`**: `CacheCorrect`, `RefusalsCorrect`, `SessionsCorrect`,
for any number of requests, any bound on those in flight and any time to live.
gc looks at the end of the list only and stops at the first entry that has not
expired. That this is enough is not obvious from `Insert` or `Consume` alone: it
takes the list to be ordered by age and to agree with the map (`CacheOK`),
entries to be of requests that wait (`EntriesWait`), and a request not to be
served before (`NotServedBefore`). With these the invariant is inductive;
`LiveRequestsKept` and `ServedOnce` follow along, a refusal implies that
`maxInFlight` entries within their time are in the list, and a session that
exists is of a request served once, by the endpoint of its kind.

### What is only model-checked

* Progress (`EventuallyCleaned`, `EveryOperationRuns`, `EveryCallReturns`,
  `ExecEnds`, `StalledPullsEnd`, `NothingHangs`): liveness under fairness is
  beyond the prover.
* The safety properties of `network`, `containers` and of the parts of
  `service` and `goroutines` other than streaming and locks.
* What folds over the lines of a table, the rules of a chain or the labels of
  a container compute for every input: induction over data is beyond the
  prover, and is left to bounded inputs.

## Not modelled

* *Windows, and the files for unsupported platforms*: the models are of the
  Linux build.
* *Container manager, hairpin mode, the MTU and the MAC address of kubenet's
  bridge, its ebtables rules*: single writes to the kernel that no other part
  reads.
* *Flags, configuration, metrics, the instrumented client, start-up checks of
  the daemon's version*: counters and constants.
* *The gRPC server*, which only passes requests on, and *port forwarding over
  WebSocket*, whose channels are fixed in advance.
* *The client's wrapper functions* that pass a request on. Their deadline is
  part of every call that is modelled: it may fail after it had its effect.
* *Copies of structures field by field, DNS configuration, figures of usage*
  that are passed on as they are; deletion of conntrack entries.
* *`fake_client.go`, `fake_iptables.go` and the other test doubles*.

The packages `streaming/portforward` and `streaming/remotecommand` are
modelled as the repository has them. The program imports the kubelet's copies of
both.

## Plan

1. **A composition of sandbox and plugin manager**, with the lock taken by a
   teardown that has lost the pod's name.
2. **Proofs** of `MonitorsOwnPair`.
3. **Two containers in `Stats` and a second puller in `Images`**, within the
   time a run may take, once their states are reduced.
