---------------------------- MODULE Translation ----------------------------
(***************************************************************************)
(* The translation of a pod's configuration into the daemon's: labels,     *)
(* namespaces, security options, resources, ports and mounts, and what is  *)
(* read back from the daemon: labels, sizes, logs.  One step translates    *)
(* one configuration; an initial state is a configuration.                 *)
(***************************************************************************)
EXTENDS Integers, Sequences, SequencesExt, FiniteSetsExt, Functions

CONSTANTS
  LabelKeys,     \* keys of labels and annotations
  Syscalls,      \* system calls, "sethostname" among them
  Sizes,         \* sizes of images
  nil, error     \* no value, and a translation that fails

VARIABLES input, output
translationVars == <<input, output>>

Modes == {"POD", "CONTAINER", "NODE", "TARGET"}

-----------------------------------------------------------------------------
(* Labels.  A key is a sequence: its prefixes and its name.                *)

containerTypeLabelKey == <<"io.kubernetes.docker.type">>
containerLogPathLabelKey == <<"io.kubernetes.container.logpath">>
sandboxIDLabelKey == <<"io.kubernetes.sandbox.id">>
KubernetesContainerNameLabel == <<"io.kubernetes.container.name">>
internalLabelKeys == {containerTypeLabelKey, containerLogPathLabelKey, sandboxIDLabelKey}
annotationPrefix == "annotation."

Annotation(k) == <<annotationPrefix>> \o k
IsAnnotation(k) == Len(k) > 1 /\ Head(k) = annotationPrefix

makeLabels(labels, annotations) ==
  [k \in {Annotation(j) : j \in DOMAIN annotations} |-> annotations[Tail(k)]] @@ labels

\* What RunPodSandbox and CreateContainer add.
SandboxLabels(labels, annotations) ==
  (containerTypeLabelKey :> "podsandbox") @@ (KubernetesContainerNameLabel :> "POD")
    @@ makeLabels(labels, annotations)
ContainerLabels(labels, annotations) ==
  (containerTypeLabelKey :> "container") @@ (containerLogPathLabelKey :> "path")
    @@ (sandboxIDLabelKey :> "id") @@ makeLabels(labels, annotations)

Hidden(raw, k) ==
  \/ k \in internalLabelKeys
  \/ k = KubernetesContainerNameLabel /\ raw[containerTypeLabelKey] = "podsandbox"

extractLabels(raw) ==
  LET shown == {k \in DOMAIN raw : ~Hidden(raw, k)}
  IN [labels |-> [k \in {k \in shown : ~IsAnnotation(k)} |-> raw[k]],
      annotations |-> [k \in {Tail(k) : k \in {k \in shown : IsAnnotation(k)}} |-> raw[Annotation(k)]]]

-----------------------------------------------------------------------------
(* Users and security options.                                             *)

\* The user of the container, with its group.
modifyContainerConfig(sc) ==
  LET user == IF sc.username # "" THEN <<sc.username>>
              ELSE IF sc.user # nil THEN <<sc.user>> ELSE <<>>
  IN IF sc.group = nil THEN user
     ELSE IF user = <<>> THEN error ELSE user \o <<sc.group>>

\* addSELinuxOptions: the parts that are not empty, in order.
addSELinuxOptions(selinux) ==
  LET part == <<"user", "role", "type", "level">>
      given == SelectSeq(part, LAMBDA p : selinux[p])
  IN [i \in DOMAIN given |-> <<"label", given[i]>>]

getAppArmorOpts(profile) ==
  CASE profile \in {"", "runtime/default"} -> <<>>
    [] profile = "unconfined" -> << <<"apparmor", "unconfined">> >>
    [] OTHER -> << <<"apparmor", "p">> >>

\* A rule as it is encoded again: sethostname is not blocked when privileged.  The
\* fields that only the daemon's format has, such as the capabilities on which a
\* rule depends, are not those of specs.LinuxSyscall and are lost.
Recoded(rule, privileged) ==
  [names |-> {n \in rule.names : ~(privileged /\ n = "sethostname" /\ rule.action = "ERRNO")},
   action |-> rule.action]

\* getSeccompDockerOpts: no option stands for the daemon's default profile, nil
\* for "unconfined".
getSeccompDockerOpts(seccomp, privileged) ==
  CASE seccomp.type \in {nil, "Unconfined"} -> << <<"seccomp", nil>> >>
    [] seccomp.type = "RuntimeDefault" -> <<>>
    [] seccomp.type = "Localhost" /\ seccomp.file = error -> error
    [] seccomp.type = "Localhost" /\ seccomp.file # error ->
         LET rules == {Recoded(r, privileged) : r \in seccomp.file.rules}
             kept == {r \in rules : r.names # {}}
         IN IF kept = {} THEN <<>>
            ELSE << <<"seccomp", [defaultAction |-> seccomp.file.defaultAction, rules |-> kept]>> >>
    [] OTHER -> error

\* modifyHostConfig.
modifyHostConfig(sc, hc) ==
  [hc EXCEPT !.Privileged = sc.privileged, !.GroupAdd = sc.groups,
             !.SecurityOpt = @ \o addSELinuxOptions(sc.selinux) \o getAppArmorOpts(sc.apparmor)
                               \o (IF sc.noNewPrivs THEN << <<"no-new-privileges">> >> ELSE <<>>),
             !.MaskedPaths = IF sc.privileged THEN {} ELSE sc.masked]

-----------------------------------------------------------------------------
(* Namespaces.                                                             *)

modifySandboxNamespaceOptions(ns, plugin, hc) ==
  [hc EXCEPT !.PidMode = IF ns.pid = "NODE" THEN "host" ELSE @,
             !.IpcMode = IF ns.ipc = "NODE" THEN "host" ELSE @,
             !.NetworkMode = IF ns.network = "NODE" THEN "host"
                             ELSE IF plugin \in {"cni", "kubenet"} THEN "none" ELSE "default"]

\* Slip: a container joins the host's network by itself, without its name.
modifyContainerNamespaceOptionsUTS(ns, hc) ==
  [hc EXCEPT !.PidMode = CASE ns.pid = "NODE" -> "host"
                           [] ns.pid = "POD" -> "container:sandbox"
                           [] ns.pid = "TARGET" -> "container:target"
                           [] OTHER -> @,
             !.NetworkMode = IF ns.network = "NODE" THEN "host" ELSE "container:sandbox",
             !.IpcMode = "container:sandbox", !.UTSMode = ""]

modifyContainerNamespaceOptions(ns, hc) ==
  [hc EXCEPT !.PidMode = CASE ns.pid = "NODE" -> "host"
                           [] ns.pid = "POD" -> "container:sandbox"
                           [] ns.pid = "TARGET" -> "container:target"
                           [] OTHER -> @,
             !.NetworkMode = "container:sandbox", !.IpcMode = "container:sandbox",
             !.UTSMode = IF ns.network = "NODE" THEN "host" ELSE ""]

\* networkNamespaceMode, pidNamespaceMode and ipcNamespaceMode.
StatusModes(hc) ==
  [network |-> IF hc.NetworkMode = "host" THEN "NODE" ELSE "POD",
   pid |-> IF hc.PidMode = "host" THEN "NODE" ELSE "CONTAINER",
   ipc |-> IF hc.IpcMode = "host" THEN "NODE" ELSE "POD"]

-----------------------------------------------------------------------------
(* Ports, mounts and resources.                                            *)

\* Unknown protocols are taken for TCP; so does MakePortsAndBindings.
toCheckpointProtocol(protocol) == IF protocol \in {"TCP", "UDP", "SCTP"} THEN protocol ELSE "TCP"

DockerPort(pm) == <<pm.containerPort, toCheckpointProtocol(pm.protocol)>>

\* The host ports of every container port, in order.
MakePortsAndBindings(pms) ==
  LET used == SelectSeq(pms, LAMBDA pm : pm.hostPort # 0)
      of(p) == SelectSeq(used, LAMBDA pm : DockerPort(pm) = p)
  IN [p \in {DockerPort(used[i]) : i \in DOMAIN used} |-> [i \in DOMAIN of(p) |-> of(p)[i].hostPort]]

\* getRuntimeHandlers: does a runtime support recursive read-only mounts.  The
\* default runtime is there twice, also without a name.
getRuntimeHandlers(info) ==
  IF info.kernel /\ \E r \in DOMAIN info.runtimes : info.runtimes[r] = "bad" THEN error
  ELSE [r \in DOMAIN info.runtimes \cup {""} |->
          info.kernel /\ info.runtimes[IF r = "" THEN info.default ELSE r] = "rro"]

MountRefused(m, supported) == m.rro /\ (~supported \/ m.propagation # "PRIVATE" \/ ~m.ro)

Bind(m) ==
  [ReadOnly |-> m.ro, ReadOnlyNonRecursive |-> m.ro /\ ~m.rro,
   Propagation |-> CASE m.propagation = "BIDIRECTIONAL" -> "rshared"
                     [] m.propagation = "HOST_TO_CONTAINER" -> "rslave"
                     [] OTHER -> ""]

\* GenerateMountBindings, with the handler of the sandbox's runtime.
GenerateMountBindings(mounts, handlers, runtime) ==
  LET supported == runtime \in DOMAIN handlers /\ handlers[runtime]
  IN IF \E i \in DOMAIN mounts : MountRefused(mounts[i], supported) THEN error
     ELSE [i \in DOMAIN mounts |-> Bind(mounts[i])]

\* Pass only the last component of the cgroup path to systemd.
GenerateExpectedCgroupParent(driver, path) ==
  IF driver = "systemd" /\ path # <<>> THEN <<Last(path)>> ELSE path

EmptyHostConfig ==
  [Privileged |-> FALSE, GroupAdd |-> {}, SecurityOpt |-> <<>>, MaskedPaths |-> {},
   PidMode |-> "", IpcMode |-> "", NetworkMode |-> "", UTSMode |-> "",
   Resources |-> [Memory |-> 0, MemorySwap |-> 0, CgroupParent |-> <<>>, Devices |-> {}]]

applySandboxResources(c, hc) ==
  [hc EXCEPT !.Resources = [EmptyHostConfig.Resources EXCEPT
     !.CgroupParent = IF c.linux THEN GenerateExpectedCgroupParent(c.driver, c.cgroupParent) ELSE @]]

\* What applySandboxSecurityContext copies for the sandbox.
SandboxContext(sc) ==
  [sc EXCEPT !.username = "", !.apparmor = "", !.noNewPrivs = FALSE, !.masked = {}]

noOptions == [network |-> "POD", pid |-> "POD", ipc |-> "POD"]
NamespaceOptions(sc) == IF sc = nil THEN noOptions ELSE sc.ns

User(sc) == IF sc = nil THEN <<>> ELSE modifyContainerConfig(sc)
HostConfigOf(sc, hc) == IF sc = nil THEN hc ELSE modifyHostConfig(sc, hc)

\* makeSandboxDockerConfig.
makeSandboxDockerConfig(c) ==
  LET sc == IF c.sc = nil THEN nil ELSE SandboxContext(c.sc)
      hc == [EmptyHostConfig EXCEPT !.IpcMode = "shareable"]
      linux == IF ~c.linux THEN hc
               ELSE modifySandboxNamespaceOptions(NamespaceOptions(sc), c.plugin, HostConfigOf(sc, hc))
      resources == applySandboxResources(c, linux)
  IN IF c.linux /\ User(sc) = error THEN error
     ELSE [user |-> IF c.linux THEN User(sc) ELSE <<>>,
           hc |-> [resources EXCEPT !.SecurityOpt = @ \o << <<"no-new-privileges">> >>]]

\* CreateContainer up to the call of the daemon, with updateCreateConfig.
CreateConfig(c) ==
  LET hc == [EmptyHostConfig EXCEPT !.Resources.Memory = IF c.linux THEN c.memory ELSE @,
                                    !.Resources.MemorySwap = IF c.linux THEN c.memory ELSE @]
      linux == IF ~c.linux THEN hc
               ELSE modifyContainerNamespaceOptions(NamespaceOptions(c.sc), HostConfigOf(c.sc, hc))
      seccomp == IF c.linux /\ c.sc # nil THEN getSeccompDockerOpts(c.sc.seccomp, c.sc.privileged) ELSE <<>>
  IN IF c.linux /\ error \in {User(c.sc), seccomp} THEN error
     ELSE [user |-> IF c.linux THEN User(c.sc) ELSE <<>>,
           hc |-> [linux EXCEPT !.SecurityOpt = @ \o seccomp, !.Resources.Devices = c.devices,
                     !.Resources.CgroupParent =
                        IF c.linux THEN GenerateExpectedCgroupParent(c.driver, c.cgroupParent) ELSE @]]

\* A shared size stands for layers that several images share.
SharedOnce(images) == SumSet({images[i].shared : i \in DOMAIN images} \ {-1})

\* imageFsInfo: the bytes used by all images.
imageFsInfo(images) ==
  SumFunction([i \in DOMAIN images |-> IF images[i].shared = -1 THEN images[i].size
                                  ELSE images[i].size - images[i].shared]) + SharedOnce(images)

-----------------------------------------------------------------------------
(* The log of a container: chunks of one stream each, written to the       *)
(* caller's stdout and stderr.  Both share one limit.                      *)

\* Slip: what was written is not taken off the limit.
WriteForgets(w, chunk) ==
  IF chunk.len = 0 \/ w.err THEN w
  ELSE [w EXCEPT !.out = Append(@, [chunk EXCEPT !.len = Min({@, w.limit})]), !.err = w.limit < chunk.len]

\* SharedWriteLimiter.Write; w.err is errMaximumWrite, which ends the copying.
Write(w, chunk) ==
  IF chunk.len = 0 \/ w.err THEN w
  ELSE IF w.limit <= 0 THEN [w EXCEPT !.err = TRUE]
  ELSE LET n == Min({chunk.len, w.limit})
       IN [limit |-> w.limit - n, out |-> Append(w.out, [chunk EXCEPT !.len = n]), err |-> n < chunk.len]

\* With a terminal everything goes to stdout; a stream the caller gave no writer
\* for is discarded, and not counted.
Redirected(log, tty, writers) ==
  SelectSeq([i \in DOMAIN log |-> IF tty THEN [log[i] EXCEPT !.stream = "stdout"] ELSE log[i]],
            LAMBDA chunk : chunk.stream \in writers)

\* What is written; that the limit is reached is no error.
GetContainerLogs(log, tty, writers, limitBytes) ==
  LET chunks == Redirected(log, tty, writers)
  IN IF limitBytes = nil THEN chunks
     ELSE FoldLeft(Write, [limit |-> limitBytes, out |-> <<>>, err |-> FALSE], chunks).out

-----------------------------------------------------------------------------
(* The configurations, and their translation.                              *)

SeqsUpTo2(S) == {<<>>} \cup {<<a>> : a \in S} \cup {<<a, b>> : a, b \in S}

Labelings == UNION {[ks -> {"v"}] : ks \in SUBSET LabelKeys}
Rules == [names : SUBSET Syscalls \ {{}}, action : {"ERRNO", "ALLOW"}, includes : SUBSET {"CAP_SYS_ADMIN"}]
Files == {error} \cup [defaultAction : {"ERRNO", "ALLOW"}, rules : {{}} \cup {{r, q} : r, q \in Rules}]
Profiles == {[type |-> t, file |-> error] : t \in {nil, "Unconfined", "RuntimeDefault", "other"}}
              \cup {[type |-> "Localhost", file |-> f] : f \in Files}
someContext ==
  [user |-> nil, username |-> "", group |-> nil, groups |-> {"g"}, privileged |-> FALSE, noNewPrivs |-> FALSE,
   selinux |-> [user |-> TRUE, role |-> FALSE, type |-> TRUE, level |-> FALSE], apparmor |-> "localhost/p",
   masked |-> {"/proc/kcore"}, seccomp |-> [type |-> "RuntimeDefault", file |-> error], ns |-> noOptions]

somePod ==
  [linux |-> TRUE, sc |-> someContext, plugin |-> "cni", driver |-> "systemd", cgroupParent |-> <<"a", "b">>,
   memory |-> 9, devices |-> {"d"}]

\* The configurations differ from somePod in one respect at a time.
PodConfigs ==
  {[somePod EXCEPT !.plugin = p, !.sc.ns = [network |-> n, pid |-> m, ipc |-> i]] :
      p \in {"cni", "kubenet", "noop"}, n, i \in {"POD", "NODE"}, m \in Modes}
  \cup {[somePod EXCEPT !.sc.user = u, !.sc.username = name, !.sc.group = g] :
      u \in {nil, "7"}, name \in {"", "name"}, g \in {nil, "8"}}
  \cup {[somePod EXCEPT !.sc.seccomp = p, !.sc.privileged = b] : p \in Profiles, b \in BOOLEAN}
  \cup {[somePod EXCEPT !.sc.noNewPrivs = b, !.sc.apparmor = a] :
      b \in BOOLEAN, a \in {"", "runtime/default", "unconfined"}}
  \cup {[somePod EXCEPT !.sc = nil, !.linux = b, !.driver = d, !.cgroupParent = p] :
      b \in BOOLEAN, d \in {"systemd", "cgroupfs"}, p \in {<<>>, <<"a", "b">>}}

Ports == [hostPort : {0, 80, 81}, containerPort : {1}, protocol : {"TCP", "UDP", "9"}]
Mounts == [ro : BOOLEAN, rro : BOOLEAN, propagation : {"PRIVATE", "BIDIRECTIONAL", "HOST_TO_CONTAINER"}]
Infos == {[kernel |-> k, default |-> "runc", runtimes |-> [r \in {"runc", "other"} |-> IF r = "runc" THEN f ELSE "none"]] :
            k \in BOOLEAN, f \in {"rro", "none", "bad"}}
SomeImages == [size : Sizes, shared : {-1} \cup Sizes]
Chunks == [stream : {"stdout", "stderr"}, len : 1..2]

Inputs(what) ==
  CASE what = "logs" -> [what : {what}, log : SeqsUpTo2(Chunks) \cup {<<a, b, a>> : a, b \in Chunks}, tty : BOOLEAN,
                         writers : SUBSET {"stdout", "stderr"}, limit : {nil} \cup 0..4]
    [] what = "labels" -> [what : {what}, labels : Labelings, annotations : Labelings, sandbox : BOOLEAN]
    [] what = "pod" -> [what : {what}, pod : PodConfigs]
    [] what = "ports" -> [what : {what}, ports : SeqsUpTo2(Ports)]
    [] what = "mounts" -> [what : {what}, mounts : SeqsUpTo2(Mounts), info : Infos, runtime : {"", "runc", "other"}]
    [] what = "images" -> [what : {what}, images : SeqsUpTo2({i \in SomeImages : i.shared <= i.size})]

Translated(i) ==
  CASE i.what = "labels" -> (IF i.sandbox THEN SandboxLabels(i.labels, i.annotations)
                             ELSE ContainerLabels(i.labels, i.annotations))
    [] i.what = "pod" -> [sandbox |-> makeSandboxDockerConfig(i.pod), container |-> CreateConfig(i.pod)]
    [] i.what = "ports" -> MakePortsAndBindings(i.ports)
    [] i.what = "mounts" -> LET handlers == getRuntimeHandlers(i.info)
                            IN IF handlers = error THEN error
                               ELSE GenerateMountBindings(i.mounts, handlers, i.runtime)
    [] i.what = "images" -> imageFsInfo(i.images)
    [] i.what = "logs" -> GetContainerLogs(i.log, i.tty, i.writers, i.limit)

TranslationInit ==
  /\ \E what \in {"labels", "pod", "ports", "mounts", "images", "logs"} : input \in Inputs(what)
  /\ output = nil
TranslationNext == output = nil /\ output' = Translated(input) /\ UNCHANGED input

After(what) == output # nil /\ input.what = what

-----------------------------------------------------------------------------
(* Correctness.                                                            *)

\* Labels and annotations come back from the daemon's labels as they were
\* given, save labels with a reserved key: internal, or one of an annotation.
LabelsComeBack ==
  After("labels") =>
    LET reserved == internalLabelKeys \cup {k \in LabelKeys : IsAnnotation(k)}
                      \cup (IF input.sandbox THEN {KubernetesContainerNameLabel} ELSE {})
        back == extractLabels(output)
    IN (DOMAIN input.labels \cap reserved = {}) =>
         back = [labels |-> input.labels, annotations |-> input.annotations]

\* Where a process of a container is, given the modes of container and sandbox.
Effective(mode, sandboxMode) ==
  CASE mode = "host" -> "node"
    [] mode = "container:sandbox" -> IF sandboxMode = "host" THEN "node" ELSE "pod"
    [] mode = "container:target" -> "target"
    [] OTHER -> "own"

\* The containers of a pod share the namespaces that were asked for: network and
\* IPC with the pod or the node, processes as the mode says, and the host's name
\* exactly with the host's network.  The daemon sets up no network of its own for
\* a pod of cni or kubenet.  PodSandboxStatus tells the modes of network and IPC
\* that were asked for; of the processes it only tells whether they are with the
\* node's, and says CONTAINER for POD and TARGET too.
NamespacesAsAsked ==
  After("pod") /\ input.pod.linux /\ output.sandbox # error /\ output.container # error =>
    LET s == output.sandbox.hc
        c == output.container.hc
        ns == NamespaceOptions(input.pod.sc)
        place(mode) == IF mode = "NODE" THEN "node" ELSE "pod"
    IN /\ Effective(c.NetworkMode, s.NetworkMode) = place(ns.network)
       /\ Effective(c.IpcMode, s.IpcMode) = place(ns.ipc) /\ s.IpcMode \in {"shareable", "host"}
       /\ Effective(c.PidMode, "") = CASE ns.pid = "NODE" -> "node" [] ns.pid = "TARGET" -> "target"
                                       [] ns.pid = "POD" -> "pod" [] OTHER -> "own"
       /\ (c.UTSMode = "host") <=> (ns.network = "NODE")
       /\ input.pod.plugin # "noop" => s.NetworkMode \in {"host", "none"}
       /\ StatusModes(s) = [network |-> ns.network, ipc |-> ns.ipc,
                            pid |-> IF ns.pid = "NODE" THEN "NODE" ELSE "CONTAINER"]

\* The container runs as the user that was asked for, a name before a number,
\* with the group; a group alone is refused.
UserAsAsked ==
  After("pod") /\ input.pod.linux /\ input.pod.sc # nil /\ output.container # error =>
    LET sc == input.pod.sc
        user == output.container.user
    IN /\ (sc.group # nil) <=> (user # <<>> /\ Last(user) = sc.group)
       /\ IF user = <<>> THEN sc.username = "" /\ sc.user = nil
          ELSE Head(user) = IF sc.username = "" THEN sc.user ELSE sc.username

OptionsOf(hc, key) == {hc.SecurityOpt[i] : i \in {i \in DOMAIN hc.SecurityOpt : Head(hc.SecurityOpt[i]) = key}}
Actions(rules) == UNION {{<<n, r.action>> : n \in r.names} : r \in rules}

\* A container is unconfined only when asked, and a profile of the node comes to
\* the daemon with its default action and with what its rules say of every system
\* call, but for the block of sethostname in a privileged container, and for the
\* conditions of the rules, which are lost.  A profile of which no rule is left
\* is replaced by the daemon's, whatever its default action.  Every sandbox runs
\* with no new privileges and under the daemon's profile.
ConfinedAsAsked ==
  After("pod") /\ input.pod.linux /\ input.pod.sc # nil /\ output.sandbox # error /\ output.container # error =>
    LET sc == input.pod.sc
        opts == OptionsOf(output.container.hc, "seccomp")
        lifted == IF sc.privileged THEN {<<"sethostname", "ERRNO">>} ELSE {}
    IN /\ (<<"seccomp", nil>> \in opts) => sc.seccomp.type \in {nil, "Unconfined"}
       /\ \A o \in opts : o[2] # nil =>
            /\ o[2].defaultAction = sc.seccomp.file.defaultAction
            /\ Actions(o[2].rules) = Actions(sc.seccomp.file.rules) \ lifted
       /\ opts = {} => \/ sc.seccomp.type = "RuntimeDefault"
                       \/ Actions(sc.seccomp.file.rules) \subseteq lifted
       /\ <<"no-new-privileges">> \in OptionsOf(output.sandbox.hc, "no-new-privileges")
       /\ OptionsOf(output.sandbox.hc, "seccomp") = {}

\* The limits of the container, without swap, its devices and the cgroup of the
\* pod all survive the steps that build the configuration; sandbox and container
\* are in the same cgroup.
ResourcesKept ==
  After("pod") /\ output.sandbox # error /\ output.container # error =>
    LET r == output.container.hc.Resources
    IN /\ input.pod.linux => r.Memory = input.pod.memory /\ r.MemorySwap = r.Memory
       /\ r.Devices = input.pod.devices
       /\ r.CgroupParent = output.sandbox.hc.Resources.CgroupParent
       /\ input.pod.linux /\ input.pod.cgroupParent # <<>> => Last(r.CgroupParent) = Last(input.pod.cgroupParent)

\* Every mapping with a host port has its binding, in order, under the protocol
\* that the checkpoint keeps for it, and there is no other binding.
PortsAsAsked ==
  After("ports") =>
    LET used == SelectSeq(input.ports, LAMBDA pm : pm.hostPort # 0)
    IN /\ SumFunction([p \in DOMAIN output |-> Len(output[p])]) = Len(used)
       /\ \A i \in DOMAIN used :
            LET p == <<used[i].containerPort, toCheckpointProtocol(used[i].protocol)>>
            IN p \in DOMAIN output /\ Contains(output[p], used[i].hostPort)

\* A mount is read-only when asked, and recursively so exactly when asked; that
\* is refused unless kernel and runtime support it, by whatever name the runtime
\* is called.
MountsAsAsked ==
  After("mounts") /\ output # error =>
    /\ Len(output) = Len(input.mounts)
    /\ \A i \in DOMAIN output :
         LET m == input.mounts[i]
         IN /\ output[i].ReadOnly = m.ro
            /\ (output[i].ReadOnly /\ ~output[i].ReadOnlyNonRecursive) <=> m.rro
            /\ m.rro => input.info.kernel /\ input.runtime # "other" /\ input.info.runtimes["runc"] = "rro"

\* The images use at least the size of each and at most the sum of all.
UsageBounded ==
  After("images") /\ input.images # <<>> =>
    LET sizes == [i \in DOMAIN input.images |-> input.images[i].size]
    IN Max({sizes[i] : i \in DOMAIN sizes}) <= output /\ output <= SumFunction(sizes)

Bytes(chunks) == SumFunction([i \in DOMAIN chunks |-> chunks[i].len])

\* GetContainerLogs writes the first LimitBytes bytes of the log, over both
\* streams together and in the order of the log, and no more or less.
LogsLimited ==
  After("logs") =>
    LET chunks == Redirected(input.log, input.tty, input.writers)
    IN /\ Bytes(output) = IF input.limit = nil THEN Bytes(chunks) ELSE Min({input.limit, Bytes(chunks)})
       /\ \A i \in DOMAIN output :
            /\ output[i].stream = chunks[i].stream
            /\ i < Len(output) => output[i].len = chunks[i].len

\* The pod that the daemon is asked for is the pod that the kubelet asked for:
\* its namespaces, its user, its confinement and its resources, each of which
\* is put together in several steps, of sandbox and of container.
PodAsAsked == NamespacesAsAsked /\ UserAsAsked /\ ConfinedAsAsked /\ ResourcesKept

\* What the kubelet gives is not lost on the way to the daemon and back: labels
\* and annotations, ports, mounts, the sizes of images and the bytes of a log.
DataKept == LabelsComeBack /\ PortsAsAsked /\ MountsAsAsked /\ UsageBounded /\ LogsLimited
=============================================================================
