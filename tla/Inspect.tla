------------------------------ MODULE Inspect -------------------------------
(***************************************************************************)
(* What docker ps and docker inspect show of a container                   *)
(* (lib/backends/sdc/utils.js and lib/backends/sdc/containers.js).  A VM  *)
(* is a record of what its payload said of it and of what became of it     *)
(* since.                                                                  *)
(***************************************************************************)
EXTENDS Requests

(***************************************************************************)
(* FWAPI: the firewall rule that a rule of a payload becomes.  Users write *)
(* other rules; some of them cannot be parsed here.                        *)
(***************************************************************************)
FwRule(rule, vm) == [proto |-> rule.proto, ports |-> rule.ports, action |-> "allow",
                     vms |-> {vm}, any |-> TRUE, all |-> FALSE, parses |-> TRUE]
FwRules(rules, vm) == {FwRule(rule, vm) : rule \in rules}

(***************************************************************************)
(* The rules that publish ports: those of any container, kept for docker   *)
(* ps, and those of one.  Whether a rule is enabled is not looked at.      *)
(***************************************************************************)
InterestingRules(fwrules) ==
    {r \in fwrules : r.parses /\ r.proto \in Protos /\ r.action = "allow" /\ ~r.all /\ r.any}
getPublishingRules(fwrules, vm) ==
    {r \in InterestingRules(fwrules) : vm.uuid \in r.vms}
PublishedPorts(fwrules, vm) ==
    UNION {{<<port, p>> : port \in getPublishedPorts(getPublishingRules(fwrules, vm), p)} :
              p \in Protos}
Unpublished(vm, proto) == {<<port, proto>> : port \in vm.unpublished[proto]}

(***************************************************************************)
(* An object with all the entries of another, and of a third those of      *)
(* further keys.                                                           *)
(***************************************************************************)
Over(object, other) ==
    [k \in DOMAIN object \union DOMAIN other |->
        IF k \in DOMAIN object THEN object[k] ELSE other[k]]

(***************************************************************************)
(* The labels are the tags with the prefix of labels, and the tags of      *)
(* Triton, which win.  Others are not shown.                               *)
(***************************************************************************)
LabelsOf(tags) == [k \in {t.key : t \in tags} |-> (CHOOSE t \in tags : t.key = k).value]
dockerLabelsFromVmTags(tags) ==
    Over(LabelsOf({t \in tags : t.type = "triton"}), LabelsOf({t \in tags : t.type = "plain"}))

(***************************************************************************)
(* The state of a container in words.  A VM that stopped without its exit  *)
(* being noted was created only, or crashed.                               *)
(***************************************************************************)
containerStatus(vm) ==
    CASE vm.state = "running" -> "Up"
      [] vm.state = "provisioning" -> "Provisioning"
      [] vm.state = "stopped" /\ vm.exit # Absent -> "Exited with a code"
      [] vm.state = "stopped" /\ vm.exit = Absent /\ vm.started -> "Exited"
      [] vm.state = "stopped" /\ vm.exit = Absent /\ ~vm.started -> "Created"
      [] OTHER -> ""

(***************************************************************************)
(* docker ps.  The names of a container are its own and those other        *)
(* containers have for it in their links.                                  *)
(***************************************************************************)
vmobjToContainer(vm, fwrules, links) ==
    LET published == PublishedPorts(fwrules, vm)
    IN [Command |-> vm.entrypoint \o vm.cmd, Status |-> containerStatus(vm),
        Public |-> published,
        Private |-> (UNION {Unpublished(vm, p) : p \in Protos}) \ published,
        Labels |-> dockerLabelsFromVmTags(vm.tags),
        Names |-> {vm.alias} \union {l.name : l \in {l \in links : l.target = vm.uuid}}]
UnknownPackage == "<unknown>"
PackageLabels(name) == [k \in {PackageLabel} |-> name]
containerForVmObj(vm, fwrules, links, packages) ==
    LET names == {p.name : p \in {p \in packages : p.uuid = vm.package}}
        shown == IF names = {} THEN UnknownPackage ELSE CHOOSE n \in names : TRUE
    IN [vmobjToContainer(vm, InterestingRules(fwrules), links) EXCEPT
            !.Labels = Over(PackageLabels(shown), @)]

(***************************************************************************)
(* The restart policy: a word, and a number after it, or nothing.          *)
(***************************************************************************)
Policy(name, retries) == [Name |-> name, MaximumRetryCount |-> retries]
restartpolicyOf(policy) ==
    CASE policy.Name = "always" -> <<"always">>
      [] policy.Name = "on-failure" /\ policy.MaximumRetryCount = 0 -> <<"on-failure">>
      [] policy.Name = "on-failure" /\ policy.MaximumRetryCount # 0 ->
            <<"on-failure", policy.MaximumRetryCount>>
      [] OTHER -> NoText
RestartPolicyOf(parts) ==
    CASE parts = NoText -> Policy("", 0)
      [] Len(parts) = 1 -> Policy(parts[1], 0)
      [] OTHER -> Policy(parts[1], parts[2])

(***************************************************************************)
(* The volumes: those of the container itself, all of them, and those that *)
(* can be written.                                                         *)
(***************************************************************************)
Targets(filesystems) == {f.dir : f \in filesystems}
VolumesOf(filesystems) ==
    LET all == ToSet(filesystems)
    IN [own |-> Targets({f \in all : f.own}), all |-> Targets(all),
        writable |-> Targets({f \in all : ~f.readonly})]

(***************************************************************************)
(* docker inspect.  The exposed ports are started anew for each protocol   *)
(* that has unpublished ones, udp after tcp.  Labels and logs are shown to *)
(* clients of version 1.18 and later (modern); the package only if it is   *)
(* still one the account may use.                                          *)
(***************************************************************************)
ExposedPorts(vm, published) ==
    published \union (IF Unpublished(vm, "udp") # {} THEN Unpublished(vm, "udp")
                      ELSE Unpublished(vm, "tcp"))
vmobjToInspect(vm, fwrules, packages, modern) ==
    LET published == PublishedPorts(fwrules, vm)
        cmdline == vm.entrypoint \o vm.cmd
        names == {p.name : p \in {p \in packages : p.uuid = vm.package}}
        labels == dockerLabelsFromVmTags(vm.tags)
    IN [Entrypoint |-> vm.entrypoint, Cmd |-> vm.cmd, Env |-> vm.env, User |-> vm.user,
        Path |-> Head_(cmdline, 1), Args |-> Tail_(cmdline, 1),
        ExposedPorts |-> ExposedPorts(vm, published), PortBindings |-> published,
        Ports |-> published \union UNION {Unpublished(vm, p) : p \in Protos},
        PublishAllPorts |-> vm.publishAll, Volumes |-> VolumesOf(vm.filesystems),
        RestartPolicy |-> RestartPolicyOf(vm.restartpolicy),
        LogConfig |-> IF modern THEN vm.log ELSE Absent,
        Labels |-> IF ~modern THEN Absent
                   ELSE IF Cardinality(names) = 1
                        THEN Over(PackageLabels(CHOOSE n \in names : TRUE), labels)
                        ELSE labels,
        Running |-> vm.state = "running"]

(***************************************************************************)
(* The VM of a payload: the first step that fails ends the request.  The   *)
(* volumes of other containers come first; only they can be read-only.     *)
(***************************************************************************)
FilesystemsOf(container, paths) ==
    [i \in DOMAIN paths |->
        LET others == i <= Len(container.volumesFrom)
        IN [dir |-> paths[i].dir, own |-> ~others, readonly |-> others /\ container.readonly]]
buildVmPayload(container, image, config) ==
    LET mounts == mountsOf(container, image, config)
        affinity == affinitiesFromContainer(container)
        tags == vmTagsFromLabels(container, image)
        command == commandOf(container, image)
        ports == addPublishFirewallRules(container, image, config.fwrule_version)
        log == logConfigOf(container)
    IN [error |-> FirstError(<<log.error, mounts.error, affinity.error, tags.error, ports.error>>),
        rules |-> ports.rules,
        vm |-> [entrypoint |-> command.entrypoint, cmd |-> command.cmd, env |-> command.env,
                user |-> command.user, unpublished |-> ports.unpublished,
                publishAll |-> container.publishAll, log |-> log.log, tags |-> tags.tags,
                restartpolicy |-> restartpolicyOf(container.restart),
                filesystems |-> FilesystemsOf(container, mounts.filesystems)]]
=============================================================================
