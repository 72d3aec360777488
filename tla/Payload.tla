------------------------------ MODULE Payload -------------------------------
(***************************************************************************)
(* What the request to create a container becomes in the payload of the    *)
(* new VM (buildVmPayload in lib/backends/sdc/containers.js, and           *)
(* lib/backends/sdc/affinity.js): firewall rules of published ports,       *)
(* mounts, command, tags, affinity and package.  A JavaScript object is a  *)
(* sequence of its entries, in the order of its keys.                      *)
(***************************************************************************)
EXTENDS Names

CONSTANTS MaxProcessedPorts, MaxExposedPorts, MaxPortsPerRule, MaxDataVolumes,
          MaxPort,     \* the largest port number: 65535
          Absent       \* a field that is not given

ASSUME PayloadAssumption ==
    /\ MaxProcessedPorts \in Nat /\ MaxExposedPorts \in Nat
    /\ MaxPortsPerRule \in Nat \ {0} /\ MaxDataVolumes \in Nat
    /\ MaxPort \in Nat

Protos == {"tcp", "udp"}
NoHostPort == 0

(***************************************************************************)
(* Ports.  Each port is noted as unpublished or as exposed; a later        *)
(* binding of the same port moves it.  The first error ends the request.   *)
(***************************************************************************)
NoPorts == [exposed |-> [p \in Protos |-> <<>>],
            unpublished |-> [p \in Protos |-> {}], error |-> "none"]
PortError(exposed, e, bound) ==
    IF Len(exposed) > MaxProcessedPorts THEN "too many ports"
    ELSE IF bound /\ e.host \notin {NoHostPort, e.port} THEN "remapping not allowed"
    ELSE "none"
addPort(s, e, bound, publishAll) ==
    IF ~bound /\ ~publishAll
    THEN [s EXCEPT !.unpublished[e.proto] = @ \union {e.port}]
    ELSE LET exposed == Append(s.exposed[e.proto], e.port)
         IN [s EXCEPT !.unpublished[e.proto] = @ \ {e.port}, !.exposed[e.proto] = exposed,
                      !.error = PortError(exposed, e, bound)]

addPorts(s, entries, bound, publishAll) ==
    LET Add(t, e) == IF t.error # "none" THEN t ELSE addPort(t, e, bound, publishAll)
    IN Through(entries, s, Add)
PortsOf(container, image) ==
    addPorts(addPorts(NoPorts, image.ports, FALSE, container.publishAll),
             container.bindings, TRUE, container.publishAll)

(***************************************************************************)
(* A range of ports; a single one is a range of itself.                    *)
(***************************************************************************)
Range_(start, end) == [start |-> start, end |-> end]

(***************************************************************************)
(* Mutant: a range is closed one number early.                             *)
(***************************************************************************)
compressPortsGaps(ports) ==
    LET Single(ranges, port) ==
            IF port \in ToSet(ports) THEN Append(ranges, Range_(port, port)) ELSE ranges
    IN Through([n \in 1..MaxPort |-> n], <<>>, Single)

(***************************************************************************)
(* The numbers in ascending order, by a sparse array, as ranges that do    *)
(* not touch; both ends are 0 before the first number.                     *)
(***************************************************************************)
compressPorts(ports) ==
    LET Grow(acc, port) ==
            IF port \notin ToSet(ports) THEN acc
            ELSE IF acc.start = 0 THEN [acc EXCEPT !.start = port, !.end = port]
            ELSE IF acc.end + 1 = port THEN [acc EXCEPT !.end = port]
            ELSE [ranges |-> Append(acc.ranges, Range_(acc.start, acc.end)),
                  start |-> port, end |-> port]
        done == Through([n \in 1..MaxPort |-> n],
                        [ranges |-> <<>>, start |-> 0, end |-> 0], Grow)
    IN Append(done.ranges, Range_(done.start, done.end))

(***************************************************************************)
(* Rules of at most MaxPortsPerRule ports, or ranges of ports, each: the   *)
(* slices that start at each multiple of that number.                      *)
(***************************************************************************)
Slices(entries) ==
    {Head_(Tail_(entries, n * MaxPortsPerRule), MaxPortsPerRule) :
        n \in {n \in 0..Len(entries) : n * MaxPortsPerRule < Len(entries)}}
RulesOf(entries, proto) ==
    IF Len(entries) > MaxExposedPorts THEN [error |-> "too many ports", rules |-> {}]
    ELSE [error |-> "none", rules |-> {[proto |-> proto, ports |-> s] : s \in Slices(entries)}]
generateExposeRules(ports, proto) ==
    RulesOf([i \in DOMAIN ports |-> Range_(ports[i], ports[i])], proto)
generateExposeRange(ports, proto) == RulesOf(compressPorts(ports), proto)

RulesOfProto(ports, proto, version) ==
    IF ports.exposed[proto] = <<>> THEN [error |-> "none", rules |-> {}]
    ELSE IF version > 1 THEN generateExposeRange(ports.exposed[proto], proto)
    ELSE generateExposeRules(ports.exposed[proto], proto)

(***************************************************************************)
(* The rules to create, and the unpublished ports that are kept for links. *)
(* The rules of tcp are made first; they are all created at once.          *)
(***************************************************************************)
Publishing(error, rules, ports) ==
    [error |-> error, rules |-> rules, unpublished |-> ports.unpublished]
addPublishFirewallRules(container, image, version) ==
    LET ports == PortsOf(container, image)
        tcp == RulesOfProto(ports, "tcp", version)
        udp == RulesOfProto(ports, "udp", version)
    IN IF ~container.publishAll /\ container.bindings = <<>> /\ image.ports = <<>>
       THEN Publishing("none", {}, NoPorts)
       ELSE IF ports.error # "none" THEN Publishing(ports.error, {}, NoPorts)
       ELSE IF tcp.error # "none" THEN Publishing(tcp.error, {}, ports)
       ELSE IF udp.error # "none" THEN Publishing(udp.error, {}, ports)
       ELSE Publishing("none", tcp.rules \union udp.rules, ports)

(***************************************************************************)
(* docker inspect and docker ps read the published ports from the rules.   *)
(***************************************************************************)
getPublishedPorts(rules, proto) ==
    UNION {UNION {r.start..r.end : r \in ToSet(rule.ports)} :
              rule \in {r \in rules : r.proto = proto}}

(***************************************************************************)
(* Mounts.  A path is a directory and how it is spelled; normalize gives   *)
(* the plain spelling, without a slash at the end.  The filesystems of the *)
(* payload come first from the containers of --volumes-from, then from the *)
(* request, then from the image; shared volumes are kept apart.            *)
(***************************************************************************)
normalize(path) == [path EXCEPT !.plain = TRUE]
Mounts(error, filesystems, volumes) ==
    [error |-> error, filesystems |-> filesystems, volumes |-> volumes]
addDataVolume(m, path) ==
    [m EXCEPT !.filesystems = Append(@, normalize(path))]
PathsOf(m) == ToSet(m.filesystems) \union ToSet(m.volumes)

(***************************************************************************)
(* Binds name shared volumes where these are enabled and are refused where *)
(* they are not.                                                           *)
(***************************************************************************)
handleSharedVolumes(container, config) ==
    IF container.binds = <<>> \/ (config.nfs /\ config.automount)
    THEN Mounts("none", container.volumesFrom, container.binds)
    ELSE Mounts(IF config.nfs THEN "automounting is not enabled"
                ELSE "host volumes are not supported", <<>>, <<>>)

(***************************************************************************)
(* What is there already is looked up once, before the first volume of the *)
(* request is added; for the image, before each.                           *)
(***************************************************************************)
handleVolumes(m, container) ==
    LET Add(n, v) == IF v \in PathsOf(m) THEN n ELSE addDataVolume(n, v)
    IN IF Len(container.volumes) > MaxDataVolumes
       THEN [m EXCEPT !.error = "too many data volumes"]
       ELSE Through(container.volumes, m, Add)
addImageVolumes(m, image) ==
    LET Add(n, v) == IF v \in PathsOf(n) THEN n ELSE addDataVolume(n, v)
    IN Through(image.volumes, m, Add)

mountsOf(container, image, config) ==
    LET shared == handleSharedVolumes(container, config)
        own == handleVolumes(shared, container)
    IN IF shared.error # "none" THEN shared
       ELSE IF own.error # "none" THEN own ELSE addImageVolumes(own, image)

(***************************************************************************)
(* Affinity.  An expression is a sequence of tokens: a key, an operator,   *)
(* perhaps a ~, and a value.  The operator == is looked for before !=,     *)
(* wherever they are.  The words are keys and plain values; "/" and "*"    *)
(* make a value a regular expression or a glob.                            *)
(***************************************************************************)
Operators == {"==", "!="}
Soft == "~"
IsKey(tokens) == Len(tokens) = 1 /\ tokens[1] \notin Operators \union {Soft, "/", "*"}
IsValue(tokens) == tokens # <<>> /\ ToSet(tokens) \intersect (Operators \union {Soft}) = {}
ValueType(tokens) ==
    CASE Len(tokens) >= 3 /\ tokens[1] = "/" /\ Last(tokens) = "/" -> "re"
      [] ~(Len(tokens) >= 3 /\ tokens[1] = "/" /\ Last(tokens) = "/")
            /\ "*" \in ToSet(tokens) -> "glob"
      [] OTHER -> "exact"

BadExpr == [valid |-> FALSE]
parseFilterExpr(s) ==
    LET op == IF "==" \in ToSet(s) THEN "==" ELSE "!="
        at == CHOOSE i \in DOMAIN s : s[i] = op /\ \A j \in 1..(i - 1) : s[j] # op
        rest == Tail_(s, at)
        soft == rest # <<>> /\ rest[1] = Soft
        value == IF soft THEN Tail(rest) ELSE rest
    IN IF op \notin ToSet(s) \/ ~IsKey(Head_(s, at - 1)) \/ ~IsValue(value)
       THEN BadExpr
       ELSE [valid |-> TRUE, key |-> s[1], operator |-> op, value |-> value, isSoft |-> soft,
             valueType |-> ValueType(value)]

(***************************************************************************)
(* The expressions of the label, then those of the environment.  When they *)
(* are all valid, the latter leave the environment of the request and are  *)
(* added to its label: with no labels at all there is nothing to add them  *)
(* to and the request fails.  The environment of the payload was written   *)
(* before and keeps them.                                                  *)
(***************************************************************************)
IsAffinity(entry) == entry.affinity
affinitiesFromContainer(container) ==
    LET affine == {e \in ToSet(container.env) : IsAffinity(e)}
        hints == Kept(container.env, affine)
        exprs == container.label \o [i \in DOMAIN hints |-> hints[i].expr]
        parsed == [i \in DOMAIN exprs |-> parseFilterExpr(exprs[i])]
        invalid == BadExpr \in ToSet(parsed)
        unlabelled == hints # <<>> /\ ~container.hasLabels
    IN [error |-> IF invalid \/ unlabelled THEN "invalid affinity" ELSE "none",
        affinities |-> IF invalid \/ unlabelled THEN <<>> ELSE parsed,
        label |-> IF invalid \/ unlabelled \/ hints = <<>> THEN container.label ELSE exprs,
        env |-> IF invalid THEN container.env
                ELSE Kept(container.env, ToSet(container.env) \ affine),
        payloadEnv |-> container.env]

(***************************************************************************)
(* Command.  Lists may be given and empty: an empty command counts as      *)
(* given.  The environment of the image comes first.                       *)
(***************************************************************************)
Or(a, b) == IF a # Absent THEN a ELSE b
ListOr(a) == IF a # Absent THEN a ELSE <<>>
commandOf(container, image) ==
    LET entrypoint == Or(container.entrypoint, image.entrypoint)
        cmd == IF container.entrypoint = Absent THEN Or(container.cmd, image.cmd)
               ELSE container.cmd
    IN [entrypoint |-> ListOr(entrypoint), cmd |-> ListOr(cmd),
        env |-> ListOr(image.env) \o ListOr(container.env),
        user |-> Or(container.user, image.user)]

(***************************************************************************)
(* Tags.  The labels of the image, then those of the container, become     *)
(* tags of the VM; a later one replaces an earlier one of its key.  The    *)
(* label of the package is taken out here.  All bad labels are reported,   *)
(* also the one of an image that the container replaces.                   *)
(***************************************************************************)
IsBadLabel(label) == label.type \in {"not a string", "bad triton"}
IsTag(label) == label.type # "package" /\ ~IsBadLabel(label)
Tagged(labels) ==
    {labels[i] : i \in {i \in DOMAIN labels :
        /\ IsTag(labels[i])
        /\ \A j \in DOMAIN labels :
              j > i /\ IsTag(labels[j]) => labels[j].key # labels[i].key}}
vmTagsFromLabels(container, image) ==
    LET labels == image.labels \o container.labels
        bad == {l \in ToSet(labels) : IsBadLabel(l)}
    IN [error |-> IF bad = {} THEN "none" ELSE "invalid label",
        bad |-> bad, tags |-> Tagged(labels)]

(***************************************************************************)
(* Packages (PAPI: a sequence of packages, of which an answer has some at  *)
(* their places).  The filter that is sent admits active packages of the   *)
(* account or of nobody, by uuid, by name or short uuid, by name, or by    *)
(* the configured prefix of a name.                                        *)
(***************************************************************************)
Usable(p) == p.active /\ p.owner \in {"nobody", "this"}
buildPackageFilter(specified, prefix, p) ==
    /\ Usable(p)
    /\ IF specified = NoText THEN IsPrefix(prefix, p.name)
       ELSE IF IsUUID(specified) THEN p.uuid = specified
       ELSE \/ p.name = specified
            \/ IsShortUuid(specified) /\ IsPrefix(specified, p.uuid)

(***************************************************************************)
(* The first of the smallest packages with enough memory.                  *)
(***************************************************************************)
getClosestMemoryPackage(pkgs, memory) ==
    LET large == {i \in DOMAIN pkgs : Usable(pkgs[i]) /\ pkgs[i].memory >= memory}
        IsBetter(i, j) == \/ pkgs[i].memory < pkgs[j].memory
                          \/ pkgs[i].memory = pkgs[j].memory /\ i < j
    IN {pkgs[i] : i \in {i \in large : \A j \in large : ~IsBetter(j, i)}}

(***************************************************************************)
(* The package of that name, when it is one; else the package of that uuid *)
(* or short uuid, when it is one and has another name.                     *)
(***************************************************************************)
getSpecifiedPackage(pkgs, specified) ==
    LET names == {i \in DOMAIN pkgs : pkgs[i].name = specified}
        uuids == {i \in DOMAIN pkgs \ names :
                     \/ pkgs[i].uuid = specified
                     \/ IsShortUuid(specified) /\ IsPrefix(specified, pkgs[i].uuid)}
        found == IF Cardinality(names) = 1 THEN names
                 ELSE IF Cardinality(uuids) = 1 THEN uuids ELSE {}
    IN {pkgs[i] : i \in found}

getMemoryTarget(container, config) ==
    IF container.memory = 0 THEN config.defaultMemory ELSE container.memory

(***************************************************************************)
(* The package of a new container, as a set of at most one.                *)
(***************************************************************************)
getPackage(container, papi, config) ==
    LET pkgs == Restrict(papi, {i \in DOMAIN papi :
                    buildPackageFilter(container.package, config.prefix, papi[i])})
    IN IF container.package = NoText
       THEN getClosestMemoryPackage(pkgs, getMemoryTarget(container, config))
       ELSE IF IsPackageName(container.package)
       THEN getSpecifiedPackage(pkgs, container.package) ELSE {}
=============================================================================
