------------------------------ MODULE Queries -------------------------------
(***************************************************************************)
(* The functions that translate what a user writes: into the payload of a  *)
(* new container, into the container or network that is meant, into a      *)
(* list.  A behaviour asks one of them and takes its answer; the           *)
(* properties compare the answer with what the question means.             *)
(***************************************************************************)
EXTENDS Lookups, Networks, Inspect

CONSTANTS PortQuestions, MountQuestions, AffinityQuestions, CommandQuestions,
          TagQuestions, PackageQuestions, ContainerQuestions, ListQuestions,
          NetworkQuestions, NicQuestions, NetworkListQuestions, VersionQuestions,
          CheckQuestions, ShownQuestions

(***************************************************************************)
(* VMs and networks have uuids of their own; a pool is in no pool; a       *)
(* question about a container has a word for it.  VMAPI's answer is        *)
(* finite, no two of its VMs were made at one time, and the lists of a     *)
(* question about a list are lists.                                        *)
(***************************************************************************)
HaveUuids(things) ==
    /\ IsFiniteSet(things)
    /\ \A x \in things : x.uuid \in Text_ /\ IsUUID(x.uuid)
    /\ \A x, y \in things : x.uuid = y.uuid => x = y
IsNapi(napi) ==
    /\ napi.answers \in [Kinds -> {"ok", "404", "500"}]
    /\ HaveUuids(napi.networks \union napi.pools)
    /\ \A p, q \in napi.pools : p.uuid \notin q.networks
IsListQuestion(q) ==
    /\ IsFiniteSet(q.vms)
    /\ \A x, y \in q.vms : x.created \in Nat /\ (x.created = y.created => x = y)
    /\ \A vm \in q.vms : dockerIdFromVmObj(vm) \in Text_
    /\ q.query.since \in Text_ /\ q.query.before \in Text_ /\ q.query.limit \in Nat
    /\ q.query.filters \in Seq(ToSet(q.query.filters))
    /\ \A f \in ToSet(q.query.filters) :
          /\ f.values \in Seq(ToSet(f.values))
          /\ f.field \in {"since", "before"} => f.values[1] \in Text_
ASSUME LookupAssumption ==
    /\ \A q \in ListQuestions : IsListQuestion(q)
    /\ \A q \in ContainerQuestions : /\ q.id \in Text_ \ {NoText} /\ HaveUuids(q.vms)
                                     /\ \A vm \in q.vms : vm.tail \in Text_
    /\ \A q \in NetworkQuestions : q.name \in Text_ /\ IsNapi(q.napi)
    /\ \A q \in NicQuestions : q.container.mode \in Text_ /\ IsNapi(q.napi)
    /\ \A q \in NetworkListQuestions : IsNapi(q.napi)

(***************************************************************************)
(* A request is JSON: its lists are lists, a label has one value for each  *)
(* key, and the package's is the only one of its key; a port or a volume   *)
(* is a key, so it is there once; the options of a log have values.  A     *)
(* version has digits and points, as its pattern demands.  PAPI's packages *)
(* have uuids, and memory in whole MiB.  Of the rules that others write    *)
(* none opens a port of the container that is shown to everybody.          *)
(***************************************************************************)
IsList(s) == s \in Seq(ToSet(s))
MayBeList(s) == s = Absent \/ IsList(s)
IsLabels(labels) ==
    /\ IsList(labels)
    /\ \A i, j \in DOMAIN labels : labels[i].key = labels[j].key => i = j
    /\ \A l \in ToSet(labels) :
          /\ l.type \in {"plain", "triton", "package", "not a string", "bad triton"}
          /\ ~IsBadLabel(l) => (l.type = "package" <=> l.key = PackageLabel)
ArePaths(paths) ==
    /\ IsList(paths)
    /\ \A p \in ToSet(paths) : p \in [dir : {p.dir}, plain : BOOLEAN]
ArePorts(entries) ==
    /\ IsList(entries)
    /\ \A e \in ToSet(entries) : e.port \in 1..MaxPort /\ e.proto \in Protos
    /\ \A i, j \in DOMAIN entries :
          entries[i].port = entries[j].port /\ entries[i].proto = entries[j].proto => i = j
IsVM(vm) == vm = [uuid |-> vm.uuid, alias |-> vm.alias, package |-> vm.package,
                  state |-> vm.state, exit |-> vm.exit, started |-> vm.started]
HasPorts(q) == /\ q.container.publishAll \in BOOLEAN
               /\ ArePorts(q.container.bindings) /\ ArePorts(q.image.ports)
HasMounts(q) ==
    /\ ArePaths(q.container.volumesFrom) /\ ArePaths(q.container.binds)
    /\ ArePaths(q.container.volumes) /\ ArePaths(q.image.volumes)
    /\ \A i, j \in DOMAIN q.container.volumes :
          q.container.volumes[i] = q.container.volumes[j] => i = j
HasCommand(q) == \A part \in {q.container, q.image} : /\ MayBeList(part.entrypoint)
                                                      /\ MayBeList(part.cmd)
                                                      /\ MayBeList(part.env)
HasLabels(q) == IsLabels(q.container.labels) /\ IsLabels(q.image.labels)
IsShown(q) ==
    /\ HasPorts(q) /\ HasMounts(q) /\ HasCommand(q) /\ HasLabels(q)
    /\ LET policy == q.container.restart
       IN policy = Policy(policy.Name, policy.MaximumRetryCount)
    /\ IsVM(q.now.vm) /\ getPublishingRules(q.now.others, q.now.vm) = {}
ASSUME RequestAssumption ==
    /\ \A q \in PortQuestions : HasPorts(q)
    /\ \A q \in MountQuestions : HasMounts(q)
    /\ \A q \in CommandQuestions : HasCommand(q)
    /\ \A q \in TagQuestions : HasLabels(q)
    /\ \A q \in ShownQuestions : IsShown(q)
    /\ \A q \in CheckQuestions : q.container.log # Absent =>
          \A o \in DOMAIN q.container.log.Config :
             LET value == q.container.log.Config[o] IN value = Value(value.text, value.port)
    /\ VersionQuestions \subseteq Seq({Point} \union 0..9)
    /\ \A q \in AffinityQuestions :
          /\ IsList(q.container.env) /\ IsList(q.container.label)
          /\ \A i \in DOMAIN q.container.label : IsList(q.container.label[i])
          /\ \A e \in ToSet(q.container.env) : IsAffinity(e) => IsList(e.expr)
    /\ \A q \in PackageQuestions :
          /\ q.config.defaultMemory \in Nat /\ q.container.memory \in Nat
          /\ q.container.package \in Text_ /\ IsList(q.papi)
          /\ \A p \in ToSet(q.papi) : /\ p.uuid \in Text_ /\ IsUUID(p.uuid) /\ p.name \in Text_
                                      /\ p.memory \in Nat

VARIABLES about,  \* the function that is asked
          asked,  \* its arguments
          answer  \* its answer, once it is given: a sequence of at most one

vars == <<about, asked, answer>>

Ask(what, questions) == about = what /\ asked \in questions
Init == /\ answer = <<>>
        /\ \/ Ask("ports", PortQuestions) \/ Ask("mounts", MountQuestions)
           \/ Ask("affinity", AffinityQuestions) \/ Ask("command", CommandQuestions)
           \/ Ask("tags", TagQuestions) \/ Ask("package", PackageQuestions)
           \/ Ask("container", ContainerQuestions) \/ Ask("list", ListQuestions)
           \/ Ask("network", NetworkQuestions) \/ Ask("nics", NicQuestions)
           \/ Ask("networks", NetworkListQuestions) \/ Ask("version", VersionQuestions)
           \/ Ask("checked", CheckQuestions) \/ Ask("shown", ShownQuestions)

Answer(what, value) == /\ answer = <<>> /\ about = what
                       /\ answer' = <<value>>
                       /\ UNCHANGED <<about, asked>>
Ports == Answer("ports",
    addPublishFirewallRules(asked.container, asked.image, asked.version))
Mounting == Answer("mounts", mountsOf(asked.container, asked.image, asked.config))
Affinity == Answer("affinity", affinitiesFromContainer(asked.container))
Command == Answer("command", commandOf(asked.container, asked.image))
Tagging == Answer("tags", vmTagsFromLabels(asked.container, asked.image))
Package == Answer("package", getPackage(asked.container, asked.papi, asked.config))
Container == Answer("container", getVmById(asked.id, asked.vms))
ListContainers == Answer("list", getContainers(asked.query, asked.vms, asked.packages))
Network == Answer("network",
    findNetworkOrPoolByNameOrId(asked.name, asked.napi, asked.account))
Nics == Answer("nics", addNetworksToContainerPayload(
    asked.container, asked.config, asked.napi, asked.account))
ListNetworks == Answer("networks", listNetworksForAccount(asked.napi, asked.account))
Version == Answer("version", reqClientApiVersion(asked))

(***************************************************************************)
(* A request is checked; if it passes, its log and its binds are taken to  *)
(* the payload.                                                            *)
(***************************************************************************)
Checked == Answer("checked",
    [error |-> validateCreateContainer(asked.container, asked.config),
     log |-> logConfigOf(asked.container),
     binds |-> [i \in DOMAIN asked.container.binds |->
                   getVolumeInfoFromBindString(asked.container.binds[i])]])

(***************************************************************************)
(* A container is made, with its rules, and shown by docker ps and docker  *)
(* inspect: `now' is what became of it and what else there is.             *)
(***************************************************************************)
ShowsOf(payload, now) ==
    LET vm == Over(payload.vm, now.vm)
        fwrules == FwRules(payload.rules, vm.uuid) \union now.others
    IN [ps |-> containerForVmObj(vm, fwrules, now.links, now.packages),
        inspect |-> vmobjToInspect(vm, fwrules, now.packages, now.modern)]
Shown == LET payload == buildVmPayload(asked.container, asked.image, asked.config)
         IN Answer("shown", [error |-> payload.error,
                             shown |-> IF payload.error = "none"
                                       THEN ShowsOf(payload, asked.now) ELSE Absent])

Next == \/ Ports \/ Mounting \/ Affinity \/ Command \/ Tagging \/ Package
        \/ Container \/ ListContainers \/ Network \/ Nics \/ ListNetworks
        \/ Version \/ Checked \/ Shown
Spec == Init /\ [][Next]_vars

-----------------------------------------------------------------------------
(***************************************************************************)
(* Ports.  The ranges of a set of ports that cannot be made longer.        *)
(***************************************************************************)
MaximalRanges(S) ==
    {Range_(r[1], r[2]) : r \in {r \in S \X S :
        /\ r[1] <= r[2] /\ r[1]..r[2] \subseteq S
        /\ r[1] - 1 \notin S /\ r[2] + 1 \notin S}}

PortsOfProto(entries, proto) == {e.port : e \in {e \in ToSet(entries) : e.proto = proto}}
Bound(q, proto) == PortsOfProto(q.container.bindings, proto)
OfImage(q, proto) == PortsOfProto(q.image.ports, proto)
ToPublish(q, proto) ==
    Bound(q, proto) \union (IF q.container.publishAll THEN OfImage(q, proto) ELSE {})
(***************************************************************************)
(* Before they are compressed, a port of the image that is bound as well   *)
(* counts twice.                                                           *)
(***************************************************************************)
Processed(q, proto) ==
    Cardinality(Bound(q, proto))
    + (IF q.container.publishAll THEN Cardinality(OfImage(q, proto)) ELSE 0)
IsWrong(q) ==
    \/ \E b \in ToSet(q.container.bindings) : b.host \notin {NoHostPort, b.port}
    \/ \E p \in Protos :
          \/ Processed(q, p) > MaxProcessedPorts
          \/ MaxExposedPorts < IF q.version > 1
                               THEN Cardinality(MaximalRanges(ToPublish(q, p)))
                               ELSE Processed(q, p)
PortsAsAsked(q, a) ==
    IF IsWrong(q) THEN a.error # "none"
    ELSE /\ a.error = "none"
         /\ \A rule \in a.rules : Len(rule.ports) \in 1..MaxPortsPerRule
         /\ \A p \in Protos :
               /\ getPublishedPorts(a.rules, p) = ToPublish(q, p)
               /\ a.unpublished[p] = OfImage(q, p) \ ToPublish(q, p)
               /\ q.version > 1 =>
                     UNION {ToSet(r.ports) : r \in {r \in a.rules : r.proto = p}}
                     = MaximalRanges(ToPublish(q, p))

(***************************************************************************)
(* Mounts.  The directories of paths, and how often one is among them.     *)
(***************************************************************************)
Dirs(paths) == {paths[i].dir : i \in DOMAIN paths}
Times(dir, paths) == Cardinality({i \in DOMAIN paths : paths[i].dir = dir})
MountsAsAsked(q, a) ==
    LET c == q.container
        given == c.volumesFrom \o c.binds
        wanted == given \o c.volumes \o q.image.volumes
        mounted == a.filesystems \o a.volumes
        refused == \/ c.binds # <<>> /\ ~(q.config.nfs /\ q.config.automount)
                   \/ Len(c.volumes) > MaxDataVolumes
    IN /\ refused <=> a.error # "none"
       /\ ~refused => Dirs(mounted) = Dirs(wanted)
       /\ ~refused /\ (\A p \in ToSet(wanted) : p.plain) =>
             \A dir \in Dirs(wanted) :
                Times(dir, mounted) = IF dir \in Dirs(given) THEN Times(dir, given) ELSE 1

(***************************************************************************)
(* Affinity.  The form the documentation gives an expression: a key, an    *)
(* operator, perhaps a ~, and a value without any of these.  A request     *)
(* that is accepted keeps all its hints; one whose hints have that form is *)
(* accepted.  Left out of the claim are hints in the environment of a      *)
(* request without labels: the comments of affinity.js say that its labels *)
(* are updated, the code throws (HintsReachLabels).                        *)
(***************************************************************************)
HasForm(s) ==
    /\ Len(s) > 2 /\ IsKey(<<s[1]>>) /\ s[2] \in {"==", "!="}
    /\ LET value == Tail_(s, IF s[3] = Soft THEN 3 ELSE 2)
       IN value # <<>> /\ \A t \in ToSet(value) : t \notin {"==", "!=", Soft}
Written(e) ==
    <<e.key, e.operator>> \o (IF e.isSoft THEN <<Soft>> ELSE <<>>) \o e.value
EnvHints(c) == Kept(c.env, {e \in ToSet(c.env) : IsAffinity(e)})
AllHints(c) == c.label \o [i \in DOMAIN EnvHints(c) |-> EnvHints(c)[i].expr]
AffinityAsAsked(q, a) ==
    LET c == q.container
        fine == \A s \in ToSet(AllHints(c)) : HasForm(s)
    IN /\ a.error = "none" =>
             /\ fine /\ [i \in DOMAIN a.affinities |-> Written(a.affinities[i])] = AllHints(c)
             /\ EnvHints(c) # <<>> => a.label = AllHints(c)
             /\ \A e \in ToSet(a.env) : ~IsAffinity(e)
       /\ fine /\ (EnvHints(c) = <<>> \/ c.hasLabels) => a.error = "none"
AffinityAsCommented(q, a) ==
    LET c == q.container
    IN EnvHints(c) # <<>> /\ (\A s \in ToSet(AllHints(c)) : HasForm(s)) =>
          a.error = "none" /\ a.label = AllHints(c)

(***************************************************************************)
(* Command.  An entrypoint of the user never runs with the command of the  *)
(* image, and what the image sets comes before what the user sets.         *)
(***************************************************************************)
CommandAsAsked(q, a) ==
    LET c == q.container
    IN /\ c.entrypoint # Absent => a.entrypoint = c.entrypoint /\ a.cmd = ListOr(c.cmd)
       /\ c.entrypoint = Absent => /\ a.entrypoint = ListOr(q.image.entrypoint)
                                   /\ a.cmd = ListOr(Or(c.cmd, q.image.cmd))
       /\ IsPrefix(ListOr(q.image.env), a.env) /\ IsSuffix(ListOr(c.env), a.env)

(***************************************************************************)
(* Tags.  One tag for each key, that of the container before the image's.  *)
(***************************************************************************)
TagsAsAsked(q, a) ==
    LET own == ToSet(q.container.labels)
        ofImage == ToSet(q.image.labels)
        asTags == {l \in own \union {i \in ofImage : \A o \in own : o.key # i.key} :
                      l.type # "package"}
    IN IF \E l \in own \union ofImage : IsBadLabel(l) THEN a.error # "none"
       ELSE a.error = "none" /\ a.tags = asTags

(***************************************************************************)
(* Packages.  Only a package the account may use; the smallest that is     *)
(* large enough; of those named, never one of several of the same name     *)
(* unless a uuid decides.                                                  *)
(***************************************************************************)
PackageAsAsked(q, a) ==
    LET usable == {i \in DOMAIN q.papi : Usable(q.papi[i])}
        word == q.container.package
        need == getMemoryTarget(q.container, q.config)
        large == {q.papi[i] : i \in {i \in usable :
                    IsPrefix(q.config.prefix, q.papi[i].name) /\ q.papi[i].memory >= need}}
        named == {i \in usable : q.papi[i].name = word}
        byUuid == {i \in usable \ named :
                     IsHex(word) /\ Len(word) \in {ShortLength, UuidLength}
                     /\ IsPrefix(word, q.papi[i].uuid)}
    IN IF word = NoText
       THEN /\ a = {} <=> large = {}
            /\ \A p \in a : p \in large /\ \A other \in large : p.memory <= other.memory
       ELSE /\ \A p \in a : \E i \in named \union byUuid : q.papi[i] = p
            /\ IsPackageName(word) /\ Cardinality(named) = 1 /\ ~IsUUID(word) =>
                  a = {q.papi[i] : i \in named}
            /\ a # {} => \/ Cardinality(named) = 1 \/ Cardinality(byUuid) = 1
                         \/ IsUUID(word) /\ \A p \in a : p.uuid = word

(***************************************************************************)
(* Containers.  What is found stands and is named; a full id always finds  *)
(* its container; of several that a word could mean, none is taken unless  *)
(* the word is the name of just one; a word only one can be meant by finds *)
(* it.                                                                     *)
(***************************************************************************)
Meant(id, vms) ==
    {vm \in Standing(vms) : vm.alias = id \/ IsPrefix(id, dockerIdFromVmObj(vm))}
ContainerAsAsked(q, a) ==
    LET full == {vm \in Standing(q.vms) :
                    Len(q.id) = 2 * UuidLength /\ dockerIdFromVmObj(vm) = q.id}
        meant == Meant(q.id, q.vms)
        named == {vm \in meant : vm.alias = q.id}
    IN /\ a \subseteq meant
       /\ full # {} => a = full
       /\ full = {} /\ Cardinality(named) = 1 => a = named
       /\ a # {} => a = full \/ a = named \/ a = meant \ named
       /\ Cardinality(meant) = 1 => a = meant

(***************************************************************************)
(* Lists.  A status filter means any of its statuses, as the comment of    *)
(* _filterField says.  The code requires them all, so a filter of several  *)
(* finds nothing (StatusMeansAny): it is left out of the claim, and so is  *)
(* a word of since or before that fits several containers.                 *)
(***************************************************************************)
Passes(vm, filter, vms, packages) ==
    LET named == Meant(filter.values[1], vms)
    IN CASE filter.field = "status" ->
                \E v \in ToSet(filter.values) : v \in DOMAIN StatusOf /\ vm.state = StatusOf[v]
         [] filter.field = "exited" -> vm.exit \in ToSet(filter.values)
         [] filter.field = "id" ->
                \E v \in ToSet(filter.values) : IsWithin(v, dockerIdFromVmObj(vm))
         [] filter.field = "name" -> \E v \in ToSet(filter.values) : IsWithin(v, vm.alias)
         [] filter.field = "label" ->
                \A l \in ToSet(filter.values) : HasLabel(vm, l, packages)
         [] filter.field = "since" -> \E v \in named : v.created < vm.created
         [] filter.field = "before" -> \E v \in named : v.created > vm.created
         [] OTHER -> TRUE
Clear(filter, vms) ==
    /\ filter.field \in {"since", "before"} =>
          Cardinality(Meant(filter.values[1], vms)) <= 1
    /\ filter.field = "status" => Cardinality(ToSet(filter.values)) = 1

(***************************************************************************)
(* A filter may be an error: a status or a package that cannot be one; a   *)
(* container that is not known, or not just one, or that an earlier filter *)
(* has taken away: since and before look theirs up in what those left.     *)
(***************************************************************************)
MayFail(filters, i, vms, packages) ==
    LET filter == filters[i]
        named == Meant(filter.values[1], vms)
        mayLose(j) == ~Clear(filters[j], vms)
                      \/ \E v \in named : ~Passes(v, filters[j], vms, packages)
    IN \/ /\ filter.field \in {"since", "before"}
          /\ \/ filter.values[1] = NoText \/ Cardinality(named) # 1
             \/ \E j \in 1..(i - 1) : mayLose(j)
       \/ filter.field = "status" /\ \E v \in ToSet(filter.values) : v \notin DOMAIN StatusOf
       \/ IsBadPackageFilter(filter)
SinceAndBefore(query) ==
    (IF query.since = NoText THEN <<>> ELSE <<[field |-> "since", values |-> <<query.since>>]>>)
    \o (IF query.before = NoText THEN <<>> ELSE <<[field |-> "before", values |-> <<query.before>>]>>)
(***************************************************************************)
(* A list without an error holds just the containers that pass all the     *)
(* filters, the newest first, up to the limit; an error has a reason.      *)
(***************************************************************************)
ListAsAsked(q, a) ==
    LET vms == Listed(q.vms, AsksAll(q.query))
        filters == SinceAndBefore(q.query) \o q.query.filters
        passing == {vm \in vms : \A f \in ToSet(filters) : Passes(vm, f, vms, q.packages)}
        rank(vm) == Cardinality({v \in passing : v.created > vm.created}) + 1
        limit == IF q.query.limit = 0 THEN Cardinality(passing) ELSE q.query.limit
    IN /\ a.error = "none" /\ (\A f \in ToSet(filters) : Clear(f, vms)) =>
             /\ ToSet(a.vms) = {vm \in passing : rank(vm) <= limit}
             /\ \A i \in DOMAIN a.vms : rank(a.vms[i]) = i
       /\ a.error # "none" =>
             /\ vms # {}
             /\ \/ q.packages = <<>>
                \/ \E i \in DOMAIN filters : MayFail(filters, i, vms, q.packages)
StatusAsCommented(q, a) ==
    LET vms == Listed(q.vms, TRUE)
    IN \A f \in ToSet(q.query.filters) :
          /\ f.field = "status" /\ a.error = "none"
          /\ Len(SinceAndBefore(q.query) \o q.query.filters) = 1 /\ q.query.limit = 0 =>
                ToSet(a.vms) = {vm \in vms : Passes(vm, f, vms, q.packages)}

(***************************************************************************)
(* Networks.  The whole id is preferred to a name, a name to a part of an  *)
(* id, a network to a pool; of several, none is taken.  The part of an id  *)
(* that lacks only the last digit is not accepted.                         *)
(***************************************************************************)
NetworkOrPool(S, napi) ==
    IF S \intersect napi.networks # {} THEN S \intersect napi.networks ELSE S
Preferred(name, napi) ==
    LET all == napi.networks \union napi.pools
        Level(Fitting(_)) == NetworkOrPool({n \in all : Fitting(n)}, napi)
        exact == Level(LAMBDA n : networkUuidToDockerId(n.uuid) = name)
        named == Level(LAMBDA n : n.name = name)
        part == Level(LAMBDA n : /\ Len(name) < 2 * UuidLength - 1
                                 /\ IsPrefix(name, networkUuidToDockerId(n.uuid)))
    IN IF exact # {} THEN exact ELSE IF named # {} THEN named ELSE part
AnswersAll(napi) == \A kind \in Kinds : napi.answers[kind] = "ok"
NetworkAsAsked(q, a) ==
    LET preferred == Preferred(q.name, q.napi)
    IN /\ Cardinality(a.found) <= 1 /\ (a.found = {} <=> a.err # "none")
       /\ \A n \in a.found : q.account.restricted => n.owned
       /\ AnswersAll(q.napi) /\ ~q.account.restricted =>
             /\ Cardinality(preferred) = 1 => a.found = preferred
             /\ Cardinality(preferred) > 1 => a.err = "ambiguous"
             /\ preferred = {} => a.err = "not found"

(***************************************************************************)
(* The networks of a container.  There is one primary network, the last:   *)
(* the external one if the container publishes ports or there are no       *)
(* fabrics.  An external network that is looked up for an account that may *)
(* only use its own is its own.                                            *)
(***************************************************************************)
NicsAsAsked(q, a) ==
    LET c == q.container
        external == publishingPorts(c) \/ ~q.config.overlay
        size == (IF q.config.overlay THEN 1 ELSE 0) + (IF external THEN 1 ELSE 0)
        all == q.napi.networks \union q.napi.pools
    IN a.err = "none" =>
          /\ Len(a.networks) = size
          /\ \A i \in DOMAIN a.networks : a.networks[i].primary <=> i = size
          /\ ~external => c.publicLabel = NoText
          /\ external /\ q.account.restricted =>
                \E n \in all : n.owned /\ n.uuid = a.networks[size].uuid
          /\ external /\ c.publicLabel # NoText =>
                \E n \in all : n.name = c.publicLabel /\ n.uuid = a.networks[size].uuid

(***************************************************************************)
(* A list of networks shows nothing of the operator's, nothing an account  *)
(* may not use, no network of a pool it shows; what it shows is found      *)
(* again by its id.                                                        *)
(***************************************************************************)
ListedNetworks(q, a) ==
    {n \in q.napi.networks \union q.napi.pools :
        \E shown \in a.found : shown.Id = networkUuidToDockerId(n.uuid)}
NetworksAsAsked(q, a) ==
    LET shown == ListedNetworks(q, a)
    IN \A n \in shown :
          /\ n.tag # AdminTag /\ (q.account.restricted => n.owned)
          /\ \A pool \in shown \intersect q.napi.pools : n.uuid \notin pool.networks
          /\ findNetworkOrPoolByNameOrId(networkUuidToDockerId(n.uuid), q.napi, q.account)
             = Found({n})

(***************************************************************************)
(* Versions.  A version of one digit and two is accepted from 1.20 on.  Of *)
(* those of one digit and one the claim says nothing: 1.3 to 1.9 pass as   *)
(* texts, though MIN_API_VERSION's comment says that all versions less     *)
(* than 1.20 are rejected (OldVersionsRefused).                            *)
(***************************************************************************)
HasTwoDigits(q) == Len(q) = 4 /\ q[1] \in 1..9 /\ q[2] = Point /\ {q[3], q[4]} \subseteq 0..9
VersionAsAsked(q, a) ==
    /\ q = NoText => a.accepted
    /\ HasTwoDigits(q) => (a.accepted <=> q[1] > 1 \/ 10 * q[3] + q[4] >= 20)
HasOneDigit(q) == Len(q) = 3 /\ q[1] \in 1..9 /\ q[2] = Point /\ q[3] \in 0..9
VersionAsCommented(q, a) == HasOneDigit(q) /\ q[1] = 1 => ~a.accepted

(***************************************************************************)
(* Checks.  What passes them can be made: no bind and no log is refused    *)
(* later by an exception, and no option that was given is lost.            *)
(***************************************************************************)
CheckedAsAsked(q, a) ==
    LET c == q.container
        log == a.log.log
    IN a.error = "none" =>
          /\ a.log.error = "none"
          /\ c.log # Absent => /\ log.Type \in q.config.drivers
                               /\ DOMAIN log.Config \subseteq Opts(log.Type)
                               /\ RequiredOpts(log.Type) \subseteq DOMAIN c.log.Config
                               /\ \A o \in DOMAIN c.log.Config :
                                     log.Config[o].text = c.log.Config[o].text
          /\ "syslog-address" \in DOMAIN log.Config => log.Config["syslog-address"].port # NoPort
          /\ \A i \in DOMAIN c.binds : a.binds[i].mountpoint = c.binds[i].mountpoint
          /\ \A b \in ToSet(c.bindings) : b.port \in 1..MaxPort /\ b.proto \in Protos
          /\ c.links # <<>> => c.mode \in DefaultModes
          /\ \A v \in ToSet(c.volumes) : v.absolute

(***************************************************************************)
(* What is shown.  A container is shown as it was asked for, and docker ps *)
(* and docker inspect agree, whatever other rules there are.  Left out of  *)
(* the claim is inspect's list of exposed ports where ports of both        *)
(* protocols are exposed and not published: the second protocol's replace  *)
(* the first's (utils.js:713).                                             *)
(***************************************************************************)
PortsShown(q, s) ==
    LET published == UNION {ToPublish(q, p) \X {p} : p \in Protos}
        all == UNION {(Bound(q, p) \union OfImage(q, p)) \X {p} : p \in Protos}
        quiet == {port[2] : port \in all \ published}
    IN /\ s.inspect.PortBindings = published /\ s.ps.Public = published
       /\ s.inspect.Ports = all /\ s.ps.Private = all \ published
       /\ s.inspect.ExposedPorts \subseteq all
       /\ quiet # Protos => s.inspect.ExposedPorts = all
CommandShown(q, s) ==
    LET i == s.inspect
    IN /\ CommandAsAsked(q, [entrypoint |-> i.Entrypoint, cmd |-> i.Cmd, env |-> i.Env])
       /\ i.Path \o i.Args = i.Entrypoint \o i.Cmd /\ s.ps.Command = i.Entrypoint \o i.Cmd
RestartShown(q, s) ==
    LET policy == q.container.restart
    IN s.inspect.RestartPolicy =
          CASE policy.Name = "on-failure" -> policy
            [] policy.Name = "always" -> Policy("always", 0)
            [] OTHER -> Policy("", 0)
LabelsShown(q, s) ==
    LET own == ToSet(q.container.labels)
        wanted == {l \in own \union {i \in ToSet(q.image.labels) : \A o \in own : o.key # i.key} :
                      l.type # "package"}
        package == {p.name : p \in {p \in q.now.packages : p.uuid = q.now.vm.package}}
    IN /\ \A l \in wanted : s.ps.Labels[l.key] = l.value
       /\ DOMAIN s.ps.Labels = {PackageLabel} \union {l.key : l \in wanted}
       /\ package # {} => s.ps.Labels[PackageLabel] \in package
       /\ q.now.modern => \A k \in DOMAIN s.inspect.Labels : s.inspect.Labels[k] = s.ps.Labels[k]
       /\ q.now.modern => {l.key : l \in wanted} \subseteq DOMAIN s.inspect.Labels
VolumesShown(q, s) ==
    LET c == q.container
        others == Dirs(c.volumesFrom)
        own == (Dirs(c.volumes) \union Dirs(q.image.volumes)) \ (others \union Dirs(c.binds))
        plain == \A v \in ToSet(c.volumesFrom \o c.binds \o c.volumes \o q.image.volumes) : v.plain
    IN plain => /\ s.inspect.Volumes.all = others \union own /\ s.inspect.Volumes.own = own
                /\ s.inspect.Volumes.writable = IF c.readonly THEN own ELSE others \union own
ShownAsAsked(q, a) ==
    /\ a.error # "none" => a.shown = Absent
    /\ a.error = "none" =>
          /\ PortsShown(q, a.shown) /\ CommandShown(q, a.shown) /\ RestartShown(q, a.shown)
          /\ LabelsShown(q, a.shown) /\ VolumesShown(q, a.shown)
          /\ a.shown.inspect.Running <=> a.shown.ps.Status = "Up"

-----------------------------------------------------------------------------
(***************************************************************************)
(* The answer about something compares well with the question.             *)
(***************************************************************************)
Says(what, Compare(_, _)) == about = what /\ answer # <<>> => Compare(asked, answer[1])

(***************************************************************************)
(* What a request to create a container becomes in its payload is what the *)
(* user and the image asked for: published ports are those of the firewall *)
(* rules and no others, in the fewest ranges; every directory is mounted,  *)
(* once; docker ps and docker inspect show what was asked, and a list      *)
(* holds just the containers it is for, and fails only for a reason.       *)
(***************************************************************************)
PayloadAsAsked ==
    /\ Says("ports", PortsAsAsked) /\ Says("mounts", MountsAsAsked)
    /\ Says("shown", ShownAsAsked) /\ Says("list", ListAsAsked)

(***************************************************************************)
(* A request is taken as it was written or refused: the command and the    *)
(* tags are the user's before the image's; every affinity hint is kept, in *)
(* order; the package is the one that is meant, or large enough; a version *)
(* with a minor of two digits is compared by its number; what passes the   *)
(* checks is not refused later.  A container or a network that is found is *)
(* the one the word means, and none is guessed; a container gets the       *)
(* networks of its account, one of them primary; the networks that are     *)
(* listed are those it may use.                                            *)
(***************************************************************************)
RequestsAsAsked ==
    /\ Says("command", CommandAsAsked) /\ Says("tags", TagsAsAsked)
    /\ Says("affinity", AffinityAsAsked) /\ Says("package", PackageAsAsked)
    /\ Says("version", VersionAsAsked) /\ Says("checked", CheckedAsAsked)
LookupsAsAsked ==
    /\ Says("container", ContainerAsAsked) /\ Says("network", NetworkAsAsked)
    /\ Says("nics", NicsAsAsked) /\ Says("networks", NetworksAsAsked)
AnswersAsAsked == RequestsAsAsked /\ LookupsAsAsked

-----------------------------------------------------------------------------
(***************************************************************************)
(* What comments of the code say, and the code does not do (README,        *)
(* Departures).  containers.js:2711: "check if this entry matches any of   *)
(* the requested values".                                                  *)
(***************************************************************************)
StatusMeansAny == Says("list", StatusAsCommented)

(***************************************************************************)
(* affinity.js:88: "If affinities are provided in container.Env then       *)
(* container.Labels['com.docker.swarm.affinities'] is updated with them".  *)
(***************************************************************************)
HintsReachLabels == Says("affinity", AffinityAsCommented)

(***************************************************************************)
(* constants.js:10: "clients using a version less than this will be        *)
(* rejected".                                                              *)
(***************************************************************************)
OldVersionsRefused == Says("version", VersionAsCommented)
=============================================================================
