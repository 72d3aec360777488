------------------------------- MODULE Links -------------------------------
(***************************************************************************)
(* Container links (docker run --link target:alias).  A link is a row of   *)
(* the docker_links bucket (models/link.js), keyed by the container that   *)
(* uses it and its alias, that records the container linked to by uuid and *)
(* by name; what the container sees is a copy in its VM's metadata, made   *)
(* when it is created and renewed when it is started.  VMAPI holds the VMs *)
(* and Moray the rows, so every request on containers is a pipeline of     *)
(* single reads and writes of the two, and requests interleave between any *)
(* two of them (backends/sdc/containers.js).  One account: every lookup    *)
(* and every key is confined to the account of the request.                *)
(***************************************************************************)
EXTENDS Naturals, FiniteSets

CONSTANTS
    Vms,         \* VM uuids
    Names,       \* container names, the aliases of the VMs
    Aliases,     \* link aliases
    Clients,     \* concurrent connections, each serving one request at a time
    Requests,    \* the requests clients may issue
    MaxFailures, \* bound: remote calls that fail
    None

Keys == Vms \X Aliases    \* key in models/link.js

RequestType ==
    [kind: {"create", "start", "restart", "rename", "rm", "rmlink"},
     id: Names,                             \* the container named in the URL
     links: SUBSET [ref: Names \cup Vms, alias: Aliases],   \* HostConfig.Links
     name: Names \cup {None},               \* the new name
     alias: Aliases \cup {None},            \* the link to remove
     force: BOOLEAN]

ASSUME LinksAssumption ==
    /\ Requests \subseteq RequestType
    /\ \A r \in Requests : r.kind = "rename" => r.name \in Names
    /\ \A r \in Requests : r.kind = "rmlink" => r.alias \in Aliases
    /\ None \notin Names \cup Vms \cup Aliases
    /\ Names \cap Vms = {}
    /\ MaxFailures \in Nat

VARIABLES
    vms,      \* [Vms -> VmType], VMAPI
    links,    \* [Keys -> LinkType \cup {None}], the docker_links rows
    op,       \* [Clients -> OpType], the request each client is serving
    failures  \* remote calls that have failed

vars == <<vms, links, op, failures>>

States == {"none", "provisioning", "stopped", "running", "destroyed"}

(* One entry of docker:linkHosts and docker:linkEnv: the address of target *)
(* under alias and target_name, and env variables naming the container.    *)
HostType == [alias: Aliases, target: Vms, target_name: Names,
             container_name: Names]
VmType == [state: States, name: Names \cup {None},
           metadata: SUBSET HostType]
ConfigType == [ref: Names \cup Vms, alias: Aliases]   \* "ref:alias"
DetailType == [config: ConfigType, host: HostType]
LinkType == [container_name: Names, target_uuid: Vms,
             target_name: Names \cup Vms]
RowType == [key: Keys, row: LinkType]

Pcs == {"idle", "getVm", "findLinks", "getLinkDetails", "createVm", "saveLinks",
        "updateVm", "findContainerLinks", "updateContainerLinks",
        "findTargetLinks", "updateTargetLinks", "deleteVm",
        "findTargettingLinks", "findSourceLinks", "findLink", "delLinks"}
Saving == {"saveLinks", "updateContainerLinks", "updateTargetLinks"}

(* The closure variables of a request: vm is opts.vm.uuid and seen is the  *)
(* copy of the VM that getVm read; configs, details and rows are what the  *)
(* parallel loops still have to do or have gathered, err their outcome.    *)
OpType ==
    [pc: Pcs, req: Requests \cup {None}, vm: Vms \cup {None},
     seen: VmType \cup {None},
     configs: SUBSET ConfigType, details: SUBSET DetailType,
     rows: SUBSET RowType, err: BOOLEAN]

Idle == [pc |-> "idle", req |-> None, vm |-> None, seen |-> None,
         configs |-> {}, details |-> {}, rows |-> {}, err |-> FALSE]

-----------------------------------------------------------------------------
(* The two stores.                                                         *)

Listed(v) == vms[v].state \notin {"none", "destroyed"}
Matches(ref) == {v \in Vms : Listed(v) /\ (v = ref \/ vms[v].name = ref)}
NameFree(n) == \A v \in Vms : Listed(v) => vms[v].name # n

Rows == {k \in Keys : links[k] # None}
Found(S) == {[key |-> k, row |-> links[k]] : k \in S}
RowsOf(v) == Found({k \in Rows : k[1] = v})
RowsTo(v) == Found({k \in Rows : links[k].target_uuid = v})

Become(c, s) == op' = [op EXCEPT ![c] = s]
At(c, pc) == op[c].pc = pc
End(c) == Become(c, Idle)

(* A parallel loop over rows: when the last one is done the request moves  *)
(* on, or ends.                                                            *)
Settled(s) ==
    IF s.rows # {} THEN s
    ELSE IF s.pc = "updateContainerLinks" /\ ~s.err
         THEN [s EXCEPT !.pc = "findTargetLinks"]
         ELSE Idle
Loop(c, pc, rows) == Become(c, Settled([op[c] EXCEPT !.pc = pc, !.rows = rows]))

-----------------------------------------------------------------------------
(* create, start and restart look up the targets of their links by name.   *)

Start(c) ==
    \E r \in Requests :
        /\ Become(c, [Idle EXCEPT
               !.pc = IF r.kind = "create" THEN "getLinkDetails" ELSE "getVm",
               !.req = r, !.configs = r.links])
        /\ UNCHANGED <<vms, links>>

(* Where a request goes once the URL's container is known.                 *)
AfterGetVm(r) ==
    CASE r.kind \in {"start", "restart"} -> "findLinks"
      [] r.kind = "rename" -> "updateVm"
      [] r.kind = "rm" -> "deleteVm"
      [] r.kind = "rmlink" -> "findLink"

(* getVmInState and the checks of deleteContainer.                         *)
Refused(r, v) ==
    /\ r.kind = "rm"
    /\ vms[v].state = "provisioning" \/ (vms[v].state = "running" /\ ~r.force)

GetVm(c) ==
    LET r == op[c].req
        found == {v \in Matches(r.id) : ~Refused(r, v)} IN
    /\ IF found # {}
       THEN \E v \in found :
                Become(c, [op[c] EXCEPT !.pc = AfterGetVm(r), !.vm = v,
                                        !.seen = vms[v]])
       ELSE End(c)
    /\ UNCHANGED <<vms, links>>

(* checkForContainerUpdate: the links as the rows name their targets.      *)
HostConfigs(rows) ==
    {[ref |-> m.row.target_name, alias |-> m.key[2]] : m \in rows}
FindLinks(c) ==
    /\ Become(c, [op[c] EXCEPT !.pc = "getLinkDetails",
                               !.configs = HostConfigs(RowsOf(op[c].vm))])
    /\ UNCHANGED <<vms, links>>

(* Mutant: the name of a container that is being created is not set yet.   *)
ContainerNameUnset(c) ==
    IF op[c].req.kind = "create" THEN op[c].req.name ELSE op[c].seen.name
ContainerName(c) ==
    IF op[c].req.kind = "create" THEN op[c].req.id ELSE op[c].seen.name
Detail(c, g, t) ==
    [config |-> g, host |-> [alias |-> g.alias, target |-> t,
                             target_name |-> vms[t].name,
                             container_name |-> ContainerName(c)]]
GetLinkDetail(c) ==
    \E g \in op[c].configs :
        /\ IF Matches(g.ref) = {}
           THEN End(c)
           ELSE \E t \in Matches(g.ref) :
                    Become(c, [op[c] EXCEPT
                                  !.configs = @ \ {g},
                                  !.details = @ \cup {Detail(c, g, t)}])
        /\ UNCHANGED <<vms, links>>

NewMetadata(c) == {d.host : d \in op[c].details}

(* The VM is created stopped, after a provisioning that may fail; its rows *)
(* are stored when it has ended.  VMAPI turns a name in use away, and here *)
(* also a VM beyond the bound Vms.                                         *)
CreateVm(c) ==
    /\ op[c].configs = {}
    /\ op[c].req.kind = "create"
    /\ IF NameFree(op[c].req.id) /\ \E v \in Vms : vms[v].state = "none"
       THEN \E v \in Vms :
                /\ vms[v].state = "none"
                /\ vms' = [vms EXCEPT ![v] = [state |-> "provisioning",
                                              name |-> op[c].req.id,
                                              metadata |-> NewMetadata(c)]]
                /\ Become(c, [op[c] EXCEPT !.pc = "createVm", !.vm = v])
       ELSE End(c) /\ UNCHANGED vms
    /\ UNCHANGED links

NewRow(c, d) ==
    [key |-> <<op[c].vm, d.config.alias>>,
     row |-> [container_name |-> op[c].req.id, target_uuid |-> d.host.target,
              target_name |-> d.config.ref]]
Provisioned(c) ==
    /\ vms' = [vms EXCEPT ![op[c].vm].state = "stopped"]
    /\ Loop(c, "saveLinks", {NewRow(c, d) : d \in op[c].details})
    /\ UNCHANGED links

(* Mutant: a container starts with the metadata it has.                    *)
StartVmAsIs(c) ==
    /\ op[c].configs = {}
    /\ op[c].req.kind # "create"
    /\ vms' = IF vms[op[c].vm].state = "stopped"
              THEN [vms EXCEPT ![op[c].vm].state = "running"] ELSE vms
    /\ End(c)
    /\ UNCHANGED links

(* startVm leaves a running VM alone, rebootVm needs one.  The metadata is *)
(* sent only when it differs from the copy that getVm read.                *)
StartVm(c) ==
    LET v == op[c].vm
        needed == IF op[c].req.kind = "start" THEN "stopped" ELSE "running"
        update == NewMetadata(c) # op[c].seen.metadata IN
    /\ op[c].configs = {}
    /\ op[c].req.kind # "create"
    /\ IF vms[v].state = needed
       THEN vms' = [vms EXCEPT ![v].state = "running",
                               ![v].metadata = IF update THEN NewMetadata(c)
                                               ELSE @]
       ELSE UNCHANGED vms
    /\ End(c)
    /\ UNCHANGED links

-----------------------------------------------------------------------------
(* rename writes whole rows back, as it read them but for the new name.    *)

UpdateVm(c) ==
    LET v == op[c].vm
        n == op[c].req.name IN
    /\ IF Listed(v) /\ (NameFree(n) \/ vms[v].name = n)
       THEN /\ vms' = [vms EXCEPT ![v].name = n]
            /\ Become(c, [op[c] EXCEPT !.pc = "findContainerLinks"])
       ELSE End(c) /\ UNCHANGED vms
    /\ UNCHANGED links

FindContainerLinks(c) ==
    /\ Loop(c, "updateContainerLinks",
            {[m EXCEPT !.row.container_name = op[c].req.name] :
               m \in RowsOf(op[c].vm)})
    /\ UNCHANGED <<vms, links>>

(* Mutant: only the rows of the renamed container are updated.             *)
FindTargetLinksNone(c) == End(c) /\ UNCHANGED <<vms, links>>
FindTargetLinks(c) ==
    /\ Loop(c, "updateTargetLinks",
            {[m EXCEPT !.row.target_name = op[c].req.name] :
               m \in RowsTo(op[c].vm)})
    /\ UNCHANGED <<vms, links>>

SaveLink(c) ==
    \E m \in op[c].rows :
        /\ links' = [links EXCEPT ![m.key] = m.row]
        /\ Loop(c, op[c].pc, op[c].rows \ {m})
        /\ UNCHANGED vms

-----------------------------------------------------------------------------
(* rm deletes the VM, then the rows on both sides of it; rm --link deletes *)
(* a row.                                                                  *)

DeleteVm(c) ==
    LET v == op[c].vm IN
    /\ IF Listed(v)
       THEN /\ vms' = [vms EXCEPT ![v] = [state |-> "destroyed", name |-> None,
                                          metadata |-> {}]]
            /\ Become(c, [op[c] EXCEPT !.pc = "findTargettingLinks"])
       ELSE End(c) /\ UNCHANGED vms
    /\ UNCHANGED links

FindTargettingLinks(c) ==
    /\ Become(c, [op[c] EXCEPT !.pc = "findSourceLinks",
                               !.rows = RowsTo(op[c].vm)])
    /\ UNCHANGED <<vms, links>>

(* Mutant: the second list of rows replaces the first.                     *)
FindSourceLinksOnly(c) ==
    /\ Loop(c, "delLinks", RowsOf(op[c].vm))
    /\ UNCHANGED <<vms, links>>
FindSourceLinks(c) ==
    /\ Loop(c, "delLinks", op[c].rows \cup RowsOf(op[c].vm))
    /\ UNCHANGED <<vms, links>>

FindLink(c) ==
    /\ Loop(c, "delLinks",
            {m \in RowsOf(op[c].vm) : m.key[2] = op[c].req.alias})
    /\ UNCHANGED <<vms, links>>

DelLink(c) ==
    \E m \in op[c].rows :
        /\ links' = [links EXCEPT ![m.key] = None]
        /\ Loop(c, "delLinks", op[c].rows \ {m})
        /\ UNCHANGED vms

-----------------------------------------------------------------------------
(* A call that fails ends its request, but rm goes on without the rows it  *)
(* could not find, and a loop goes on with its other rows.                 *)
FailedRow(c) ==
    \E m \in op[c].rows :
        Become(c, Settled([op[c] EXCEPT !.rows = @ \ {m}, !.err = TRUE]))
Fail(c) ==
    /\ failures < MaxFailures
    /\ failures' = failures + 1
    /\ CASE op[c].pc \in Saving \cup {"delLinks"} -> FailedRow(c)
         [] op[c].pc = "findTargettingLinks" ->
                Become(c, [op[c] EXCEPT !.pc = "findSourceLinks"])
         [] op[c].pc = "findSourceLinks" -> Loop(c, "delLinks", op[c].rows)
         [] OTHER -> End(c)
    /\ vms' = IF At(c, "createVm")
              THEN [vms EXCEPT ![op[c].vm] = [state |-> "destroyed",
                                              name |-> None, metadata |-> {}]]
              ELSE vms
    /\ UNCHANGED links

(* docker stop, or the container's own end.                                *)
VmStops ==
    \E v \in Vms :
        /\ vms[v].state = "running"
        /\ vms' = [vms EXCEPT ![v].state = "stopped"]
        /\ UNCHANGED <<links, op, failures>>

(* Containers that were created, linked and left alone: every row names    *)
(* both of its ends, and every container has the metadata of its rows.     *)
LeftAlone(names, up, target) ==
    /\ \A v, w \in Vms : names[v] = names[w] /\ v # w => names[v] = None
    /\ \A v \in up : names[v] # None
    /\ \A k \in Keys : target[k] # None => /\ names[k[1]] # None
                                         /\ names[target[k]] # None
                                         /\ target[k] # k[1]
Init ==
    /\ \E names \in [Vms -> Names \cup {None}], up \in SUBSET Vms,
          target \in [Keys -> Vms \cup {None}] :
        /\ LeftAlone(names, up, target)
        /\ links = [k \in Keys |->
              IF target[k] = None THEN None
              ELSE [container_name |-> names[k[1]], target_uuid |-> target[k],
                    target_name |-> names[target[k]]]]
        /\ vms = [v \in Vms |->
              [state |-> IF names[v] = None THEN "none"
                         ELSE IF v \in up THEN "running" ELSE "stopped",
               name |-> names[v],
               metadata |->
                 {[alias |-> k[2], target |-> target[k],
                   target_name |-> names[target[k]],
                   container_name |-> names[v]] :
                     k \in {k \in Keys : k[1] = v /\ target[k] # None}}]]
    /\ op = [c \in Clients |-> Idle]
    /\ failures = 0

Serve(c) ==
    /\ \/ At(c, "getVm") /\ GetVm(c)
       \/ At(c, "findLinks") /\ FindLinks(c)
       \/ /\ At(c, "getLinkDetails")
          /\ GetLinkDetail(c) \/ CreateVm(c) \/ StartVm(c)
       \/ At(c, "createVm") /\ Provisioned(c)
       \/ At(c, "updateVm") /\ UpdateVm(c)
       \/ At(c, "findContainerLinks") /\ FindContainerLinks(c)
       \/ At(c, "findTargetLinks") /\ FindTargetLinks(c)
       \/ op[c].pc \in Saving /\ SaveLink(c)
       \/ At(c, "deleteVm") /\ DeleteVm(c)
       \/ At(c, "findTargettingLinks") /\ FindTargettingLinks(c)
       \/ At(c, "findSourceLinks") /\ FindSourceLinks(c)
       \/ At(c, "findLink") /\ FindLink(c)
       \/ At(c, "delLinks") /\ DelLink(c)
    /\ UNCHANGED failures

Next ==
    \/ \E c \in Clients : At(c, "idle") /\ Start(c) /\ UNCHANGED failures
    \/ \E c \in Clients : Serve(c)
    \/ \E c \in Clients : ~At(c, "idle") /\ Fail(c)
    \/ VmStops

Spec == Init /\ [][Next]_vars

-----------------------------------------------------------------------------
(* Every variable has its type.                                            *)
TypeOK ==
    /\ vms \in [Vms -> VmType]
    /\ links \in [Keys -> LinkType \cup {None}]
    /\ op \in [Clients -> OpType]
    /\ failures \in 0 .. MaxFailures

AllIdle == \A c \in Clients : At(c, "idle")

(* Between requests a row leads a start to the very container it was made  *)
(* for, whatever was renamed, removed and created under an old name since  *)
(* (createContainer, renameLinks, deleteLinks).                            *)
RowsResolve ==
    AllIdle => \A k \in Rows :
        Listed(k[1]) /\ Matches(links[k].target_name) = {links[k].target_uuid}

(* A container starts with the hosts of its links and no others: those its *)
(* rows record, by uuid (checkForContainerUpdate).                         *)
StartsMeetLinks ==
    [][\A v \in Vms :
          vms[v].state = "stopped" /\ vms'[v].state = "running" =>
            {<<h.alias, h.target>> : h \in vms'[v].metadata}
              = {<<k[2], links[k].target_uuid>> : k \in {k \in Rows : k[1] = v}}
      ]_vars

(* A row with a destroyed end is one that a removal of that end still has  *)
(* to find or to delete: deleteLinks misses none, whoever else removes,    *)
(* and a call that fails leaves the rows of one container at most.         *)
StillToDelete(c, v, k) ==
    /\ op[c].vm = v /\ op[c].req.kind = "rm"
    /\ \/ At(c, "findTargettingLinks")
       \/ At(c, "findSourceLinks") /\ k[1] = v
       \/ k \in {m.key : m \in op[c].rows}
Missed(v) ==
    /\ ~Listed(v)
    /\ \E k \in Rows : /\ v \in {k[1], links[k].target_uuid}
                      /\ \A c \in Clients : ~StillToDelete(c, v, k)
RowsOfTheLiving == Cardinality({v \in Vms : Missed(v)}) <= failures

(* deleteContainer ignores the errors of deleteLinks, "as the only         *)
(* consequence is that the links bucket will have dangling links, but this *)
(* will not impact service": no start is turned away by a dangling row.    *)
DanglingLinksHarmless ==
    \A c \in Clients : \A g \in op[c].configs :
        LET k == <<op[c].vm, g.alias>> IN
        At(c, "getLinkDetails") /\ op[c].req.kind # "create" /\ k \in Rows
            => Matches(g.ref) # {} \/ Listed(links[k].target_uuid)

=============================================================================
