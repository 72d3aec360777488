----------------------------- MODULE Provision -----------------------------
(***************************************************************************)
(* docker create and docker rm of one account, with what createContainer   *)
(* (lib/backends/sdc/containers.js) leaves in other services before and    *)
(* after its one call of VMAPI: firewall rules in FWAPI, data volumes that *)
(* --volumes-from shares, links.  The provision limits and the rows of the *)
(* links are modules of their own.  Beside them, the requests of Volumes.  *)
(***************************************************************************)
EXTENDS Volumes

CONSTANTS
    Creates,      \* requests, and the containers they make
    Removals, RemovalOf,  \* [Removals -> Creates]
    Data,         \* the containers with a data volume of their own
    Sources,      \* [Creates -> SUBSET Creates], --volumes-from
    Published,    \* [Creates -> SUBSET Protocols], of the ports published
    Protocols,    \* tcp and udp
    Scenarios     \* bound: the requests made in one execution

Requests == Creates \cup Removals

ASSUME ProvisionAssumption ==
    /\ Creates \cap Removals = {} /\ IsFiniteSet(Creates)
    /\ RemovalOf \in [Removals -> Creates] /\ Data \subseteq Creates
    /\ Sources \in [Creates -> SUBSET Creates]
    /\ Published \in [Creates -> SUBSET Protocols]
    /\ Scenarios \subseteq SUBSET (Requests \cup VolumeRequests)

VARIABLES
    made,     \* the requests made, one of the Scenarios
    req,      \* [Requests -> RequestType]
    vms,      \* [Creates -> VmStates], VMAPI
    mounts,   \* [Creates -> SUBSET Creates], whose volumes a VM mounts
    expose,   \* FWAPI: how many rules open all ports, by protocol
    publish   \* FWAPI: [Creates -> SUBSET Protocols]

provisionVars == <<req, vms, mounts, expose, publish>>
vars == <<made, provisionVars, volumeVars>>

VmStates == {"none", "provisioning", "stopped", "failed", "destroyed"}
Exists(c) == vms[c] \in {"provisioning", "stopped"}
Existing == {c \in Creates : Exists(c)}

(* todo: the parallel calls that are not yet answered; failed: one of them *)
(* was an error; seen: the containers listed; standing is history: those   *)
(* that existed when the request came.  A request is lost when it waits    *)
(* for a callback that nobody makes.                                       *)
RequestType ==
    [pc: {"idle", "networks", "sources", "package", "listRules",
          "exposeRules", "publishRules", "allow", "links", "createVm", "job",
          "saveLinks", "postProvision", "getVm", "listVms", "deleteVm",
          "deleteLinks", "done", "lost"},
     todo: SUBSET (Creates \cup Protocols), failed: BOOLEAN,
     seen: SUBSET Creates, standing: SUBSET Creates,
     answer: {"none", "ok", "error"}]

ProvisionTypeOK ==
    /\ made \in Scenarios /\ VolumesTypeOK
    /\ req \in [Requests -> RequestType]
    /\ vms \in [Creates -> VmStates]
    /\ mounts \in [Creates -> SUBSET Data]
    /\ expose \in [Protocols -> 0..Cardinality(Creates)]
    /\ publish \in [Creates -> SUBSET Protocols]

ProvisionInit ==
    /\ made \in Scenarios
    /\ req = [r \in Requests |->
                [pc |-> "idle", todo |-> {}, failed |-> FALSE, seen |-> {},
                 standing |-> {}, answer |-> "none"]]
    /\ vms = [c \in Creates |-> "none"]
    /\ mounts = [c \in Creates |-> {}]
    /\ expose = [p \in Protocols |-> 0]
    /\ publish = [c \in Creates |-> {}]

At(r, pc) == req[r].pc = pc
Set(r, pc, todo) ==
    req' = [req EXCEPT ![r].pc = pc, ![r].todo = todo, ![r].failed = FALSE]
Answer(r, a) == req' = [req EXCEPT ![r].pc = "done", ![r].answer = a]
StoresUnchanged == UNCHANGED <<vms, mounts, expose, publish>>

Receive(r) ==
    /\ At(r, "idle")
    /\ req' = [req EXCEPT ![r].pc = IF r \in Creates THEN "networks" ELSE "getVm",
                          ![r].standing = Existing]
    /\ StoresUnchanged

-----------------------------------------------------------------------------
(* buildVmPayload                                                          *)

AddNetworks(c) ==
    /\ At(c, "networks") /\ Set(c, "sources", Sources[c]) /\ StoresUnchanged

(* _addContainerVolumes, for all sources at once: VMAPI knows the          *)
(* filesystems of a container that is provisioned; of one that is not, no  *)
(* volume is found and none is missed.                                     *)
LookupSource(c, s) ==
    /\ At(c, "sources") /\ s \in req[c].todo
    /\ req' = [req EXCEPT ![c].todo = @ \ {s}, ![c].failed = @ \/ ~Exists(s)]
    /\ mounts' = [mounts EXCEPT ![c] =
                    IF vms[s] = "stopped" THEN @ \cup ({s} \cap Data) ELSE @]
    /\ UNCHANGED <<vms, expose, publish>>

LookupSourceFails(c, s) ==
    /\ At(c, "sources") /\ s \in req[c].todo
    /\ req' = [req EXCEPT ![c].todo = @ \ {s}, ![c].failed = TRUE]
    /\ StoresUnchanged

SourcesFound(c) ==
    /\ At(c, "sources") /\ req[c].todo = {}
    /\ IF req[c].failed THEN Answer(c, "error") ELSE Set(c, "package", {})
    /\ StoresUnchanged

(* The affinity hints, the labels, the package, the data of the image.     *)
SelectPackage(c) ==
    /\ At(c, "package") /\ Set(c, "listRules", {}) /\ StoresUnchanged

(* addExposeFirewallRules: every container of the account can reach every  *)
(* other; a rule that is found is not made again.                          *)
ListRules(c) ==
    /\ At(c, "listRules")
    /\ Set(c, "exposeRules", {p \in Protocols : expose[p] = 0})
    /\ StoresUnchanged

CreateExposeRule(c, p) ==
    /\ At(c, "exposeRules") /\ p \in req[c].todo
    /\ expose' = [expose EXCEPT ![p] = @ + 1]
    /\ req' = [req EXCEPT ![c].todo = @ \ {p}]
    /\ UNCHANGED <<vms, mounts, publish>>

CreatePublishRule(c, p) ==
    /\ At(c, "publishRules") /\ p \in req[c].todo
    /\ publish' = [publish EXCEPT ![c] = @ \cup {p}]
    /\ req' = [req EXCEPT ![c].todo = @ \ {p}]
    /\ UNCHANGED <<vms, mounts, expose>>

(* The other calls go on; the rules they make are not taken back.          *)
CreateRuleFails(c, p) ==
    /\ req[c].pc \in {"exposeRules", "publishRules"} /\ p \in req[c].todo
    /\ req' = [req EXCEPT ![c].todo = @ \ {p}, ![c].failed = TRUE]
    /\ StoresUnchanged

(* Mutant: the errors of the parallel calls are logged and forgotten. *)
RulesCreatedOrNot(c) ==
    /\ req[c].pc \in {"exposeRules", "publishRules"} /\ req[c].todo = {}
    /\ IF At(c, "exposeRules") THEN Set(c, "publishRules", Published[c])
       ELSE Set(c, "allow", {})
    /\ StoresUnchanged

RulesCreated(c) ==
    /\ req[c].pc \in {"exposeRules", "publishRules"} /\ req[c].todo = {}
    /\ IF req[c].failed THEN Answer(c, "error")
       ELSE IF At(c, "exposeRules") THEN Set(c, "publishRules", Published[c])
       ELSE Set(c, "allow", {})
    /\ StoresUnchanged

-----------------------------------------------------------------------------
(* The rest of createContainer                                             *)

CheckProvisionAllowed(c) ==
    /\ At(c, "allow") /\ Set(c, "links", {}) /\ StoresUnchanged

(* getAccountVms returns the error of VMAPI's list instead of passing it   *)
(* on, and nothing goes on from there.                                     *)
AccountVmsLost(c) ==
    /\ At(c, "allow") /\ Set(c, "lost", {}) /\ StoresUnchanged

AddLinks(c) ==
    /\ At(c, "links") /\ Set(c, "createVm", {}) /\ StoresUnchanged

CreateVm(c) ==
    /\ At(c, "createVm") /\ Set(c, "job", {})
    /\ vms' = [vms EXCEPT ![c] = "provisioning"]
    /\ UNCHANGED <<mounts, expose, publish>>

(* The call is synchronous: it is answered when the job is over.           *)
Provisioned(c) ==
    /\ At(c, "job") /\ Set(c, "saveLinks", {})
    /\ vms' = [vms EXCEPT ![c] = "stopped"]
    /\ UNCHANGED <<mounts, expose, publish>>

ProvisionFails(c) ==
    /\ At(c, "job") /\ Answer(c, "error")
    /\ vms' = [vms EXCEPT ![c] = "failed"]
    /\ UNCHANGED <<mounts, expose, publish>>

SaveLinks(c) ==
    /\ At(c, "saveLinks") /\ Set(c, "postProvision", {}) /\ StoresUnchanged

PostProvision(c) ==
    /\ At(c, "postProvision") /\ Answer(c, "ok") /\ StoresUnchanged

(* A lookup, a check or a call of VMAPI, IMGAPI or FWAPI that is refused   *)
(* and whose error is passed on; after the job the container stays         *)
(* although the answer is an error.                                        *)
CallFails(r) ==
    /\ req[r].pc \in {"networks", "package", "listRules", "allow", "links",
                      "createVm", "saveLinks", "postProvision", "getVm",
                      "listVms", "deleteVm"}
    /\ Answer(r, "error") /\ StoresUnchanged

-----------------------------------------------------------------------------
(* deleteContainer                                                         *)

(* getVm fetches the container, deleteContainer refuses one that is being  *)
(* provisioned.                                                            *)
GetVm(r) ==
    /\ At(r, "getVm")
    /\ IF vms[RemovalOf[r]] = "stopped" THEN Set(r, "listVms", {})
       ELSE Answer(r, "error")
    /\ StoresUnchanged

UsersAmong(c, S) == {u \in S : c \in mounts[u]}

(* Mutant: containers that are being provisioned are not listed. *)
ListVmsThatStand(r) ==
    LET users == UsersAmong(RemovalOf[r], {c \in Creates : vms[c] = "stopped"})
    IN  /\ At(r, "listVms")
        /\ IF users = {} THEN Set(r, "deleteVm", {}) ELSE Answer(r, "error")
        /\ StoresUnchanged

(* listDockerVms, all of them.                                             *)
ListVms(r) ==
    /\ At(r, "listVms")
    /\ req' = [req EXCEPT ![r].seen = Existing,
                 ![r].pc = IF UsersAmong(RemovalOf[r], Existing) = {}
                           THEN "deleteVm" ELSE "done",
                 ![r].answer = IF UsersAmong(RemovalOf[r], Existing) = {}
                               THEN @ ELSE "error"]
    /\ StoresUnchanged

DeleteVm(r) ==
    /\ At(r, "deleteVm") /\ vms[RemovalOf[r]] = "stopped"
    /\ vms' = [vms EXCEPT ![RemovalOf[r]] = "destroyed"]
    /\ Set(r, "deleteLinks", {})
    /\ UNCHANGED <<mounts, expose, publish>>

(* An error of deleteLinks is logged and not answered.                     *)
DeleteLinks(r) ==
    /\ At(r, "deleteLinks") /\ Answer(r, "ok") /\ StoresUnchanged

-----------------------------------------------------------------------------
CreateStep(c) ==
    \/ AddNetworks(c) \/ SourcesFound(c) \/ SelectPackage(c) \/ ListRules(c)
    \/ \E s \in Creates : LookupSource(c, s) \/ LookupSourceFails(c, s)
    \/ \E p \in Protocols : CreateExposeRule(c, p) \/ CreatePublishRule(c, p)
    \/ \E p \in Protocols : CreateRuleFails(c, p)
    \/ RulesCreated(c) \/ CheckProvisionAllowed(c) \/ AccountVmsLost(c)
    \/ AddLinks(c) \/ CreateVm(c) \/ Provisioned(c) \/ ProvisionFails(c)
    \/ SaveLinks(c) \/ PostProvision(c)

RemovalStep(r) == GetVm(r) \/ ListVms(r) \/ DeleteVm(r) \/ DeleteLinks(r)

Step(r) ==
    /\ Receive(r) \/ CallFails(r) \/ (r \in Creates /\ CreateStep(r))
         \/ (r \in Removals /\ RemovalStep(r))
    /\ UNCHANGED <<made, volumeVars>>

StepOfVolumes(r) == VolumeStep(r) /\ UNCHANGED <<made, provisionVars>>

Init == ProvisionInit /\ VolumesInit

Next == \/ \E r \in Requests \cap made : Step(r)
        \/ \E r \in VolumeRequests \cap made : StepOfVolumes(r)
        \/ \E v \in VolumeCreates :
              VolapiWorks(v) /\ UNCHANGED <<made, provisionVars>>

(* Every call is answered and every timer fires.                           *)
Fairness == /\ \A r \in Requests : WF_vars(r \in made /\ Step(r))
            /\ \A r \in VolumeRequests : WF_vars(r \in made /\ StepOfVolumes(r))

Spec == Init /\ [][Next]_vars /\ Fairness

-----------------------------------------------------------------------------
(* Where a container exists, its account has a rule for each protocol that *)
(* opens the traffic between its containers, and the rules of the ports it *)
(* publishes: when one of the parallel calls of addRulesToFWAPI fails, the *)
(* request ends before the VM, and no request takes back a rule that       *)
(* another one has found.                                                  *)
RulesBeforeContainer ==
    \A c \in Creates : vms[c] # "none" =>
        /\ \A p \in Protocols : expose[p] > 0
        /\ Published[c] \subseteq publish[c]

(* docker rm does not take a volume from under a container that stood when *)
(* the request came, at whatever point of its own provisioning that one    *)
(* was: only one made while the removal is on its way may be missed.       *)
StandingUsersKeepVolumes ==
    \A r \in Removals : req[r].answer = "ok" =>
        UsersAmong(RemovalOf[r], req[r].standing \cap Existing) = {}

(* Every request is answered, docker volume's after the last look that     *)
(* pollVolumeState makes even when VOLAPI never finishes; only a create    *)
(* whose list of VMs failed (AccountVmsLost) never is.                     *)
RequestsEnd ==
    <>(/\ \A r \in Requests \cap made :
             At(r, "done") \/ (r \in Creates /\ At(r, "lost"))
       /\ \A r \in VolumeRequests \cap made : VolumeAt(r, "done"))
=============================================================================
