--------------------------- MODULE ProvisionProofs ---------------------------
(***************************************************************************)
(* Proofs about Provision and the Volumes beside it, for any requests,     *)
(* containers, protocols and volumes.                                      *)
(***************************************************************************)
EXTENDS Provision, FiniteSetTheorems, TLAPS

(* Where a create has not yet called VMAPI, in the order of its steps.     *)
BeforeRules == {"idle", "networks", "sources", "package", "listRules"}
AfterRules == {"allow", "links", "createVm"}
BeforeVm == BeforeRules \cup {"exposeRules", "publishRules"} \cup AfterRules
RemovalPcs == {"idle", "getVm", "listVms", "deleteVm", "deleteLinks", "done"}

-----------------------------------------------------------------------------
(* The inductive invariant.                                                *)

(* Every variable but the counters of rules has its type.                  *)
Typed ==
    /\ made \in Scenarios
    /\ req \in [Requests -> RequestType]
    /\ vms \in [Creates -> VmStates]
    /\ mounts \in [Creates -> SUBSET Data]
    /\ expose \in [Protocols -> Nat]
    /\ publish \in [Creates -> SUBSET Protocols]

(* Creates and removals keep to their own steps, and a request has no      *)
(* answer before its end.                                                  *)
Paths ==
    /\ \A r \in Removals : req[r].pc \in RemovalPcs
    /\ \A c \in Creates :
         req[c].pc \notin {"getVm", "listVms", "deleteVm", "deleteLinks"}
    /\ \A r \in Requests : req[r].pc # "done" => req[r].answer = "none"

(* A create that may still make a rule to open all ports of p.             *)
MayExpose(c, p) ==
    req[c].pc \in BeforeRules \/ (At(c, "exposeRules") /\ p \in req[c].todo)
Exposers(p) == {c \in Creates : MayExpose(c, p)}

(* Each create makes one such rule at most.                                *)
RulesBounded ==
    \A p \in Protocols :
        expose[p] + Cardinality(Exposers(p)) <= Cardinality(Creates)

Exposed == \A p \in Protocols : expose[p] > 0
AllPublished(c) == Published[c] \subseteq publish[c]

(* What a create has of its rules when it comes to a step.                 *)
RulesSoFar(c) ==
    /\ At(c, "exposeRules") /\ ~req[c].failed =>
          \A p \in Protocols \ req[c].todo : expose[p] > 0
    /\ req[c].pc \in {"publishRules"} \cup AfterRules => Exposed
    /\ At(c, "publishRules") /\ ~req[c].failed =>
          Published[c] \ req[c].todo \subseteq publish[c]
    /\ req[c].pc \in AfterRules => AllPublished(c)

RulesOf(c) == RulesSoFar(c) /\ (vms[c] # "none" => Exposed /\ AllPublished(c))
RulesInv == \A c \in Creates : RulesOf(c)

(* The container of a create appears when it calls VMAPI, and once.        *)
VmsInv ==
    \A c \in Creates : /\ req[c].pc \in BeforeVm => vms[c] = "none"
                       /\ At(c, "job") => vms[c] = "provisioning"

(* What stood when a removal came cannot come back once it is gone, and    *)
(* what it mounts is settled.                                              *)
UsersOf(r) == UsersAmong(RemovalOf[r], req[r].standing \cap Existing)
UsersKnown(r) ==
    /\ \A c \in req[r].standing : vms[c] # "none"
    /\ req[r].pc \in {"deleteVm", "deleteLinks"} \/ req[r].answer = "ok"
          => UsersOf(r) = {}
UsersInv == \A r \in Removals : UsersKnown(r)

ProvisionInv == /\ Typed /\ Paths /\ RulesBounded
                /\ RulesInv /\ VmsInv /\ UsersInv

(* The same for the requests on volumes.                                   *)
VolumePaths ==
    \A r \in VolumeRequests :
        /\ vreq[r].pc # "done" => vreq[r].answer = "none"
        /\ r \in VolumeCreates => vreq[r].pc \notin {"find", "delete"}
        /\ r \in VolumeRemovals => vreq[r].pc \notin {"network", "create"}

VolumeOf(r) ==
    LET v == vreq[r].uuid
    IN  v \in VolumeCreates /\ NameOf[v] = NameOf[r]

VolumesInv ==
    /\ VolumesTypeOK /\ VolumePaths /\ VolumeAnswersTrue
    /\ \A r \in VolumeCreates :
         /\ vreq[r].pc \in {"idle", "network", "create"} => volumes[r] = "none"
         /\ vreq[r].pc = "poll" => vreq[r].uuid = r /\ volumes[r] # "none"
    /\ \A r \in VolumeRemovals :
         vreq[r].pc \in {"delete", "poll"} => VolumeOf(r)

-----------------------------------------------------------------------------
(* The requests on volumes.                                                *)

LEMMA VolumesStart == ASSUME VolumesInit PROVE VolumesInv
  BY VolumesAssumption DEF VolumesInit, VolumesInv, VolumesTypeOK, VolumeStates,
     VolumeRequests, VolumeRequestType, VolumePaths, VolumeAnswersTrue

(* A step of one request: the others' closures stay.                       *)
LEMMA VolumeStepKeeps ==
    ASSUME VolumesInv, NEW r \in VolumeRequests, VolumeStep(r)
    PROVE  VolumesInv'
<1> USE VolumesAssumption DEF VolumesInv, VolumesTypeOK, VolumePaths,
        VolumeAnswersTrue, VolumeStates, VolumeRequestType, VolumeRequests,
        VolumeAt, VolumeGoto, VolumeAnswer, VolumeOf
<1>1. CASE ReceiveVolume(r)
  BY <1>1 DEF ReceiveVolume
<1>2. CASE SetupNetwork(r)
  BY <1>2 DEF SetupNetwork
<1>3. CASE DoCreateVolume(r)
  BY <1>3 DEF DoCreateVolume
<1>4. CASE FindVolumeByName(r)
  <2>1. CASE VolumeAnswer(r, "error") /\ UNCHANGED volumes
    BY <1>4, <2>1 DEF FindVolumeByName
  <2>2. ASSUME NEW v \in VolumeCreates, NameOf[v] = NameOf[r],
               vreq' = [vreq EXCEPT ![r].pc = "delete", ![r].uuid = v],
               UNCHANGED volumes
        PROVE  VolumesInv'
    BY <1>4, <2>2 DEF FindVolumeByName
  <2> QED BY <1>4, <2>1, <2>2 DEF FindVolumeByName, ReadyOfName
<1>5. CASE DoDeleteVolume(r)
  BY <1>5 DEF DoDeleteVolume
<1>6. CASE VolumeCallFails(r)
  BY <1>6 DEF VolumeCallFails
<1>7. CASE Poll(r)
  BY <1>7 DEF Poll, PollAgain, Awaited
<1>8. CASE PollFails(r)
  BY <1>8 DEF PollFails, PollAgain
<1> QED BY <1>1, <1>2, <1>3, <1>4, <1>5, <1>6, <1>7, <1>8 DEF VolumeStep

LEMMA VolapiKeeps ==
    ASSUME VolumesInv, NEW v \in VolumeCreates, VolapiWorks(v)
    PROVE  VolumesInv'
  BY VolumesAssumption DEF VolapiWorks, VolumesInv, VolumesTypeOK, VolumePaths,
     VolumeAnswersTrue, VolumeStates, VolumeRequestType, VolumeRequests, VolumeOf
-----------------------------------------------------------------------------
(* The requests on containers.  Every step of a request changes its own    *)
(* closure and no other.                                                   *)

LEMMA ProvisionStart == ASSUME ProvisionInit PROVE ProvisionInv
<1> USE ProvisionAssumption DEF ProvisionInit
<1>1. Typed /\ Paths
  BY DEF Typed, Paths, Requests, RequestType, VmStates, RemovalPcs
<1>2. RulesBounded
  <2> SUFFICES ASSUME NEW p \in Protocols
               PROVE  expose[p] + Cardinality(Exposers(p)) <= Cardinality(Creates)
    BY DEF RulesBounded
  <2>1. Exposers(p) = Creates /\ Cardinality(Creates) \in Nat
    BY FS_CardinalityType DEF Exposers, MayExpose, BeforeRules, Requests
  <2> QED BY <2>1
<1>3. RulesInv /\ VmsInv /\ UsersInv
  BY DEF RulesInv, RulesOf, RulesSoFar, VmsInv, UsersInv, UsersKnown, Requests, At, AfterRules
<1> QED BY <1>1, <1>2, <1>3 DEF ProvisionInv

(* What the actions write, as the one record they replace.                *)
LEMMA SetMoves ==
    ASSUME Typed, NEW r \in Requests, NEW pc, NEW todo, Set(r, pc, todo)
    PROVE  req' = [req EXCEPT ![r] = [req[r] EXCEPT !.pc = pc, !.todo = todo,
                                                    !.failed = FALSE]]
  BY DEF Typed, Set

LEMMA AnswerMoves ==
    ASSUME Typed, NEW r \in Requests, NEW a, Answer(r, a)
    PROVE  req' = [req EXCEPT ![r] = [req[r] EXCEPT !.pc = "done", !.answer = a]]
  BY DEF Typed, Answer

LEMMA TodoMoves ==
    ASSUME Typed, NEW r \in Requests, NEW x, NEW f,
           req' = [req EXCEPT ![r].todo = @ \ {x}, ![r].failed = f]
    PROVE  req' = [req EXCEPT ![r] = [req[r] EXCEPT !.todo = @ \ {x}, !.failed = f]]
  BY DEF Typed

LEMMA ReceiveMoves ==
    ASSUME Typed, NEW r \in Requests, NEW pc, NEW S,
           req' = [req EXCEPT ![r].pc = pc, ![r].standing = S]
    PROVE  req' = [req EXCEPT ![r] = [req[r] EXCEPT !.pc = pc, !.standing = S]]
  BY DEF Typed

LEMMA ListVmsMoves ==
    ASSUME Typed, NEW r \in Requests, NEW pc, NEW S, NEW a,
           req' = [req EXCEPT ![r].seen = S, ![r].pc = pc, ![r].answer = a]
    PROVE  req' = [req EXCEPT ![r] = [req[r] EXCEPT !.seen = S, !.pc = pc,
                                                    !.answer = a]]
  BY DEF Typed

LEMMA MoveTyped ==
    ASSUME Typed, NEW r \in Requests, NEW s \in RequestType,
           req' = [req EXCEPT ![r] = s]
    PROVE  req' \in [Requests -> RequestType]
  BY DEF Typed

LEMMA SetTyped ==
    ASSUME Typed, NEW r \in Requests, NEW pc, NEW todo \in SUBSET (Creates \cup Protocols),
           pc \in {"sources", "package", "listRules", "exposeRules",
                   "publishRules", "allow", "links", "createVm", "job",
                   "saveLinks", "postProvision", "listVms", "deleteVm",
                   "deleteLinks", "lost"},
           Set(r, pc, todo)
    PROVE  req' \in [Requests -> RequestType]
<1> DEFINE s == [req[r] EXCEPT !.pc = pc, !.todo = todo, !.failed = FALSE]
<1>0. req[r] \in RequestType
  BY DEF Typed
<1>1. s \in RequestType
  BY <1>0 DEF RequestType
<1>2. req' = [req EXCEPT ![r] = s]
  BY SetMoves
<1> QED BY <1>1, <1>2, MoveTyped

LEMMA AnswerTyped ==
    ASSUME Typed, NEW r \in Requests, NEW a \in {"ok", "error"}, Answer(r, a)
    PROVE  req' \in [Requests -> RequestType]
<1> DEFINE s == [req[r] EXCEPT !.pc = "done", !.answer = a]
<1>0. req[r] \in RequestType
  BY DEF Typed
<1>1. s \in RequestType
  BY <1>0 DEF RequestType
<1>2. req' = [req EXCEPT ![r] = s]
  BY AnswerMoves
<1> QED BY <1>1, <1>2, MoveTyped

(* A parallel call is over, with or without an error.                      *)
LEMMA TodoTyped ==
    ASSUME Typed, NEW r \in Requests, NEW x, NEW f \in BOOLEAN,
           \/ req' = [req EXCEPT ![r].todo = @ \ {x}]
           \/ req' = [req EXCEPT ![r].todo = @ \ {x}, ![r].failed = f]
    PROVE  req' \in [Requests -> RequestType]
<1> DEFINE s == [req[r] EXCEPT !.todo = @ \ {x}]
           t == [req[r] EXCEPT !.todo = @ \ {x}, !.failed = f]
<1>0. req[r] \in RequestType
  BY DEF Typed
<1>1. s \in RequestType /\ t \in RequestType
  BY <1>0 DEF RequestType
<1>2. CASE req' = [req EXCEPT ![r].todo = @ \ {x}]
  <2>1. req' = [req EXCEPT ![r] = s]
    BY <1>2 DEF Typed
  <2> QED BY <1>1, <2>1, MoveTyped
<1>3. CASE req' = [req EXCEPT ![r].todo = @ \ {x}, ![r].failed = f]
  <2>1. req' = [req EXCEPT ![r] = t]
    BY <1>3, TodoMoves
  <2> QED BY <1>1, <2>1, MoveTyped
<1> QED BY <1>2, <1>3

LEMMA CreateTyped ==
    ASSUME Typed, NEW c \in Creates, CreateStep(c)
    PROVE  req' \in [Requests -> RequestType]
<1>0. c \in Requests /\ req[c].failed \in BOOLEAN
  BY DEF Requests, Typed, RequestType
<1>1. CASE AddNetworks(c) \/ SourcesFound(c) \/ SelectPackage(c)
  <2>1. Sources[c] \in SUBSET (Creates \cup Protocols)
    BY ProvisionAssumption
  <2> QED BY <1>0, <1>1, <2>1, SetTyped, AnswerTyped
          DEF AddNetworks, SourcesFound, SelectPackage
<1>2. CASE ListRules(c) \/ RulesCreated(c)
  <2>1. Published[c] \in SUBSET (Creates \cup Protocols)
    BY ProvisionAssumption
  <2> QED BY <1>0, <1>2, <2>1, SetTyped, AnswerTyped DEF ListRules, RulesCreated
<1>3. ASSUME NEW s \in Creates, LookupSource(c, s) \/ LookupSourceFails(c, s)
      PROVE  req' \in [Requests -> RequestType]
  <2> DEFINE f == req[c].failed \/ ~Exists(s)
  <2>1. f \in BOOLEAN
    BY DEF Exists
  <2>2. \/ req' = [req EXCEPT ![c].todo = @ \ {s}, ![c].failed = f]
        \/ req' = [req EXCEPT ![c].todo = @ \ {s}, ![c].failed = TRUE]
    BY <1>0, <1>3 DEF LookupSource, LookupSourceFails, Typed
  <2> HIDE DEF f
  <2> QED BY <1>0, <2>1, <2>2, TodoTyped
<1>4. ASSUME NEW p \in Protocols,
             CreateExposeRule(c, p) \/ CreatePublishRule(c, p) \/ CreateRuleFails(c, p)
      PROVE  req' \in [Requests -> RequestType]
  BY <1>0, <1>4, TodoTyped DEF CreateExposeRule, CreatePublishRule, CreateRuleFails
<1>5. CASE \/ CheckProvisionAllowed(c) \/ AccountVmsLost(c) \/ AddLinks(c) \/ CreateVm(c)
           \/ Provisioned(c) \/ ProvisionFails(c) \/ SaveLinks(c) \/ PostProvision(c)
  BY <1>0, <1>5, SetTyped, AnswerTyped
     DEF CheckProvisionAllowed, AccountVmsLost, AddLinks, CreateVm,
     Provisioned, ProvisionFails, SaveLinks, PostProvision
<1> QED BY <1>1, <1>2, <1>3, <1>4, <1>5 DEF CreateStep

LEMMA RequestTyped ==
    ASSUME Typed, NEW r \in Requests, Step(r)
    PROVE  req' \in [Requests -> RequestType]
<1>0. req[r] \in RequestType /\ Existing \in SUBSET Creates
  BY DEF Typed, Existing
<1>1. CASE Receive(r)
  <2> DEFINE s == [req[r] EXCEPT !.pc = IF r \in Creates THEN "networks" ELSE "getVm",
                                 !.standing = Existing]
  <2>1. s \in RequestType
    BY <1>0 DEF RequestType
  <2>2. req' = [req EXCEPT ![r] = s]
    BY <1>1, ReceiveMoves DEF Receive
  <2> QED BY <2>1, <2>2, MoveTyped
<1>2. CASE CallFails(r)
  BY <1>2, AnswerTyped DEF CallFails
<1>3. CASE ListVms(r)
  <2> DEFINE none == UsersAmong(RemovalOf[r], Existing) = {}
             s == [req[r] EXCEPT !.seen = Existing,
                                 !.pc = IF none THEN "deleteVm" ELSE "done",
                                 !.answer = IF none THEN @ ELSE "error"]
  <2>1. s \in RequestType
    BY <1>0 DEF RequestType
  <2> DEFINE pc == IF none THEN "deleteVm" ELSE "done"
             a == IF none THEN req[r].answer ELSE "error"
  <2>2. req' = [req EXCEPT ![r].seen = Existing, ![r].pc = pc, ![r].answer = a]
    BY <1>3 DEF ListVms, Typed
  <2>3. req' = [req EXCEPT ![r] = s]
    BY <2>2, ListVmsMoves
  <2> QED BY <2>1, <2>3, MoveTyped
<1>4. CASE GetVm(r) \/ DeleteVm(r) \/ DeleteLinks(r)
  BY <1>4, SetTyped, AnswerTyped DEF GetVm, DeleteVm, DeleteLinks
<1> QED BY <1>1, <1>2, <1>3, <1>4, CreateTyped DEF Step, RemovalStep
LEMMA StoresTyped ==
    ASSUME Typed, NEW r \in Requests, Step(r)
    PROVE  Typed'
<1>1. CASE ~ (r \in Creates /\ CreateStep(r))
  BY <1>1, RequestTyped DEF Typed, Step, Receive, CallFails, RemovalStep, GetVm,
     ListVms, DeleteVm, DeleteLinks, StoresUnchanged, VmStates
<1>2. CASE r \in Creates /\ CreateStep(r)
  <2> USE RequestTyped DEF Typed, Step, StoresUnchanged, VmStates
  <2>1. ASSUME NEW s \in Creates, LookupSource(r, s) \/ LookupSourceFails(r, s)
        PROVE  Typed'
    BY <1>2, <2>1 DEF LookupSource, LookupSourceFails
  <2>2. ASSUME NEW p \in Protocols, CreateExposeRule(r, p) \/ CreatePublishRule(r, p)
                                      \/ CreateRuleFails(r, p)
        PROVE  Typed'
    BY <1>2, <2>2 DEF CreateExposeRule, CreatePublishRule, CreateRuleFails
  <2>3. CASE CreateVm(r) \/ Provisioned(r) \/ ProvisionFails(r)
    BY <1>2, <2>3 DEF CreateVm, Provisioned, ProvisionFails
  <2> QED BY <1>2, <2>1, <2>2, <2>3 DEF CreateStep, AddNetworks, SourcesFound,
          SelectPackage, ListRules, RulesCreated, CheckProvisionAllowed, AccountVmsLost, AddLinks,
          SaveLinks, PostProvision
<1> QED BY <1>1, <1>2

-----------------------------------------------------------------------------
(* What each action does to the fields of its request, and to no other     *)
(* request.                                                                *)
Kept(r) == \A q \in Requests : q # r => req'[q] = req[q]

(* pc, todo and failed of a request, and what stays of the rest.           *)
NowAt(r, pc) == req'[r].pc = pc
NowTodo(r, todo, failed) == req'[r].todo = todo /\ req'[r].failed = failed
SameRest(r) ==
    req'[r].standing = req[r].standing /\ req'[r].answer = req[r].answer

LEMMA SetFields ==
    ASSUME Typed, NEW r \in Requests, NEW pc, NEW todo, Set(r, pc, todo)
    PROVE  Kept(r) /\ NowAt(r, pc) /\ NowTodo(r, todo, FALSE) /\ SameRest(r)
<1>0. req[r] \in RequestType /\ req \in [Requests -> RequestType]
  BY DEF Typed
<1>1. req' = [req EXCEPT ![r] = [req[r] EXCEPT !.pc = pc, !.todo = todo,
                                               !.failed = FALSE]]
  BY SetMoves
<1> QED BY <1>0, <1>1 DEF Kept, NowAt, NowTodo, SameRest, RequestType

LEMMA AnswerFields ==
    ASSUME Typed, NEW r \in Requests, NEW a, Answer(r, a)
    PROVE  /\ Kept(r) /\ NowAt(r, "done") /\ NowTodo(r, req[r].todo, req[r].failed)
           /\ req'[r].standing = req[r].standing /\ req'[r].answer = a
<1>0. req[r] \in RequestType /\ req \in [Requests -> RequestType]
  BY DEF Typed
<1>1. req' = [req EXCEPT ![r] = [req[r] EXCEPT !.pc = "done", !.answer = a]]
  BY AnswerMoves
<1> QED BY <1>0, <1>1 DEF Kept, NowAt, NowTodo, RequestType

LEMMA TodoFields ==
    ASSUME Typed, NEW r \in Requests, NEW x, NEW f,
           req' = [req EXCEPT ![r].todo = @ \ {x}, ![r].failed = f]
    PROVE  /\ Kept(r) /\ NowAt(r, req[r].pc) /\ NowTodo(r, req[r].todo \ {x}, f)
           /\ SameRest(r)
<1>0. req[r] \in RequestType /\ req \in [Requests -> RequestType]
  BY DEF Typed
<1>1. req' = [req EXCEPT ![r] = [req[r] EXCEPT !.todo = @ \ {x}, !.failed = f]]
  BY TodoMoves
<1> QED BY <1>0, <1>1 DEF Kept, NowAt, NowTodo, SameRest, RequestType

LEMMA LookupFields ==
    ASSUME Typed, NEW r \in Requests, NEW s, LookupSource(r, s) \/ LookupSourceFails(r, s)
    PROVE  Kept(r) /\ NowAt(r, "sources") /\ SameRest(r)
<1>1. NowAt(r, req[r].pc) => NowAt(r, "sources")
  BY DEF NowAt, At, LookupSource, LookupSourceFails
<1>2. CASE LookupSource(r, s)
  <2> DEFINE f == req[r].failed \/ ~Exists(s)
  <2>1. req' = [req EXCEPT ![r].todo = @ \ {s}, ![r].failed = f]
    BY <1>2 DEF LookupSource, Typed
  <2> HIDE DEF f
  <2> QED BY <1>1, <2>1, TodoFields
<1>3. CASE LookupSourceFails(r, s)
  BY <1>1, <1>3, TodoFields DEF LookupSourceFails
<1> QED BY <1>2, <1>3

LEMMA RuleFields ==
    ASSUME Typed, NEW r \in Requests, NEW p,
           \/ CreateExposeRule(r, p) \/ CreatePublishRule(r, p)
           \/ CreateRuleFails(r, p)
    PROVE  /\ Kept(r) /\ NowAt(r, req[r].pc) /\ SameRest(r)
           /\ req'[r].todo = req[r].todo \ {p}
           /\ req'[r].failed = (req[r].failed \/ CreateRuleFails(r, p))
<1>0. req[r] \in RequestType /\ req \in [Requests -> RequestType]
  BY DEF Typed
<1>1. CASE CreateRuleFails(r, p)
  BY <1>0, <1>1, TodoFields DEF CreateRuleFails, NowTodo
<1>2. CASE /\ CreateExposeRule(r, p) \/ CreatePublishRule(r, p)
           /\ ~CreateRuleFails(r, p)
  <2>1. req' = [req EXCEPT ![r].todo = @ \ {p}]
    BY <1>2 DEF CreateExposeRule, CreatePublishRule
  <2>2. req' = [req EXCEPT ![r] = [req[r] EXCEPT !.todo = @ \ {p}]]
    BY <1>0, <2>1
  <2>3. Kept(r) /\ NowAt(r, req[r].pc) /\ SameRest(r)
          /\ NowTodo(r, req[r].todo \ {p}, req[r].failed)
    BY <1>0, <2>2 DEF Kept, NowAt, NowTodo, SameRest, RequestType
  <2> QED BY <1>0, <1>2, <2>3 DEF NowTodo, RequestType
<1> QED BY <1>1, <1>2

LEMMA ReceiveFields ==
    ASSUME Typed, NEW r \in Requests, Receive(r)
    PROVE  /\ Kept(r) /\ NowAt(r, IF r \in Creates THEN "networks" ELSE "getVm")
           /\ NowTodo(r, req[r].todo, req[r].failed)
           /\ req'[r].standing = Existing /\ req'[r].answer = req[r].answer
<1> DEFINE pc == IF r \in Creates THEN "networks" ELSE "getVm"
<1>0. req[r] \in RequestType /\ req \in [Requests -> RequestType]
  BY DEF Typed
<1>1. req' = [req EXCEPT ![r].pc = pc, ![r].standing = Existing]
  BY DEF Receive
<1> HIDE DEF pc
<1>2. req' = [req EXCEPT ![r] = [req[r] EXCEPT !.pc = pc, !.standing = Existing]]
  BY <1>1, ReceiveMoves
<1>3. Kept(r) /\ NowAt(r, pc) /\ NowTodo(r, req[r].todo, req[r].failed)
         /\ req'[r].standing = Existing /\ req'[r].answer = req[r].answer
  BY <1>0, <1>2 DEF Kept, NowAt, NowTodo, RequestType
<1> QED BY <1>3 DEF pc

LEMMA ListVmsFields ==
    ASSUME Typed, NEW r \in Requests, ListVms(r)
    PROVE  /\ Kept(r) /\ req'[r].standing = req[r].standing
           /\ \/ /\ UsersAmong(RemovalOf[r], Existing) = {}
                 /\ NowAt(r, "deleteVm") /\ req'[r].answer = req[r].answer
              \/ NowAt(r, "done") /\ req'[r].answer = "error"
<1> DEFINE none == UsersAmong(RemovalOf[r], Existing) = {}
           pc == IF none THEN "deleteVm" ELSE "done"
           a == IF none THEN req[r].answer ELSE "error"
<1>0. req[r] \in RequestType /\ req \in [Requests -> RequestType]
  BY DEF Typed
<1>1. req' = [req EXCEPT ![r].seen = Existing, ![r].pc = pc, ![r].answer = a]
  BY DEF ListVms, Typed
<1>2. \/ pc = "deleteVm" /\ none /\ a = req[r].answer
      \/ pc = "done" /\ a = "error"
  OBVIOUS
<1> HIDE DEF none, pc, a
<1>3. req' = [req EXCEPT ![r] = [req[r] EXCEPT !.seen = Existing, !.pc = pc,
                                               !.answer = a]]
  BY <1>1, ListVmsMoves
<1>4. Kept(r) /\ req'[r].pc = pc /\ req'[r].standing = req[r].standing
        /\ req'[r].answer = a
  BY <1>0, <1>3 DEF Kept, RequestType
<1>5. CASE pc = "deleteVm" /\ none /\ a = req[r].answer
  BY <1>4, <1>5 DEF none, NowAt
<1>6. CASE pc = "done" /\ a = "error"
  BY <1>4, <1>6 DEF NowAt
<1> QED BY <1>2, <1>5, <1>6
-----------------------------------------------------------------------------
(* The parts of the invariant, one action at a time.                       *)

(* A request that is somewhere on its path, or at its end.                 *)
OnPath(r) ==
    /\ r \in Removals => req[r].pc \in RemovalPcs
    /\ r \in Creates =>
         req[r].pc \notin {"getVm", "listVms", "deleteVm", "deleteLinks"}
    /\ req[r].pc # "done" => req[r].answer = "none"

LEMMA PathsByRequest == Paths <=> \A r \in Requests : OnPath(r)
  BY DEF Paths, OnPath, Requests

LEMMA PathsKept ==
    ASSUME Typed, Paths, NEW r \in Requests, Step(r)
    PROVE  Paths'
<1>1. Creates \cap Removals = {}
  BY ProvisionAssumption
<1>2. OnPath(r)
  BY PathsByRequest
<1> USE DEF OnPath, RemovalPcs, At, NowAt, SameRest
<1>3. Kept(r) /\ OnPath(r)'
  <2>1. CASE Receive(r)
    <3>1. Kept(r) /\ req'[r].answer = "none"
      BY <1>2, <2>1, ReceiveFields DEF Receive
    <3>2. req'[r].pc = IF r \in Creates THEN "networks" ELSE "getVm"
      BY <2>1, ReceiveFields
    <3>3. r \in Creates \/ r \in Removals
      BY DEF Requests
    <3>4. CASE r \in Creates
      BY <1>1, <3>1, <3>2, <3>4
    <3>5. CASE r \in Removals
      BY <1>1, <3>1, <3>2, <3>5
    <3> QED BY <3>3, <3>4, <3>5
  <2>2. CASE CallFails(r)
    BY <1>2, <2>2, AnswerFields DEF CallFails
  <2>3. CASE r \in Removals /\ RemovalStep(r)
    BY <1>1, <1>2, <2>3, SetFields, AnswerFields, ListVmsFields
       DEF RemovalStep, GetVm, ListVms, DeleteVm, DeleteLinks
  <2>4. CASE r \in Creates /\ CreateStep(r)
    <3>1. CASE \E s \in Creates : LookupSource(r, s) \/ LookupSourceFails(r, s)
      BY <1>1, <1>2, <2>4, <3>1, LookupFields DEF LookupSource, LookupSourceFails
    <3>2. CASE \E p \in Protocols : \/ CreateExposeRule(r, p) \/ CreatePublishRule(r, p)
                                    \/ CreateRuleFails(r, p)
      BY <1>1, <1>2, <2>4, <3>2, RuleFields
    <3>3. \/ \E todo, pc : Set(r, pc, todo) /\ pc \in {"sources", "package",
               "listRules", "exposeRules", "publishRules", "allow", "links",
               "createVm", "job", "saveLinks", "postProvision", "lost"}
             /\ req[r].pc # "done"
          \/ \E a : Answer(r, a)
          \/ \E s \in Creates : LookupSource(r, s) \/ LookupSourceFails(r, s)
          \/ \E p \in Protocols : \/ CreateExposeRule(r, p) \/ CreatePublishRule(r, p)
                                 \/ CreateRuleFails(r, p)
      BY <2>4 DEF CreateStep, AddNetworks, SourcesFound, SelectPackage, ListRules,
             RulesCreated, CheckProvisionAllowed, AccountVmsLost, AddLinks, CreateVm, Provisioned,
             ProvisionFails, SaveLinks, PostProvision
    <3>4. CASE \E a : Answer(r, a)
      BY <1>1, <1>2, <2>4, <3>4, AnswerFields
    <3>5. ASSUME NEW todo, NEW pc, Set(r, pc, todo), req[r].pc # "done",
                 pc \in {"sources", "package", "listRules", "exposeRules",
                        "publishRules", "allow", "links", "createVm", "job",
                        "saveLinks", "postProvision", "lost"}
          PROVE  Kept(r) /\ OnPath(r)'
      BY <1>1, <1>2, <2>4, <3>5, SetFields
    <3> QED BY <3>1, <3>2, <3>3, <3>4, <3>5
  <2> QED BY <2>1, <2>2, <2>3, <2>4 DEF Step
<1>4. \A q \in Requests : OnPath(q)'
  <2> SUFFICES ASSUME NEW q \in Requests PROVE OnPath(q)'
    OBVIOUS
  <2>1. q # r => req'[q] = req[q]
    BY <1>3 DEF Kept
  <2> QED BY <1>3, <2>1, PathsByRequest
<1> QED BY <1>4 DEF Paths, Requests
(* Rules are never taken back, and no request but a create that calls     *)
(* VMAPI makes a container.                                                *)
LEMMA StoresGrow ==
    ASSUME Typed, VmsInv, NEW r \in Requests, Step(r)
    PROVE  /\ \A p \in Protocols : expose[p] > 0 => expose'[p] > 0
           /\ \A c \in Creates : publish[c] \subseteq publish'[c]
           /\ \A c \in Creates : vms[c] = "none" /\ vms'[c] # "none" =>
                                    c = r /\ CreateVm(r)
           /\ \A c \in Creates : vms[c] # "none" => vms'[c] # "none"
<1> USE DEF Typed
<1>1. CASE \E p \in Protocols : CreateExposeRule(r, p) \/ CreatePublishRule(r, p)
  BY <1>1 DEF CreateExposeRule, CreatePublishRule
<1>2. CASE r \in Creates /\ (CreateVm(r) \/ Provisioned(r) \/ ProvisionFails(r))
  BY <1>2 DEF CreateVm, Provisioned, ProvisionFails, VmsInv
<1>3. CASE DeleteVm(r)
  BY <1>3 DEF DeleteVm
<1>4. CASE UNCHANGED <<vms, expose, publish>>
  BY <1>4
<1>5. \/ UNCHANGED <<vms, expose, publish>>
      \/ \E p \in Protocols : CreateExposeRule(r, p) \/ CreatePublishRule(r, p)
      \/ r \in Creates /\ (CreateVm(r) \/ Provisioned(r) \/ ProvisionFails(r))
      \/ DeleteVm(r)
  <2>1. CASE ~ (r \in Creates /\ CreateStep(r))
    BY <2>1 DEF Step, Receive, CallFails, RemovalStep, GetVm, ListVms,
                DeleteLinks, StoresUnchanged
  <2>2. CASE r \in Creates /\ CreateStep(r)
    BY <2>2 DEF CreateStep, AddNetworks, SourcesFound, SelectPackage, ListRules,
       LookupSource, LookupSourceFails, CreateRuleFails, RulesCreated,
       CheckProvisionAllowed, AccountVmsLost, AddLinks, SaveLinks, PostProvision, StoresUnchanged
  <2> QED BY <2>1, <2>2
<1> QED BY <1>1, <1>2, <1>3, <1>4, <1>5

LEMMA RulesOfOthers ==
    ASSUME Typed, RulesInv, VmsInv, NEW r \in Requests, Step(r), Kept(r),
           NEW c \in Creates, c # r
    PROVE  RulesOf(c)'
<1>1. c \in Requests /\ req'[c] = req[c]
  BY DEF Kept, Requests
<1>2. Exposed => Exposed'
  BY StoresGrow DEF Exposed
<1>3. \A p \in Protocols : expose[p] > 0 => expose'[p] > 0
  BY StoresGrow
<1>4. publish[c] \subseteq publish'[c] /\ (vms'[c] # "none" => vms[c] # "none")
  BY StoresGrow
<1>5. RulesOf(c)
  BY DEF RulesInv, RulesOf
<1> QED BY <1>1, <1>2, <1>3, <1>4, <1>5
        DEF RulesOf, RulesSoFar, AllPublished, At, AfterRules

LEMMA RulesOfMover ==
    ASSUME Typed, Paths, RulesInv, VmsInv, NEW r \in Creates, Step(r)
    PROVE  Kept(r) /\ RulesOf(r)'
<1>0. /\ r \in Requests /\ RulesOf(r) /\ (Exposed => Exposed')
      /\ \A p \in Protocols : expose[p] > 0 => expose'[p] > 0
      /\ publish[r] \subseteq publish'[r]
      /\ vms'[r] # "none" => vms[r] # "none" \/ CreateVm(r)
  BY StoresGrow DEF Requests, RulesInv, RulesOf, Exposed
<1> USE DEF At, NowAt, NowTodo
<1> DEFINE Past == vms'[r] # "none" => Exposed' /\ AllPublished(r)'
<1>1. Past
  <2>1. CASE vms[r] # "none"
    BY <1>0, <2>1 DEF RulesOf, AllPublished
  <2>2. CASE CreateVm(r)
    BY <1>0, <2>2 DEF RulesOf, RulesSoFar, CreateVm, AllPublished, AfterRules
  <2> QED BY <1>0, <2>1, <2>2
<1>2. ASSUME Kept(r), req'[r].pc \notin {"exposeRules", "publishRules"} \cup AfterRules
      PROVE  Kept(r) /\ RulesOf(r)'
  BY <1>1, <1>2 DEF RulesOf, RulesSoFar, AfterRules
<1>3. CASE Receive(r) \/ CallFails(r)
  <2>1. Kept(r) /\ req'[r].pc \in {"networks", "done"}
    BY <1>0, <1>3, ReceiveFields, AnswerFields DEF CallFails
  <2> QED BY <1>2, <2>1 DEF AfterRules
<1>4. ASSUME NEW a, Answer(r, a) PROVE Kept(r) /\ RulesOf(r)'
  BY <1>0, <1>2, <1>4, AnswerFields DEF AfterRules
<1>5. CASE \E s \in Creates : LookupSource(r, s) \/ LookupSourceFails(r, s)
  BY <1>0, <1>2, <1>5, LookupFields DEF AfterRules
<1>6. CASE AddNetworks(r) \/ SourcesFound(r) \/ SelectPackage(r)
  <2>1. ASSUME NEW todo, NEW pc \in {"sources", "package", "listRules"},
               Set(r, pc, todo)
        PROVE  Kept(r) /\ RulesOf(r)'
    BY <1>0, <1>2, <2>1, SetFields DEF AfterRules
  <2> QED BY <1>4, <1>6, <2>1 DEF AddNetworks, SourcesFound, SelectPackage
<1>7. CASE ListRules(r)
  <2>1. Kept(r) /\ req'[r].pc = "exposeRules" /\ UNCHANGED expose
          /\ req'[r].todo = {p \in Protocols : expose[p] = 0}
    BY <1>0, <1>7, SetFields DEF ListRules, StoresUnchanged
  <2>2. \A p \in Protocols \ req'[r].todo : expose'[p] > 0
    BY <2>1 DEF Typed
  <2> QED BY <1>1, <2>1, <2>2 DEF RulesOf, RulesSoFar, AfterRules
<1>8. ASSUME NEW p \in Protocols,
             CreateExposeRule(r, p) \/ CreatePublishRule(r, p) \/ CreateRuleFails(r, p)
      PROVE  Kept(r) /\ RulesOf(r)'
  <2>1. /\ Kept(r) /\ req'[r].pc = req[r].pc /\ req'[r].todo = req[r].todo \ {p}
        /\ req[r].pc \in {"exposeRules", "publishRules"}
        /\ req'[r].failed = (req[r].failed \/ CreateRuleFails(r, p))
        /\ At(r, "exposeRules") /\ ~CreateRuleFails(r, p) => expose'[p] > 0
        /\ At(r, "publishRules") /\ ~CreateRuleFails(r, p) => p \in publish'[r]
    <3>1. /\ Kept(r) /\ req'[r].pc = req[r].pc /\ req'[r].todo = req[r].todo \ {p}
          /\ req'[r].failed = (req[r].failed \/ CreateRuleFails(r, p))
      BY <1>0, <1>8, RuleFields
    <3>2. CASE CreateExposeRule(r, p)
      BY <3>1, <3>2 DEF CreateExposeRule, Typed
    <3>3. CASE CreatePublishRule(r, p)
      BY <3>1, <3>3 DEF CreatePublishRule, Typed
    <3>4. CASE CreateRuleFails(r, p)
      BY <3>1, <3>4 DEF CreateRuleFails
    <3> QED BY <1>8, <3>2, <3>3, <3>4
  <2>2. CASE req'[r].failed
    <3>1. At(r, "publishRules") => Exposed'
      BY <1>0 DEF RulesOf, RulesSoFar
    <3> QED BY <1>1, <2>1, <2>2, <3>1 DEF RulesOf, RulesSoFar, AfterRules
  <2>3. CASE At(r, "exposeRules") /\ ~req'[r].failed
    <3>1. \A q \in Protocols \ req'[r].todo : expose'[q] > 0
      BY <1>0, <2>1, <2>3 DEF RulesOf, RulesSoFar
    <3> QED BY <1>1, <2>1, <2>3, <3>1 DEF RulesOf, RulesSoFar, AfterRules
  <2>4. CASE At(r, "publishRules") /\ ~req'[r].failed
    <3>1. Published[r] \ req'[r].todo \subseteq publish'[r]
      BY <1>0, <2>1, <2>4 DEF RulesOf, RulesSoFar
    <3>2. Exposed'
      BY <1>0, <2>4 DEF RulesOf, RulesSoFar
    <3> QED BY <1>1, <2>1, <2>4, <3>1, <3>2 DEF RulesOf, RulesSoFar, AfterRules
  <2> QED BY <2>1, <2>2, <2>3, <2>4
<1>9. CASE RulesCreated(r)
  <2>1. CASE At(r, "exposeRules") /\ Set(r, "publishRules", Published[r])
               /\ ~req[r].failed
    <3>1. Kept(r) /\ NowAt(r, "publishRules") /\ NowTodo(r, Published[r], FALSE)
      <4> HIDE DEF At, NowAt, NowTodo
      <4> QED BY <1>0, <2>1, SetFields
    <3>2. Published[r] \ req'[r].todo = {}
      BY <3>1
    <3>3. Exposed'
      BY <1>0, <1>9, <2>1 DEF RulesOf, RulesSoFar, RulesCreated, Exposed
    <3> QED BY <1>1, <3>1, <3>2, <3>3 DEF RulesOf, RulesSoFar, AfterRules
  <2>2. CASE At(r, "publishRules") /\ Set(r, "allow", {}) /\ ~req[r].failed
    <3>1. Kept(r) /\ req'[r].pc = "allow"
      BY <1>0, <2>2, SetFields
    <3>2. Exposed' /\ AllPublished(r)'
      BY <1>0, <1>9, <2>2 DEF RulesOf, RulesSoFar, RulesCreated, AllPublished
    <3> QED BY <1>1, <3>1, <3>2 DEF RulesOf, RulesSoFar, AfterRules
  <2> QED BY <1>4, <1>9, <2>1, <2>2 DEF RulesCreated
<1>10. CASE CheckProvisionAllowed(r) \/ AddLinks(r)
  <2>1. Kept(r) /\ req[r].pc \in AfterRules /\ req'[r].pc \in AfterRules
    BY <1>0, <1>10, SetFields DEF CheckProvisionAllowed, AccountVmsLost, AddLinks, AfterRules
  <2> QED BY <1>0, <1>1, <2>1 DEF RulesOf, RulesSoFar, AfterRules, AllPublished
<1>11. CASE CreateVm(r) \/ Provisioned(r) \/ ProvisionFails(r) \/ SaveLinks(r)
             \/ PostProvision(r) \/ AccountVmsLost(r)
  <2>1. ASSUME NEW todo, NEW pc \in {"job", "saveLinks", "postProvision", "lost"},
               Set(r, pc, todo)
        PROVE  Kept(r) /\ RulesOf(r)'
    BY <1>0, <1>2, <2>1, SetFields DEF AfterRules
  <2> QED BY <1>4, <1>11, <2>1
          DEF CreateVm, Provisioned, ProvisionFails, SaveLinks, PostProvision,
              AccountVmsLost
<1> QED BY <1>3, <1>5, <1>6, <1>7, <1>8, <1>9, <1>10, <1>11, ProvisionAssumption
        DEF Step, CreateStep
LEMMA RulesKept ==
    ASSUME Typed, Paths, RulesInv, VmsInv, NEW r \in Requests, Step(r), Kept(r)
    PROVE  RulesInv'
<1>1. ASSUME NEW c \in Creates PROVE RulesOf(c)'
  BY RulesOfOthers, RulesOfMover
<1> QED BY <1>1 DEF RulesInv, RulesOf

(* A create goes forward: it comes back neither to the steps before its    *)
(* rules nor to a rule it has made, and calls VMAPI once.                  *)
LEMMA Forward ==
    ASSUME Typed, NEW r \in Creates, Step(r)
    PROVE  /\ Kept(r)
           /\ req'[r].pc \in BeforeRules => req[r].pc \in BeforeRules
           /\ req'[r].pc = "exposeRules" =>
                \/ At(r, "listRules")
                \/ At(r, "exposeRules") /\ req'[r].todo \subseteq req[r].todo
           /\ req'[r].pc \in BeforeVm => req[r].pc \in BeforeVm /\ ~CreateVm(r)
           /\ req'[r].pc = "job" => CreateVm(r)
<1> USE ProvisionAssumption DEF At, NowAt, NowTodo, BeforeRules, BeforeVm, AfterRules
<1>0. r \in Requests
  BY DEF Requests
<1>1. ASSUME NEW a, Answer(r, a)
      PROVE  Kept(r) /\ req'[r].pc = "done"
  BY <1>0, <1>1, AnswerFields
<1>2. ASSUME NEW pc, NEW todo, Set(r, pc, todo)
      PROVE  Kept(r) /\ req'[r].pc = pc
  BY <1>0, <1>2, SetFields
<1>3. CASE Receive(r)
  <2>1. Kept(r) /\ req'[r].pc = "networks" /\ req[r].pc = "idle"
    BY <1>0, <1>3, ReceiveFields DEF Receive
  <2> QED BY <2>1 DEF CreateVm
<1>9. CASE CallFails(r)
  BY <1>1, <1>9 DEF CallFails
<1>4. CASE \E s \in Creates : LookupSource(r, s) \/ LookupSourceFails(r, s)
  <2>1. Kept(r) /\ req'[r].pc = "sources" /\ req[r].pc = "sources"
    BY <1>0, <1>4, LookupFields DEF LookupSource, LookupSourceFails
  <2> QED BY <2>1 DEF CreateVm
<1>5. CASE \E p \in Protocols : \/ CreateExposeRule(r, p) \/ CreatePublishRule(r, p)
                                \/ CreateRuleFails(r, p)
  <2>1. /\ Kept(r) /\ req'[r].pc = req[r].pc /\ req'[r].todo \subseteq req[r].todo
        /\ req[r].pc \in {"exposeRules", "publishRules"}
    BY <1>0, <1>5, RuleFields DEF CreateExposeRule, CreatePublishRule, CreateRuleFails
  <2> QED BY <2>1 DEF CreateVm
<1>6. CASE AddNetworks(r) \/ SourcesFound(r) \/ SelectPackage(r) \/ ListRules(r)
  BY <1>1, <1>2, <1>6 DEF AddNetworks, SourcesFound, SelectPackage, ListRules, CreateVm
<1>7. CASE \/ RulesCreated(r) \/ CheckProvisionAllowed(r) \/ AccountVmsLost(r)
           \/ AddLinks(r)
  BY <1>1, <1>2, <1>7
     DEF RulesCreated, CheckProvisionAllowed, AccountVmsLost, AddLinks, CreateVm
<1>8. CASE CreateVm(r) \/ Provisioned(r) \/ ProvisionFails(r) \/ SaveLinks(r)
             \/ PostProvision(r)
  BY <1>1, <1>2, <1>8 DEF CreateVm, Provisioned, ProvisionFails, SaveLinks, PostProvision
<1> QED BY <1>3, <1>4, <1>5, <1>6, <1>7, <1>8, <1>9 DEF Step, CreateStep

(* A removal changes no create.                                            *)
LEMMA RemovalKeeps ==
    ASSUME Typed, NEW r \in Removals, Step(r)
    PROVE  Kept(r) /\ r \in Requests /\ r \notin Creates
<1>1. r \in Requests /\ r \notin Creates
  BY ProvisionAssumption DEF Requests
<1>2. Kept(r)
  BY <1>1, SetFields, AnswerFields, ReceiveFields, ListVmsFields
     DEF Step, CallFails, RemovalStep, GetVm, DeleteVm, DeleteLinks
<1> QED BY <1>1, <1>2

LEMMA OthersKept ==
    ASSUME Typed, NEW r \in Requests, Step(r)
    PROVE  Kept(r)
  BY Forward, RemovalKeeps DEF Requests

LEMMA VmsKept ==
    ASSUME Typed, VmsInv, NEW r \in Requests, Step(r)
    PROVE  VmsInv'
<1> DEFINE VmOf(c) == /\ req[c].pc \in BeforeVm => vms[c] = "none"
                      /\ req[c].pc = "job" => vms[c] = "provisioning"
<1>0. Kept(r)
  BY OthersKept
<1>1. ASSUME NEW c \in Creates, c # r PROVE VmOf(c)'
  <2>1. c \in Requests /\ req'[c] = req[c] /\ VmOf(c)
    BY <1>0, <1>1 DEF Kept, Requests, VmsInv, At
  <2>2. vms'[c] = vms[c] \/ vms[c] = "stopped"
    <3>1. CASE r \in Creates
      BY <1>1, <3>1, ProvisionAssumption DEF Step, Receive, CallFails, CreateStep, AddNetworks,
         SourcesFound, SelectPackage, ListRules, LookupSource, LookupSourceFails,
         CreateExposeRule, CreatePublishRule, CreateRuleFails, RulesCreated,
         CheckProvisionAllowed, AccountVmsLost, AddLinks, CreateVm, Provisioned, ProvisionFails,
         SaveLinks, PostProvision, StoresUnchanged, Typed
    <3>2. CASE r \notin Creates
      BY <1>1, <3>2 DEF Step, Receive, CallFails, RemovalStep, GetVm, ListVms, DeleteVm,
         DeleteLinks, StoresUnchanged, Typed
    <3> QED BY <3>1, <3>2
  <2> QED BY <2>1, <2>2 DEF BeforeVm, BeforeRules, AfterRules
<1>2. CASE r \in Creates
  <2>1. VmOf(r)'
    <3>1. req'[r].pc \in BeforeVm => vms[r] = "none" /\ ~CreateVm(r)
      BY <1>2, Forward DEF VmsInv
    <3>2. vms[r] = "none" /\ ~CreateVm(r) => vms'[r] = "none"
      BY <1>2, StoresGrow
    <3>3. CreateVm(r) => vms'[r] = "provisioning"
      BY <1>2 DEF CreateVm, Typed
    <3> QED BY <1>2, <3>1, <3>2, <3>3, Forward
  <2> QED BY <1>1, <2>1 DEF VmsInv, At
<1> QED BY <1>1, <1>2 DEF VmsInv, At

-----------------------------------------------------------------------------
(* No create makes a second rule of a protocol.                            *)
LEMMA ExposersShrink ==
    ASSUME Typed, NEW r \in Requests, Step(r), NEW p \in Protocols
    PROVE  Exposers(p)' \subseteq Exposers(p)
<1> SUFFICES ASSUME NEW c \in Creates, MayExpose(c, p)'
             PROVE  MayExpose(c, p)
  BY DEF Exposers
<1>1. CASE c = r
  <2>1. CASE req'[c].pc \in BeforeRules
    BY <1>1, <2>1, Forward DEF MayExpose
  <2>2. CASE req'[c].pc = "exposeRules" /\ p \in req'[c].todo
    BY <1>1, <2>2, Forward DEF MayExpose, At, BeforeRules
  <2> QED BY <2>1, <2>2 DEF MayExpose, At
<1>2. CASE c # r
  BY <1>2, OthersKept DEF Kept, MayExpose, At, Requests
<1> QED BY <1>1, <1>2

LEMMA RuleByRule ==
    ASSUME Typed, NEW r \in Requests, Step(r), NEW p \in Protocols
    PROVE  \/ expose'[p] = expose[p]
           \/ /\ expose'[p] = expose[p] + 1
              /\ r \in Exposers(p) /\ r \notin Exposers(p)'
<1>1. CASE r \in Creates /\ \E q \in Protocols : CreateExposeRule(r, q)
  <2> PICK q \in Protocols : CreateExposeRule(r, q)
    BY <1>1
  <2>1. /\ req'[r].pc = "exposeRules" /\ req'[r].todo = req[r].todo \ {q}
        /\ At(r, "exposeRules") /\ q \in req[r].todo
    BY RuleFields DEF NowAt, At, CreateExposeRule
  <2>2. r \in Exposers(q) /\ r \notin Exposers(q)'
    BY <1>1, <2>1 DEF Exposers, MayExpose, At, BeforeRules
  <2> QED BY <2>2 DEF CreateExposeRule, Typed
<1>2. CASE UNCHANGED expose
  BY <1>2
<1>3. CASE ~ (r \in Creates /\ CreateStep(r))
  BY <1>2, <1>3 DEF Step, Receive, CallFails, RemovalStep, GetVm, ListVms, DeleteVm,
              DeleteLinks, StoresUnchanged
<1>4. CASE r \in Creates /\ CreateStep(r)
  BY <1>1, <1>2, <1>4 DEF CreateStep, AddNetworks, SourcesFound, SelectPackage,
     ListRules, LookupSource, LookupSourceFails, CreatePublishRule, CreateRuleFails,
     RulesCreated, CheckProvisionAllowed, AccountVmsLost, AddLinks, CreateVm, Provisioned,
     ProvisionFails, SaveLinks, PostProvision, StoresUnchanged
<1> QED BY <1>3, <1>4

LEMMA RulesBoundedKept ==
    ASSUME Typed, RulesBounded, NEW r \in Requests, Step(r)
    PROVE  RulesBounded'
<1> SUFFICES ASSUME NEW p \in Protocols
             PROVE  expose'[p] + Cardinality(Exposers(p)') <= Cardinality(Creates)
  BY DEF RulesBounded
<1> DEFINE before == Exposers(p)
           after == Exposers(p)'
<1>1. /\ IsFiniteSet(before) /\ IsFiniteSet(after) /\ after \subseteq before
      /\ Cardinality(Creates) \in Nat
  <2>1. before \subseteq Creates /\ after \subseteq before
    BY ExposersShrink DEF Exposers
  <2>2. IsFiniteSet(Creates) /\ Cardinality(Creates) \in Nat
    BY ProvisionAssumption, FS_CardinalityType
  <2>3. IsFiniteSet(before)
    BY <2>1, <2>2, FS_Subset
  <2>4. IsFiniteSet(after)
    BY <2>1, <2>3, FS_Subset
  <2> QED BY <2>1, <2>2, <2>3, <2>4
<1>2. expose[p] \in Nat /\ expose[p] + Cardinality(before) <= Cardinality(Creates)
  BY DEF Typed, RulesBounded
<1>3. Cardinality(before) \in Nat /\ Cardinality(after) \in Nat
  BY <1>1, FS_CardinalityType
<1>4. Cardinality(after) <= Cardinality(before)
  BY <1>1, FS_Subset
<1>5. ASSUME r \in before, r \notin after
      PROVE  Cardinality(after) <= Cardinality(before) - 1
  <2>1. /\ after \subseteq before \ {r} /\ IsFiniteSet(before \ {r})
        /\ Cardinality(before \ {r}) = Cardinality(before) - 1
    BY <1>1, <1>5, FS_RemoveElement
  <2> QED BY <2>1, FS_Subset
<1> HIDE DEF before, after
<1>6. \/ expose'[p] = expose[p]
      \/ expose'[p] = expose[p] + 1 /\ r \in before /\ r \notin after
  BY RuleByRule DEF before, after
<1>7. expose'[p] + Cardinality(after) <= Cardinality(Creates)
  BY <1>1, <1>2, <1>3, <1>4, <1>5, <1>6
<1> QED BY <1>7 DEF after

-----------------------------------------------------------------------------
(* A container that is there, or was, neither comes back nor mounts more.  *)
LEMMA StandingSettled ==
    ASSUME Typed, VmsInv, NEW r \in Requests, Step(r),
           NEW c \in Creates, vms[c] # "none"
    PROVE  /\ vms'[c] # "none" /\ mounts'[c] = mounts[c]
           /\ Exists(c)' => Exists(c)
<1> USE DEF Typed
<1>0. vms'[c] # "none"
  BY StoresGrow
<1>1. CASE r \in Creates /\ \E s \in Creates : LookupSource(r, s)
  <2>1. vms[r] = "none"
    BY <1>1 DEF LookupSource, VmsInv, BeforeVm, BeforeRules, At
  <2> QED BY <1>0, <1>1, <2>1 DEF LookupSource, Exists
<1>2. CASE r \in Creates /\ (CreateVm(r) \/ Provisioned(r) \/ ProvisionFails(r))
  BY <1>0, <1>2 DEF CreateVm, Provisioned, ProvisionFails, VmsInv, BeforeVm, AfterRules,
     At, Exists
<1>3. CASE r \in Removals /\ DeleteVm(r)
  BY <1>0, <1>3 DEF DeleteVm, Exists
<1>4. CASE UNCHANGED <<vms, mounts>>
  BY <1>0, <1>4 DEF Exists
<1>5. CASE ~ (r \in Creates /\ CreateStep(r))
  BY <1>3, <1>4, <1>5 DEF Step, Receive, CallFails, RemovalStep, GetVm, ListVms,
     DeleteLinks, StoresUnchanged
<1>6. CASE r \in Creates /\ CreateStep(r)
  BY <1>1, <1>2, <1>4, <1>6 DEF CreateStep, AddNetworks, SourcesFound, SelectPackage,
     ListRules, LookupSourceFails, CreateExposeRule, CreatePublishRule, CreateRuleFails,
     RulesCreated, CheckProvisionAllowed, AccountVmsLost, AddLinks, SaveLinks, PostProvision,
     StoresUnchanged
<1> QED BY <1>5, <1>6

(* What a removal has seen stays true whoever takes the step.              *)
LEMMA UsersShrink ==
    ASSUME Typed, VmsInv, UsersInv, NEW r \in Requests, Step(r),
           NEW q \in Removals, req'[q].standing = req[q].standing
    PROVE  /\ \A c \in req'[q].standing : vms'[c] # "none"
           /\ UsersOf(q) = {} => UsersOf(q)' = {}
<1>1. req[q].standing \subseteq Creates
  <2>1. req[q] \in RequestType
    BY DEF Typed, Requests
  <2> QED BY <2>1 DEF RequestType
<1>2. ASSUME NEW c \in req[q].standing
      PROVE  /\ c \in Creates /\ vms'[c] # "none" /\ mounts'[c] = mounts[c]
             /\ Exists(c)' => Exists(c)
  BY <1>1, <1>2, StandingSettled DEF UsersInv, UsersKnown
<1> QED BY <1>2 DEF UsersOf, UsersAmong, Existing

LEMMA UsersKept ==
    ASSUME Typed, Paths, VmsInv, UsersInv, NEW r \in Requests, Step(r)
    PROVE  UsersInv'
<1> SUFFICES ASSUME NEW q \in Removals PROVE UsersKnown(q)'
  BY DEF UsersInv, UsersKnown
<1>0. q \in Requests /\ q \notin Creates /\ UsersKnown(q)
  BY ProvisionAssumption DEF UsersInv, UsersKnown, Requests
<1>1. CASE q # r
  <2>1. req'[q] = req[q]
    BY <1>0, <1>1, OthersKept DEF Kept
  <2> QED BY <1>0, <2>1, UsersShrink DEF UsersKnown
<1>2. CASE q = r
  <2> USE DEF UsersKnown, NowAt, At, SameRest
  <2>0. req[q].pc # "done" => req[q].answer = "none"
    BY <1>0 DEF Paths
  <2>1. CASE Receive(q)
    <3>1. /\ req'[q].pc = "getVm" /\ req'[q].standing = Existing
          /\ req'[q].answer = "none"
      BY <1>0, <2>0, <2>1, ReceiveFields DEF Receive
    <3>2. \A c \in Existing : vms'[c] # "none"
      BY <1>2, StoresGrow DEF Existing, Exists
    <3> QED BY <3>1, <3>2
  <2>2. CASE ListVms(q)
    <3>1. /\ req'[q].standing = req[q].standing
          /\ \/ UsersAmong(RemovalOf[q], Existing) = {}
             \/ req'[q].pc = "done" /\ req'[q].answer = "error"
      BY <1>0, <2>2, ListVmsFields
    <3>2. UsersAmong(RemovalOf[q], Existing) = {} => UsersOf(q) = {}
      BY DEF UsersAmong, UsersOf
    <3> QED BY <1>2, <3>1, <3>2, UsersShrink
  <2>3. ASSUME Answer(q, "error") PROVE UsersKnown(q)'
    <3>1. /\ req'[q].pc = "done" /\ req'[q].answer = "error"
          /\ req'[q].standing = req[q].standing
      BY <1>0, <2>3, AnswerFields
    <3> QED BY <1>2, <3>1, UsersShrink
  <2>4. CASE CallFails(q)
    BY <2>3, <2>4 DEF CallFails
  <2>5. CASE GetVm(q)
    <3>1. CASE Set(q, "listVms", {})
      <4>1. /\ req'[q].pc = "listVms" /\ req'[q].answer = "none"
            /\ req'[q].standing = req[q].standing
        BY <1>0, <2>0, <2>5, <3>1, SetFields DEF GetVm
      <4> QED BY <1>2, <4>1, UsersShrink
    <3> QED BY <2>3, <2>5, <3>1 DEF GetVm
  <2>6. CASE DeleteVm(q) \/ DeleteLinks(q)
    <3>1. UsersOf(q) = {}
      BY <1>0, <2>6 DEF DeleteVm, DeleteLinks
    <3>2. req'[q].standing = req[q].standing
      BY <1>0, <2>6, SetFields, AnswerFields DEF DeleteVm, DeleteLinks
    <3> QED BY <1>2, <3>1, <3>2, UsersShrink
  <2> QED BY <1>0, <1>2, <2>1, <2>2, <2>4, <2>5, <2>6 DEF Step, RemovalStep
<1> QED BY <1>1, <1>2

-----------------------------------------------------------------------------
(* The specification.                                                      *)
LEMMA NextKeeps ==
    ASSUME ProvisionInv, VolumesInv, [Next]_vars
    PROVE  ProvisionInv' /\ VolumesInv'
<1>1. ASSUME NEW r \in Requests, Step(r) PROVE ProvisionInv' /\ VolumesInv'
  <2>1. VolumesInv'
    BY <1>1 DEF Step, volumeVars, VolumesInv, VolumesTypeOK, VolumePaths,
       VolumeAnswersTrue, VolumeOf
  <2>2. Typed' /\ Paths' /\ Kept(r)
    BY <1>1, StoresTyped, PathsKept, OthersKept DEF ProvisionInv
  <2>3. RulesBounded' /\ VmsInv' /\ UsersInv'
    BY <1>1, RulesBoundedKept, VmsKept, UsersKept DEF ProvisionInv
  <2>4. RulesInv'
    BY <1>1, <2>2, RulesKept DEF ProvisionInv
  <2> QED BY <2>1, <2>2, <2>3, <2>4 DEF ProvisionInv
<1>2. ASSUME UNCHANGED <<made, provisionVars>> PROVE ProvisionInv'
  BY <1>2 DEF provisionVars, ProvisionInv, Typed, Paths, RulesBounded, Exposers,
     MayExpose, RulesInv, RulesOf, RulesSoFar, Exposed, AllPublished, VmsInv,
     UsersInv, UsersKnown, UsersOf, UsersAmong, Existing, Exists, At
<1>3. ASSUME NEW r \in VolumeRequests, StepOfVolumes(r)
      PROVE  ProvisionInv' /\ VolumesInv'
  BY <1>2, <1>3, VolumeStepKeeps DEF StepOfVolumes
<1>4. ASSUME NEW v \in VolumeCreates, VolapiWorks(v), UNCHANGED <<made, provisionVars>>
      PROVE  ProvisionInv' /\ VolumesInv'
  BY <1>2, <1>4, VolapiKeeps
<1>5. CASE UNCHANGED vars
  BY <1>2, <1>5 DEF vars, volumeVars, VolumesInv, VolumesTypeOK, VolumePaths,
     VolumeAnswersTrue, VolumeOf
<1> QED BY <1>1, <1>3, <1>4, <1>5 DEF Next

LEMMA InvariantHolds == Spec => [](ProvisionInv /\ VolumesInv)
<1>1. Init => ProvisionInv /\ VolumesInv
  BY ProvisionStart, VolumesStart DEF Init
<1>2. ProvisionInv /\ VolumesInv /\ [Next]_vars => (ProvisionInv /\ VolumesInv)'
  BY NextKeeps
<1> QED BY <1>1, <1>2, PTL DEF Spec

(* Every variable keeps its type, and of the rules that open all ports of  *)
(* a protocol addExposeFirewallRules makes one a create at most.           *)
THEOREM ProvisionTypeCorrect == Spec => []ProvisionTypeOK
<1>1. ProvisionInv /\ VolumesInv => ProvisionTypeOK
  <2> SUFFICES ASSUME ProvisionInv, VolumesInv PROVE ProvisionTypeOK
    OBVIOUS
  <2>1. ASSUME NEW p \in Protocols
        PROVE  expose[p] \in 0..Cardinality(Creates)
    <3>1. IsFiniteSet(Exposers(p))
      BY ProvisionAssumption, FS_Subset DEF Exposers
    <3>2. Cardinality(Exposers(p)) \in Nat /\ Cardinality(Creates) \in Nat
      BY <3>1, ProvisionAssumption, FS_CardinalityType
    <3>3. expose[p] \in Nat /\ expose[p] + Cardinality(Exposers(p)) <= Cardinality(Creates)
      BY DEF ProvisionInv, Typed, RulesBounded
    <3> QED BY <3>2, <3>3
  <2>2. expose \in [Protocols -> 0..Cardinality(Creates)]
    BY <2>1 DEF ProvisionInv, Typed
  <2> QED BY <2>2 DEF ProvisionInv, Typed, ProvisionTypeOK, VolumesInv
<1> QED BY <1>1, InvariantHolds, PTL

(* However creates and removals interleave and whichever of their calls    *)
(* fails, a container of createContainer has all its firewall rules before *)
(* VMAPI knows of it: addRulesToFWAPI ends the request on any error.       *)
THEOREM RulesComeFirst == Spec => []RulesBeforeContainer
<1>1. ProvisionInv => RulesBeforeContainer
  BY DEF ProvisionInv, RulesInv, RulesOf, RulesBeforeContainer, Exposed, AllPublished
<1> QED BY <1>1, InvariantHolds, PTL

(* A docker rm that is answered took no volume from a container that stood *)
(* when it came: the check of deleteContainer is not outrun by a create    *)
(* that was on its way, only by one that comes later.                      *)
THEOREM StandingUsersSafe == Spec => []StandingUsersKeepVolumes
<1>1. ProvisionInv => StandingUsersKeepVolumes
  BY DEF ProvisionInv, UsersInv, UsersKnown, UsersOf, StandingUsersKeepVolumes
<1> QED BY <1>1, InvariantHolds, PTL

(* The answers of docker volume create and rm are true of VOLAPI when they *)
(* are given, for any requests that poll at once.                          *)
THEOREM VolumeAnswersAreTrue == Spec => []VolumeAnswersTrue
<1>1. VolumesInv => VolumeAnswersTrue
  BY DEF VolumesInv
<1> QED BY <1>1, InvariantHolds, PTL
=============================================================================
