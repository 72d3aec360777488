---------------------------- MODULE LinksProofs -----------------------------
(***************************************************************************)
(* What holds of container links for any number of connections, VMs, names *)
(* and aliases, and any requests.                                          *)
(***************************************************************************)
EXTENDS Links, FiniteSetTheorems, TLAPS

-----------------------------------------------------------------------------
(* What a request has come to know when it is at its pc.                   *)
Renaming == {"updateVm", "findContainerLinks", "updateContainerLinks",
             "findTargetLinks", "updateTargetLinks"}
Removing == {"deleteVm", "findTargettingLinks", "findSourceLinks"}
Looping == Saving \cup {"delLinks"}

Known(s) ==
    /\ s.pc = "idle" => s = Idle
    /\ s.pc # "idle" => s.req \in Requests
    /\ s.pc \in Renaming => s.req.kind = "rename"
    /\ s.pc \in Removing => s.req.kind = "rm"
    /\ s.pc = "delLinks" => s.req.kind \in {"rm", "rmlink"}
    /\ s.pc = "findLink" => s.req.kind = "rmlink"
    /\ s.pc \in {"createVm", "saveLinks"} => s.req.kind = "create"
    /\ s.pc = "findLinks" => s.req.kind \in {"start", "restart"}
    /\ s.pc = "getLinkDetails" => s.req.kind \in {"create", "start", "restart"}
    /\ s.pc = "getVm" => s.req.kind # "create"

HasVm(s) ==
    /\ s.pc \in {"idle", "getVm"} => s.vm = None
    /\ s.pc = "getLinkDetails" /\ s.req.kind = "create" => s.vm = None
    /\ s.pc \notin {"idle", "getVm", "getLinkDetails"} => s.vm \in Vms
    /\ s.pc = "findLinks" \/ (s.pc = "getLinkDetails" /\ s.req.kind # "create")
          => s.vm \in Vms /\ s.seen \in VmType /\ s.seen.name \in Names
    /\ s.pc \notin Looping \cup {"findSourceLinks"} => s.rows = {}

OpSound(s) == Known(s) /\ HasVm(s)

(* A VM that is listed has a name; one that is being provisioned is that   *)
(* of one create, and no removal has it.                                   *)
VmNamed(x) == x.state \notin {"none", "destroyed"} => x.name \in Names
Unborn == {"none", "provisioning"}
VmsSound ==
    /\ \A v \in Vms : VmNamed(vms[v])
    /\ \A c \in Clients :
          /\ op[c].pc = "createVm" => vms[op[c].vm].state = "provisioning"
          /\ op[c].pc = "deleteVm" => vms[op[c].vm].state \notin Unborn
    /\ \A c, d \in Clients :
          c # d /\ op[c].pc = "createVm" /\ op[d].pc = "createVm"
             => op[c].vm # op[d].vm

LinksInv == TypeOK /\ (\A c \in Clients : OpSound(op[c])) /\ VmsSound

-----------------------------------------------------------------------------
LEMMA IdleSound == Idle \in OpType /\ OpSound(Idle) /\ Idle.pc = "idle"
  BY DEF Idle, OpType, Pcs, OpSound, Known, HasVm, Renaming, Removing, Looping, Saving

LEMMA RequestTyped ==
    ASSUME NEW r \in Requests
    PROVE  /\ r \in RequestType
           /\ r.kind \in {"create", "start", "restart", "rename", "rm", "rmlink"}
           /\ r.id \in Names /\ r.links \subseteq ConfigType
           /\ r.kind = "rename" => r.name \in Names
           /\ r.kind = "rmlink" => r.alias \in Aliases
  BY LinksAssumption DEF RequestType, ConfigType

LEMMA OpIs ==
    ASSUME LinksInv, NEW c \in Clients
    PROVE  /\ op[c] \in OpType /\ OpSound(op[c])
           /\ op \in [Clients -> OpType] /\ vms \in [Vms -> VmType]
           /\ links \in [Keys -> LinkType \cup {None}]
           /\ failures \in 0 .. MaxFailures
  BY DEF LinksInv, TypeOK

LEMMA MatchesAre ==
    ASSUME LinksInv, NEW ref, NEW v \in Matches(ref)
    PROVE  /\ v \in Vms /\ Listed(v) /\ vms[v] \in VmType
           /\ vms[v].name \in Names
           /\ ref \in Names => vms[v].name = ref
<1>1. /\ v \in Vms /\ Listed(v) /\ vms[v] \in VmType /\ vms[v].name \in Names
      /\ v = ref \/ vms[v].name = ref
  BY DEF Matches, LinksInv, VmsSound, VmNamed, TypeOK, Listed
<1> QED BY <1>1, LinksAssumption

LEMMA RowsAre ==
    ASSUME LinksInv
    PROVE  /\ \A v : RowsOf(v) \subseteq RowType /\ RowsTo(v) \subseteq RowType
           /\ \A k \in Rows : k \in Keys /\ links[k] \in LinkType /\ links[k] # None
<1>1. \A k \in Rows : k \in Keys /\ links[k] \in LinkType /\ links[k] # None
  BY DEF Rows, LinksInv, TypeOK
<1> QED BY <1>1 DEF RowsOf, RowsTo, Found, RowType

-----------------------------------------------------------------------------
(* A step of one request.                                                  *)
LEMMA RequestStep ==
    ASSUME LinksInv, NEW c \in Clients, NEW s \in OpType, OpSound(s),
           op' = [op EXCEPT ![c] = s], vms' \in [Vms -> VmType],
           links' \in [Keys -> LinkType \cup {None}],
           failures' \in 0 .. MaxFailures,
           \A v \in Vms : VmNamed(vms'[v]),
           \A v \in Vms : vms[v].state \notin Unborn => vms'[v].state \notin Unborn,
           \A v \in Vms : vms[v].state = "provisioning"
                             /\ vms'[v].state # "provisioning"
                          => op[c].pc = "createVm" /\ op[c].vm = v,
           s.pc = "createVm" => /\ vms[s.vm].state = "none"
                                /\ vms'[s.vm].state = "provisioning",
           s.pc = "deleteVm" => vms'[s.vm].state \notin Unborn
    PROVE  LinksInv'
<1>1. TypeOK' /\ \A d \in Clients : OpSound(op'[d])
  BY OpIs DEF TypeOK
<1>2. \A d \in Clients : op'[d] = IF d = c THEN s ELSE op[d]
  BY OpIs
<1>3. ASSUME NEW d \in Clients
      PROVE  /\ op'[d].pc = "createVm" => vms'[op'[d].vm].state = "provisioning"
             /\ op'[d].pc = "deleteVm" => vms'[op'[d].vm].state \notin Unborn
  <2>1. CASE d = c
    BY <1>2, <2>1
  <2>2. CASE d # c
    <3>1. op[d].pc \in {"createVm", "deleteVm"} => op[d].vm \in Vms
      BY OpIs DEF OpSound, HasVm
    <3>2. /\ op[d].pc = "createVm" => vms[op[d].vm].state = "provisioning"
          /\ op[d].pc = "deleteVm" => vms[op[d].vm].state \notin Unborn
          /\ op[d].pc = "createVm" /\ op[c].pc = "createVm" => op[c].vm # op[d].vm
      BY <2>2 DEF LinksInv, VmsSound
    <3>3. op'[d] = op[d]
      BY <1>2, <2>2
    <3> QED BY <3>1, <3>2, <3>3
  <2> QED BY <2>1, <2>2
<1>4. ASSUME NEW d \in Clients, NEW e \in Clients, d # e,
             op'[d].pc = "createVm", op'[e].pc = "createVm"
      PROVE  op'[d].vm # op'[e].vm
  <2>1. \A f \in Clients : op[f].pc = "createVm" => vms[op[f].vm].state = "provisioning"
    BY DEF LinksInv, VmsSound
  <2>2. d # c /\ e # c => op[d].vm # op[e].vm
    BY <1>2, <1>4 DEF LinksInv, VmsSound
  <2> QED BY <1>2, <1>4, <2>1, <2>2
<1>5. VmsSound'
  BY <1>3, <1>4 DEF VmsSound
<1> QED BY <1>1, <1>5 DEF LinksInv

(* The VMs are left alone.                                                 *)
LEMMA QuietStep ==
    ASSUME LinksInv, NEW c \in Clients, NEW s \in OpType, OpSound(s),
           op' = [op EXCEPT ![c] = s], vms' = vms,
           links' \in [Keys -> LinkType \cup {None}],
           failures' \in 0 .. MaxFailures, s.pc # "createVm",
           s.pc = "deleteVm" => vms[s.vm].state \notin Unborn
    PROVE  LinksInv'
<1>1. /\ vms' \in [Vms -> VmType] /\ \A v \in Vms : VmNamed(vms[v])
  BY DEF LinksInv, TypeOK, VmsSound
<1> QED BY <1>1, RequestStep

(* A parallel loop.                                                        *)
LEMMA SettledSound ==
    ASSUME NEW s \in OpType, OpSound(s), s.pc \in Looping
    PROVE  /\ Settled(s) \in OpType /\ OpSound(Settled(s))
           /\ Settled(s).pc \notin {"createVm", "deleteVm"}
<1>1. CASE s.rows # {}
  BY <1>1 DEF Settled, Looping, Saving
<1>2. CASE s.rows = {} /\ s.pc = "updateContainerLinks" /\ ~s.err
  <2> DEFINE t == [s EXCEPT !.pc = "findTargetLinks"]
  <2>1. Settled(s) = t
    BY <1>2 DEF Settled
  <2>2. /\ t \in OpType /\ t.pc = "findTargetLinks" /\ t.req = s.req /\ t.vm = s.vm
        /\ t.rows = {}
    BY <1>2 DEF OpType, Pcs
  <2> HIDE DEF t
  <2>3. s.req \in Requests /\ s.req.kind = "rename" /\ s.vm \in Vms
    BY <1>2 DEF OpSound, Known, HasVm, Renaming
  <2>4. OpSound(t)
    BY <2>2, <2>3 DEF OpSound, Known, HasVm, Removing, Looping, Saving
  <2> QED BY <2>1, <2>2, <2>4
<1>3. CASE s.rows = {} /\ ~(s.pc = "updateContainerLinks" /\ ~s.err)
  <2>1. Settled(s) = Idle
    BY <1>3 DEF Settled
  <2> QED BY <2>1, IdleSound
<1> QED BY <1>1, <1>2, <1>3

LEMMA LoopStep ==
    ASSUME LinksInv, NEW c \in Clients, NEW pc \in Looping, NEW rows \in SUBSET RowType,
           Loop(c, pc, rows), vms' = vms, links' \in [Keys -> LinkType \cup {None}],
           failures' \in 0 .. MaxFailures, op[c].req \in Requests, op[c].vm \in Vms,
           pc \in Renaming => op[c].req.kind = "rename",
           pc = "delLinks" => op[c].req.kind \in {"rm", "rmlink"},
           pc = "saveLinks" => op[c].req.kind = "create"
    PROVE  LinksInv'
<1> DEFINE s == [op[c] EXCEPT !.pc = pc, !.rows = rows]
<1>1. /\ s \in OpType /\ s.pc = pc /\ s.req = op[c].req /\ s.vm = op[c].vm
  BY OpIs DEF OpType, Pcs, Looping, Saving
<1>2. op' = [op EXCEPT ![c] = Settled(s)]
  BY DEF Loop, Become
<1> HIDE DEF s
<1>3. OpSound(s)
  BY <1>1 DEF OpSound, Known, HasVm, Looping, Saving, Renaming, Removing
<1>4. /\ Settled(s) \in OpType /\ OpSound(Settled(s))
      /\ Settled(s).pc \notin {"createVm", "deleteVm"}
  BY <1>1, <1>3, SettledSound
<1> HIDE DEF Settled
<1> QED BY <1>2, <1>4, QuietStep

LEMMA EndStep ==
    ASSUME LinksInv, NEW c \in Clients, End(c), vms' = vms, links' = links,
           failures' \in 0 .. MaxFailures
    PROVE  LinksInv'
<1>1. op' = [op EXCEPT ![c] = Idle] /\ links' \in [Keys -> LinkType \cup {None}]
  BY OpIs DEF End, Become
<1> QED BY <1>1, IdleSound, QuietStep

-----------------------------------------------------------------------------
(* Lookups by name.                                                        *)

LEMMA StartKeeps ==
    ASSUME LinksInv, NEW c \in Clients, Start(c), UNCHANGED failures
    PROVE  LinksInv'
<1>1. PICK r \in Requests :
        op' = [op EXCEPT ![c] = [Idle EXCEPT
                 !.pc = IF r.kind = "create" THEN "getLinkDetails" ELSE "getVm",
                 !.req = r, !.configs = r.links]]
  BY DEF Start, Become
<1> DEFINE s == [Idle EXCEPT
                   !.pc = IF r.kind = "create" THEN "getLinkDetails" ELSE "getVm",
                   !.req = r, !.configs = r.links]
<1>2. /\ s \in OpType /\ s.req = r /\ s.vm = None /\ s.rows = {}
      /\ s.pc = IF r.kind = "create" THEN "getLinkDetails" ELSE "getVm"
  BY RequestTyped DEF Idle, OpType, Pcs
<1> HIDE DEF s
<1>3. OpSound(s)
  BY <1>2 DEF OpSound, Known, HasVm, Renaming, Removing, Looping, Saving
<1>4. /\ vms' = vms /\ links' \in [Keys -> LinkType \cup {None}]
      /\ failures' \in 0 .. MaxFailures
  BY OpIs DEF Start
<1>5. op' = [op EXCEPT ![c] = s] /\ s.pc \notin {"createVm", "deleteVm"}
  BY <1>1, <1>2 DEF s
<1> QED BY <1>2, <1>3, <1>4, <1>5, QuietStep

LEMMA GetVmKeeps ==
    ASSUME LinksInv, NEW c \in Clients, At(c, "getVm"), GetVm(c), UNCHANGED failures
    PROVE  LinksInv'
<1> DEFINE r == op[c].req
<1>1. /\ vms' = vms /\ links' = links /\ links' \in [Keys -> LinkType \cup {None}]
      /\ failures' \in 0 .. MaxFailures
  BY OpIs DEF GetVm
<1>2. CASE End(c)
  BY <1>1, <1>2, EndStep
<1>3. CASE \E v \in Matches(r.id) : /\ ~Refused(r, v)
                                    /\ op' = [op EXCEPT ![c] =
                                         [op[c] EXCEPT !.pc = AfterGetVm(r), !.vm = v,
                                                       !.seen = vms[v]]]
  <2>1. PICK v \in Matches(r.id) :
          /\ ~Refused(r, v)
          /\ op' = [op EXCEPT ![c] =
               [op[c] EXCEPT !.pc = AfterGetVm(r), !.vm = v, !.seen = vms[v]]]
    BY <1>3
  <2>2. /\ op[c] \in OpType /\ op[c].rows = {} /\ r \in Requests
        /\ r.kind \in {"start", "restart", "rename", "rm", "rmlink"}
    BY OpIs, RequestTyped DEF At, OpSound, Known, HasVm, Looping, Saving
  <2>3. /\ v \in Vms /\ vms[v] \in VmType /\ vms[v].name \in Names
        /\ vms[v].state \notin {"none", "destroyed"}
    BY <2>1, MatchesAre DEF Listed
  <2> DEFINE pc == AfterGetVm(r)
             s == [op[c] EXCEPT !.pc = pc, !.vm = v, !.seen = vms[v]]
  <2>4. /\ pc \in {"findLinks", "updateVm", "deleteVm", "findLink"}
        /\ pc = "findLinks" => r.kind \in {"start", "restart"}
        /\ pc = "updateVm" => r.kind = "rename"
        /\ pc = "deleteVm" => r.kind = "rm"
        /\ pc = "findLink" => r.kind = "rmlink"
    BY <2>2 DEF AfterGetVm
  <2> HIDE DEF pc
  <2>5. /\ s \in OpType /\ s.pc = pc /\ s.req = r /\ s.vm = v /\ s.seen = vms[v]
        /\ s.rows = {}
    BY <2>2, <2>3, <2>4 DEF OpType, Pcs
  <2>6. op' = [op EXCEPT ![c] = s]
    BY <2>1 DEF pc
  <2> HIDE DEF s
  <2>7. OpSound(s)
    BY <2>2, <2>3, <2>4, <2>5 DEF OpSound, Known, HasVm, Renaming, Removing, Looping, Saving
  <2>8. s.pc = "deleteVm" => vms[s.vm].state \notin Unborn
    BY <2>1, <2>3, <2>4, <2>5 DEF Refused, Unborn
  <2> QED BY <1>1, <2>4, <2>5, <2>6, <2>7, <2>8, QuietStep
<1>4. CASE {v \in Matches(r.id) : ~Refused(r, v)} # {}
  BY <1>3, <1>4 DEF GetVm, Become
<1>5. CASE {v \in Matches(r.id) : ~Refused(r, v)} = {}
  BY <1>2, <1>5 DEF GetVm
<1> QED BY <1>4, <1>5

LEMMA FindLinksKeeps ==
    ASSUME LinksInv, NEW c \in Clients, At(c, "findLinks"), FindLinks(c),
           UNCHANGED failures
    PROVE  LinksInv'
<1> DEFINE configs == HostConfigs(RowsOf(op[c].vm))
           s == [op[c] EXCEPT !.pc = "getLinkDetails", !.configs = configs]
<1>1. configs \subseteq ConfigType
  <2>1. \A m \in RowsOf(op[c].vm) : m \in RowType
    BY RowsAre
  <2>2. \A m \in RowType : [ref |-> m.row.target_name, alias |-> m.key[2]] \in ConfigType
    BY DEF RowType, LinkType, ConfigType, Keys
  <2> QED BY <2>1, <2>2 DEF HostConfigs
<1> HIDE DEF configs
<1>2. /\ op[c] \in OpType /\ OpSound(op[c]) /\ op[c].pc = "findLinks"
      /\ vms' = vms /\ links' \in [Keys -> LinkType \cup {None}]
      /\ failures' \in 0 .. MaxFailures
  BY OpIs DEF FindLinks, At
<1>3. /\ s \in OpType /\ s.pc = "getLinkDetails" /\ s.req = op[c].req
      /\ s.vm = op[c].vm /\ s.seen = op[c].seen /\ s.rows = op[c].rows
  BY <1>1, <1>2 DEF OpType, Pcs
<1>4. op' = [op EXCEPT ![c] = s]
  BY DEF FindLinks, Become, configs
<1> HIDE DEF s
<1>5. OpSound(s)
  BY <1>2, <1>3 DEF OpSound, Known, HasVm, Renaming, Removing, Looping, Saving
<1> QED BY <1>2, <1>3, <1>4, <1>5, QuietStep

LEMMA DetailTyped ==
    ASSUME LinksInv, NEW c \in Clients, At(c, "getLinkDetails"),
           NEW g \in op[c].configs, NEW t \in Matches(g.ref)
    PROVE  Detail(c, g, t) \in DetailType /\ g \in ConfigType
<1>1. g \in ConfigType
  BY OpIs DEF OpType
<1>2. g.alias \in Aliases /\ t \in Vms /\ vms[t].name \in Names
  BY <1>1, MatchesAre DEF ConfigType
<1>3. ContainerName(c) \in Names
  <2>1. op[c].req \in Requests /\ (op[c].req.kind # "create" => op[c].seen.name \in Names)
    BY OpIs DEF At, OpSound, Known, HasVm
  <2> QED BY <2>1, RequestTyped DEF ContainerName
<1> HIDE DEF ContainerName
<1> QED BY <1>1, <1>2, <1>3 DEF Detail, DetailType, HostType

LEMMA GetLinkDetailKeeps ==
    ASSUME LinksInv, NEW c \in Clients, At(c, "getLinkDetails"), GetLinkDetail(c),
           UNCHANGED failures
    PROVE  LinksInv'
<1>1. /\ vms' = vms /\ links' = links /\ links' \in [Keys -> LinkType \cup {None}]
      /\ failures' \in 0 .. MaxFailures
  BY OpIs DEF GetLinkDetail
<1>2. CASE End(c)
  BY <1>1, <1>2, EndStep
<1>3. CASE \E g \in op[c].configs : \E t \in Matches(g.ref) :
              op' = [op EXCEPT ![c] =
                       [op[c] EXCEPT !.configs = @ \ {g},
                                     !.details = @ \cup {Detail(c, g, t)}]]
  <2>9. PICK g \in op[c].configs : \E t \in Matches(g.ref) :
          op' = [op EXCEPT ![c] =
                   [op[c] EXCEPT !.configs = @ \ {g},
                                 !.details = @ \cup {Detail(c, g, t)}]]
    BY <1>3
  <2>1. PICK t \in Matches(g.ref) :
          op' = [op EXCEPT ![c] =
                   [op[c] EXCEPT !.configs = @ \ {g},
                                 !.details = @ \cup {Detail(c, g, t)}]]
    BY <2>9
  <2> DEFINE x == Detail(c, g, t)
             s == [op[c] EXCEPT !.configs = @ \ {g}, !.details = @ \cup {x}]
  <2>2. x \in DetailType
    BY DetailTyped
  <2>3. op' = [op EXCEPT ![c] = s]
    BY <2>1
  <2> HIDE DEF x
  <2>4. op[c] \in OpType /\ OpSound(op[c]) /\ op[c].pc = "getLinkDetails"
    BY OpIs DEF At
  <2>5. /\ s \in OpType /\ s.pc = "getLinkDetails" /\ s.req = op[c].req
        /\ s.vm = op[c].vm /\ s.seen = op[c].seen /\ s.rows = op[c].rows
    BY <2>2, <2>4 DEF OpType
  <2> HIDE DEF s
  <2>6. OpSound(s)
    BY <2>4, <2>5 DEF OpSound, Known, HasVm, Renaming, Removing, Looping, Saving
  <2> QED BY <1>1, <2>3, <2>5, <2>6, QuietStep
<1>4. End(c) \/ \E g \in op[c].configs : \E t \in Matches(g.ref) :
              op' = [op EXCEPT ![c] =
                       [op[c] EXCEPT !.configs = @ \ {g},
                                     !.details = @ \cup {Detail(c, g, t)}]]
  <2> HIDE DEF Detail, Matches, End
  <2> QED BY DEF GetLinkDetail, Become
<1> QED BY <1>2, <1>3, <1>4

LEMMA MetadataTyped ==
    ASSUME LinksInv, NEW c \in Clients
    PROVE  NewMetadata(c) \subseteq HostType
<1>1. op[c].details \subseteq DetailType
  BY OpIs DEF OpType
<1> QED BY <1>1 DEF NewMetadata, DetailType

-----------------------------------------------------------------------------
(* create, start and restart.                                              *)

LEMMA CreateVmKeeps ==
    ASSUME LinksInv, NEW c \in Clients, At(c, "getLinkDetails"), CreateVm(c),
           UNCHANGED failures
    PROVE  LinksInv'
<1>1. /\ links' = links /\ links' \in [Keys -> LinkType \cup {None}]
      /\ failures' \in 0 .. MaxFailures /\ op[c].req.kind = "create"
  BY OpIs DEF CreateVm
<1>2. CASE End(c) /\ UNCHANGED vms
  BY <1>1, <1>2, EndStep
<1>3. CASE \E v \in Vms :
             /\ vms[v].state = "none"
             /\ vms' = [vms EXCEPT ![v] = [state |-> "provisioning",
                                           name |-> op[c].req.id,
                                           metadata |-> NewMetadata(c)]]
             /\ op' = [op EXCEPT ![c] = [op[c] EXCEPT !.pc = "createVm", !.vm = v]]
  <2>1. PICK v \in Vms :
             /\ vms[v].state = "none"
             /\ vms' = [vms EXCEPT ![v] = [state |-> "provisioning",
                                           name |-> op[c].req.id,
                                           metadata |-> NewMetadata(c)]]
             /\ op' = [op EXCEPT ![c] = [op[c] EXCEPT !.pc = "createVm", !.vm = v]]
    BY <1>3
  <2> DEFINE x == [state |-> "provisioning", name |-> op[c].req.id,
                   metadata |-> NewMetadata(c)]
             s == [op[c] EXCEPT !.pc = "createVm", !.vm = v]
  <2>2. op[c] \in OpType /\ OpSound(op[c]) /\ op[c].pc = "getLinkDetails"
        /\ op[c].req \in Requests /\ op[c].rows = {}
    BY OpIs DEF At, OpSound, Known, HasVm, Looping, Saving
  <2>3. x \in VmType /\ x.state = "provisioning" /\ x.name \in Names
    BY <2>2, RequestTyped, MetadataTyped DEF VmType, States
  <2>4. s \in OpType /\ s.pc = "createVm" /\ s.req = op[c].req /\ s.vm = v /\ s.rows = {}
    BY <2>2 DEF OpType, Pcs
  <2>5. op' = [op EXCEPT ![c] = s] /\ vms' = [vms EXCEPT ![v] = x]
    BY <2>1
  <2> HIDE DEF x, s
  <2>6. OpSound(s)
    BY <1>1, <2>2, <2>4 DEF OpSound, Known, HasVm, Renaming, Removing, Looping, Saving
  <2>7. /\ vms' \in [Vms -> VmType] /\ vms'[v] = x
        /\ \A w \in Vms : w # v => vms'[w] = vms[w]
    BY <2>3, <2>5, OpIs
  <2>8. /\ \A w \in Vms : VmNamed(vms'[w])
        /\ \A w \in Vms : vms[w].state \notin Unborn => vms'[w].state \notin Unborn
        /\ \A w \in Vms : vms[w].state = "provisioning" => vms'[w].state = "provisioning"
    BY <2>1, <2>3, <2>7 DEF VmNamed, LinksInv, VmsSound, Unborn
  <2> QED BY <1>1, <2>1, <2>3, <2>4, <2>5, <2>6, <2>7, <2>8, RequestStep
<1>4. (End(c) /\ UNCHANGED vms) \/
      \E v \in Vms :
             /\ vms[v].state = "none"
             /\ vms' = [vms EXCEPT ![v] = [state |-> "provisioning",
                                           name |-> op[c].req.id,
                                           metadata |-> NewMetadata(c)]]
             /\ op' = [op EXCEPT ![c] = [op[c] EXCEPT !.pc = "createVm", !.vm = v]]
  <2> HIDE DEF NewMetadata, End, NameFree
  <2> QED BY DEF CreateVm, Become
<1> QED BY <1>2, <1>3, <1>4

LEMMA NewRowsTyped ==
    ASSUME LinksInv, NEW c \in Clients, At(c, "createVm")
    PROVE  {NewRow(c, d) : d \in op[c].details} \in SUBSET RowType
<1>1. /\ op[c].details \subseteq DetailType /\ op[c].vm \in Vms
      /\ op[c].req.id \in Names
  BY OpIs, RequestTyped DEF At, OpType, OpSound, Known, HasVm
<1>2. ASSUME NEW d \in DetailType PROVE NewRow(c, d) \in RowType
  <2>1. /\ d.config.alias \in Aliases /\ d.config.ref \in Names \cup Vms
        /\ d.host.target \in Vms
    BY DEF DetailType, ConfigType, HostType
  <2>2. <<op[c].vm, d.config.alias>> \in Keys
    BY <1>1, <2>1 DEF Keys
  <2> QED BY <1>1, <2>1, <2>2 DEF NewRow, RowType, LinkType
<1> QED BY <1>1, <1>2

LEMMA ProvisionedKeeps ==
    ASSUME LinksInv, NEW c \in Clients, At(c, "createVm"), Provisioned(c),
           UNCHANGED failures
    PROVE  LinksInv'
<1> DEFINE rows == {NewRow(c, d) : d \in op[c].details}
           s == [op[c] EXCEPT !.pc = "saveLinks", !.rows = rows]
           v == op[c].vm
           x == [vms[v] EXCEPT !.state = "stopped"]
<1>1. /\ op[c] \in OpType /\ OpSound(op[c]) /\ op[c].pc = "createVm" /\ v \in Vms
      /\ op[c].req \in Requests /\ op[c].req.kind = "create"
      /\ vms[v].state = "provisioning" /\ VmNamed(vms[v]) /\ vms[v] \in VmType
      /\ links' \in [Keys -> LinkType \cup {None}] /\ failures' \in 0 .. MaxFailures
  BY OpIs DEF At, OpSound, Known, HasVm, LinksInv, VmsSound, Provisioned
<1>2. rows \in SUBSET RowType
  BY NewRowsTyped
<1>3. op' = [op EXCEPT ![c] = Settled(s)]
  BY DEF Provisioned, Loop, Become
<1>4. vms' = [vms EXCEPT ![v] = x]
  BY DEF Provisioned
<1> HIDE DEF rows
<1>5. /\ s \in OpType /\ s.pc = "saveLinks" /\ s.req = op[c].req /\ s.vm = v
  BY <1>1, <1>2 DEF OpType, Pcs
<1> HIDE DEF s
<1>6. OpSound(s)
  BY <1>1, <1>5 DEF OpSound, Known, HasVm, Renaming, Removing, Looping, Saving
<1>7. /\ Settled(s) \in OpType /\ OpSound(Settled(s))
      /\ Settled(s).pc \notin {"createVm", "deleteVm"}
  BY <1>5, <1>6, SettledSound DEF Looping, Saving
<1> HIDE DEF Settled
<1>8. x \in VmType /\ x.state = "stopped" /\ VmNamed(x)
  BY <1>1 DEF VmType, States, VmNamed
<1> HIDE DEF x
<1>9. /\ vms' \in [Vms -> VmType] /\ vms'[v] = x
      /\ \A w \in Vms : w # v => vms'[w] = vms[w]
  BY <1>1, <1>4, <1>8, OpIs
<1>10. /\ \A w \in Vms : VmNamed(vms'[w])
       /\ \A w \in Vms : vms[w].state \notin Unborn => vms'[w].state \notin Unborn
       /\ \A w \in Vms : vms[w].state = "provisioning" /\ vms'[w].state # "provisioning"
             => w = v
  BY <1>8, <1>9 DEF LinksInv, VmsSound, Unborn
<1> QED BY <1>1, <1>3, <1>7, <1>9, <1>10, RequestStep

(* VMs whose states are those of a container that is there.                *)
LEMMA VmStep ==
    ASSUME LinksInv, NEW c \in Clients, NEW s \in OpType, OpSound(s),
           op' = [op EXCEPT ![c] = s], NEW v \in Vms, NEW x \in VmType,
           vms' = [vms EXCEPT ![v] = x], links' = links,
           failures' \in 0 .. MaxFailures, VmNamed(x),
           vms[v].state \notin Unborn => x.state \notin Unborn,
           vms[v].state = "provisioning" => x.state = "provisioning",
           s.pc \notin {"createVm", "deleteVm"}
    PROVE  LinksInv'
<1>1. /\ vms' \in [Vms -> VmType] /\ vms'[v] = x
      /\ \A w \in Vms : w # v => vms'[w] = vms[w]
      /\ links' \in [Keys -> LinkType \cup {None}]
  BY OpIs
<1>2. /\ \A w \in Vms : VmNamed(vms'[w])
      /\ \A w \in Vms : vms[w].state \notin Unborn => vms'[w].state \notin Unborn
      /\ \A w \in Vms : vms[w].state = "provisioning" => vms'[w].state = "provisioning"
  BY <1>1 DEF LinksInv, VmsSound
<1> QED BY <1>1, <1>2, RequestStep

LEMMA StartVmKeeps ==
    ASSUME LinksInv, NEW c \in Clients, At(c, "getLinkDetails"), StartVm(c),
           UNCHANGED failures
    PROVE  LinksInv'
<1> DEFINE v == op[c].vm
           needed == IF op[c].req.kind = "start" THEN "stopped" ELSE "running"
<1>1. /\ v \in Vms /\ links' = links /\ failures' \in 0 .. MaxFailures /\ End(c)
      /\ vms[v] \in VmType /\ VmNamed(vms[v]) /\ op' = [op EXCEPT ![c] = Idle]
  BY OpIs DEF At, OpSound, HasVm, StartVm, LinksInv, VmsSound, End, Become
<1>2. CASE vms[v].state # needed
  <2>1. vms' = vms
    BY <1>2 DEF StartVm
  <2> QED BY <1>1, <2>1, EndStep
<1>3. CASE vms[v].state = needed
  <2>1. PICK md \in SUBSET HostType :
          vms' = [vms EXCEPT ![v].state = "running", ![v].metadata = md]
    <3>1. vms[v].metadata \in SUBSET HostType /\ NewMetadata(c) \in SUBSET HostType
      BY <1>1, MetadataTyped DEF VmType
    <3>2. CASE NewMetadata(c) # op[c].seen.metadata
      <4>1. vms' = [vms EXCEPT ![v].state = "running", ![v].metadata = NewMetadata(c)]
        BY <1>3, <3>2 DEF StartVm
      <4> QED BY <3>1, <4>1
    <3>3. CASE ~(NewMetadata(c) # op[c].seen.metadata)
      <4>1. vms' = [vms EXCEPT ![v].state = "running", ![v].metadata = vms[v].metadata]
        BY <1>1, <1>3, <3>3, OpIs DEF StartVm, VmType
      <4> QED BY <3>1, <4>1
    <3> QED BY <3>2, <3>3
  <2> DEFINE x == [vms[v] EXCEPT !.state = "running", !.metadata = md]
  <2>2. vms' = [vms EXCEPT ![v] = x]
    BY <1>1, <2>1, OpIs DEF VmType
  <2>3. needed \in {"stopped", "running"}
    OBVIOUS
  <2>4. x \in VmType /\ x.state = "running" /\ x.name \in Names
    BY <1>1, <1>3, <2>3 DEF VmType, States, VmNamed
  <2> HIDE DEF x, v, needed
  <2>5. vms[v].state # "provisioning" /\ VmNamed(x) /\ x.state \notin Unborn
    BY <1>3, <2>3, <2>4 DEF VmNamed, Unborn
  <2> QED BY <1>1, <2>2, <2>4, <2>5, IdleSound, VmStep
<1> QED BY <1>2, <1>3

-----------------------------------------------------------------------------
(* rename, rm and rm --link.                                               *)

(* A request goes to another pc with the rows it found, if any.            *)
LEMMA GoStep ==
    ASSUME LinksInv, NEW c \in Clients, NEW pc \in {"findContainerLinks",
             "findTargettingLinks", "findSourceLinks"},
           NEW rows \in SUBSET RowType,
           rows = {} \/ pc = "findSourceLinks",
           op' = [op EXCEPT ![c] = [op[c] EXCEPT !.pc = pc, !.rows = rows]],
           op[c].req \in Requests, op[c].vm \in Vms,
           op[c].req.kind = IF pc = "findContainerLinks" THEN "rename" ELSE "rm",
           links' = links, failures' \in 0 .. MaxFailures,
           NEW x \in VmType, vms' = [vms EXCEPT ![op[c].vm] = x], VmNamed(x),
           vms[op[c].vm].state \notin Unborn => x.state \notin Unborn,
           vms[op[c].vm].state = "provisioning" => x.state = "provisioning"
    PROVE  LinksInv'
<1> DEFINE s == [op[c] EXCEPT !.pc = pc, !.rows = rows]
<1>1. s \in OpType /\ s.pc = pc /\ s.req = op[c].req /\ s.vm = op[c].vm /\ s.rows = rows
  BY OpIs DEF OpType, Pcs
<1>2. op' = [op EXCEPT ![c] = s]
  OBVIOUS
<1> HIDE DEF s
<1>3. OpSound(s)
  BY <1>1 DEF OpSound, Known, HasVm, Renaming, Removing, Looping, Saving
<1> QED BY <1>1, <1>2, <1>3, VmStep

LEMMA UpdateVmKeeps ==
    ASSUME LinksInv, NEW c \in Clients, At(c, "updateVm"), UpdateVm(c),
           UNCHANGED failures
    PROVE  LinksInv'
<1> DEFINE v == op[c].vm
           n == op[c].req.name
<1>1. /\ v \in Vms /\ op[c].req \in Requests /\ op[c].req.kind = "rename"
      /\ op[c].rows = {} /\ op[c] \in OpType /\ vms[v] \in VmType
      /\ links' = links /\ failures' \in 0 .. MaxFailures
  BY OpIs DEF At, OpSound, Known, HasVm, Looping, Saving, Renaming, UpdateVm
<1>2. n \in Names
  BY <1>1, RequestTyped
<1>3. CASE End(c) /\ UNCHANGED vms
  BY <1>1, <1>3, EndStep
<1>4. CASE /\ vms' = [vms EXCEPT ![v].name = n]
           /\ op' = [op EXCEPT ![c] = [op[c] EXCEPT !.pc = "findContainerLinks"]]
  <2> DEFINE x == [vms[v] EXCEPT !.name = n]
  <2>1. x \in VmType /\ x.state = vms[v].state /\ VmNamed(x)
    BY <1>1, <1>2 DEF VmType, VmNamed
  <2>2. vms' = [vms EXCEPT ![v] = x]
    BY <1>4
  <2>3. [op[c] EXCEPT !.pc = "findContainerLinks"]
          = [op[c] EXCEPT !.pc = "findContainerLinks", !.rows = {}]
    BY <1>1 DEF OpType
  <2> HIDE DEF x
  <2>4. {} \in SUBSET RowType
    OBVIOUS
  <2> QED BY <1>1, <1>4, <2>1, <2>2, <2>3, <2>4, GoStep
<1> HIDE DEF v, n
<1> QED BY <1>3, <1>4 DEF UpdateVm, Become, v, n

LEMMA RowsRenamed ==
    ASSUME LinksInv, NEW v, NEW n \in Names
    PROVE  /\ {[m EXCEPT !.row.container_name = n] : m \in RowsOf(v)} \in SUBSET RowType
           /\ {[m EXCEPT !.row.target_name = n] : m \in RowsTo(v)} \in SUBSET RowType
<1>1. \A m \in RowType : /\ [m EXCEPT !.row.container_name = n] \in RowType
                         /\ [m EXCEPT !.row.target_name = n] \in RowType
  BY DEF RowType, LinkType
<1> QED BY <1>1, RowsAre

LEMMA RenameLoopsKeep ==
    ASSUME LinksInv, NEW c \in Clients, UNCHANGED failures,
           \/ At(c, "findContainerLinks") /\ FindContainerLinks(c)
           \/ At(c, "findTargetLinks") /\ FindTargetLinks(c)
    PROVE  LinksInv'
<1>1. /\ op[c].vm \in Vms /\ op[c].req \in Requests /\ op[c].req.kind = "rename"
      /\ op[c].req.name \in Names
      /\ vms' = vms /\ links' \in [Keys -> LinkType \cup {None}]
      /\ failures' \in 0 .. MaxFailures
  BY OpIs, RequestTyped DEF At, OpSound, Known, HasVm, Looping, Saving, Renaming,
     FindContainerLinks, FindTargetLinks
<1>2. PICK pc \in {"updateContainerLinks", "updateTargetLinks"}, rows \in SUBSET RowType :
        Loop(c, pc, rows)
  BY <1>1, RowsRenamed DEF FindContainerLinks, FindTargetLinks
<1>3. pc \in Looping
  BY DEF Looping, Saving
<1> HIDE DEF Loop
<1> QED BY <1>1, <1>2, <1>3, LoopStep

LEMMA InLoop ==
    ASSUME LinksInv, NEW c \in Clients, op[c].pc \in Looping
    PROVE  /\ op[c].vm \in Vms /\ op[c].req \in Requests
           /\ op[c].rows \in SUBSET RowType
           /\ op[c].pc \in Renaming => op[c].req.kind = "rename"
           /\ op[c].pc = "delLinks" => op[c].req.kind \in {"rm", "rmlink"}
           /\ op[c].pc = "saveLinks" => op[c].req.kind = "create"
  BY OpIs DEF OpSound, Known, HasVm, Looping, Saving, OpType

LEMMA SaveLinkKeeps ==
    ASSUME LinksInv, NEW c \in Clients, op[c].pc \in Saving, SaveLink(c),
           UNCHANGED failures
    PROVE  LinksInv'
<1>1. PICK m \in op[c].rows : /\ links' = [links EXCEPT ![m.key] = m.row]
                              /\ Loop(c, op[c].pc, op[c].rows \ {m})
                              /\ vms' = vms
  BY DEF SaveLink
<1>2. op[c].pc \in Looping
  BY DEF Looping
<1>3. m \in RowType /\ op[c].rows \ {m} \in SUBSET RowType
  BY <1>2, InLoop
<1>4. links' \in [Keys -> LinkType \cup {None}] /\ failures' \in 0 .. MaxFailures
  BY <1>1, <1>3, OpIs DEF RowType
<1> HIDE DEF Loop
<1> QED BY <1>1, <1>2, <1>3, <1>4, InLoop, LoopStep

LEMMA DelLinkKeeps ==
    ASSUME LinksInv, NEW c \in Clients, At(c, "delLinks"), DelLink(c),
           UNCHANGED failures
    PROVE  LinksInv'
<1>1. PICK m \in op[c].rows : /\ links' = [links EXCEPT ![m.key] = None]
                              /\ Loop(c, "delLinks", op[c].rows \ {m})
                              /\ vms' = vms
  BY DEF DelLink
<1>2. op[c].pc \in Looping /\ op[c].pc = "delLinks" /\ "delLinks" \in Looping
  BY DEF Looping, At
<1>3. op[c].rows \ {m} \in SUBSET RowType
  BY <1>2, InLoop
<1>4. links' \in [Keys -> LinkType \cup {None}] /\ failures' \in 0 .. MaxFailures
  BY <1>1, OpIs
<1>5. "delLinks" \notin Renaming
  BY DEF Renaming
<1> HIDE DEF Loop
<1> QED BY <1>1, <1>2, <1>3, <1>4, <1>5, InLoop, LoopStep

LEMMA DeleteVmKeeps ==
    ASSUME LinksInv, NEW c \in Clients, At(c, "deleteVm"), DeleteVm(c),
           UNCHANGED failures
    PROVE  LinksInv'
<1> DEFINE v == op[c].vm
           x == [state |-> "destroyed", name |-> None, metadata |-> {}]
<1>1. /\ v \in Vms /\ op[c].req \in Requests /\ op[c].req.kind = "rm"
      /\ op[c].rows = {} /\ op[c] \in OpType /\ vms[v].state \notin Unborn
      /\ links' = links /\ failures' \in 0 .. MaxFailures
  BY OpIs DEF At, OpSound, Known, HasVm, Looping, Saving, Removing, DeleteVm,
     LinksInv, VmsSound
<1>2. CASE End(c) /\ UNCHANGED vms
  BY <1>1, <1>2, EndStep
<1>3. CASE /\ vms' = [vms EXCEPT ![v] = x]
           /\ op' = [op EXCEPT ![c] = [op[c] EXCEPT !.pc = "findTargettingLinks"]]
  <2>1. x \in VmType /\ VmNamed(x) /\ x.state \notin Unborn
    BY DEF VmType, VmNamed, States, Unborn
  <2>2. [op[c] EXCEPT !.pc = "findTargettingLinks"]
          = [op[c] EXCEPT !.pc = "findTargettingLinks", !.rows = {}]
    BY <1>1 DEF OpType
  <2>3. {} \in SUBSET RowType
    OBVIOUS
  <2>4. vms[v].state # "provisioning"
    BY <1>1 DEF Unborn
  <2> HIDE DEF x
  <2> QED BY <1>1, <1>3, <2>1, <2>2, <2>3, <2>4, GoStep
<1> HIDE DEF v
<1> QED BY <1>2, <1>3 DEF DeleteVm, Become, v

LEMMA FindTargettingLinksKeeps ==
    ASSUME LinksInv, NEW c \in Clients, At(c, "findTargettingLinks"),
           failures' \in 0 .. MaxFailures, vms' = vms, links' = links,
           NEW rows \in SUBSET RowType,
           op' = [op EXCEPT ![c] = [op[c] EXCEPT !.pc = "findSourceLinks", !.rows = rows]]
    PROVE  LinksInv'
<1> DEFINE v == op[c].vm
<1>1. /\ v \in Vms /\ op[c].req \in Requests /\ op[c].req.kind = "rm"
      /\ vms[v] \in VmType /\ VmNamed(vms[v])
  BY OpIs DEF At, OpSound, Known, HasVm, Looping, Saving, Removing, LinksInv, VmsSound
<1>2. vms' = [vms EXCEPT ![v] = vms[v]]
  BY OpIs
<1> HIDE DEF v
<1>3. rows = {} \/ "findSourceLinks" = "findSourceLinks"
  OBVIOUS
<1> QED BY <1>1, <1>2, <1>3, GoStep DEF v

LEMMA DelLinksLoop ==
    ASSUME LinksInv, NEW c \in Clients, NEW rows \in SUBSET RowType,
           At(c, "findSourceLinks") \/ At(c, "findLink"),
           Loop(c, "delLinks", rows), vms' = vms, links' = links,
           failures' \in 0 .. MaxFailures
    PROVE  LinksInv'
<1>1. /\ op[c].vm \in Vms /\ op[c].req \in Requests
      /\ op[c].req.kind \in {"rm", "rmlink"}
      /\ links' \in [Keys -> LinkType \cup {None}]
  BY OpIs DEF At, OpSound, Known, HasVm, Looping, Saving, Removing
<1>2. "delLinks" \in Looping /\ "delLinks" \notin Renaming
  BY DEF Looping, Renaming
<1> HIDE DEF Loop
<1> QED BY <1>1, <1>2, LoopStep

LEMMA FindingKeeps ==
    ASSUME LinksInv, NEW c \in Clients, UNCHANGED failures,
           \/ At(c, "findTargettingLinks") /\ FindTargettingLinks(c)
           \/ At(c, "findSourceLinks") /\ FindSourceLinks(c)
           \/ At(c, "findLink") /\ FindLink(c)
    PROVE  LinksInv'
<1>1. /\ vms' = vms /\ links' = links /\ failures' \in 0 .. MaxFailures
      /\ op[c].rows \in SUBSET RowType
  BY OpIs DEF FindTargettingLinks, FindSourceLinks, FindLink, OpType
<1>2. RowsOf(op[c].vm) \in SUBSET RowType /\ RowsTo(op[c].vm) \in SUBSET RowType
  BY RowsAre
<1>3. CASE At(c, "findTargettingLinks") /\ FindTargettingLinks(c)
  <2>1. op' = [op EXCEPT ![c] = [op[c] EXCEPT !.pc = "findSourceLinks",
                                              !.rows = RowsTo(op[c].vm)]]
    BY <1>3 DEF FindTargettingLinks, Become
  <2> QED BY <1>1, <1>2, <1>3, <2>1, FindTargettingLinksKeeps
<1>4. CASE At(c, "findSourceLinks") /\ FindSourceLinks(c)
  <2>1. op[c].rows \cup RowsOf(op[c].vm) \in SUBSET RowType
    BY <1>1, <1>2
  <2> QED BY <1>1, <1>4, <2>1, DelLinksLoop DEF FindSourceLinks
<1>5. CASE At(c, "findLink") /\ FindLink(c)
  <2>1. {m \in RowsOf(op[c].vm) : m.key[2] = op[c].req.alias} \in SUBSET RowType
    BY <1>2
  <2> QED BY <1>1, <1>5, <2>1, DelLinksLoop DEF FindLink
<1> QED BY <1>3, <1>4, <1>5

-----------------------------------------------------------------------------
(* Calls that fail, containers that end, and the beginning.                *)

LEMMA FailedRowKeeps ==
    ASSUME LinksInv, NEW c \in Clients, op[c].pc \in Looping, FailedRow(c),
           vms' = vms, links' = links, failures' \in 0 .. MaxFailures
    PROVE  LinksInv'
<1>1. PICK m \in op[c].rows :
        op' = [op EXCEPT ![c] = Settled([op[c] EXCEPT !.rows = @ \ {m}, !.err = TRUE])]
  BY DEF FailedRow, Become
<1> DEFINE s == [op[c] EXCEPT !.rows = @ \ {m}, !.err = TRUE]
<1>2. op[c] \in OpType /\ OpSound(op[c])
  BY OpIs
<1>3. /\ s \in OpType /\ s.pc = op[c].pc /\ s.req = op[c].req /\ s.vm = op[c].vm
      /\ s.seen = op[c].seen
  BY <1>2 DEF OpType
<1>4. op' = [op EXCEPT ![c] = Settled(s)]
  BY <1>1
<1> HIDE DEF s
<1>5. OpSound(s)
  BY <1>2, <1>3 DEF OpSound, Known, HasVm, Looping, Saving
<1>6. /\ Settled(s) \in OpType /\ OpSound(Settled(s))
      /\ Settled(s).pc \notin {"createVm", "deleteVm"}
  BY <1>3, <1>5, SettledSound
<1> HIDE DEF Settled
<1>7. links' \in [Keys -> LinkType \cup {None}]
  BY OpIs
<1> QED BY <1>4, <1>6, <1>7, QuietStep

LEMMA FailKeeps ==
    ASSUME LinksInv, NEW c \in Clients, ~At(c, "idle"), Fail(c)
    PROVE  LinksInv'
<1>1. /\ links' = links /\ failures' \in 0 .. MaxFailures
      /\ op[c] \in OpType /\ OpSound(op[c])
      /\ links' \in [Keys -> LinkType \cup {None}]
  BY OpIs, LinksAssumption DEF Fail
<1>2. CASE op[c].pc \in Looping
  <2>1. FailedRow(c) /\ vms' = vms
    BY <1>2 DEF Fail, Looping, At, Saving
  <2> QED BY <1>1, <1>2, <2>1, FailedRowKeeps
<1>3. CASE op[c].pc = "findTargettingLinks"
  <2>1. /\ op' = [op EXCEPT ![c] = [op[c] EXCEPT !.pc = "findSourceLinks"]]
        /\ vms' = vms
    BY <1>3 DEF Fail, At, Saving, Become
  <2>2. [op[c] EXCEPT !.pc = "findSourceLinks"]
          = [op[c] EXCEPT !.pc = "findSourceLinks", !.rows = {}]
    <3>1. op[c].rows = {}
      BY <1>1, <1>3 DEF OpSound, HasVm, Looping, Saving
    <3> QED BY <1>1, <3>1 DEF OpType
  <2>3. {} \in SUBSET RowType /\ At(c, "findTargettingLinks")
    BY <1>3 DEF At
  <2>4. op' = [op EXCEPT ![c] = [op[c] EXCEPT !.pc = "findSourceLinks", !.rows = {}]]
    BY <2>1, <2>2
  <2> QED BY <1>1, <2>1, <2>3, <2>4, FindTargettingLinksKeeps
<1>4. CASE op[c].pc = "findSourceLinks"
  <2>1. Loop(c, "delLinks", op[c].rows) /\ vms' = vms /\ At(c, "findSourceLinks")
    BY <1>4 DEF Fail, At, Saving
  <2>2. op[c].rows \in SUBSET RowType
    BY <1>1 DEF OpType
  <2> QED BY <1>1, <2>1, <2>2, DelLinksLoop
<1>5. CASE op[c].pc \notin Looping \cup {"findTargettingLinks", "findSourceLinks"}
  <2>1. End(c)
    BY <1>5 DEF Fail, Looping
  <2>2. CASE op[c].pc # "createVm"
    <3>1. vms' = vms
      BY <2>2 DEF Fail, At
    <3> QED BY <1>1, <2>1, <3>1, EndStep
  <2>3. CASE op[c].pc = "createVm"
    <3> DEFINE v == op[c].vm
               x == [state |-> "destroyed", name |-> None, metadata |-> {}]
    <3>1. vms' = [vms EXCEPT ![v] = x] /\ v \in Vms
      BY <1>1, <2>3 DEF Fail, At, OpSound, HasVm, Looping, Saving
    <3>2. x \in VmType /\ VmNamed(x) /\ x.state \notin Unborn /\ x.state # "provisioning"
      BY DEF VmType, VmNamed, States, Unborn
    <3> HIDE DEF x
    <3>3. /\ vms' \in [Vms -> VmType] /\ vms'[v] = x
          /\ \A w \in Vms : w # v => vms'[w] = vms[w]
      BY <3>1, <3>2, OpIs
    <3>4. /\ \A w \in Vms : VmNamed(vms'[w])
          /\ \A w \in Vms : vms[w].state \notin Unborn => vms'[w].state \notin Unborn
          /\ \A w \in Vms : vms[w].state = "provisioning"
                               /\ vms'[w].state # "provisioning" => w = v
      BY <3>2, <3>3 DEF LinksInv, VmsSound
    <3>5. op' = [op EXCEPT ![c] = Idle]
      BY <2>1 DEF End, Become
    <3> QED BY <1>1, <2>3, <3>3, <3>4, <3>5, IdleSound, RequestStep
  <2> QED BY <2>2, <2>3
<1> QED BY <1>2, <1>3, <1>4, <1>5

LEMMA VmStopsKeeps == ASSUME LinksInv, VmStops PROVE LinksInv'
<1>1. PICK v \in Vms : /\ vms[v].state = "running"
                       /\ vms' = [vms EXCEPT ![v].state = "stopped"]
                       /\ UNCHANGED <<links, op, failures>>
  BY DEF VmStops
<1> DEFINE x == [vms[v] EXCEPT !.state = "stopped"]
<1>2. vms[v] \in VmType /\ VmNamed(vms[v]) /\ vms \in [Vms -> VmType]
  BY DEF LinksInv, TypeOK, VmsSound
<1>3. x \in VmType /\ VmNamed(x) /\ x.state = "stopped"
  BY <1>1, <1>2 DEF VmType, VmNamed, States
<1>4. vms' = [vms EXCEPT ![v] = x]
  BY <1>1
<1> HIDE DEF x
<1>5. /\ vms' \in [Vms -> VmType] /\ vms'[v] = x
      /\ \A w \in Vms : w # v => vms'[w] = vms[w]
  BY <1>2, <1>3, <1>4
<1>6. TypeOK' /\ \A c \in Clients : OpSound(op'[c])
  BY <1>1, <1>5 DEF LinksInv, TypeOK
<1>7. VmsSound'
  <2>1. \A c \in Clients : op[c].pc \in {"createVm", "deleteVm"} => op[c].vm \in Vms
    BY OpIs DEF OpSound, HasVm
  <2>2. /\ \A w \in Vms : VmNamed(vms'[w])
        /\ \A w \in Vms : vms[w].state \notin Unborn => vms'[w].state \notin Unborn
        /\ \A w \in Vms : vms[w].state = "provisioning" => vms'[w].state = "provisioning"
    BY <1>1, <1>3, <1>5 DEF LinksInv, VmsSound, Unborn
  <2> QED BY <1>1, <2>1, <2>2 DEF LinksInv, VmsSound
<1> QED BY <1>6, <1>7 DEF LinksInv

LEMMA InitHolds == ASSUME Init PROVE LinksInv
<1>1. PICK names \in [Vms -> Names \cup {None}], up \in SUBSET Vms,
           target \in [Keys -> Vms \cup {None}] :
        /\ LeftAlone(names, up, target)
        /\ links = [k \in Keys |->
              IF target[k] = None THEN None
              ELSE [container_name |-> names[k[1]], target_uuid |-> target[k],
                    target_name |-> names[target[k]]]]
        /\ vms = [v \in Vms |->
              [state |-> IF names[v] = None THEN "none"
                         ELSE IF v \in up THEN "running" ELSE "stopped",
               name |-> names[v],
               metadata |->
                 {[alias |-> k[2], target |-> target[k],
                   target_name |-> names[target[k]],
                   container_name |-> names[v]] :
                     k \in {k \in Keys : k[1] = v /\ target[k] # None}}]]
  BY DEF Init
<1>2. \A k \in Keys : target[k] # None =>
        /\ names[k[1]] \in Names /\ target[k] \in Vms /\ names[target[k]] \in Names
        /\ k[1] \in Vms /\ k[2] \in Aliases
  <2>1. ASSUME NEW k \in Keys, target[k] # None
        PROVE  /\ names[k[1]] \in Names /\ target[k] \in Vms
               /\ names[target[k]] \in Names /\ k[1] \in Vms /\ k[2] \in Aliases
    <3>1. k[1] \in Vms /\ k[2] \in Aliases /\ target[k] \in Vms
      BY <2>1 DEF Keys
    <3>2. names[k[1]] # None /\ names[target[k]] # None
      BY <1>1, <2>1 DEF LeftAlone
    <3> QED BY <3>1, <3>2
  <2> QED BY <2>1
<1>3. links \in [Keys -> LinkType \cup {None}]
  <2> DEFINE row(k) == [container_name |-> names[k[1]], target_uuid |-> target[k],
                        target_name |-> names[target[k]]]
  <2>1. \A k \in Keys : target[k] # None => row(k) \in LinkType
    BY <1>2 DEF LinkType
  <2>2. links = [k \in Keys |-> IF target[k] = None THEN None ELSE row(k)]
    BY <1>1
  <2> HIDE DEF row
  <2> QED BY <2>1, <2>2
<1>4. vms \in [Vms -> VmType] /\ \A v \in Vms : VmNamed(vms[v])
  <2> DEFINE state(v) == IF names[v] = None THEN "none"
                         ELSE IF v \in up THEN "running" ELSE "stopped"
             hosts(v) ==
                 {[alias |-> k[2], target |-> target[k],
                   target_name |-> names[target[k]],
                   container_name |-> names[v]] :
                     k \in {k \in Keys : k[1] = v /\ target[k] # None}}
             x(v) == [state |-> state(v), name |-> names[v], metadata |-> hosts(v)]
  <2>1. ASSUME NEW v \in Vms PROVE hosts(v) \in SUBSET HostType
    <3>1. \A k \in {k \in Keys : k[1] = v /\ target[k] # None} :
            [alias |-> k[2], target |-> target[k],
             target_name |-> names[target[k]], container_name |-> names[v]] \in HostType
      BY <1>2 DEF HostType
    <3> QED BY <3>1
  <2>2. \A v \in Vms : /\ state(v) \in States
                       /\ state(v) \notin {"none", "destroyed"} => names[v] \in Names
    BY DEF States
  <2>3. vms = [v \in Vms |-> x(v)]
    BY <1>1
  <2> HIDE DEF state, hosts
  <2>4. \A v \in Vms : x(v) \in VmType /\ VmNamed(x(v))
    BY <2>1, <2>2 DEF VmType, VmNamed
  <2> HIDE DEF x
  <2> QED BY <2>3, <2>4
<1>5. op = [c \in Clients |-> Idle] /\ failures = 0
  BY DEF Init
<1>6. TypeOK /\ \A c \in Clients : OpSound(op[c]) /\ op[c].pc = "idle"
  BY <1>3, <1>4, <1>5, IdleSound, LinksAssumption DEF TypeOK
<1>7. VmsSound
  BY <1>4, <1>6 DEF VmsSound
<1> QED BY <1>6, <1>7 DEF LinksInv

LEMMA ServeKeeps ==
    ASSUME LinksInv, NEW c \in Clients, Serve(c) PROVE LinksInv'
<1>1. UNCHANGED failures /\ failures' \in 0 .. MaxFailures
  BY OpIs DEF Serve
<1>2. \/ At(c, "getVm") /\ GetVm(c)
      \/ At(c, "findLinks") /\ FindLinks(c)
      \/ /\ At(c, "getLinkDetails")
         /\ GetLinkDetail(c) \/ CreateVm(c) \/ StartVm(c)
      \/ At(c, "createVm") /\ Provisioned(c)
      \/ At(c, "updateVm") /\ UpdateVm(c)
      \/ At(c, "findContainerLinks") /\ FindContainerLinks(c)
      \/ At(c, "findTargetLinks") /\ FindTargetLinks(c)
      \/ op[c].pc \in Saving /\ SaveLink(c)
      \/ At(c, "deleteVm") /\ DeleteVm(c)
      \/ At(c, "findTargettingLinks") /\ FindTargettingLinks(c)
      \/ At(c, "findSourceLinks") /\ FindSourceLinks(c)
      \/ At(c, "findLink") /\ FindLink(c)
      \/ At(c, "delLinks") /\ DelLink(c)
  BY DEF Serve
<1> QED BY <1>1, <1>2, GetVmKeeps, FindLinksKeeps, GetLinkDetailKeeps, CreateVmKeeps,
           StartVmKeeps, ProvisionedKeeps, UpdateVmKeeps, RenameLoopsKeep,
           SaveLinkKeeps, DeleteVmKeeps, FindingKeeps, DelLinkKeeps

LEMMA StepHolds == ASSUME LinksInv, [Next]_vars PROVE LinksInv'
<1>1. CASE UNCHANGED vars
  BY <1>1 DEF vars, LinksInv, TypeOK, VmsSound
<1>2. CASE Next
  BY <1>2, StartKeeps, ServeKeeps, FailKeeps, VmStopsKeeps DEF Next
<1> QED BY <1>1, <1>2

LEMMA InvariantHolds == Spec => []LinksInv
<1>1. Init => LinksInv
  BY InitHolds
<1>2. LinksInv /\ [Next]_vars => LinksInv'
  BY StepHolds
<1> QED BY <1>1, <1>2, PTL DEF Spec

(* The VMs, the rows and the requests under way have their types in every  *)
(* state, whatever requests interleave and whatever calls fail.            *)
THEOREM LinksTypeCorrect == Spec => []TypeOK
<1>1. LinksInv => TypeOK
  BY DEF LinksInv
<1> QED BY <1>1, InvariantHolds, PTL

-----------------------------------------------------------------------------
(* Rows of destroyed containers, where nobody creates or renames.          *)
OnlyStartsAndRemovals ==
    \A r \in Requests : r.kind \in {"start", "restart", "rm", "rmlink"}

Deleting(s, v, k) ==
    /\ s.vm = v /\ s.req.kind = "rm"
    /\ \/ s.pc = "findTargettingLinks"
       \/ s.pc = "findSourceLinks" /\ k[1] = v
       \/ k \in {m.key : m \in s.rows}
Ends(k) == {k[1], links[k].target_uuid}
Left == {v \in Vms : Missed(v)}
Bounded == IsFiniteSet(Left) /\ Cardinality(Left) <= failures
LeftInv == LinksInv /\ Bounded

LEMMA MissedIs ==
    ASSUME NEW v
    PROVE  Missed(v) <=> /\ ~Listed(v)
                         /\ \E k \in Rows : /\ v \in Ends(k)
                                            /\ \A c \in Clients : ~Deleting(op[c], v, k)
  BY DEF Missed, StillToDelete, Deleting, Ends, At

(* Nothing is missed by a step that keeps what its request has to delete,  *)
(* and makes no row.                                                       *)
LEMMA StepMissesNothing ==
    ASSUME LinksInv, NEW c \in Clients, NEW s, op' = [op EXCEPT ![c] = s],
           Rows' \subseteq Rows, \A k \in Rows' : links'[k] = links[k],
           \A v \in Vms : ~Listed(v)' =>
              ~Listed(v) \/ (\A k : Deleting(s, v, k)),
           \A v \in Vms, k \in Rows' :
              v \in Ends(k) /\ Deleting(op[c], v, k) => Deleting(s, v, k)
    PROVE  Left' \subseteq Left
<1>1. \A d \in Clients : op'[d] = IF d = c THEN s ELSE op[d]
  BY OpIs
<1>2. ASSUME NEW v \in Vms, Missed(v)' PROVE Missed(v)
  <2>1. PICK k \in Rows' : /\ v \in {k[1], links'[k].target_uuid} /\ ~Listed(v)'
                           /\ \A d \in Clients : ~Deleting(op'[d], v, k)
    BY <1>2 DEF Missed, StillToDelete, Deleting, At
  <2>2. k \in Rows /\ v \in Ends(k)
    BY <2>1 DEF Ends
  <2>3. ~Deleting(s, v, k)
    BY <1>1, <2>1
  <2>4. ~Listed(v)
    BY <2>1, <2>3
  <2>5. \A d \in Clients : ~Deleting(op[d], v, k)
    BY <1>1, <2>1, <2>2, <2>3
  <2> QED BY <2>2, <2>4, <2>5, MissedIs
<1> QED BY <1>2 DEF Left

LEMMA BoundedKept ==
    ASSUME Bounded, Left' \subseteq Left, failures' = failures, failures \in Nat
    PROVE  Bounded'
<1>1. IsFiniteSet(Left') /\ Cardinality(Left') <= Cardinality(Left)
  BY FS_Subset DEF Bounded
<1>2. Cardinality(Left') \in Nat /\ Cardinality(Left) \in Nat
  BY <1>1, FS_CardinalityType DEF Bounded
<1> QED BY <1>1, <1>2 DEF Bounded

LEMMA KindsAre ==
    ASSUME OnlyStartsAndRemovals, LinksInv, NEW c \in Clients
    PROVE  /\ op[c].pc \notin Renaming \cup {"createVm", "saveLinks"}
           /\ op[c].pc # "idle" => /\ op[c].req \in Requests
                                   /\ op[c].req.kind # "create"
           /\ op[c].pc \in Removing => op[c].req.kind = "rm"
           /\ op[c].pc \in {"findLinks", "getLinkDetails"}
                => op[c].req.kind \in {"start", "restart"}
           /\ op[c].pc = "findLink" => op[c].req.kind = "rmlink"
<1>1. Known(op[c])
  BY OpIs DEF OpSound
<1>2. op[c].pc # "idle" => op[c].req \in Requests /\ op[c].req.kind # "create"
                              /\ op[c].req.kind # "rename"
  BY <1>1 DEF Known, OnlyStartsAndRemovals
<1> QED BY <1>1, <1>2 DEF Known, Renaming

(* A request that has nothing to delete yet, or never.                     *)
LEMMA NotDeleting ==
    ASSUME LinksInv, NEW c \in Clients,
           \/ op[c].pc \notin {"findTargettingLinks", "findSourceLinks"} \cup Looping
           \/ op[c].req.kind # "rm",
           NEW v \in Vms, NEW k
    PROVE  ~Deleting(op[c], v, k)
  BY OpIs DEF OpSound, HasVm, Deleting

LEMMA OthersMissNothing ==
    ASSUME OnlyStartsAndRemovals, LinksInv, NEW c \in Clients,
           \/ At(c, "idle") /\ Start(c)
           \/ At(c, "getVm") /\ GetVm(c)
           \/ At(c, "findLinks") /\ FindLinks(c)
           \/ /\ At(c, "getLinkDetails")
              /\ GetLinkDetail(c) \/ CreateVm(c) \/ StartVm(c)
           \/ At(c, "findLink") /\ FindLink(c)
    PROVE  Left' \subseteq Left
<1>1. PICK s : op' = [op EXCEPT ![c] = s]
  BY DEF Start, GetVm, FindLinks, GetLinkDetail, CreateVm, StartVm, FindLink, End,
     Become, Loop
<1>2. links' = links
  BY DEF Start, GetVm, FindLinks, GetLinkDetail, CreateVm, StartVm, FindLink
<1>3. \A v \in Vms : \A k : ~Deleting(op[c], v, k)
  BY NotDeleting, KindsAre DEF At, Looping, Saving
<1>4. \A v \in Vms : ~Listed(v)' => ~Listed(v)
  <2>1. CASE vms' = vms
    BY <2>1 DEF Listed
  <2>2. CASE vms' # vms
    <3>1. At(c, "getLinkDetails") /\ StartVm(c)
      BY <2>2, KindsAre DEF Start, GetVm, FindLinks, GetLinkDetail, CreateVm, FindLink, At
    <3>2. op[c].vm \in Vms /\ vms[op[c].vm] \in VmType /\ vms \in [Vms -> VmType]
      BY <3>1, KindsAre, OpIs DEF At, OpSound, HasVm
    <3>3. /\ \A w \in Vms : w # op[c].vm => vms'[w] = vms[w]
          /\ vms'[op[c].vm].state \in {"running", vms[op[c].vm].state}
      BY <3>1, <3>2 DEF StartVm, VmType
    <3> QED BY <3>2, <3>3 DEF Listed
  <2> QED BY <2>1, <2>2
<1>5. Rows' = Rows
  BY <1>2 DEF Rows
<1> QED BY <1>1, <1>2, <1>3, <1>4, <1>5, StepMissesNothing

LEMMA DeleteVmMissesNothing ==
    ASSUME LinksInv, NEW c \in Clients, At(c, "deleteVm"), DeleteVm(c)
    PROVE  Left' \subseteq Left
<1>1. /\ links' = links /\ Rows' = Rows /\ op[c].vm \in Vms /\ op[c].req.kind = "rm"
      /\ vms \in [Vms -> VmType] /\ op[c] \in OpType
  BY OpIs DEF DeleteVm, Rows, At, OpSound, Known, HasVm, Removing, Looping, Saving
<1>2. \A v \in Vms : \A k : ~Deleting(op[c], v, k)
  BY NotDeleting DEF At, Looping, Saving
<1>3. CASE Listed(op[c].vm)
  <2> DEFINE s == [op[c] EXCEPT !.pc = "findTargettingLinks"]
  <2>1. op' = [op EXCEPT ![c] = s]
    BY <1>3 DEF DeleteVm, Become
  <2>2. \A w \in Vms : w # op[c].vm => vms'[w] = vms[w]
    BY <1>1, <1>3 DEF DeleteVm
  <2>3. s.vm = op[c].vm /\ s.req = op[c].req /\ s.pc = "findTargettingLinks"
    BY <1>1 DEF OpType
  <2> HIDE DEF s
  <2>4. \A v \in Vms : ~Listed(v)' => ~Listed(v) \/ (\A k : Deleting(s, v, k))
    BY <1>1, <2>2, <2>3 DEF Listed, Deleting
  <2> QED BY <1>1, <1>2, <2>1, <2>4, StepMissesNothing
<1>4. CASE ~Listed(op[c].vm)
  <2>1. op' = [op EXCEPT ![c] = Idle] /\ vms' = vms
    BY <1>4 DEF DeleteVm, End, Become
  <2>2. \A v \in Vms : ~Listed(v)' => ~Listed(v)
    BY <2>1 DEF Listed
  <2> QED BY <1>1, <1>2, <2>1, <2>2, StepMissesNothing
<1> QED BY <1>3, <1>4

LEMMA FoundRows ==
    ASSUME NEW v, NEW k \in Rows
    PROVE  /\ k[1] = v => k \in {m.key : m \in RowsOf(v)}
           /\ links[k].target_uuid = v => k \in {m.key : m \in RowsTo(v)}
<1> DEFINE m == [key |-> k, row |-> links[k]]
<1>1. m.key = k
  OBVIOUS
<1>2. /\ k[1] = v => m \in RowsOf(v)
      /\ links[k].target_uuid = v => m \in RowsTo(v)
  BY DEF RowsOf, RowsTo, Found
<1> HIDE DEF m
<1> QED BY <1>1, <1>2

LEMMA LoopKeepsRows ==
    ASSUME LinksInv, NEW c \in Clients, NEW rows \in SUBSET RowType, rows # {},
           Loop(c, "delLinks", rows)
    PROVE  \E s \in OpType : /\ op' = [op EXCEPT ![c] = s]
                             /\ s.pc = "delLinks" /\ s.rows = rows
                             /\ s.vm = op[c].vm /\ s.req = op[c].req
<1> DEFINE s == [op[c] EXCEPT !.pc = "delLinks", !.rows = rows]
<1>1. s \in OpType /\ s.pc = "delLinks" /\ s.rows = rows /\ s.vm = op[c].vm
      /\ s.req = op[c].req
  BY OpIs DEF OpType, Pcs
<1>2. op' = [op EXCEPT ![c] = Settled(s)]
  BY DEF Loop, Become
<1> HIDE DEF s
<1>3. Settled(s) = s
  BY <1>1 DEF Settled
<1> QED BY <1>1, <1>2, <1>3

LEMMA LoopTakesStep ==
    ASSUME NEW c \in Clients, NEW rows, Loop(c, "delLinks", rows)
    PROVE  \E s : op' = [op EXCEPT ![c] = s]
  BY DEF Loop, Become

LEMMA RemovingMissesNothing ==
    ASSUME LinksInv, NEW c \in Clients,
           \/ At(c, "findTargettingLinks") /\ FindTargettingLinks(c)
           \/ At(c, "findSourceLinks") /\ FindSourceLinks(c)
    PROVE  Left' \subseteq Left
<1>1. /\ vms' = vms /\ links' = links /\ Rows' = Rows
      /\ op[c] \in OpType /\ op[c].rows \in SUBSET RowType
  BY OpIs DEF FindTargettingLinks, FindSourceLinks, Rows, OpType
<1>2. \A v \in Vms : ~Listed(v)' => ~Listed(v)
  BY <1>1 DEF Listed
<1>3. CASE At(c, "findTargettingLinks") /\ FindTargettingLinks(c)
  <2> DEFINE s == [op[c] EXCEPT !.pc = "findSourceLinks", !.rows = RowsTo(op[c].vm)]
  <2>1. op' = [op EXCEPT ![c] = s]
    BY <1>3 DEF FindTargettingLinks, Become
  <2>2. s.pc = "findSourceLinks" /\ s.rows = RowsTo(op[c].vm) /\ s.vm = op[c].vm
        /\ s.req = op[c].req
    BY <1>1 DEF OpType
  <2> HIDE DEF s
  <2>3. ASSUME NEW v \in Vms, NEW k \in Rows', v \in Ends(k), Deleting(op[c], v, k)
        PROVE  Deleting(s, v, k)
    <3>1. k[1] = v \/ k \in {m.key : m \in RowsTo(v)}
      BY <1>1, <2>3, FoundRows DEF Ends
    <3> QED BY <2>2, <2>3, <3>1 DEF Deleting
  <2> QED BY <1>1, <1>2, <2>1, <2>3, StepMissesNothing
<1>4. CASE At(c, "findSourceLinks") /\ FindSourceLinks(c)
  <2> DEFINE rows == op[c].rows \cup RowsOf(op[c].vm)
  <2>1. Loop(c, "delLinks", rows) /\ rows \in SUBSET RowType
    BY <1>1, <1>4, RowsAre DEF FindSourceLinks
  <2>2. ASSUME NEW v \in Vms, NEW k \in Rows', Deleting(op[c], v, k)
        PROVE  k \in {m.key : m \in rows}
    <3>1. (op[c].vm = v /\ k[1] = v) \/ k \in {m.key : m \in op[c].rows}
      BY <1>4, <2>2 DEF Deleting, At
    <3>2. k[1] = op[c].vm => k \in {m.key : m \in RowsOf(op[c].vm)}
      BY <1>1, FoundRows
    <3> QED BY <3>1, <3>2
  <2> HIDE DEF rows
  <2>3. CASE rows # {}
    <3>1. PICK s \in OpType : /\ op' = [op EXCEPT ![c] = s]
                              /\ s.pc = "delLinks" /\ s.rows = rows
                              /\ s.vm = op[c].vm /\ s.req = op[c].req
      BY <2>1, <2>3, LoopKeepsRows
    <3>2. ASSUME NEW v \in Vms, NEW k \in Rows', Deleting(op[c], v, k)
          PROVE  Deleting(s, v, k)
      BY <2>2, <3>1, <3>2 DEF Deleting
    <3> QED BY <1>1, <1>2, <3>1, <3>2, StepMissesNothing
  <2>4. CASE rows = {}
    <3>1. PICK s : op' = [op EXCEPT ![c] = s]
      BY <2>1, LoopTakesStep
    <3>2. \A v \in Vms, k \in Rows' : ~Deleting(op[c], v, k)
      BY <2>2, <2>4
    <3> QED BY <1>1, <1>2, <3>1, <3>2, StepMissesNothing
  <2> QED BY <2>3, <2>4
<1> QED BY <1>3, <1>4

LEMMA DelLinkMissesNothing ==
    ASSUME LinksInv, NEW c \in Clients, At(c, "delLinks"), DelLink(c)
    PROVE  Left' \subseteq Left
<1>1. PICK m \in op[c].rows : /\ links' = [links EXCEPT ![m.key] = None]
                              /\ Loop(c, "delLinks", op[c].rows \ {m})
                              /\ vms' = vms
  BY DEF DelLink
<1>2. /\ links \in [Keys -> LinkType \cup {None}] /\ op[c].rows \in SUBSET RowType
      /\ op[c] \in OpType
  BY OpIs DEF OpType
<1>3. m.key \in Keys
  BY <1>2 DEF RowType
<1>4. \A k \in Rows' : k \in Rows /\ k # m.key /\ links'[k] = links[k]
  BY <1>1, <1>2, <1>3 DEF Rows
<1>5. \A v \in Vms : ~Listed(v)' => ~Listed(v)
  BY <1>1 DEF Listed
<1> DEFINE rows == op[c].rows \ {m}
<1>6. rows \in SUBSET RowType /\ Loop(c, "delLinks", rows)
  BY <1>1, <1>2
<1>7. ASSUME NEW v \in Vms, NEW k \in Rows', Deleting(op[c], v, k)
      PROVE  k \in {n.key : n \in rows}
  <2>1. k \in {n.key : n \in op[c].rows}
    BY <1>7 DEF Deleting, At
  <2> QED BY <1>4, <2>1
<1> HIDE DEF rows
<1>8. CASE rows # {}
  <2>1. PICK s \in OpType : /\ op' = [op EXCEPT ![c] = s]
                            /\ s.pc = "delLinks" /\ s.rows = rows
                            /\ s.vm = op[c].vm /\ s.req = op[c].req
    BY <1>6, <1>8, LoopKeepsRows
  <2>2. ASSUME NEW v \in Vms, NEW k \in Rows', Deleting(op[c], v, k)
        PROVE  Deleting(s, v, k)
    BY <1>7, <2>1, <2>2 DEF Deleting
  <2> QED BY <1>4, <1>5, <2>1, <2>2, StepMissesNothing
<1>9. CASE rows = {}
  <2>1. PICK s : op' = [op EXCEPT ![c] = s]
    BY <1>6, LoopTakesStep
  <2>2. \A v \in Vms, k \in Rows' : ~Deleting(op[c], v, k)
    BY <1>7, <1>9
  <2> QED BY <1>4, <1>5, <2>1, <2>2, StepMissesNothing
<1> QED BY <1>8, <1>9

(* A call that fails loses at most the rows of its own container.          *)
LEMMA FailMissesOne ==
    ASSUME OnlyStartsAndRemovals, LeftInv, NEW c \in Clients, ~At(c, "idle"), Fail(c)
    PROVE  Bounded'
<1>1. LinksInv /\ failures \in Nat /\ failures' = failures + 1 /\ links' = links
  BY OpIs, LinksAssumption DEF LeftInv, Fail
<1>2. vms' = vms
  BY <1>1, KindsAre DEF Fail, At
<1>3. PICK s : op' = [op EXCEPT ![c] = s]
  BY DEF Fail, FailedRow, Become, Loop, End
<1>4. \A d \in Clients : d # c => op'[d] = op[d]
  BY <1>1, <1>3, OpIs
<1>5. Left' \subseteq Left \cup {op[c].vm}
  <2>1. ASSUME NEW v \in Vms, Missed(v)', v # op[c].vm
        PROVE  Missed(v)
    <3>1. PICK k \in Rows' : /\ v \in {k[1], links'[k].target_uuid} /\ ~Listed(v)'
                             /\ \A d \in Clients : ~Deleting(op'[d], v, k)
      BY <2>1 DEF Missed, StillToDelete, Deleting, At
    <3>2. k \in Rows /\ v \in Ends(k) /\ ~Listed(v)
      BY <1>1, <1>2, <3>1 DEF Ends, Rows, Listed
    <3>3. ~Deleting(op[c], v, k)
      BY <2>1 DEF Deleting
    <3>4. \A d \in Clients : ~Deleting(op[d], v, k)
      BY <1>4, <3>1, <3>3
    <3> QED BY <3>2, <3>4, MissedIs
  <2> QED BY <2>1 DEF Left
<1>6. /\ IsFiniteSet(Left \cup {op[c].vm})
      /\ Cardinality(Left \cup {op[c].vm}) <= failures + 1
  <2>1. /\ IsFiniteSet(Left) /\ Cardinality(Left) <= failures
    BY DEF LeftInv, Bounded
  <2>2. Cardinality(Left) \in Nat
    BY <2>1, FS_CardinalityType
  <2>3. /\ IsFiniteSet(Left \cup {op[c].vm})
        /\ Cardinality(Left \cup {op[c].vm}) =
             IF op[c].vm \in Left THEN Cardinality(Left) ELSE Cardinality(Left) + 1
    BY <2>1, FS_AddElement
  <2> QED BY <1>1, <2>1, <2>2, <2>3
<1>7. IsFiniteSet(Left') /\ Cardinality(Left') <= Cardinality(Left \cup {op[c].vm})
  BY <1>5, <1>6, FS_Subset
<1>8. Cardinality(Left') \in Nat /\ Cardinality(Left \cup {op[c].vm}) \in Nat
  BY <1>6, <1>7, FS_CardinalityType
<1> QED BY <1>1, <1>6, <1>7, <1>8 DEF Bounded

LEMMA InitBounded == ASSUME Init PROVE Bounded
<1>1. PICK names \in [Vms -> Names \cup {None}], up \in SUBSET Vms,
           target \in [Keys -> Vms \cup {None}] :
        /\ LeftAlone(names, up, target)
        /\ links = [k \in Keys |->
              IF target[k] = None THEN None
              ELSE [container_name |-> names[k[1]], target_uuid |-> target[k],
                    target_name |-> names[target[k]]]]
        /\ vms = [v \in Vms |->
              [state |-> IF names[v] = None THEN "none"
                         ELSE IF v \in up THEN "running" ELSE "stopped",
               name |-> names[v],
               metadata |->
                 {[alias |-> k[2], target |-> target[k],
                   target_name |-> names[target[k]],
                   container_name |-> names[v]] :
                     k \in {k \in Keys : k[1] = v /\ target[k] # None}}]]
  BY DEF Init
<1>2. \A v \in Vms : vms[v].state = IF names[v] = None THEN "none"
                                    ELSE IF v \in up THEN "running" ELSE "stopped"
  BY <1>1
<1>3. \A v \in Vms : names[v] # None => Listed(v)
  BY <1>2 DEF Listed
<1>4. ASSUME NEW k \in Rows, NEW v \in {k[1], links[k].target_uuid}, v \in Vms
      PROVE  Listed(v)
  <2>1. k \in Keys /\ links[k] # None
    BY DEF Rows
  <2>2. target[k] # None /\ links[k].target_uuid = target[k]
    BY <1>1, <2>1
  <2>3. names[k[1]] # None /\ names[target[k]] # None
    BY <1>1, <2>1, <2>2 DEF LeftAlone
  <2>4. names[v] # None
    BY <1>4, <2>2, <2>3
  <2> QED BY <1>3, <1>4, <2>4
<1>5. Left = {}
  BY <1>4 DEF Left, Missed
<1>6. failures = 0
  BY DEF Init
<1> QED BY <1>5, <1>6, FS_EmptySet DEF Bounded

LEMMA LeftStepHolds ==
    ASSUME OnlyStartsAndRemovals, LeftInv, [Next]_vars PROVE LeftInv'
<1>1. LinksInv /\ Bounded /\ LinksInv' /\ failures \in Nat
  BY StepHolds, OpIs, LinksAssumption DEF LeftInv, LinksInv, TypeOK
<1>2. ASSUME Left' \subseteq Left, failures' = failures PROVE LeftInv'
  BY <1>1, <1>2, BoundedKept DEF LeftInv
<1>3. CASE UNCHANGED vars
  <2>1. Left' = Left /\ failures' = failures
    BY <1>3 DEF vars, Left, Missed, StillToDelete, Listed, Rows, At
  <2> QED BY <1>2, <2>1
<1>4. CASE VmStops
  <2>1. PICK v \in Vms : /\ vms[v].state = "running"
                         /\ vms' = [vms EXCEPT ![v].state = "stopped"]
                         /\ UNCHANGED <<links, op, failures>>
    BY <1>4 DEF VmStops
  <2>2. \A w \in Vms : Listed(w)' = Listed(w)
    BY <1>1, <2>1 DEF Listed, LinksInv, TypeOK, VmType
  <2>3. Rows' = Rows
    BY <2>1 DEF Rows
  <2>4. Left' \subseteq Left
    BY <2>1, <2>2, <2>3 DEF Left, Missed, StillToDelete, At
  <2> QED BY <1>2, <2>1, <2>4
<1>5. CASE \E c \in Clients : At(c, "idle") /\ Start(c) /\ UNCHANGED failures
  BY <1>1, <1>2, <1>5, OthersMissNothing
<1>6. CASE \E c \in Clients : ~At(c, "idle") /\ Fail(c)
  BY <1>1, <1>6, FailMissesOne DEF LeftInv
<1>7. CASE \E c \in Clients : Serve(c)
  <2>1. PICK c \in Clients : Serve(c)
    BY <1>7
  <2>2. failures' = failures
    BY <2>1 DEF Serve
  <2>3. /\ op[c].pc \notin Renaming \cup {"createVm", "saveLinks"}
    BY <1>1, KindsAre
  <2>4. \/ At(c, "getVm") /\ GetVm(c)
        \/ At(c, "findLinks") /\ FindLinks(c)
        \/ /\ At(c, "getLinkDetails")
           /\ GetLinkDetail(c) \/ CreateVm(c) \/ StartVm(c)
        \/ At(c, "deleteVm") /\ DeleteVm(c)
        \/ At(c, "findTargettingLinks") /\ FindTargettingLinks(c)
        \/ At(c, "findSourceLinks") /\ FindSourceLinks(c)
        \/ At(c, "findLink") /\ FindLink(c)
        \/ At(c, "delLinks") /\ DelLink(c)
    BY <2>1, <2>3 DEF Serve, At, Renaming, Saving
  <2>5. Left' \subseteq Left
    BY <1>1, <2>4, OthersMissNothing, DeleteVmMissesNothing, RemovingMissesNothing,
       DelLinkMissesNothing
  <2> QED BY <1>2, <2>2, <2>5
<1> QED BY <1>3, <1>4, <1>5, <1>6, <1>7 DEF Next

(* Where accounts only start, restart and remove containers and links,     *)
(* deleteLinks leaves the rows of a destroyed container behind at most     *)
(* once for every call that fails, however many removals interleave.       *)
THEOREM RemovalsLeaveNoRows ==
    ASSUME OnlyStartsAndRemovals PROVE Spec => []RowsOfTheLiving
<1>1. Init => LeftInv
  BY InitHolds, InitBounded DEF LeftInv
<1>2. LeftInv /\ [Next]_vars => LeftInv'
  BY LeftStepHolds
<1>3. LeftInv => RowsOfTheLiving
  BY DEF LeftInv, Bounded, Left, RowsOfTheLiving
<1> QED BY <1>1, <1>2, <1>3, PTL DEF Spec

-----------------------------------------------------------------------------
(* One request at a time, whose calls all answer.                          *)

There(ws, v) == ws[v].state \notin {"none", "destroyed"}
NamesDiffer(ws) ==
    \A v, w \in Vms : There(ws, v) /\ There(ws, w) /\ ws[v].name = ws[w].name => v = w

(* A row leads from a container that is there to one that is there.        *)
Leads(ws, t, ref) == There(ws, t) /\ ref \in {t, ws[t].name}
Whole(ws, k, row) == There(ws, k[1]) /\ Leads(ws, row.target_uuid, row.target_name)

(* Or it is one that the request under way still has to rename or delete.  *)
KeysOf(rows) == {m.key : m \in rows}
RenamingHere(s) ==
    s.pc \in {"findContainerLinks", "updateContainerLinks", "findTargetLinks"}
OldName(ws, s, k, row) ==
    RenamingHere(s) /\ There(ws, k[1]) /\ row.target_uuid = s.vm
RowSound(ws, s, k, row) ==
    \/ Whole(ws, k, row) \/ OldName(ws, s, k, row)
    \/ s.pc = "findTargettingLinks" /\ s.vm \in {k[1], row.target_uuid}
    \/ s.pc = "findSourceLinks" /\ (k[1] = s.vm \/ k \in KeysOf(s.rows))
    \/ s.pc \in {"delLinks", "updateTargetLinks"} /\ k \in KeysOf(s.rows)
ToSave(ws, s) ==
    s.pc \in Saving =>
        \A m \in s.rows : Whole(ws, m.key, m.row) \/ OldName(ws, s, m.key, m.row)
Renamed(ws, s) ==
    s.pc \in Renaming \ {"updateVm"}
        => There(ws, s.vm) /\ ws[s.vm].name = s.req.name
DetailSound(ws, d) ==
    Leads(ws, d.host.target, d.config.ref) /\ d.host.alias = d.config.alias
Detailed(ws, s) ==
    /\ s.pc \in {"getVm", "findLinks"} => s.details = {}
    /\ s.pc \in {"getLinkDetails", "createVm"}
          => \A d \in s.details : DetailSound(ws, d)

(* A start has gathered the rows of its container, or still has to.        *)
IsStart(s) == s.pc = "getLinkDetails" /\ s.req.kind # "create"
Asks(s, k, row) ==
    k[1] = s.vm /\ [ref |-> row.target_name, alias |-> k[2]] \in s.configs
Gathered(s, k, row) ==
    k[1] = s.vm /\ \E d \in s.details : d.host.alias = k[2] /\ d.host.target = row.target_uuid
SeenSame(ws, s) ==
    IsStart(s) \/ s.pc = "findLinks" => s.seen.metadata = ws[s.vm].metadata
Gathering(ls, s) ==
    IsStart(s) =>
        /\ \A k \in Keys : ls[k] # None /\ k[1] = s.vm
               => Asks(s, k, ls[k]) \/ Gathered(s, k, ls[k])
        /\ \A g \in s.configs : \E k \in Keys :
               /\ ls[k] # None /\ k[1] = s.vm /\ k[2] = g.alias
               /\ ls[k].target_name = g.ref
        /\ \A d \in s.details : \E k \in Keys :
               /\ ls[k] # None /\ k[1] = s.vm /\ k[2] = d.host.alias
               /\ ls[k].target_uuid = d.host.target

OneSound(ws, ls, s) ==
    /\ NamesDiffer(ws) /\ ~s.err
    /\ \A k \in Keys : ls[k] # None => RowSound(ws, s, k, ls[k])
    /\ ToSave(ws, s) /\ Renamed(ws, s) /\ Detailed(ws, s)
    /\ SeenSame(ws, s) /\ Gathering(ls, s)
OneInv(c) == LinksInv /\ OneSound(vms, links, op[c])
Alone(c) == Clients = {c} /\ MaxFailures = 0

(* Containers look the same: they are there, under the same names.         *)
Looks(ws, xs) ==
    /\ ws \in [Vms -> VmType] /\ xs \in [Vms -> VmType]
    /\ \A v \in Vms : /\ There(xs, v) = There(ws, v)
                      /\ There(ws, v) => xs[v].name = ws[v].name

LEMMA LooksSame == ASSUME LinksInv PROVE Looks(vms, vms)
  BY OpIs DEF Looks, LinksInv, TypeOK

LEMMA LooksKeep ==
    ASSUME NEW ws, NEW xs, Looks(ws, xs)
    PROVE  /\ NamesDiffer(ws) => NamesDiffer(xs)
           /\ \A t \in Vms : \A ref : Leads(ws, t, ref) => Leads(xs, t, ref)
           /\ \A k \in Keys, row \in LinkType : Whole(ws, k, row) => Whole(xs, k, row)
  BY DEF Looks, NamesDiffer, Leads, Whole, Keys, LinkType

(* Names and uuids lead to one container.                                  *)
LEMMA LeadsToOne ==
    ASSUME LinksInv, NamesDiffer(vms), NEW t \in Vms, NEW ref, Leads(vms, t, ref)
    PROVE  Matches(ref) = {t}
<1>1. \A v \in Vms : There(vms, v) => vms[v].name \in Names
  BY DEF There, LinksInv, VmsSound, VmNamed
<1>2. ASSUME NEW v \in Vms, There(vms, v), v = ref \/ vms[v].name = ref
      PROVE  v = t
  <2>1. CASE ref = t
    BY <1>1, <1>2, <2>1, LinksAssumption
  <2>2. CASE ref = vms[t].name
    <3>1. ref \in Names /\ v # ref
      BY <1>1, <1>2, <2>2, LinksAssumption DEF Leads
    <3> QED BY <1>2, <2>2, <3>1 DEF NamesDiffer, Leads
  <2> QED BY <2>1, <2>2 DEF Leads
<1>3. There(vms, t) /\ (t = ref \/ vms[t].name = ref)
  BY DEF Leads
<1>4. \A v \in Vms : Listed(v) = There(vms, v)
  BY DEF Listed, There
<1>5. t \in Matches(ref)
  BY <1>3, <1>4 DEF Matches
<1>6. \A v \in Matches(ref) : v = t
  BY <1>2, <1>4 DEF Matches
<1> QED BY <1>5, <1>6

LEMMA OneStep ==
    ASSUME NEW c, Alone(c), OneInv(c), [Next]_vars, NEW s,
           op' = [op EXCEPT ![c] = s], OneSound(vms', links', s)
    PROVE  OneInv(c)'
<1>1. op'[c] = s
  BY OpIs DEF Alone, OneInv
<1>2. LinksInv'
  BY StepHolds DEF OneInv
<1> QED BY <1>1, <1>2 DEF OneInv

(* What is known of the request at its pc.                                 *)

LEMMA OneKnows ==
    ASSUME NEW c, Alone(c), OneInv(c)
    PROVE  /\ LinksInv /\ c \in Clients /\ op[c] \in OpType /\ OpSound(op[c])
           /\ OneSound(vms, links, op[c]) /\ vms \in [Vms -> VmType]
           /\ \A k \in Keys : links[k] # None => links[k] \in LinkType
<1>1. LinksInv /\ c \in Clients
  BY DEF OneInv, Alone
<1>2. \A k \in Keys : links[k] # None => links[k] \in LinkType
  BY <1>1, OpIs
<1> QED BY <1>1, <1>2, OpIs DEF OneInv

(* Nothing is pending.                                                     *)
Settling == {"findContainerLinks", "updateContainerLinks", "findTargetLinks",
             "updateTargetLinks", "findTargettingLinks", "findSourceLinks",
             "delLinks"}
AllWhole(ws, ls) == \A k \in Keys : ls[k] # None => Whole(ws, k, ls[k])

LEMMA WholeAtRest ==
    ASSUME NEW ws, NEW ls, NEW s, OneSound(ws, ls, s), s.pc \notin Settling
    PROVE  AllWhole(ws, ls)
  BY DEF OneSound, RowSound, OldName, RenamingHere, AllWhole, Settling

LEMMA IdleIsSound ==
    ASSUME NEW ws, NEW ls, NamesDiffer(ws), AllWhole(ws, ls)
    PROVE  OneSound(ws, ls, Idle)
<1>1. Idle.pc = "idle" /\ ~Idle.err
  BY DEF Idle
<1> HIDE DEF Idle
<1> QED BY <1>1 DEF OneSound, AllWhole, RowSound, ToSave, Renamed, Detailed, SeenSame,
           Gathering, IsStart, Saving, Renaming

LEMMA LooksWhole ==
    ASSUME NEW c, Alone(c), OneInv(c), Looks(vms, vms'), AllWhole(vms, links), links' = links
    PROVE  NamesDiffer(vms') /\ AllWhole(vms', links')
<1>1. NamesDiffer(vms)
  BY DEF OneInv, OneSound
<1> QED BY <1>1, OneKnows, LooksKeep DEF AllWhole

LEMMA EndOne ==
    ASSUME NEW c, Alone(c), OneInv(c), [Next]_vars, op[c].pc \notin Settling, End(c),
           Looks(vms, vms'), links' = links
    PROVE  OneInv(c)'
<1>1. AllWhole(vms, links)
  BY WholeAtRest DEF OneInv
<1>2. OneSound(vms', links', Idle)
  BY <1>1, LooksWhole, IdleIsSound
<1>3. op' = [op EXCEPT ![c] = Idle]
  BY DEF End, Become
<1> QED BY <1>2, <1>3, OneStep

LEMMA SameLooks == ASSUME NEW c, OneInv(c), vms' = vms PROVE Looks(vms, vms')
  BY LooksSame DEF OneInv

LEMMA StartOne ==
    ASSUME NEW c, Alone(c), OneInv(c), [Next]_vars, At(c, "idle"), Start(c)
    PROVE  OneInv(c)'
<1>1. PICK r \in Requests :
        op' = [op EXCEPT ![c] = [Idle EXCEPT
                 !.pc = IF r.kind = "create" THEN "getLinkDetails" ELSE "getVm",
                 !.req = r, !.configs = r.links]]
  BY DEF Start, Become
<1> DEFINE s == [Idle EXCEPT
                   !.pc = IF r.kind = "create" THEN "getLinkDetails" ELSE "getVm",
                   !.req = r, !.configs = r.links]
<1>2. /\ s.req = r /\ s.details = {} /\ ~s.err
      /\ s.pc = IF r.kind = "create" THEN "getLinkDetails" ELSE "getVm"
  BY DEF Idle
<1> HIDE DEF s
<1>3. vms' = vms /\ links' = links /\ op[c].pc \notin Settling
  BY DEF Start, At, Settling
<1>4. AllWhole(vms', links') /\ NamesDiffer(vms')
  BY <1>3, WholeAtRest DEF OneInv, OneSound
<1>5. OneSound(vms', links', s)
  BY <1>2, <1>4 DEF OneSound, AllWhole, RowSound, ToSave, Renamed, Detailed, SeenSame,
           Gathering, IsStart, Saving, Renaming
<1> QED BY <1>1, <1>5, OneStep DEF s

LEMMA GetVmOne ==
    ASSUME NEW c, Alone(c), OneInv(c), [Next]_vars, At(c, "getVm"), GetVm(c)
    PROVE  OneInv(c)'
<1> DEFINE r == op[c].req
<1>1. /\ vms' = vms /\ links' = links /\ op[c].pc \notin Settling /\ op[c].pc = "getVm"
  BY DEF GetVm, At, Settling
<1>2. CASE End(c)
  BY <1>1, <1>2, SameLooks, EndOne
<1>3. CASE \E v \in Matches(r.id) : op' = [op EXCEPT ![c] =
                                       [op[c] EXCEPT !.pc = AfterGetVm(r), !.vm = v,
                                                     !.seen = vms[v]]]
  <2>1. PICK v \in Matches(r.id) :
          op' = [op EXCEPT ![c] =
               [op[c] EXCEPT !.pc = AfterGetVm(r), !.vm = v, !.seen = vms[v]]]
    BY <1>3
  <2> DEFINE pc == AfterGetVm(r)
             s == [op[c] EXCEPT !.pc = pc, !.vm = v, !.seen = vms[v]]
  <2>2. op[c] \in OpType /\ op[c].details = {} /\ ~op[c].err /\ r \in Requests
        /\ r.kind # "create"
    BY <1>1, OneKnows DEF OneSound, Detailed, OpSound, Known
  <2>3. pc \in {"findLinks", "updateVm", "deleteVm", "findLink"}
    BY <2>2, RequestTyped DEF AfterGetVm
  <2> HIDE DEF pc
  <2>4. /\ s.pc = pc /\ s.vm = v /\ s.seen = vms[v] /\ s.details = {} /\ ~s.err
    BY <2>2 DEF OpType
  <2>5. op' = [op EXCEPT ![c] = s]
    BY <2>1 DEF pc
  <2> HIDE DEF s
  <2>6. AllWhole(vms', links') /\ NamesDiffer(vms')
    BY <1>1, WholeAtRest DEF OneInv, OneSound
  <2>7. OneSound(vms', links', s)
    BY <1>1, <2>3, <2>4, <2>6 DEF OneSound, AllWhole, RowSound, ToSave, Renamed,
       Detailed, SeenSame, Gathering, IsStart, Saving, Renaming
  <2> QED BY <2>5, <2>7, OneStep
<1>4. CASE {v \in Matches(r.id) : ~Refused(r, v)} # {}
  BY <1>3, <1>4 DEF GetVm, Become
<1>5. CASE {v \in Matches(r.id) : ~Refused(r, v)} = {}
  BY <1>2, <1>5 DEF GetVm
<1> QED BY <1>4, <1>5

LEMMA FindLinksOne ==
    ASSUME NEW c, Alone(c), OneInv(c), [Next]_vars, At(c, "findLinks"), FindLinks(c)
    PROVE  OneInv(c)'
<1> DEFINE v == op[c].vm
           configs == HostConfigs(RowsOf(v))
           s == [op[c] EXCEPT !.pc = "getLinkDetails", !.configs = configs]
<1>1. /\ vms' = vms /\ links' = links /\ op[c].pc \notin Settling /\ op[c].pc = "findLinks"
      /\ op' = [op EXCEPT ![c] = s]
  BY DEF FindLinks, At, Settling, Become
<1>2. /\ op[c] \in OpType /\ op[c].details = {} /\ ~op[c].err
      /\ op[c].seen.metadata = vms[v].metadata
  BY <1>1, OneKnows DEF OneSound, Detailed, SeenSame
<1> DEFINE m(k) == [key |-> k, row |-> links[k]]
           g(k) == [ref |-> links[k].target_name, alias |-> k[2]]
<1>3. \A k \in Keys : links[k] # None /\ k[1] = v => g(k) \in configs
  <2>1. \A k \in Keys : links[k] # None /\ k[1] = v => m(k) \in RowsOf(v)
    BY DEF RowsOf, Found, Rows
  <2>2. \A k \in Keys : m(k) \in RowsOf(v) => g(k) \in configs
    BY DEF HostConfigs
  <2> QED BY <2>1, <2>2
<1>4. \A x \in configs : \E k \in Keys : /\ links[k] # None /\ k[1] = v
                                         /\ x.alias = k[2] /\ x.ref = links[k].target_name
  <2>1. \A x \in configs : \E y \in RowsOf(v) :
            x = [ref |-> y.row.target_name, alias |-> y.key[2]]
    BY DEF HostConfigs
  <2>2. \A y \in RowsOf(v) : \E k \in Keys : /\ links[k] # None /\ k[1] = v
                                             /\ y = m(k)
    BY DEF RowsOf, Found, Rows
  <2> QED BY <2>1, <2>2
<1> HIDE DEF configs
<1>5. /\ s.pc = "getLinkDetails" /\ s.vm = v /\ s.seen = op[c].seen /\ s.details = {}
      /\ ~s.err /\ s.configs = configs
  BY <1>2 DEF OpType
<1> HIDE DEF s
<1>6. AllWhole(vms', links') /\ NamesDiffer(vms')
  BY <1>1, WholeAtRest DEF OneInv, OneSound
<1>7. Gathering(links, s)
  BY <1>3, <1>4, <1>5 DEF Gathering, Asks
<1>8. OneSound(vms', links', s)
  BY <1>1, <1>2, <1>5, <1>6, <1>7 DEF OneSound, AllWhole, RowSound, ToSave, Renamed,
     Detailed, SeenSame, Saving, Renaming
<1> QED BY <1>1, <1>8, OneStep

LEMMA GatheringGoesOn ==
    ASSUME NEW c, Alone(c), OneInv(c), At(c, "getLinkDetails"),
           NEW g \in op[c].configs, NEW t \in Matches(g.ref), NEW s, NEW x,
           s.pc = op[c].pc, s.req = op[c].req, s.vm = op[c].vm,
           s.configs = op[c].configs \ {g}, s.details = op[c].details \cup {x},
           x.host.alias = g.alias, x.host.target = t
    PROVE  Gathering(links, s)
<1>1. CASE IsStart(op[c])
  <2>1. /\ LinksInv /\ NamesDiffer(vms) /\ Gathering(links, op[c])
        /\ \A k \in Keys : links[k] # None => Whole(vms, k, links[k])
                                              /\ links[k].target_uuid \in Vms
    <3>1. op[c].pc \notin Settling
      BY DEF At, Settling
    <3>2. AllWhole(vms, links)
      BY <3>1, WholeAtRest DEF OneInv
    <3> QED BY <3>2, OneKnows DEF OneSound, AllWhole, LinkType
  <2>2. \A k \in Keys : links[k] # None /\ links[k].target_name = g.ref
                           => links[k].target_uuid = t
    <3>1. ASSUME NEW k \in Keys, links[k] # None, links[k].target_name = g.ref
          PROVE  links[k].target_uuid = t
      <4>1. Leads(vms, links[k].target_uuid, g.ref) /\ links[k].target_uuid \in Vms
        BY <2>1, <3>1 DEF Whole
      <4>2. Matches(g.ref) = {links[k].target_uuid}
        BY <2>1, <4>1, LeadsToOne
      <4> QED BY <4>2
    <3> QED BY <3>1
  <2>3. ASSUME NEW k \in Keys, links[k] # None, k[1] = s.vm
        PROVE  Asks(s, k, links[k]) \/ Gathered(s, k, links[k])
    <3>1. Asks(op[c], k, links[k]) \/ Gathered(op[c], k, links[k])
      BY <1>1, <2>1, <2>3 DEF Gathering
    <3>2. CASE Gathered(op[c], k, links[k])
      BY <3>2 DEF Gathered
    <3>3. CASE Asks(op[c], k, links[k]) /\ [ref |-> links[k].target_name, alias |-> k[2]] # g
      BY <3>3 DEF Asks
    <3>4. CASE [ref |-> links[k].target_name, alias |-> k[2]] = g
      <4>1. links[k].target_name = g.ref /\ k[2] = g.alias
        BY <3>4
      <4> QED BY <2>2, <2>3, <4>1 DEF Gathered
    <3> QED BY <3>1, <3>2, <3>3, <3>4
  <2>4. \A h \in s.configs : \E k \in Keys :
             /\ links[k] # None /\ k[1] = s.vm /\ k[2] = h.alias
             /\ links[k].target_name = h.ref
    BY <1>1, <2>1 DEF Gathering
  <2>5. \E k \in Keys : /\ links[k] # None /\ k[1] = s.vm /\ k[2] = g.alias
                        /\ links[k].target_name = g.ref
    BY <1>1, <2>1 DEF Gathering
  <2>6. \A d \in s.details : \E k \in Keys :
             /\ links[k] # None /\ k[1] = s.vm /\ k[2] = d.host.alias
             /\ links[k].target_uuid = d.host.target
    <3>1. \A d \in op[c].details : \E k \in Keys :
             /\ links[k] # None /\ k[1] = s.vm /\ k[2] = d.host.alias
             /\ links[k].target_uuid = d.host.target
      BY <1>1, <2>1 DEF Gathering
    <3>2. \E k \in Keys : /\ links[k] # None /\ k[1] = s.vm /\ k[2] = x.host.alias
                          /\ links[k].target_uuid = x.host.target
      BY <2>2, <2>5
    <3> QED BY <3>1, <3>2
  <2> QED BY <2>3, <2>4, <2>6 DEF Gathering
<1>2. CASE ~IsStart(op[c])
  BY <1>2 DEF Gathering, IsStart
<1> QED BY <1>1, <1>2

LEMMA GetLinkDetailOne ==
    ASSUME NEW c, Alone(c), OneInv(c), [Next]_vars, At(c, "getLinkDetails"),
           GetLinkDetail(c)
    PROVE  OneInv(c)'
<1>1. /\ vms' = vms /\ links' = links /\ op[c].pc \notin Settling
      /\ op[c].pc = "getLinkDetails"
  BY DEF GetLinkDetail, At, Settling
<1>2. CASE End(c)
  BY <1>1, <1>2, SameLooks, EndOne
<1>3. CASE \E g \in op[c].configs : \E t \in Matches(g.ref) :
              op' = [op EXCEPT ![c] =
                       [op[c] EXCEPT !.configs = @ \ {g},
                                     !.details = @ \cup {Detail(c, g, t)}]]
  <2>1. PICK g \in op[c].configs : \E t \in Matches(g.ref) :
          op' = [op EXCEPT ![c] =
                   [op[c] EXCEPT !.configs = @ \ {g},
                                 !.details = @ \cup {Detail(c, g, t)}]]
    BY <1>3
  <2>2. PICK t \in Matches(g.ref) :
          op' = [op EXCEPT ![c] =
                   [op[c] EXCEPT !.configs = @ \ {g},
                                 !.details = @ \cup {Detail(c, g, t)}]]
    BY <2>1
  <2> DEFINE x == Detail(c, g, t)
             s == [op[c] EXCEPT !.configs = @ \ {g}, !.details = @ \cup {x}]
  <2>3. op' = [op EXCEPT ![c] = s]
    BY <2>2
  <2>4. x.host.alias = g.alias /\ x.host.target = t /\ x.config = g
    BY DEF Detail
  <2> HIDE DEF x
  <2>5. op[c] \in OpType /\ ~op[c].err /\ OneSound(vms, links, op[c])
    BY OneKnows DEF OneSound
  <2>6. /\ s.pc = op[c].pc /\ s.req = op[c].req /\ s.vm = op[c].vm /\ ~s.err
        /\ s.seen = op[c].seen /\ s.configs = op[c].configs \ {g}
        /\ s.details = op[c].details \cup {x}
    BY <2>5 DEF OpType
  <2> HIDE DEF s
  <2>7. DetailSound(vms, x)
    BY <2>4 DEF DetailSound, Leads, There, Matches, Listed
  <2>8. Gathering(links, s)
    BY <2>4, <2>6, GatheringGoesOn
  <2>9. Detailed(vms, s)
    BY <1>1, <2>5, <2>6, <2>7 DEF OneSound, Detailed
  <2>10. AllWhole(vms', links') /\ NamesDiffer(vms')
    BY <1>1, WholeAtRest DEF OneInv, OneSound
  <2>11. SeenSame(vms, s)
    BY <2>5, <2>6 DEF OneSound, SeenSame, IsStart
  <2>12. OneSound(vms', links', s)
    BY <1>1, <2>6, <2>8, <2>9, <2>10, <2>11 DEF OneSound, AllWhole, RowSound, ToSave,
       Renamed, Saving, Renaming
  <2> QED BY <2>3, <2>12, OneStep
<1>4. End(c) \/ \E g \in op[c].configs : \E t \in Matches(g.ref) :
              op' = [op EXCEPT ![c] =
                       [op[c] EXCEPT !.configs = @ \ {g},
                                     !.details = @ \cup {Detail(c, g, t)}]]
  <2> HIDE DEF Detail, Matches, End
  <2> QED BY DEF GetLinkDetail, Become
<1> QED BY <1>2, <1>3, <1>4

LEMMA SettledOne ==
    ASSUME NEW ws, NEW ls, NEW s \in OpType, s.pc \in Looping, OneSound(ws, ls, s)
    PROVE  OneSound(ws, ls, Settled(s))
<1>1. CASE s.rows # {}
  BY <1>1 DEF Settled
<1>2. CASE s.rows = {} /\ s.pc = "updateContainerLinks"
  <2> DEFINE t == [s EXCEPT !.pc = "findTargetLinks"]
  <2>1. Settled(s) = t
    BY <1>2 DEF Settled, OneSound
  <2>2. /\ t.pc = "findTargetLinks" /\ t.req = s.req /\ t.vm = s.vm
        /\ t.rows = s.rows /\ t.err = s.err
    BY DEF OpType
  <2> HIDE DEF t
  <2>3. Renamed(ws, t)
    BY <1>2, <2>2 DEF OneSound, Renamed, Renaming
  <2>4. \A k \in Keys : ls[k] # None => RowSound(ws, t, k, ls[k])
    BY <1>2, <2>2 DEF OneSound, RowSound, OldName, RenamingHere
  <2>5. OneSound(ws, ls, t)
    BY <2>2, <2>3, <2>4 DEF OneSound, ToSave, Detailed, SeenSame, Gathering, IsStart, Saving
  <2> QED BY <2>1, <2>5
<1>3. CASE s.rows = {} /\ s.pc # "updateContainerLinks"
  <2>1. Settled(s) = Idle
    BY <1>3 DEF Settled
  <2>2. AllWhole(ws, ls)
    BY <1>3 DEF OneSound, AllWhole, RowSound, OldName, RenamingHere, KeysOf, Looping, Saving
  <2>3. NamesDiffer(ws)
    BY DEF OneSound
  <2> QED BY <2>1, <2>2, <2>3, IdleIsSound
<1> QED BY <1>1, <1>2, <1>3

LEMMA LoopOne ==
    ASSUME NEW c, Alone(c), OneInv(c), [Next]_vars, NEW pc \in Looping,
           NEW rows \in SUBSET RowType, Loop(c, pc, rows),
           \A s : /\ s.pc = pc /\ s.rows = rows /\ s.vm = op[c].vm /\ ~s.err
                  /\ s.req = op[c].req
                  => OneSound(vms', links', s)
    PROVE  OneInv(c)'
<1> DEFINE s == [op[c] EXCEPT !.pc = pc, !.rows = rows]
<1>1. op[c] \in OpType /\ ~op[c].err
  BY OneKnows DEF OneSound
<1>2. /\ s \in OpType /\ s.pc = pc /\ s.rows = rows /\ s.vm = op[c].vm /\ ~s.err
      /\ s.req = op[c].req
  BY <1>1 DEF OpType, Pcs, Looping, Saving
<1>3. op' = [op EXCEPT ![c] = Settled(s)]
  BY DEF Loop, Become
<1> HIDE DEF s
<1>4. OneSound(vms', links', s)
  BY <1>2
<1>5. OneSound(vms', links', Settled(s))
  BY <1>2, <1>4, SettledOne
<1> HIDE DEF Settled
<1> QED BY <1>3, <1>5, OneStep

LEMMA GrowsKeep ==
    ASSUME NEW ws, NEW xs,
           \A v \in Vms : There(ws, v) => There(xs, v) /\ xs[v].name = ws[v].name
    PROVE  /\ \A t \in Vms : \A ref : Leads(ws, t, ref) => Leads(xs, t, ref)
           /\ \A k \in Keys, row \in LinkType : Whole(ws, k, row) => Whole(xs, k, row)
  BY DEF Leads, Whole, Keys, LinkType

LEMMA CreateVmOne ==
    ASSUME NEW c, Alone(c), OneInv(c), [Next]_vars, At(c, "getLinkDetails"), CreateVm(c)
    PROVE  OneInv(c)'
<1> DEFINE x == [state |-> "provisioning", name |-> op[c].req.id,
                 metadata |-> NewMetadata(c)]
<1>1. /\ links' = links /\ op[c].pc \notin Settling /\ op[c].pc = "getLinkDetails"
  BY DEF CreateVm, At, Settling
<1>2. CASE End(c) /\ UNCHANGED vms
  BY <1>1, <1>2, SameLooks, EndOne
<1>3. CASE NameFree(op[c].req.id) /\ \E v \in Vms :
             /\ vms[v].state = "none"
             /\ vms' = [vms EXCEPT ![v] = x]
             /\ op' = [op EXCEPT ![c] = [op[c] EXCEPT !.pc = "createVm", !.vm = v]]
  <2>1. PICK v \in Vms :
             /\ vms[v].state = "none"
             /\ vms' = [vms EXCEPT ![v] = x]
             /\ op' = [op EXCEPT ![c] = [op[c] EXCEPT !.pc = "createVm", !.vm = v]]
    BY <1>3
  <2> DEFINE s == [op[c] EXCEPT !.pc = "createVm", !.vm = v]
  <2>2. op[c] \in OpType /\ ~op[c].err /\ vms \in [Vms -> VmType]
        /\ op[c].details \subseteq DetailType
    BY OneKnows DEF OneSound, OpType
  <2>3. s.pc = "createVm" /\ s.details = op[c].details /\ ~s.err
    BY <2>2 DEF OpType
  <2>4. op' = [op EXCEPT ![c] = s]
    BY <2>1
  <2>5. x.state = "provisioning" /\ x.name = op[c].req.id
    OBVIOUS
  <2> HIDE DEF s, x
  <2>6. vms'[v] = x /\ \A w \in Vms : w # v => vms'[w] = vms[w]
    BY <2>1, <2>2
  <2>7. ~There(vms, v)
    BY <2>1 DEF There
  <2>8. \A w \in Vms : There(vms, w) => There(vms', w) /\ vms'[w].name = vms[w].name
    BY <2>6, <2>7 DEF There
  <2>9. AllWhole(vms', links')
    <3>1. AllWhole(vms, links)
      BY <1>1, WholeAtRest DEF OneInv
    <3> QED BY <1>1, <2>8, <3>1, GrowsKeep, OneKnows DEF AllWhole
  <2>10. NamesDiffer(vms')
    <3>1. NamesDiffer(vms)
      BY OneKnows DEF OneSound
    <3>2. \A w \in Vms : There(vms, w) => vms[w].name # op[c].req.id
      BY <1>3 DEF NameFree, Listed, There
    <3>3. \A w \in Vms : w # v => There(vms', w) = There(vms, w)
      BY <2>6 DEF There
    <3> QED BY <2>5, <2>6, <3>1, <3>2, <3>3 DEF NamesDiffer
  <2>11. \A d \in s.details : DetailSound(vms', d)
    <3>1. \A d \in op[c].details : DetailSound(vms, d) /\ d.host.target \in Vms
      BY <1>1, <2>2, OneKnows DEF OneSound, Detailed, DetailType, HostType
    <3> QED BY <2>3, <2>8, <3>1, GrowsKeep DEF DetailSound
  <2>12. OneSound(vms', links', s)
    BY <2>3, <2>9, <2>10, <2>11 DEF OneSound, AllWhole, RowSound, ToSave, Renamed,
       Detailed, SeenSame, Gathering, IsStart, Saving, Renaming
  <2> QED BY <2>4, <2>12, OneStep
<1>4. \/ End(c) /\ UNCHANGED vms
      \/ NameFree(op[c].req.id) /\ \E v \in Vms :
             /\ vms[v].state = "none"
             /\ vms' = [vms EXCEPT ![v] = x]
             /\ op' = [op EXCEPT ![c] = [op[c] EXCEPT !.pc = "createVm", !.vm = v]]
  <2> HIDE DEF NewMetadata, End, NameFree
  <2> QED BY DEF CreateVm, Become
<1> HIDE DEF x
<1> QED BY <1>2, <1>3, <1>4

LEMMA ProvisionedOne ==
    ASSUME NEW c, Alone(c), OneInv(c), [Next]_vars, At(c, "createVm"), Provisioned(c)
    PROVE  OneInv(c)'
<1> DEFINE rows == {NewRow(c, d) : d \in op[c].details}
           v == op[c].vm
<1>1. /\ links' = links /\ op[c].pc \notin Settling /\ op[c].pc = "createVm"
      /\ Loop(c, "saveLinks", rows) /\ vms' = [vms EXCEPT ![v].state = "stopped"]
  BY DEF Provisioned, At, Settling
<1>2. /\ LinksInv /\ c \in Clients /\ vms \in [Vms -> VmType] /\ op[c] \in OpType
      /\ v \in Vms /\ vms[v].state = "provisioning"
      /\ \A d \in op[c].details : DetailSound(vms, d) /\ d.host.target \in Vms
      /\ NamesDiffer(vms)
  BY <1>1, OneKnows DEF OneSound, Detailed, OpSound, HasVm, LinksInv, VmsSound,
     OpType, DetailType, HostType
<1>3. rows \in SUBSET RowType
  BY <1>2, NewRowsTyped
<1>4. /\ \A w \in Vms : w # v => vms'[w] = vms[w]
      /\ vms'[v].state = "stopped" /\ vms'[v].name = vms[v].name
      /\ vms' \in [Vms -> VmType]
  BY <1>1, <1>2 DEF VmType, States
<1>5. Looks(vms, vms') /\ There(vms', v)
  BY <1>2, <1>4 DEF Looks, There
<1>6. AllWhole(vms', links') /\ NamesDiffer(vms')
  BY <1>1, <1>5, WholeAtRest, LooksWhole DEF OneInv
<1>7. \A m \in rows : Whole(vms', m.key, m.row)
  <2>1. ASSUME NEW d \in op[c].details
        PROVE  Whole(vms', NewRow(c, d).key, NewRow(c, d).row)
    <3>1. Leads(vms', d.host.target, d.config.ref)
      BY <1>2, <1>5, <2>1, LooksKeep DEF DetailSound
    <3>2. /\ NewRow(c, d).key[1] = v /\ NewRow(c, d).row.target_uuid = d.host.target
          /\ NewRow(c, d).row.target_name = d.config.ref
      BY DEF NewRow
    <3> QED BY <1>5, <3>1, <3>2 DEF Whole
  <2> QED BY <2>1
<1> HIDE DEF rows
<1>8. ASSUME NEW s, s.pc = "saveLinks", s.rows = rows, ~s.err
      PROVE  OneSound(vms', links', s)
  BY <1>6, <1>7, <1>8 DEF OneSound, AllWhole, RowSound, ToSave, Renamed,
     Detailed, SeenSame, Gathering, IsStart, Saving, Renaming
<1>9. "saveLinks" \in Looping
  BY DEF Looping, Saving
<1> HIDE DEF Loop
<1> QED BY <1>1, <1>3, <1>8, <1>9, LoopOne

LEMMA StartVmOne ==
    ASSUME NEW c, Alone(c), OneInv(c), [Next]_vars, At(c, "getLinkDetails"), StartVm(c)
    PROVE  OneInv(c)'
<1>1. /\ links' = links /\ End(c) /\ op[c].pc \notin Settling
      /\ op[c].pc = "getLinkDetails" /\ op[c].req.kind # "create"
  BY DEF StartVm, At, Settling
<1>2. LinksInv' /\ LinksInv /\ op[c].vm \in Vms /\ vms \in [Vms -> VmType]
  BY <1>1, OneKnows, StepHolds DEF OneInv, OpSound, HasVm
<1>3. vms' \in [Vms -> VmType]
  BY <1>2 DEF LinksInv, TypeOK
<1>4. Looks(vms, vms')
  <2>1. CASE vms' = vms
    BY <2>1, SameLooks
  <2>2. CASE vms' # vms
    <3>1. /\ vms[op[c].vm].state \in {"stopped", "running"}
          /\ vms'[op[c].vm].state = "running"
          /\ vms'[op[c].vm].name = vms[op[c].vm].name
          /\ \A w \in Vms : w # op[c].vm => vms'[w] = vms[w]
      <4> HIDE DEF NewMetadata
      <4> QED BY <1>2, <2>2 DEF StartVm, VmType
    <3> QED BY <1>2, <1>3, <3>1 DEF Looks, There
  <2> QED BY <2>1, <2>2
<1> QED BY <1>1, <1>4, EndOne

LEMMA UpdateVmOne ==
    ASSUME NEW c, Alone(c), OneInv(c), [Next]_vars, At(c, "updateVm"), UpdateVm(c)
    PROVE  OneInv(c)'
<1> DEFINE v == op[c].vm
           n == op[c].req.name
<1>1. /\ links' = links /\ op[c].pc \notin Settling /\ op[c].pc = "updateVm"
  BY DEF UpdateVm, At, Settling
<1>2. CASE End(c) /\ UNCHANGED vms
  BY <1>1, <1>2, SameLooks, EndOne
<1>3. CASE /\ Listed(v) /\ (NameFree(n) \/ vms[v].name = n)
           /\ vms' = [vms EXCEPT ![v].name = n]
           /\ op' = [op EXCEPT ![c] = [op[c] EXCEPT !.pc = "findContainerLinks"]]
  <2> DEFINE s == [op[c] EXCEPT !.pc = "findContainerLinks"]
  <2>1. /\ v \in Vms /\ op[c] \in OpType /\ ~op[c].err /\ vms \in [Vms -> VmType]
        /\ NamesDiffer(vms)
    BY <1>1, OneKnows DEF OneSound, OpSound, HasVm
  <2>2. s.pc = "findContainerLinks" /\ s.vm = v /\ s.req.name = n /\ ~s.err
    BY <2>1 DEF OpType
  <2>3. op' = [op EXCEPT ![c] = s]
    BY <1>3
  <2> HIDE DEF s
  <2>4. /\ vms'[v].name = n /\ vms'[v].state = vms[v].state
        /\ \A w \in Vms : w # v => vms'[w] = vms[w]
    BY <1>3, <2>1 DEF VmType
  <2>5. /\ There(vms', v) /\ \A w \in Vms : There(vms', w) = There(vms, w)
    BY <1>3, <2>1, <2>4 DEF There, Listed
  <2>6. NamesDiffer(vms')
    <3>1. \A w \in Vms : There(vms, w) /\ w # v => vms[w].name # n
      BY <1>3, <2>1, <2>5 DEF NameFree, Listed, There, NamesDiffer
    <3> QED BY <2>1, <2>4, <2>5, <3>1 DEF NamesDiffer
  <2>7. ASSUME NEW k \in Keys, links'[k] # None
        PROVE  RowSound(vms', s, k, links'[k])
    <3>1. AllWhole(vms, links) /\ links[k] \in LinkType
      BY <1>1, <2>7, WholeAtRest, OneKnows DEF OneInv
    <3>2. /\ Whole(vms, k, links[k]) /\ k[1] \in Vms /\ links[k].target_uuid \in Vms
      BY <1>1, <2>7, <3>1 DEF AllWhole, Keys, LinkType
    <3>3. CASE links[k].target_uuid = v
      BY <1>1, <2>2, <2>5, <3>2, <3>3 DEF RowSound, OldName, RenamingHere, Whole
    <3>4. CASE links[k].target_uuid # v
      BY <1>1, <2>4, <2>5, <3>2, <3>4 DEF RowSound, Whole, Leads
    <3> QED BY <3>3, <3>4
  <2>8. OneSound(vms', links', s)
    BY <2>2, <2>4, <2>5, <2>6, <2>7 DEF OneSound, ToSave, Renamed, Detailed, SeenSame,
       Gathering, IsStart, Saving
  <2> QED BY <2>3, <2>8, OneStep
<1> HIDE DEF v, n
<1> QED BY <1>2, <1>3 DEF UpdateVm, Become, v, n

(* The rows that a rename writes back.                                     *)
LEMMA FindContainerLinksOne ==
    ASSUME NEW c, Alone(c), OneInv(c), [Next]_vars, At(c, "findContainerLinks"),
           FindContainerLinks(c)
    PROVE  OneInv(c)'
<1> DEFINE v == op[c].vm
           n == op[c].req.name
           new(m) == [m EXCEPT !.row.container_name = n]
           rows == {new(m) : m \in RowsOf(v)}
           pc == "updateContainerLinks"
<1>1. /\ links' = links /\ vms' = vms /\ op[c].pc = "findContainerLinks"
      /\ Loop(c, pc, rows)
  BY DEF FindContainerLinks, At
<1>2. /\ LinksInv /\ NamesDiffer(vms) /\ There(vms, v) /\ vms[v].name = n /\ n \in Names
      /\ \A k \in Keys : links[k] # None => RowSound(vms, op[c], k, links[k])
                                            /\ links[k] \in LinkType
  BY <1>1, OneKnows, RequestTyped DEF OneSound, Renamed, Renaming, OpSound, Known
<1>3. \A k \in Keys : links[k] # None => \/ Whole(vms, k, links[k])
                                         \/ There(vms, k[1]) /\ links[k].target_uuid = v
  BY <1>1, <1>2 DEF RowSound, OldName
<1>4. rows \in SUBSET RowType
  BY <1>2, RowsRenamed
<1>5. ASSUME NEW m \in rows
      PROVE  \/ Whole(vms, m.key, m.row)
             \/ There(vms, m.key[1]) /\ m.row.target_uuid = v
  <2>1. PICK k \in Rows : m = new([key |-> k, row |-> links[k]])
    BY DEF RowsOf, Found
  <2>2. k \in Keys /\ links[k] # None /\ links[k] \in LinkType
    BY <1>2 DEF Rows
  <2>3. /\ m.key = k /\ m.row.target_uuid = links[k].target_uuid
        /\ m.row.target_name = links[k].target_name
    BY <2>1, <2>2 DEF LinkType
  <2> QED BY <1>3, <2>2, <2>3 DEF Whole
<1> HIDE DEF rows
<1>6. ASSUME NEW s, s.pc = pc, s.rows = rows, s.vm = v, ~s.err, s.req = op[c].req
      PROVE  OneSound(vms', links', s)
  <2>1. \A k \in Keys : links'[k] # None => RowSound(vms', s, k, links'[k])
    BY <1>1, <1>3, <1>6 DEF RowSound, OldName, RenamingHere
  <2>2. ToSave(vms', s)
    BY <1>1, <1>5, <1>6 DEF ToSave, OldName, RenamingHere
  <2> QED BY <1>1, <1>2, <1>6, <2>1, <2>2 DEF OneSound, Renamed, Detailed, SeenSame,
       Gathering, IsStart
<1>7. pc \in Looping
  BY DEF Looping, Saving
<1> HIDE DEF Loop, pc
<1> QED BY <1>1, <1>4, <1>6, <1>7, LoopOne

LEMMA FindTargetLinksOne ==
    ASSUME NEW c, Alone(c), OneInv(c), [Next]_vars, At(c, "findTargetLinks"),
           FindTargetLinks(c)
    PROVE  OneInv(c)'
<1> DEFINE v == op[c].vm
           n == op[c].req.name
           new(m) == [m EXCEPT !.row.target_name = n]
           rows == {new(m) : m \in RowsTo(v)}
           pc == "updateTargetLinks"
<1>1. /\ links' = links /\ vms' = vms /\ op[c].pc = "findTargetLinks"
      /\ Loop(c, pc, rows)
  BY DEF FindTargetLinks, At
<1>2. /\ LinksInv /\ NamesDiffer(vms) /\ There(vms, v) /\ vms[v].name = n /\ n \in Names
      /\ \A k \in Keys : links[k] # None => RowSound(vms, op[c], k, links[k])
                                            /\ links[k] \in LinkType
  BY <1>1, OneKnows, RequestTyped DEF OneSound, Renamed, Renaming, OpSound, Known
<1>3. \A k \in Keys : links[k] # None =>
          /\ There(vms, k[1])
          /\ Whole(vms, k, links[k]) \/ links[k].target_uuid = v
  BY <1>1, <1>2 DEF RowSound, OldName, Whole
<1>4. rows \in SUBSET RowType
  BY <1>2, RowsRenamed
<1>5. ASSUME NEW m \in rows
      PROVE  Whole(vms, m.key, m.row)
  <2>1. PICK k \in Rows : /\ m = new([key |-> k, row |-> links[k]])
                          /\ links[k].target_uuid = v
    BY DEF RowsTo, Found
  <2>2. k \in Keys /\ links[k] # None /\ links[k] \in LinkType
    BY <1>2 DEF Rows
  <2>3. m.key = k /\ m.row.target_uuid = v /\ m.row.target_name = n
    BY <2>1, <2>2 DEF LinkType
  <2> QED BY <1>2, <1>3, <2>2, <2>3 DEF Whole, Leads
<1>6. ASSUME NEW k \in Keys, links[k] # None, links[k].target_uuid = v
      PROVE  k \in KeysOf(rows)
  <2> DEFINE m == [key |-> k, row |-> links[k]]
  <2>1. m \in RowsTo(v)
    BY <1>6 DEF RowsTo, Found, Rows
  <2>2. new(m).key = k
    OBVIOUS
  <2>3. new(m) \in rows
    BY <2>1
  <2> HIDE DEF m, new, rows
  <2> QED BY <2>2, <2>3 DEF KeysOf
<1> HIDE DEF rows
<1>7. ASSUME NEW s, s.pc = pc, s.rows = rows, s.vm = v, ~s.err, s.req = op[c].req
      PROVE  OneSound(vms', links', s)
  <2>1. \A k \in Keys : links'[k] # None => RowSound(vms', s, k, links'[k])
    BY <1>1, <1>3, <1>6, <1>7 DEF RowSound
  <2>2. ToSave(vms', s)
    BY <1>1, <1>5, <1>7 DEF ToSave
  <2> QED BY <1>1, <1>2, <1>7, <2>1, <2>2 DEF OneSound, Renamed, Detailed, SeenSame,
       Gathering, IsStart
<1>8. pc \in Looping
  BY DEF Looping, Saving
<1> HIDE DEF Loop, pc
<1> QED BY <1>1, <1>4, <1>7, <1>8, LoopOne

LEMMA KeysLeft ==
    ASSUME NEW rows, NEW m, NEW k \in KeysOf(rows), k # m.key
    PROVE  k \in KeysOf(rows \ {m})
  BY DEF KeysOf

LEMMA SaveLinkOne ==
    ASSUME NEW c, Alone(c), OneInv(c), [Next]_vars, op[c].pc \in Saving, SaveLink(c)
    PROVE  OneInv(c)'
<1> DEFINE pc == op[c].pc
<1>1. PICK m \in op[c].rows : /\ links' = [links EXCEPT ![m.key] = m.row]
                              /\ Loop(c, pc, op[c].rows \ {m})
                              /\ vms' = vms
  BY DEF SaveLink
<1> DEFINE rows == op[c].rows \ {m}
<1>2. /\ LinksInv /\ op[c] \in OpType /\ NamesDiffer(vms) /\ pc \in Looping
      /\ links \in [Keys -> LinkType \cup {None}]
      /\ \A k \in Keys : links[k] # None => RowSound(vms, op[c], k, links[k])
      /\ ToSave(vms, op[c]) /\ Renamed(vms, op[c])
  BY OneKnows, OpIs DEF OneSound, Looping
<1>3. /\ rows \in SUBSET RowType /\ m \in RowType
      /\ \A x \in op[c].rows : Whole(vms, x.key, x.row) \/ OldName(vms, op[c], x.key, x.row)
  BY <1>2 DEF OpType, ToSave
<1>4. m.key \in Keys /\ m.row \in LinkType
  BY <1>3 DEF RowType
<1>5. /\ links'[m.key] = m.row
      /\ \A k \in Keys : k # m.key => links'[k] = links[k]
  BY <1>1, <1>2, <1>4
<1>6. \A k \in KeysOf(op[c].rows) : k # m.key => k \in KeysOf(rows)
  BY KeysLeft
<1>7. Loop(c, pc, rows)
  BY <1>1
<1> HIDE DEF rows
<1>8. ASSUME NEW s, s.pc = pc, s.rows = rows, s.vm = op[c].vm, ~s.err,
             s.req = op[c].req
      PROVE  OneSound(vms', links', s)
  <2>1. ASSUME NEW k \in Keys, links'[k] # None
        PROVE  RowSound(vms, s, k, links'[k])
    <3>1. CASE k = m.key
      BY <1>3, <1>5, <1>8, <3>1 DEF RowSound, OldName, RenamingHere
    <3>2. CASE k # m.key
      <4>1. RowSound(vms, op[c], k, links[k]) /\ links'[k] = links[k]
        BY <1>2, <1>5, <2>1, <3>2
      <4>2. pc \notin {"findTargettingLinks", "findSourceLinks", "delLinks"}
        BY DEF Saving
      <4> QED BY <1>6, <1>8, <3>2, <4>1, <4>2 DEF RowSound, OldName, RenamingHere
    <3> QED BY <3>1, <3>2
  <2>2. ToSave(vms, s)
    <3>1. \A x \in rows : x \in op[c].rows
      BY DEF rows
    <3> QED BY <1>3, <1>8, <3>1 DEF ToSave, OldName, RenamingHere
  <2>3. Renamed(vms, s)
    BY <1>2, <1>8 DEF Renamed
  <2>4. pc \notin {"getVm", "findLinks", "getLinkDetails", "createVm"}
    BY DEF Saving
  <2> HIDE DEF pc
  <2> QED BY <1>1, <1>2, <1>8, <2>1, <2>2, <2>3, <2>4 DEF OneSound, Detailed, SeenSame,
       Gathering, IsStart
<1> HIDE DEF Loop, pc
<1> QED BY <1>2, <1>3, <1>7, <1>8, LoopOne DEF pc

(* The rows that a removal deletes.                                        *)
LEMMA DeleteVmOne ==
    ASSUME NEW c, Alone(c), OneInv(c), [Next]_vars, At(c, "deleteVm"), DeleteVm(c)
    PROVE  OneInv(c)'
<1> DEFINE v == op[c].vm
           x == [state |-> "destroyed", name |-> None, metadata |-> {}]
<1>1. /\ links' = links /\ op[c].pc \notin Settling /\ op[c].pc = "deleteVm"
  BY DEF DeleteVm, At, Settling
<1>2. CASE End(c) /\ UNCHANGED vms
  BY <1>1, <1>2, SameLooks, EndOne
<1>3. CASE /\ vms' = [vms EXCEPT ![v] = x]
           /\ op' = [op EXCEPT ![c] = [op[c] EXCEPT !.pc = "findTargettingLinks"]]
  <2> DEFINE s == [op[c] EXCEPT !.pc = "findTargettingLinks"]
  <2>1. /\ v \in Vms /\ op[c] \in OpType /\ ~op[c].err /\ vms \in [Vms -> VmType]
        /\ NamesDiffer(vms)
    BY <1>1, OneKnows DEF OneSound, OpSound, HasVm
  <2>2. s.pc = "findTargettingLinks" /\ s.vm = v /\ ~s.err
    BY <2>1 DEF OpType
  <2>3. op' = [op EXCEPT ![c] = s]
    BY <1>3
  <2>4. vms'[v] = x /\ \A w \in Vms : w # v => vms'[w] = vms[w]
    BY <1>3, <2>1
  <2>5. x.state = "destroyed"
    OBVIOUS
  <2> HIDE DEF s, x
  <2>6. NamesDiffer(vms')
    BY <2>1, <2>4, <2>5 DEF NamesDiffer, There
  <2>7. ASSUME NEW k \in Keys, links'[k] # None
        PROVE  RowSound(vms', s, k, links'[k])
    <3>1. AllWhole(vms, links) /\ links[k] \in LinkType
      BY <1>1, <2>7, WholeAtRest, OneKnows DEF OneInv
    <3>2. /\ Whole(vms, k, links[k]) /\ k[1] \in Vms /\ links[k].target_uuid \in Vms
      BY <1>1, <2>7, <3>1 DEF AllWhole, Keys, LinkType
    <3>3. CASE v \in {k[1], links[k].target_uuid}
      BY <1>1, <2>2, <3>3 DEF RowSound
    <3>4. CASE v \notin {k[1], links[k].target_uuid}
      BY <1>1, <2>4, <3>2, <3>4 DEF RowSound, Whole, Leads, There
    <3> QED BY <3>3, <3>4
  <2>8. OneSound(vms', links', s)
    BY <2>2, <2>6, <2>7 DEF OneSound, ToSave, Renamed, Detailed, SeenSame,
       Gathering, IsStart, Saving, Renaming
  <2> QED BY <2>3, <2>8, OneStep
<1> HIDE DEF v, x
<1>4. \/ End(c) /\ UNCHANGED vms
      \/ /\ vms' = [vms EXCEPT ![v] = x]
         /\ op' = [op EXCEPT ![c] = [op[c] EXCEPT !.pc = "findTargettingLinks"]]
  BY DEF DeleteVm, Become, v, x
<1> QED BY <1>2, <1>3, <1>4

LEMMA FindTargettingLinksOne ==
    ASSUME NEW c, Alone(c), OneInv(c), [Next]_vars, At(c, "findTargettingLinks"),
           FindTargettingLinks(c)
    PROVE  OneInv(c)'
<1> DEFINE v == op[c].vm
           rows == RowsTo(v)
           s == [op[c] EXCEPT !.pc = "findSourceLinks", !.rows = rows]
<1>1. /\ links' = links /\ vms' = vms /\ op[c].pc = "findTargettingLinks"
      /\ op' = [op EXCEPT ![c] = s]
  BY DEF FindTargettingLinks, At, Become
<1>2. /\ op[c] \in OpType /\ ~op[c].err /\ NamesDiffer(vms)
      /\ \A k \in Keys : links[k] # None => RowSound(vms, op[c], k, links[k])
  BY OneKnows DEF OneSound
<1>3. s.pc = "findSourceLinks" /\ s.vm = v /\ s.rows = rows /\ ~s.err
  BY <1>2 DEF OpType
<1> HIDE DEF s
<1>4. \A k \in Keys : links[k] # None /\ links[k].target_uuid = v => k \in KeysOf(rows)
  BY FoundRows DEF Rows, KeysOf
<1> HIDE DEF rows
<1>5. \A k \in Keys : links'[k] # None => RowSound(vms', s, k, links'[k])
  BY <1>1, <1>2, <1>3, <1>4 DEF RowSound, OldName, RenamingHere
<1>6. OneSound(vms', links', s)
  BY <1>1, <1>2, <1>3, <1>5 DEF OneSound, ToSave, Renamed, Detailed, SeenSame,
     Gathering, IsStart, Saving, Renaming
<1> QED BY <1>1, <1>6, OneStep

LEMMA DelLinksOne ==
    ASSUME NEW c, Alone(c), OneInv(c), [Next]_vars, NEW rows \in SUBSET RowType,
           Loop(c, "delLinks", rows), vms' = vms,
           \A k \in Keys : links'[k] # None
               => Whole(vms, k, links'[k]) \/ k \in KeysOf(rows)
    PROVE  OneInv(c)'
<1>1. NamesDiffer(vms)
  BY OneKnows DEF OneSound
<1>2. ASSUME NEW s, s.pc = "delLinks", s.rows = rows, ~s.err
      PROVE  OneSound(vms', links', s)
  BY <1>1, <1>2 DEF OneSound, RowSound, ToSave, Renamed, Detailed, SeenSame,
     Gathering, IsStart, Saving, Renaming
<1>3. "delLinks" \in Looping
  BY DEF Looping
<1> HIDE DEF Loop
<1> QED BY <1>2, <1>3, LoopOne

LEMMA FindSourceLinksOne ==
    ASSUME NEW c, Alone(c), OneInv(c), [Next]_vars, At(c, "findSourceLinks"),
           FindSourceLinks(c)
    PROVE  OneInv(c)'
<1> DEFINE rows == op[c].rows \cup RowsOf(op[c].vm)
<1>1. /\ links' = links /\ vms' = vms /\ op[c].pc = "findSourceLinks"
      /\ Loop(c, "delLinks", rows)
  BY DEF FindSourceLinks, At
<1>2. /\ LinksInv /\ op[c] \in OpType
      /\ \A k \in Keys : links[k] # None => RowSound(vms, op[c], k, links[k])
  BY OneKnows DEF OneSound
<1>3. rows \in SUBSET RowType
  BY <1>2, RowsAre DEF OpType
<1>4. ASSUME NEW k \in Keys, links'[k] # None
      PROVE  Whole(vms, k, links'[k]) \/ k \in KeysOf(rows)
  <2>1. \/ Whole(vms, k, links[k]) \/ k[1] = op[c].vm \/ k \in KeysOf(op[c].rows)
    BY <1>1, <1>2, <1>4 DEF RowSound, OldName, RenamingHere
  <2>2. k[1] = op[c].vm => k \in KeysOf(RowsOf(op[c].vm))
    BY <1>1, <1>4, FoundRows DEF Rows, KeysOf
  <2>3. k \in KeysOf(op[c].rows) \cup KeysOf(RowsOf(op[c].vm)) => k \in KeysOf(rows)
    BY DEF KeysOf
  <2> QED BY <1>1, <2>1, <2>2, <2>3
<1> HIDE DEF rows
<1> QED BY <1>1, <1>3, <1>4, DelLinksOne

LEMMA FindLinkOne ==
    ASSUME NEW c, Alone(c), OneInv(c), [Next]_vars, At(c, "findLink"), FindLink(c)
    PROVE  OneInv(c)'
<1> DEFINE rows == {m \in RowsOf(op[c].vm) : m.key[2] = op[c].req.alias}
<1>1. /\ links' = links /\ vms' = vms /\ op[c].pc \notin Settling
      /\ Loop(c, "delLinks", rows)
  BY DEF FindLink, At, Settling
<1>2. rows \in SUBSET RowType
  BY OneKnows, RowsAre
<1>3. \A k \in Keys : links'[k] # None => Whole(vms, k, links'[k])
  BY <1>1, WholeAtRest DEF OneInv, AllWhole
<1> HIDE DEF rows
<1> QED BY <1>1, <1>2, <1>3, DelLinksOne

LEMMA DelLinkOne ==
    ASSUME NEW c, Alone(c), OneInv(c), [Next]_vars, At(c, "delLinks"), DelLink(c)
    PROVE  OneInv(c)'
<1>1. PICK m \in op[c].rows : /\ links' = [links EXCEPT ![m.key] = None]
                              /\ Loop(c, "delLinks", op[c].rows \ {m})
                              /\ vms' = vms
  BY DEF DelLink
<1> DEFINE rows == op[c].rows \ {m}
<1>2. /\ op[c] \in OpType /\ op[c].pc = "delLinks"
      /\ links \in [Keys -> LinkType \cup {None}]
      /\ \A k \in Keys : links[k] # None => RowSound(vms, op[c], k, links[k])
  BY OneKnows, OpIs DEF OneSound, At
<1>3. rows \in SUBSET RowType /\ m \in RowType
  BY <1>2 DEF OpType
<1>4. m.key \in Keys
  BY <1>3 DEF RowType
<1>5. ASSUME NEW k \in Keys, links'[k] # None
      PROVE  Whole(vms, k, links'[k]) \/ k \in KeysOf(rows)
  <2>1. k # m.key /\ links'[k] = links[k]
    BY <1>1, <1>2, <1>4, <1>5
  <2>2. Whole(vms, k, links[k]) \/ k \in KeysOf(op[c].rows)
    BY <1>2, <1>5, <2>1 DEF RowSound, OldName, RenamingHere
  <2> QED BY <2>1, <2>2, KeysLeft
<1> HIDE DEF rows
<1> QED BY <1>1, <1>3, <1>5, DelLinksOne DEF rows

-----------------------------------------------------------------------------
(* Containers that end, and the beginning.                                 *)

LEMMA VmStopsOne ==
    ASSUME NEW c, Alone(c), OneInv(c), [Next]_vars, VmStops
    PROVE  OneInv(c)'
<1> DEFINE s == op[c]
<1>1. PICK v \in Vms : /\ vms[v].state = "running"
                       /\ vms' = [vms EXCEPT ![v].state = "stopped"]
                       /\ UNCHANGED <<links, op, failures>>
  BY DEF VmStops
<1>2. /\ OneSound(vms, links, s) /\ s \in OpType /\ OpSound(s) /\ vms \in [Vms -> VmType]
      /\ \A k \in Keys : links[k] # None => links[k] \in LinkType
  BY OneKnows
<1>3. LinksInv' /\ op' = op /\ links' = links
  BY <1>1, StepHolds DEF OneInv
<1>4. /\ vms' \in [Vms -> VmType]
      /\ \A w \in Vms : /\ vms'[w].metadata = vms[w].metadata
                        /\ vms'[w].name = vms[w].name
                        /\ There(vms', w) = There(vms, w)
  <2>1. /\ vms'[v].metadata = vms[v].metadata /\ vms'[v].name = vms[v].name
        /\ vms'[v].state = "stopped"
        /\ \A w \in Vms : w # v => vms'[w] = vms[w]
    BY <1>1, <1>2 DEF VmType
  <2> QED BY <1>1, <1>3, <2>1 DEF LinksInv, TypeOK, There
<1>5. Looks(vms, vms')
  BY <1>2, <1>4 DEF Looks
<1>6. NamesDiffer(vms')
  BY <1>2, <1>5, LooksKeep DEF OneSound
<1>7. \A k \in Keys : links[k] # None => RowSound(vms', s, k, links[k])
  <2>1. ASSUME NEW k \in Keys, links[k] # None
        PROVE  RowSound(vms', s, k, links[k])
    <3>1. /\ RowSound(vms, s, k, links[k]) /\ links[k] \in LinkType /\ k[1] \in Vms
      BY <1>2, <2>1 DEF OneSound, Keys
    <3>2. /\ Whole(vms, k, links[k]) => Whole(vms', k, links[k])
          /\ OldName(vms, s, k, links[k]) => OldName(vms', s, k, links[k])
      BY <1>4, <1>5, <3>1, LooksKeep DEF OldName
    <3> QED BY <3>1, <3>2 DEF RowSound
  <2> QED BY <2>1
<1>8. ToSave(vms', s)
  <2>1. ASSUME NEW m \in s.rows, s.pc \in Saving
        PROVE  Whole(vms', m.key, m.row) \/ OldName(vms', s, m.key, m.row)
    <3>1. /\ Whole(vms, m.key, m.row) \/ OldName(vms, s, m.key, m.row)
          /\ m.key \in Keys /\ m.row \in LinkType /\ m.key[1] \in Vms
      BY <1>2, <2>1 DEF OneSound, ToSave, OpType, RowType, Keys
    <3> QED BY <1>4, <1>5, <3>1, LooksKeep DEF OldName
  <2> QED BY <2>1 DEF ToSave
<1>9. Renamed(vms', s)
  <2>1. s.pc \in Renaming => s.vm \in Vms
    BY <1>2 DEF OpSound, HasVm, Renaming
  <2> QED BY <1>2, <1>4, <2>1 DEF OneSound, Renamed
<1>10. Detailed(vms', s)
  <2>1. \A d \in s.details : DetailSound(vms, d) => DetailSound(vms', d)
    BY <1>2, <1>5, LooksKeep DEF OpType, DetailType, HostType, DetailSound
  <2> QED BY <1>2, <2>1 DEF OneSound, Detailed
<1>11. SeenSame(vms', s)
  <2>1. IsStart(s) \/ s.pc = "findLinks" => s.vm \in Vms
    BY <1>2 DEF OpSound, HasVm, IsStart
  <2> QED BY <1>2, <1>4, <2>1 DEF OneSound, SeenSame
<1>12. OneSound(vms', links, s)
  BY <1>2, <1>6, <1>7, <1>8, <1>9, <1>10, <1>11 DEF OneSound
<1> QED BY <1>3, <1>12 DEF OneInv

LEMMA InitOne == ASSUME NEW c, Alone(c), Init PROVE OneInv(c)
<1>1. PICK names \in [Vms -> Names \cup {None}], up \in SUBSET Vms,
           target \in [Keys -> Vms \cup {None}] :
        /\ LeftAlone(names, up, target)
        /\ links = [k \in Keys |->
              IF target[k] = None THEN None
              ELSE [container_name |-> names[k[1]], target_uuid |-> target[k],
                    target_name |-> names[target[k]]]]
        /\ vms = [v \in Vms |->
              [state |-> IF names[v] = None THEN "none"
                         ELSE IF v \in up THEN "running" ELSE "stopped",
               name |-> names[v],
               metadata |->
                 {[alias |-> k[2], target |-> target[k],
                   target_name |-> names[target[k]],
                   container_name |-> names[v]] :
                     k \in {k \in Keys : k[1] = v /\ target[k] # None}}]]
  BY DEF Init
<1>2. \A v \in Vms : /\ vms[v].name = names[v]
                     /\ vms[v].state = IF names[v] = None THEN "none"
                                       ELSE IF v \in up THEN "running" ELSE "stopped"
  BY <1>1
<1>3. \A v \in Vms : There(vms, v) <=> names[v] # None
  BY <1>2 DEF There
<1>4. NamesDiffer(vms)
  BY <1>1, <1>2, <1>3 DEF NamesDiffer, LeftAlone
<1>5. AllWhole(vms, links)
  <2>1. ASSUME NEW k \in Keys, links[k] # None
        PROVE  Whole(vms, k, links[k])
    <3>1. /\ target[k] # None /\ links[k].target_uuid = target[k]
          /\ links[k].target_name = names[target[k]]
      BY <1>1, <2>1
    <3>2. names[k[1]] # None /\ names[target[k]] # None
      BY <1>1, <3>1 DEF LeftAlone
    <3>3. k[1] \in Vms /\ target[k] \in Vms
      BY <3>1 DEF Keys
    <3> QED BY <1>2, <1>3, <3>1, <3>2, <3>3 DEF Whole, Leads
  <2> QED BY <2>1 DEF AllWhole
<1>6. op[c] = Idle
  BY DEF Init, Alone
<1>7. OneSound(vms, links, Idle)
  BY <1>4, <1>5, IdleIsSound
<1> QED BY <1>6, <1>7, InitHolds DEF OneInv

LEMMA OneServes ==
    ASSUME NEW c, Alone(c), OneInv(c), [Next]_vars, Serve(c)
    PROVE  OneInv(c)'
<1>1. \/ At(c, "getVm") /\ GetVm(c)
      \/ At(c, "findLinks") /\ FindLinks(c)
      \/ /\ At(c, "getLinkDetails")
         /\ GetLinkDetail(c) \/ CreateVm(c) \/ StartVm(c)
      \/ At(c, "createVm") /\ Provisioned(c)
      \/ At(c, "updateVm") /\ UpdateVm(c)
      \/ At(c, "findContainerLinks") /\ FindContainerLinks(c)
      \/ At(c, "findTargetLinks") /\ FindTargetLinks(c)
      \/ op[c].pc \in Saving /\ SaveLink(c)
      \/ At(c, "deleteVm") /\ DeleteVm(c)
      \/ At(c, "findTargettingLinks") /\ FindTargettingLinks(c)
      \/ At(c, "findSourceLinks") /\ FindSourceLinks(c)
      \/ At(c, "findLink") /\ FindLink(c)
      \/ At(c, "delLinks") /\ DelLink(c)
  BY DEF Serve
<1> QED BY <1>1, GetVmOne, FindLinksOne, GetLinkDetailOne, CreateVmOne, StartVmOne,
           ProvisionedOne, UpdateVmOne, FindContainerLinksOne, FindTargetLinksOne,
           SaveLinkOne, DeleteVmOne, FindTargettingLinksOne, FindSourceLinksOne,
           FindLinkOne, DelLinkOne

(* No call fails.                                                          *)
LEMMA OneSteps ==
    ASSUME NEW c, Alone(c), OneInv(c), Next
    PROVE  \/ At(c, "idle") /\ Start(c)
           \/ Serve(c)
           \/ VmStops
<1>1. failures \in 0 .. 0
  BY OneKnows, OpIs DEF Alone
<1>2. ~Fail(c)
  BY <1>1 DEF Fail, Alone
<1> QED BY <1>2 DEF Next, Alone

LEMMA OneStepHolds ==
    ASSUME NEW c, Alone(c), OneInv(c), [Next]_vars PROVE OneInv(c)'
<1>1. CASE UNCHANGED vars
  BY <1>1, StepHolds DEF OneInv, vars
<1>2. CASE Next
  BY <1>2, OneSteps, StartOne, OneServes, VmStopsOne
<1> QED BY <1>1, <1>2

LEMMA OneHolds == ASSUME NEW c, Alone(c) PROVE Spec => []OneInv(c)
<1>1. Init => OneInv(c)
  BY InitOne
<1>2. OneInv(c) /\ [Next]_vars => OneInv(c)'
  BY OneStepHolds
<1> QED BY <1>1, <1>2, PTL DEF Spec

(* With one request at a time, and no call that fails, every row between   *)
(* two requests leads to the container it was made for: createContainer,   *)
(* renameLinks and deleteLinks keep the rows in step with the VMs through  *)
(* any sequence of creations, renames and removals.                        *)
THEOREM RowsLeadToTheirTargets ==
    ASSUME NEW c, Alone(c) PROVE Spec => []RowsResolve
<1>1. OneInv(c) => RowsResolve
  <2> SUFFICES ASSUME OneInv(c), AllIdle, NEW k \in Rows
               PROVE  /\ Listed(k[1])
                      /\ Matches(links[k].target_name) = {links[k].target_uuid}
    BY DEF RowsResolve
  <2>1. op[c].pc \notin Settling /\ k \in Keys /\ links[k] # None
    BY DEF AllIdle, At, Alone, Settling, Rows
  <2>2. Whole(vms, k, links[k])
    BY <2>1, WholeAtRest DEF OneInv, AllWhole
  <2>3. LinksInv /\ NamesDiffer(vms) /\ links[k] \in LinkType
    BY <2>1, OneKnows DEF OneSound
  <2>4. links[k].target_uuid \in Vms
    BY <2>3 DEF LinkType
  <2> QED BY <2>2, <2>3, <2>4, LeadsToOne DEF Whole, There, Listed
<1>2. Spec => []OneInv(c)
  BY OneHolds
<1> QED BY <1>1, <1>2, PTL

-----------------------------------------------------------------------------
(* What a container starts with.                                           *)
Meets == \A v \in Vms :
    vms[v].state = "stopped" /\ vms'[v].state = "running" =>
        {<<h.alias, h.target>> : h \in vms'[v].metadata}
          = {<<k[2], links[k].target_uuid>> : k \in {k \in Rows : k[1] = v}}
Linked(v) == {<<k[2], links[k].target_uuid>> : k \in {k \in Rows : k[1] = v}}

LEMMA OnlyStartVmStarts ==
    ASSUME NEW c, Alone(c), OneInv(c), Next, NEW v \in Vms,
           vms[v].state = "stopped", vms'[v].state = "running"
    PROVE  At(c, "getLinkDetails") /\ StartVm(c)
<1>1. vms \in [Vms -> VmType] /\ vms' # vms
  BY OneKnows
<1>2. ~VmStops /\ ~Start(c)
  BY <1>1 DEF VmStops, Start
<1>3. Serve(c)
  BY <1>2, OneSteps
<1>4. ~CreateVm(c)
  <2> DEFINE x == [state |-> "provisioning", name |-> op[c].req.id,
                   metadata |-> NewMetadata(c)]
  <2>1. CreateVm(c) => vms' = vms \/ \E w \in Vms : vms' = [vms EXCEPT ![w] = x]
    <3> HIDE DEF NewMetadata
    <3> QED BY DEF CreateVm
  <2>2. x.state = "provisioning"
    OBVIOUS
  <2> HIDE DEF x
  <2> QED BY <1>1, <2>1, <2>2
<1>5. ~Provisioned(c) /\ ~UpdateVm(c) /\ ~DeleteVm(c)
  BY <1>1 DEF Provisioned, UpdateVm, DeleteVm, VmType
<1>6. /\ ~GetVm(c) /\ ~FindLinks(c) /\ ~GetLinkDetail(c) /\ ~FindContainerLinks(c)
      /\ ~FindTargetLinks(c) /\ ~SaveLink(c) /\ ~FindTargettingLinks(c)
      /\ ~FindSourceLinks(c) /\ ~FindLink(c) /\ ~DelLink(c)
  BY <1>1 DEF GetVm, FindLinks, GetLinkDetail, FindContainerLinks, FindTargetLinks,
     SaveLink, FindTargettingLinks, FindSourceLinks, FindLink, DelLink
<1> QED BY <1>3, <1>4, <1>5, <1>6 DEF Serve

LEMMA GatheredAll ==
    ASSUME NEW c, Alone(c), OneInv(c), IsStart(op[c]), op[c].configs = {}
    PROVE  {<<h.alias, h.target>> : h \in NewMetadata(c)} = Linked(op[c].vm)
<1> DEFINE v == op[c].vm
<1>1. Gathering(links, op[c])
  BY OneKnows DEF OneSound
<1>2. \A k \in Keys : links[k] # None /\ k[1] = v =>
         \E d \in op[c].details : d.host.alias = k[2] /\ d.host.target = links[k].target_uuid
  BY <1>1 DEF Gathering, Asks, Gathered
<1>3. \A d \in op[c].details : \E k \in Keys :
         /\ links[k] # None /\ k[1] = v /\ k[2] = d.host.alias
         /\ links[k].target_uuid = d.host.target
  BY <1>1 DEF Gathering
<1>4. ASSUME NEW h \in NewMetadata(c) PROVE <<h.alias, h.target>> \in Linked(v)
  <2>1. PICK d \in op[c].details : h = d.host
    BY DEF NewMetadata
  <2>2. PICK k \in Keys : /\ links[k] # None /\ k[1] = v /\ k[2] = h.alias
                          /\ links[k].target_uuid = h.target
    BY <1>3, <2>1
  <2> QED BY <2>2 DEF Linked, Rows
<1>5. ASSUME NEW k \in Rows, k[1] = v
      PROVE  \E h \in NewMetadata(c) : <<h.alias, h.target>> = <<k[2], links[k].target_uuid>>
  <2>1. PICK d \in op[c].details : d.host.alias = k[2] /\ d.host.target = links[k].target_uuid
    BY <1>2, <1>5 DEF Rows
  <2>2. d.host \in NewMetadata(c)
    BY DEF NewMetadata
  <2> QED BY <2>1, <2>2
<1>6. Linked(v) \subseteq {<<h.alias, h.target>> : h \in NewMetadata(c)}
  <2> HIDE DEF NewMetadata
  <2> QED BY <1>5 DEF Linked
<1>7. {<<h.alias, h.target>> : h \in NewMetadata(c)} \subseteq Linked(v)
  <2> HIDE DEF NewMetadata, Linked
  <2> QED BY <1>4
<1> QED BY <1>6, <1>7

(* With one request at a time, and no call that fails, a container starts  *)
(* with the hosts its rows record, all of them and no others, by uuid:     *)
(* what checkForContainerUpdate gathers by name, and sends only when it    *)
(* differs from the copy getVm read, is what is linked.                    *)
THEOREM StartsSeeTheirLinks ==
    ASSUME NEW c, Alone(c) PROVE Spec => StartsMeetLinks
<1>1. OneInv(c) /\ [Next]_vars => [Meets]_vars
  <2> SUFFICES ASSUME OneInv(c), Next, NEW v \in Vms,
                      vms[v].state = "stopped", vms'[v].state = "running"
               PROVE  {<<h.alias, h.target>> : h \in vms'[v].metadata} = Linked(v)
    BY DEF Linked, Meets
  <2>1. At(c, "getLinkDetails") /\ StartVm(c)
    BY OnlyStartVmStarts
  <2>2. /\ IsStart(op[c]) /\ op[c].configs = {} /\ vms \in [Vms -> VmType]
        /\ op[c].seen.metadata = vms[op[c].vm].metadata
    BY <2>1, OneKnows DEF StartVm, IsStart, At, OneSound, SeenSame
  <2>3. v = op[c].vm /\ vms'[v].metadata = NewMetadata(c)
    <3> HIDE DEF NewMetadata
    <3> QED BY <2>1, <2>2 DEF StartVm, VmType
  <2> QED BY <2>2, <2>3, GatheredAll
<1>2. Spec => []OneInv(c)
  BY OneHolds
<1> QED BY <1>1, <1>2, PTL DEF Spec, StartsMeetLinks, Meets
===============================================================================
