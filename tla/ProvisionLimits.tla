-------------------------- MODULE ProvisionLimits --------------------------
(***************************************************************************)
(* The provision_limits plugin (plugins/provision_limits.js): before a     *)
(* container is created, the limits an operator set for the account -- in  *)
(* UFDS, and in the plugin's own configuration -- are merged, and compared *)
(* with the VMs that VMAPI lists for the account.  createContainer asks    *)
(* the plugin first and calls VMAPI createVm afterwards, so two requests   *)
(* may both have been allowed before either creates its VM; and the merge  *)
(* rewrites the configuration that every later request shares.             *)
(***************************************************************************)
EXTENDS Integers, FiniteSets, FiniteSetsExt

CONSTANTS
    Accounts,
    Admins,      \* accounts for which isAdmin() holds
    Clients,     \* concurrent connections, each serving one request at a time
    AccountOf,   \* [Clients -> Accounts]
    Vms,         \* bound: VM uuids
    Brands,      \* VM brands
    Images,      \* images
    BrandOf,     \* [Images -> Brands \cup {None}], getBrand
    Pkgs,        \* packages, [ram: MiB, quota: MiB]
    Configs,     \* the plugin configurations considered: sets of limits
    DcLimits,    \* the UFDS limits of an account considered: sets of limits
    MaxFailures, \* bound: remote calls that fail
    ANY, None

(* A limit; by None counts VMs, check None applies to every VM.            *)
LimitType == [value: Int, by: {None, "ram", "quota"},
              check: {None, "brand", "image", "os"},
              what: Brands \cup {ANY, None, "other"}]
VmType == [account: Accounts, brand: Brands, ram: Nat, quota: Nat]
PkgType == [ram: Nat, quota: Nat]

ASSUME PluginAssumption ==
    /\ Admins \subseteq Accounts
    /\ AccountOf \in [Clients -> Accounts]
    /\ BrandOf \in [Images -> Brands \cup {None}]
    /\ IsFiniteSet(Vms) /\ IsFiniteSet(Clients)
    /\ Pkgs \subseteq PkgType /\ IsFiniteSet(Pkgs)
    /\ Configs \subseteq SUBSET LimitType
    /\ DcLimits \subseteq SUBSET LimitType
    /\ "lx" \in Brands /\ {ANY, None} \cap Brands = {} /\ ANY # None
    /\ None \notin {"brand", "image", "os", "ram", "quota"}
    /\ MaxFailures \in Nat

VARIABLES
    given,   \* the limits the operator wrote in the plugin's configuration
    cfg,     \* the same array in the server's memory: cfg.defaults
    dc,      \* [Accounts -> SUBSET LimitType], UFDS
    vms,     \* [Vms -> VmType \cup {None}], VMAPI's active VMs
    op,      \* [Clients -> OpType], the request each client is serving
    failures

vars == <<given, cfg, dc, vms, op, failures>>

Resting == {"idle", "refused"}
OpType ==
    [pc: Resting \cup {"listLimits", "getImage", "listVms", "createVm", "lost"},
     img: Images \cup {None}, pkg: Pkgs \cup {None}, limits: SUBSET LimitType]
Idle == [pc |-> "idle", img |-> None, pkg |-> None, limits |-> {}]

MibPerGib == 1024

-----------------------------------------------------------------------------
(* filterLimits.                                                           *)

IsAny(l) == l.what = ANY
HasDcWildcards(d) == \E l \in d : l.check = None \/ IsAny(l)
Collision(d, c) == \E l \in d : /\ l.check # None /\ l.check = c.check
                                /\ l.by # None /\ l.by = c.by
Added(d, c) == IF HasDcWildcards(d) THEN {} ELSE {l \in c : ~Collision(d, l)}

(* Mutant: a limit on any brand becomes a check of its own.                *)
SimplifyToAny(l) == IF IsAny(l) THEN [l EXCEPT !.check = ANY] ELSE l
SimplifyAny(l) == IF IsAny(l) THEN [l EXCEPT !.check = None, !.what = None]
                  ELSE l
ValidateLimit(l) == l.check # None => l.what # None
StripImgAttr(l) == l.check \notin {"image", "os"}
FilterLimits(d, c) ==
    {l \in {SimplifyAny(m) : m \in d \cup Added(d, c)} :
        ValidateLimit(l) /\ StripImgAttr(l) /\ l.value # 0}

(* The union holds the limit objects of the configuration themselves, so   *)
(* simplifying them changes it.                                            *)
(* Mutant: the union is built in the configuration itself.                 *)
RewrittenUnion(d, c) == {SimplifyAny(l) : l \in d \cup Added(d, c)}
Rewritten(d, c) == (c \ Added(d, c)) \cup {SimplifyAny(l) : l \in Added(d, c)}

-----------------------------------------------------------------------------
(* getVms and canProvision.                                                *)

NeedVmImage(limits) == \E l \in limits : l.check # None
(* Mutant: limits on other brands are not dropped.                         *)
FilterNone(limits, brand) == limits
FilterRelevant(limits, brand) ==
    {l \in limits : l.check = "brand" => l.what = brand}

(* Nothing but ram and quota is ever asked of VMAPI here: no limit on an   *)
(* image or an OS is left.                                                 *)
FindMinimalFields(limits) ==
    LET quota == \E l \in limits : l.by = "quota"
        ram == \E l \in limits : l.by = "ram" IN
    {x \in {"ram", "quota"} : IF x = "quota" THEN quota ELSE ram \/ ~quota}

VmsOf(a) == {v \in Vms : vms[v] # None /\ vms[v].account = a}
ActiveVms(a, brand, limits) ==
    {v \in VmsOf(a) :
        \/ limits = {} \/ \E l \in limits : l.check # "brand"
        \/ vms[v].brand = brand}
BrandSeen(v, limits) ==
    IF "brand" \in FindMinimalFields(limits) THEN vms[v].brand ELSE None

Machines(a, brand, limits, l) ==
    {v \in ActiveVms(a, brand, limits) :
        l.check = "brand" => BrandSeen(v, limits) = brand}

(* A sum over a set, counted by its units.                                 *)
Units(f, S) == UNION {{x} \X (1 .. f[x]) : x \in S}
TotalOf(f, S) == Cardinality(Units(f, S))

(* Sums over machines; quotas in MiB.                                      *)
SizeOf(l, vm) == IF l.by = "ram" THEN vm.ram
                 ELSE IF l.by = "quota" THEN vm.quota ELSE 1
ScaleOf(l) == IF l.by = "quota" THEN MibPerGib ELSE 1
CountOf(l, S) == ScaleOf(l) * TotalOf([v \in S |-> SizeOf(l, vms[v])], S)
CostOf(l, pkg) == IF l.by = "ram" THEN pkg.ram
                  ELSE IF l.by = "quota" THEN pkg.quota ELSE 1
ValueOf(l) == ScaleOf(l) * l.value
(* Mutant: the new container itself is not counted.                        *)
CanProvisionLast(a, brand, pkg, limits) ==
    \A l \in limits : CountOf(l, Machines(a, brand, limits, l)) <= ValueOf(l)
CanProvision(a, brand, pkg, limits) ==
    \A l \in limits :
        CountOf(l, Machines(a, brand, limits, l)) + CostOf(l, pkg) <= ValueOf(l)

-----------------------------------------------------------------------------
Become(c, s) == op' = [op EXCEPT ![c] = s]
At(c, pc) == op[c].pc = pc
End(c, pc) == Become(c, [Idle EXCEPT !.pc = pc])
stores == <<given, dc, vms>>

(* An admin's containers are not limited.                                  *)
Start(c) ==
    \E img \in Images, pkg \in Pkgs :
        /\ op[c].pc \in Resting
        /\ Become(c, [pc |-> IF AccountOf[c] \in Admins THEN "createVm"
                             ELSE "listLimits",
                      img |-> img, pkg |-> pkg, limits |-> {}])
        /\ UNCHANGED <<stores, cfg>>

(* account.listLimits, and everything up to the next remote call.          *)
ListLimits(c) ==
    LET d == dc[AccountOf[c]]
        limits == FilterLimits(d, cfg) IN
    /\ At(c, "listLimits")
    /\ IF \E l \in limits : l.value <= -1
       THEN End(c, "refused")
       ELSE Become(c, [op[c] EXCEPT !.limits = limits,
                           !.pc = IF limits = {} THEN "createVm"
                                  ELSE IF NeedVmImage(limits) THEN "getImage"
                                  ELSE "listVms"])
    /\ cfg' = Rewritten(d, cfg)
    /\ UNCHANGED stores

GetVmImage(c) ==
    LET brand == BrandOf[op[c].img] IN
    /\ At(c, "getImage")
    /\ IF brand = None /\ \E l \in op[c].limits : l.check = "brand"
       THEN End(c, "idle")
       ELSE Become(c, [op[c] EXCEPT !.pc = "listVms",
                           !.limits = FilterRelevant(@, brand)])
    /\ UNCHANGED <<stores, cfg>>

GetAccountVms(c) ==
    /\ At(c, "listVms")
    /\ IF CanProvision(AccountOf[c], BrandOf[op[c].img], op[c].pkg,
                       op[c].limits)
       THEN Become(c, [op[c] EXCEPT !.pc = "createVm"])
       ELSE End(c, "refused")
    /\ UNCHANGED <<stores, cfg>>

(* VMAPI gives the VM the package's RAM and, in whole GiB, its quota.  A   *)
(* docker image yields an lx VM when getBrand knows no other.              *)
Gib(mib) == (mib + MibPerGib - 1) \div MibPerGib
NewVm(c) ==
    [account |-> AccountOf[c], ram |-> op[c].pkg.ram,
     brand |-> IF BrandOf[op[c].img] = None THEN "lx" ELSE BrandOf[op[c].img],
     quota |-> Gib(op[c].pkg.quota)]
CreateVm(c) ==
    /\ At(c, "createVm")
    /\ \/ \E v \in Vms : /\ vms[v] = None
                         /\ vms' = [vms EXCEPT ![v] = NewVm(c)]
       \/ (\A v \in Vms : vms[v] # None) /\ UNCHANGED vms
    /\ End(c, "idle")
    /\ UNCHANGED <<given, dc, cfg>>

(* A call that fails ends the request, but getAccountVms returns without   *)
(* calling next: the request is never answered.                            *)
Fail(c) ==
    /\ op[c].pc \in {"listLimits", "getImage", "listVms", "createVm"}
    /\ failures < MaxFailures
    /\ failures' = failures + 1
    /\ End(c, IF At(c, "listVms") THEN "lost" ELSE "idle")
    /\ UNCHANGED <<stores, cfg>>

RemoveVm ==
    \E v \in Vms : /\ vms[v] # None
                   /\ vms' = [vms EXCEPT ![v] = None]
                   /\ UNCHANGED <<given, cfg, dc, op, failures>>

Init ==
    /\ given \in Configs
    /\ cfg = given
    /\ dc \in [Accounts -> DcLimits]
    /\ vms = [v \in Vms |-> None]
    /\ op = [c \in Clients |-> Idle]
    /\ failures = 0

Serve(c) == /\ ListLimits(c) \/ GetVmImage(c) \/ GetAccountVms(c) \/ CreateVm(c)
            /\ UNCHANGED failures
Next == \/ \E c \in Clients : Start(c) /\ UNCHANGED failures
        \/ \E c \in Clients : Serve(c)
        \/ \E c \in Clients : Fail(c)
        \/ RemoveVm

Spec == Init /\ [][Next]_vars

-----------------------------------------------------------------------------
(* What the header of the plugin says of limits.  A limit counts the VMs   *)
(* it covers; a limit of the configuration gives way to the account's own  *)
(* one for the same check and dimension, and all give way when one of the  *)
(* account's own is for all VMs; 0 is no limit, -1 forbids what it covers. *)
Covers(l, brand) ==
    l.check = None \/ IsAny(l) \/ (l.check = "brand" /\ l.what = brand)
Overridden(l, d) ==
    HasDcWildcards(d) \/ \E m \in d : m.check = l.check /\ m.by = l.by
Enforced(a, brand) ==
    {l \in dc[a] \cup {m \in given : ~Overridden(m, dc[a])} :
        l.value # 0 /\ Covers(l, brand)}
Used(l, a) == CountOf(l, {v \in VmsOf(a) : Covers(l, vms[v].brand)})

(* Every variable has its type.                                            *)
TypeOK ==
    /\ given \in Configs
    /\ cfg \subseteq LimitType
    /\ dc \in [Accounts -> DcLimits]
    /\ vms \in [Vms -> VmType \cup {None}]
    /\ op \in [Clients -> OpType]
    /\ failures \in 0 .. MaxFailures

(* A container is created only if the account, with it, is within every    *)
(* limit on all VMs that is set for it.  allowProvision reads the VMs long *)
(* before createContainer adds one, so requests of one account in flight   *)
(* at once can each take the last of the room: beyond the limit there is   *)
(* at most one container for every further connection, however long they   *)
(* go on.  (Limits on one brand are not met at all: see GetAccountVms.)    *)
Concurrent(a) == Cardinality({c \in Clients : AccountOf[c] = a})
Charge(l, pkg) == IF l.by = "quota" THEN MibPerGib * Gib(pkg.quota)
                  ELSE CostOf(l, pkg)
Excess(l, a) == (Concurrent(a) - 1) * Max({Charge(l, pkg) : pkg \in Pkgs})
WithinLimits ==
    [][\A v \in Vms, a \in Accounts \ Admins, b \in Brands :
          vms[v] = None /\ vms'[v] # None
                /\ vms'[v].account = a /\ vms'[v].brand = b =>
            \A l \in {m \in Enforced(a, b) : m.check = None \/ IsAny(m)} :
                Used(l, a)' <= ValueOf(l) + Excess(l, a)]_vars

(* A request is refused only for a limit that the operator set: for the    *)
(* account, or in the configuration, where the account's own limits do not *)
(* replace it.  It is one that the container would have exceeded, or one   *)
(* that forbids (filterLimits, canProvision).  This is less than the       *)
(* header promises (OnlyEnforcedRefuse), for a limit on the number of VMs  *)
(* is never replaced, one on any brand only until it is rewritten, and one *)
(* that forbids a brand forbids all.                                       *)
Replaced(l, d) ==
    \/ HasDcWildcards(d)
    \/ l.by # None /\ ~IsAny(l) /\ \E m \in d : m.check = l.check /\ m.by = l.by
LimitsFor(a) == dc[a] \cup {m \in given : ~Replaced(m, dc[a])}
Forbids(l, brand) == l.value <= -1 /\ (Covers(l, brand) \/ l.check = "brand")
Exceeded(l, c) ==
    LET a == AccountOf[c] IN
    /\ l.value # 0 /\ Covers(l, BrandOf[op[c].img])
    /\ Used(l, a) + CostOf(l, op[c].pkg) > ValueOf(l)
RefusalsJustified ==
    [][\A c \in Clients : op[c].pc \notin Resting /\ op'[c].pc = "refused" =>
          \E l \in LimitsFor(AccountOf[c]) :
             Forbids(l, BrandOf[op[c].img]) \/ Exceeded(l, c)]_vars

(* Rewriting the shared configuration does not change what it demands of   *)
(* an account without limits of its own.                                   *)
CfgKeepsMeaning == FilterLimits({}, cfg) = FilterLimits({}, given)

-----------------------------------------------------------------------------
(* What the header says, and the code does not do (README, Departures):    *)
(* "Limits in "defaults" are applied to all provisions unless specifically *)
(* overridden with a ufds limit" (provision_limits.js:135), and "-1        *)
(* prevents all matching provisions" (provision_limits.js:36).             *)
OnlyEnforcedRefuse ==
    [][\A c \in Clients : op[c].pc \notin Resting /\ op'[c].pc = "refused" =>
          \E l \in Enforced(AccountOf[c], BrandOf[op[c].img]) :
             l.value <= -1 \/ Exceeded(l, c)]_vars

=============================================================================
