----------------------- MODULE ProvisionLimitsProofs ------------------------
(***************************************************************************)
(* What holds of the provision_limits plugin for any accounts, packages,   *)
(* images, configurations and limits in UFDS.                              *)
(***************************************************************************)
EXTENDS ProvisionLimits, FiniteSetTheorems, WellFoundedInduction, TLAPS

-----------------------------------------------------------------------------
(* The operators of filterLimits.                                          *)

LEMMA SimplifyAnyTwice ==
    ASSUME NEW l \in LimitType
    PROVE  /\ SimplifyAny(l) \in LimitType
           /\ SimplifyAny(SimplifyAny(l)) = SimplifyAny(l)
<1>1. CASE IsAny(l)
  <2> DEFINE m == [l EXCEPT !.check = None, !.what = None]
  <2>1. SimplifyAny(l) = m
    BY <1>1 DEF SimplifyAny
  <2>2. m \in LimitType /\ m.what = None
    BY DEF LimitType
  <2>3. ~IsAny(m)
    BY <2>2, PluginAssumption DEF IsAny
  <2> HIDE DEF m
  <2> QED BY <2>1, <2>2, <2>3 DEF SimplifyAny
<1>2. CASE ~IsAny(l)
  BY <1>2 DEF SimplifyAny
<1> QED BY <1>1, <1>2

(* An account without limits of its own is under those of the              *)
(* configuration, simplified.                                              *)
Simplified(c) == {SimplifyAny(l) : l \in c}
LEMMA FilterWithoutDc ==
    ASSUME NEW c
    PROVE  FilterLimits({}, c) =
             {l \in Simplified(c) : ValidateLimit(l) /\ StripImgAttr(l) /\ l.value # 0}
<1>1. Added({}, c) = c
  BY DEF Added, HasDcWildcards, Collision
<1>2. {} \cup c = c
  OBVIOUS
<1> QED BY <1>1, <1>2 DEF FilterLimits, Simplified

(* However much of it is simplified, it simplifies to the same.            *)
LEMMA RewrittenIs ==
    ASSUME NEW d, NEW c \in SUBSET LimitType
    PROVE  /\ Rewritten(d, c) \subseteq LimitType
           /\ Simplified(Rewritten(d, c)) = Simplified(c)
<1> DEFINE A == Added(d, c)
           B == {SimplifyAny(l) : l \in A}
<1>1. A \subseteq c
  BY DEF Added
<1>2. Rewritten(d, c) = (c \ A) \cup B
  BY DEF Rewritten
<1> HIDE DEF A
<1>3. Rewritten(d, c) \subseteq LimitType
  BY <1>1, <1>2, SimplifyAnyTwice
<1>4. Simplified(Rewritten(d, c)) \subseteq Simplified(c)
  <2>1. ASSUME NEW x \in Simplified(Rewritten(d, c)) PROVE x \in Simplified(c)
    <3>1. PICK l \in (c \ A) \cup B : x = SimplifyAny(l)
      BY <1>2, <2>1 DEF Simplified
    <3>2. CASE l \in c \ A
      BY <3>1, <3>2 DEF Simplified
    <3>3. CASE l \in B
      <4>1. PICK k \in A : l = SimplifyAny(k)
        BY <3>3
      <4>2. k \in c /\ x = SimplifyAny(k)
        BY <1>1, <3>1, <4>1, SimplifyAnyTwice
      <4> QED BY <4>2 DEF Simplified
    <3> QED BY <3>1, <3>2, <3>3
  <2> QED BY <2>1
<1>5. Simplified(c) \subseteq Simplified(Rewritten(d, c))
  <2>1. ASSUME NEW x \in Simplified(c) PROVE x \in Simplified(Rewritten(d, c))
    <3>1. PICK l \in c : x = SimplifyAny(l)
      BY <2>1 DEF Simplified
    <3>2. CASE l \in A
      <4>1. SimplifyAny(l) \in Rewritten(d, c)
        BY <1>2, <3>2
      <4>2. x = SimplifyAny(SimplifyAny(l))
        BY <3>1, SimplifyAnyTwice
      <4> QED BY <4>1, <4>2 DEF Simplified
    <3>3. CASE l \notin A
      <4>1. l \in Rewritten(d, c)
        BY <1>2, <3>1, <3>3
      <4> QED BY <3>1, <4>1 DEF Simplified
    <3> QED BY <3>2, <3>3
  <2> QED BY <2>1
<1> QED BY <1>3, <1>4, <1>5

-----------------------------------------------------------------------------
(* A request under way has an image and a package; the configuration in    *)
(* memory simplifies to what the operator wrote.                           *)
Asking == {"listLimits", "getImage", "listVms", "createVm"}
HasImage(s) == s.pc \in Asking => s.img \in Images /\ s.pkg \in Pkgs
LimitsInv ==
    /\ TypeOK
    /\ \A c \in Clients : HasImage(op[c])
    /\ Simplified(cfg) = Simplified(given)

LEMMA IdleIs ==
    \A pc \in Resting \cup {"lost"} :
        [Idle EXCEPT !.pc = pc] \in OpType /\ HasImage([Idle EXCEPT !.pc = pc])
  BY DEF Idle, OpType, Resting, HasImage, Asking

LEMMA ConfigsTyped == \A c \in Configs : c \subseteq LimitType
  BY PluginAssumption

LEMMA DcTyped ==
    ASSUME TypeOK, NEW c \in Clients
    PROVE  dc[AccountOf[c]] \subseteq LimitType
  BY PluginAssumption DEF TypeOK

LEMMA FilterTyped ==
    ASSUME NEW d \in SUBSET LimitType, NEW c \in SUBSET LimitType
    PROVE  FilterLimits(d, c) \subseteq LimitType
<1>1. Added(d, c) \subseteq c
  BY DEF Added
<1>2. \A m \in d \cup Added(d, c) : SimplifyAny(m) \in LimitType
  BY <1>1, SimplifyAnyTwice
<1> QED BY <1>2 DEF FilterLimits

LEMMA GibTyped == ASSUME NEW q \in Nat PROVE Gib(q) \in Nat
  BY DEF Gib, MibPerGib

(* A request takes a step, and the stores are left alone or the            *)
(* configuration is rewritten.                                             *)
LEMMA OpStep ==
    ASSUME LimitsInv, NEW c \in Clients, NEW s \in OpType, HasImage(s),
           op' = [op EXCEPT ![c] = s], UNCHANGED <<given, dc>>,
           vms' \in [Vms -> VmType \cup {None}],
           failures' \in 0 .. MaxFailures,
           cfg' = cfg \/ cfg' = Rewritten(dc[AccountOf[c]], cfg)
    PROVE  LimitsInv'
<1>1. cfg \subseteq LimitType /\ Simplified(cfg) = Simplified(given)
  BY DEF LimitsInv, TypeOK
<1>2. cfg' \subseteq LimitType /\ Simplified(cfg') = Simplified(cfg)
  BY <1>1, RewrittenIs
<1>3. op' \in [Clients -> OpType] /\ \A d \in Clients : HasImage(op'[d])
  BY DEF LimitsInv, TypeOK
<1>4. TypeOK'
  BY <1>2, <1>3 DEF LimitsInv, TypeOK
<1> QED BY <1>1, <1>2, <1>3, <1>4 DEF LimitsInv

LEMMA ServeKeeps ==
    ASSUME LimitsInv, NEW c \in Clients,
           Start(c) \/ ListLimits(c) \/ GetVmImage(c) \/ GetAccountVms(c),
           UNCHANGED failures
    PROVE  LimitsInv'
<1>1. /\ op[c] \in OpType /\ HasImage(op[c]) /\ UNCHANGED <<given, dc>>
      /\ vms' \in [Vms -> VmType \cup {None}]
      /\ failures' \in 0 .. MaxFailures
      /\ cfg' = cfg \/ cfg' = Rewritten(dc[AccountOf[c]], cfg)
  <2> USE DEF LimitsInv, TypeOK, stores
  <2>1. CASE Start(c)
    BY <2>1 DEF Start
  <2>2. CASE ListLimits(c)
    BY <2>2 DEF ListLimits
  <2>3. CASE GetVmImage(c)
    BY <2>3 DEF GetVmImage
  <2>4. CASE GetAccountVms(c)
    BY <2>4 DEF GetAccountVms
  <2> QED BY <2>1, <2>2, <2>3, <2>4
<1>2. ASSUME NEW s \in OpType, HasImage(s), op' = [op EXCEPT ![c] = s]
      PROVE  LimitsInv'
  BY <1>1, <1>2, OpStep
<1>3. ASSUME NEW pc \in Resting, End(c, pc)
      PROVE  LimitsInv'
  BY <1>2, <1>3, IdleIs DEF End, Become
<1>4. ASSUME NEW pc \in Asking, NEW limits \in SUBSET LimitType,
             op[c].pc \in Asking,
             op' = [op EXCEPT ![c] = [op[c] EXCEPT !.pc = pc, !.limits = limits]]
      PROVE  LimitsInv'
  <2> DEFINE s == [op[c] EXCEPT !.pc = pc, !.limits = limits]
  <2>1. s \in OpType /\ HasImage(s)
    BY <1>1, <1>4 DEF OpType, HasImage, Asking
  <2> HIDE DEF s
  <2>2. op' = [op EXCEPT ![c] = s]
    BY <1>4 DEF s
  <2> QED BY <1>2, <2>1, <2>2
<1>5. CASE Start(c)
  <2>1. PICK img \in Images, pkg \in Pkgs, pc \in {"createVm", "listLimits"} :
          op' = [op EXCEPT ![c] = [pc |-> pc, img |-> img, pkg |-> pkg, limits |-> {}]]
    <3>1. PICK img \in Images, pkg \in Pkgs :
            op' = [op EXCEPT ![c] = [pc |-> IF AccountOf[c] \in Admins THEN "createVm"
                                            ELSE "listLimits",
                                     img |-> img, pkg |-> pkg, limits |-> {}]]
      BY <1>5 DEF Start, Become
    <3>2. CASE AccountOf[c] \in Admins
      BY <3>1, <3>2
    <3>3. CASE AccountOf[c] \notin Admins
      BY <3>1, <3>3
    <3> QED BY <3>2, <3>3
  <2> DEFINE s == [pc |-> pc, img |-> img, pkg |-> pkg, limits |-> {}]
  <2>2. s \in OpType /\ HasImage(s)
    BY DEF OpType, HasImage
  <2> HIDE DEF s
  <2>3. op' = [op EXCEPT ![c] = s]
    BY <2>1 DEF s
  <2> QED BY <1>2, <2>2, <2>3
<1>6. CASE ListLimits(c)
  <2> DEFINE limits == FilterLimits(dc[AccountOf[c]], cfg)
  <2>1. limits \in SUBSET LimitType
    <3>1. dc[AccountOf[c]] \subseteq LimitType /\ cfg \subseteq LimitType
      BY DcTyped DEF LimitsInv, TypeOK
    <3> QED BY <3>1, FilterTyped
  <2>2. /\ op[c].pc = "listLimits"
        /\ \/ End(c, "refused")
           \/ \E pc \in {"createVm", "getImage", "listVms"} :
                op' = [op EXCEPT ![c] = [op[c] EXCEPT !.pc = pc, !.limits = limits]]
    <3> DEFINE pc == IF limits = {} THEN "createVm"
                     ELSE IF NeedVmImage(limits) THEN "getImage" ELSE "listVms"
    <3>1. pc \in {"createVm", "getImage", "listVms"}
      OBVIOUS
    <3>2. /\ op[c].pc = "listLimits"
          /\ \/ End(c, "refused")
             \/ op' = [op EXCEPT ![c] = [op[c] EXCEPT !.limits = limits, !.pc = pc]]
      BY <1>6 DEF ListLimits, At, Become
    <3>3. [op[c] EXCEPT !.limits = limits, !.pc = pc]
            = [op[c] EXCEPT !.pc = pc, !.limits = limits]
      BY <1>1 DEF OpType
    <3> HIDE DEF pc, limits
    <3> QED BY <3>1, <3>2, <3>3
  <2> HIDE DEF limits
  <2>3. {"createVm", "getImage", "listVms", "listLimits"} \subseteq Asking
    BY DEF Asking
  <2> QED BY <1>3, <1>4, <2>1, <2>2, <2>3 DEF Resting
<1>7. CASE GetVmImage(c)
  <2> DEFINE limits == FilterRelevant(op[c].limits, BrandOf[op[c].img])
  <2>1. limits \in SUBSET LimitType
    BY <1>1 DEF FilterRelevant, OpType
  <2>2. /\ op[c].pc = "getImage"
        /\ \/ End(c, "idle")
           \/ op' = [op EXCEPT ![c] = [op[c] EXCEPT !.pc = "listVms", !.limits = limits]]
    BY <1>7 DEF GetVmImage, At, Become
  <2> HIDE DEF limits
  <2> QED BY <1>3, <1>4, <2>1, <2>2 DEF Resting, Asking
<1>8. CASE GetAccountVms(c)
  <2>1. /\ op[c].pc = "listVms"
        /\ \/ End(c, "refused")
           \/ op' = [op EXCEPT ![c] = [op[c] EXCEPT !.pc = "createVm"]]
    BY <1>8 DEF GetAccountVms, At, Become
  <2>2. [op[c] EXCEPT !.pc = "createVm"]
          = [op[c] EXCEPT !.pc = "createVm", !.limits = op[c].limits]
    BY <1>1 DEF OpType
  <2>3. op[c].limits \in SUBSET LimitType
    BY <1>1 DEF OpType
  <2> QED BY <1>3, <1>4, <2>1, <2>2, <2>3 DEF Resting, Asking
<1> QED BY <1>5, <1>6, <1>7, <1>8

LEMMA CreateVmKeeps ==
    ASSUME LimitsInv, NEW c \in Clients, CreateVm(c), UNCHANGED failures
    PROVE  LimitsInv'
<1>1. /\ op[c] \in OpType /\ HasImage(op[c]) /\ op[c].pc \in Asking
      /\ vms \in [Vms -> VmType \cup {None}] /\ failures' \in 0 .. MaxFailures
      /\ UNCHANGED <<given, dc, cfg>>
  BY DEF LimitsInv, TypeOK, CreateVm, At, Asking
<1>2. op[c].pkg \in PkgType /\ BrandOf[op[c].img] \in Brands \cup {None}
  BY <1>1, PluginAssumption DEF HasImage
<1>3. NewVm(c) \in VmType
  <2>1. op[c].pkg.ram \in Nat /\ Gib(op[c].pkg.quota) \in Nat
    BY <1>2, GibTyped DEF PkgType
  <2>2. AccountOf[c] \in Accounts /\ "lx" \in Brands
    BY PluginAssumption
  <2> HIDE DEF Gib
  <2> QED BY <1>2, <2>1, <2>2 DEF NewVm, VmType
<1> HIDE DEF NewVm
<1>4. vms' \in [Vms -> VmType \cup {None}]
  BY <1>1, <1>3 DEF CreateVm
<1> DEFINE s == [Idle EXCEPT !.pc = "idle"]
<1>5. s \in OpType /\ HasImage(s) /\ op' = [op EXCEPT ![c] = s]
  BY IdleIs DEF CreateVm, End, Become, Resting
<1> HIDE DEF s
<1> QED BY <1>1, <1>4, <1>5, OpStep

LEMMA FailKeeps ==
    ASSUME LimitsInv, NEW c \in Clients, Fail(c)
    PROVE  LimitsInv'
<1>1. /\ UNCHANGED <<given, dc, cfg>> /\ vms' \in [Vms -> VmType \cup {None}]
      /\ failures' \in 0 .. MaxFailures
  BY PluginAssumption DEF LimitsInv, TypeOK, Fail, stores
<1>2. PICK pc \in Resting \cup {"lost"} : op' = [op EXCEPT ![c] = [Idle EXCEPT !.pc = pc]]
  <2>1. CASE At(c, "listVms")
    BY <2>1 DEF Fail, End, Become
  <2>2. CASE ~At(c, "listVms")
    BY <2>2 DEF Fail, End, Become, Resting
  <2> QED BY <2>1, <2>2
<1> DEFINE s == [Idle EXCEPT !.pc = pc]
<1>3. s \in OpType /\ HasImage(s) /\ op' = [op EXCEPT ![c] = s]
  BY <1>2, IdleIs
<1> HIDE DEF s
<1> QED BY <1>1, <1>3, OpStep

LEMMA InvariantHolds == Spec => []LimitsInv
<1>1. ASSUME Init PROVE LimitsInv
  <2>1. Idle \in OpType /\ HasImage(Idle)
    BY DEF Idle, OpType, Resting, HasImage, Asking
  <2>2. TypeOK
    BY <1>1, <2>1, ConfigsTyped, PluginAssumption DEF Init, TypeOK
  <2> QED BY <1>1, <2>1, <2>2 DEF Init, LimitsInv
<1>2. ASSUME LimitsInv, [Next]_vars PROVE LimitsInv'
  <2>1. CASE UNCHANGED vars
    BY <1>2, <2>1 DEF vars, LimitsInv, TypeOK
  <2>2. CASE RemoveVm
    BY <1>2, <2>2 DEF RemoveVm, LimitsInv, TypeOK
  <2>3. CASE \E c \in Clients : Start(c) /\ UNCHANGED failures
    BY <1>2, <2>3, ServeKeeps
  <2>4. CASE \E c \in Clients : Serve(c)
    BY <1>2, <2>4, ServeKeeps, CreateVmKeeps DEF Serve
  <2>5. CASE \E c \in Clients : Fail(c)
    BY <1>2, <2>5, FailKeeps
  <2> QED BY <1>2, <2>1, <2>2, <2>3, <2>4, <2>5 DEF Next
<1> QED BY <1>1, <1>2, PTL DEF Spec

(* The configuration in memory stays a set of limits, the VMs that are     *)
(* created have the packages and brands of their requests, and every       *)
(* request under way has its image and package.                            *)
THEOREM LimitsTypeCorrect == Spec => []TypeOK
<1>1. LimitsInv => TypeOK
  BY DEF LimitsInv
<1> QED BY <1>1, InvariantHolds, PTL

(* filterLimits simplifies the limit objects of the configuration in       *)
(* place, and only those that the account's own limits leave standing: in  *)
(* whatever order accounts ask, an account without limits of its own is    *)
(* under exactly what the operator wrote.                                  *)
THEOREM ConfigurationKeepsMeaning == Spec => []CfgKeepsMeaning
<1>1. LimitsInv => CfgKeepsMeaning
  BY FilterWithoutDc DEF LimitsInv, CfgKeepsMeaning
<1> QED BY <1>1, InvariantHolds, PTL

-----------------------------------------------------------------------------
(* Sums counted by units.                                                  *)
LEMMA UnitsOfOne ==
    ASSUME NEW x, NEW n \in Nat
    PROVE  IsFiniteSet({x} \X (1 .. n)) /\ Cardinality({x} \X (1 .. n)) = n
<1>1. IsFiniteSet(1 .. n) /\ Cardinality(1 .. n) = n
  BY FS_Interval
<1>2. IsFiniteSet({x}) /\ Cardinality({x}) = 1
  BY FS_Singleton
<1>3. Cardinality({x} \X (1 .. n)) = Cardinality({x}) * Cardinality(1 .. n)
  BY <1>1, <1>2, FS_Product
<1> QED BY <1>1, <1>2, <1>3, FS_Product

LEMMA UnitsFinite ==
    ASSUME NEW S, IsFiniteSet(S), NEW f, \A x \in S : f[x] \in Nat
    PROVE  IsFiniteSet(Units(f, S)) /\ TotalOf(f, S) \in Nat
<1> DEFINE T == {{x} \X (1 .. f[x]) : x \in S}
           g == [x \in S |-> {x} \X (1 .. f[x])]
<1>1. g \in Surjection(S, T)
  BY DEF Surjection
<1>2. IsFiniteSet(T)
  BY <1>1, FS_Surjection
<1>3. ASSUME NEW t \in T PROVE IsFiniteSet(t)
  <2>1. PICK x \in S : t = {x} \X (1 .. f[x])
    OBVIOUS
  <2> QED BY <2>1, UnitsOfOne
<1>4. IsFiniteSet(UNION T)
  <2> HIDE DEF T
  <2> QED BY <1>2, <1>3, FS_UNION
<1> QED BY <1>4, FS_CardinalityType DEF Units, TotalOf

LEMMA TotalOfFewer ==
    ASSUME NEW S, IsFiniteSet(S), NEW f, \A x \in S : f[x] \in Nat,
           NEW T \in SUBSET S
    PROVE  TotalOf(f, T) <= TotalOf(f, S) /\ TotalOf(f, T) \in Nat
<1>1. Units(f, T) \in SUBSET Units(f, S)
  BY DEF Units
<1>2. IsFiniteSet(T)
  BY FS_Subset
<1> QED BY <1>1, <1>2, UnitsFinite, FS_Subset DEF TotalOf

LEMMA TotalOfSame ==
    ASSUME NEW S, NEW f, NEW g, \A x \in S : f[x] = g[x]
    PROVE  TotalOf(f, S) = TotalOf(g, S)
<1>1. {{x} \X (1 .. f[x]) : x \in S} = {{x} \X (1 .. g[x]) : x \in S}
  OBVIOUS
<1> QED BY <1>1 DEF TotalOf, Units

LEMMA TotalOfOneMore ==
    ASSUME NEW S, IsFiniteSet(S), NEW y, y \notin S,
           NEW f, \A x \in S \cup {y} : f[x] \in Nat
    PROVE  TotalOf(f, S \cup {y}) = TotalOf(f, S) + f[y]
<1> DEFINE U == Units(f, S)
           V == {y} \X (1 .. f[y])
<1>1. Units(f, S \cup {y}) = U \cup V
  BY DEF Units
<1>2. U \cap V = {}
  BY DEF Units
<1>3. IsFiniteSet(U) /\ Cardinality(U) \in Nat
  BY UnitsFinite DEF TotalOf
<1>4. IsFiniteSet(V) /\ Cardinality(V) = f[y]
  BY UnitsOfOne
<1> HIDE DEF U, V
<1>5. Cardinality(U \cup V) = Cardinality(U) + Cardinality(V) - Cardinality(U \cap V)
  BY <1>3, <1>4, FS_Union
<1>6. Cardinality(U \cup V) = Cardinality(U) + f[y]
  <2>1. Cardinality(U \cap V) = 0
    BY <1>2, FS_EmptySet
  <2>2. f[y] \in Nat
    OBVIOUS
  <2> QED BY <1>3, <1>4, <1>5, <2>1, <2>2
<1> QED BY <1>1, <1>6 DEF TotalOf, U

LEMMA TotalOfBounded ==
    ASSUME NEW S, IsFiniteSet(S), NEW m \in Nat, NEW f,
           \A x \in S : f[x] \in Nat /\ f[x] <= m
    PROVE  TotalOf(f, S) <= Cardinality(S) * m
<1>1. Units(f, S) \in SUBSET (S \X (1 .. m))
  BY DEF Units
<1>2. IsFiniteSet(1 .. m) /\ Cardinality(1 .. m) = m
  BY FS_Interval
<1>3. /\ IsFiniteSet(S \X (1 .. m))
      /\ Cardinality(S \X (1 .. m)) = Cardinality(S) * Cardinality(1 .. m)
  BY <1>2, FS_Product
<1> QED BY <1>1, <1>2, <1>3, FS_Subset DEF TotalOf

(* A set of naturals that is finite and not empty has a largest one.       *)
LEMMA MaxIsThere ==
    ASSUME NEW S \in SUBSET Nat, IsFiniteSet(S), S # {}
    PROVE  Max(S) \in S /\ \A x \in S : x <= Max(S)
<1> DEFINE HasMax(X) == \E x \in X : \A y \in X : x >= y
           Bad == {X \in FiniteSubsetsOf(S) : X # {} /\ ~HasMax(X)}
<1>1. Bad = {}
  <2> SUFFICES ASSUME Bad # {} PROVE FALSE
    OBVIOUS
  <2>1. PICK X \in Bad : \A Y \in Bad : <<Y, X>> \notin StrictSubsetOrdering(S)
    BY FS_StrictSubsetOrderingWellFounded, WFMin
  <2>2. X \in SUBSET S /\ IsFiniteSet(X) /\ X # {} /\ ~HasMax(X)
    BY <2>1 DEF FiniteSubsetsOf
  <2>3. PICK x \in X : TRUE
    BY <2>2
  <2> DEFINE Y == X \ {x}
  <2>4. IsFiniteSet(Y) /\ Y \in SUBSET S /\ Y # X /\ Y \subseteq X
    BY <2>2, <2>3, FS_Subset
  <2>5. <<Y, X>> \in StrictSubsetOrdering(S)
    BY <2>2, <2>4 DEF StrictSubsetOrdering
  <2>6. Y \notin Bad
    BY <2>1, <2>5
  <2>7. Y = {} \/ HasMax(Y)
    BY <2>4, <2>6 DEF FiniteSubsetsOf
  <2>8. CASE Y = {}
    BY <2>2, <2>3, <2>8
  <2>9. CASE HasMax(Y)
    <3>1. PICK y \in Y : \A z \in Y : y >= z
      BY <2>9
    <3>2. x \in Nat /\ y \in Nat /\ X \subseteq Nat
      BY <2>2, <2>3, <2>4, <3>1
    <3>3. CASE x >= y
      <4>1. \A z \in X : x >= z
        BY <3>1, <3>2, <3>3, <2>4
      <4> QED BY <4>1, <2>2, <2>3
    <3>4. CASE ~(x >= y)
      <4>1. \A z \in X : y >= z
        BY <3>1, <3>2, <3>4, <2>4
      <4> QED BY <4>1, <3>1, <2>2
    <3> QED BY <3>3, <3>4
  <2> QED BY <2>7, <2>8, <2>9
<1>2. S \in FiniteSubsetsOf(S)
  BY DEF FiniteSubsetsOf
<1>3. PICK x \in S : \A y \in S : x >= y
  BY <1>1, <1>2
<1>4. Max(S) = CHOOSE z \in S : \A y \in S : z >= y
  BY DEF Max
<1> HIDE DEF HasMax, Bad
<1>5. Max(S) \in S /\ \A y \in S : Max(S) >= y
  BY <1>3, <1>4
<1> QED BY <1>5

-----------------------------------------------------------------------------
(* Limits on all VMs.  However the configuration was rewritten, a limit of *)
(* it is there, simplified or not, and nothing else is.                    *)
Wide(l) == l.check = None \/ IsAny(l)
SetFor(a) == dc[a] \cup {m \in given : ~Overridden(m, dc[a])}
WideOf(a) == {l \in SetFor(a) : l.value # 0 /\ Wide(l)}
Kept == \A l \in given : l \in cfg \/ SimplifyAny(l) \in cfg
Sound == \A m \in cfg : \E l \in given : m \in {l, SimplifyAny(l)}

(* What a request that has been told the limits of its account knows.      *)
Told(c) == op[c].pc \in {"getImage", "listVms"}
Seen(c) == Told(c) => \A l \in WideOf(AccountOf[c]) : SimplifyAny(l) \in op[c].limits

(* What the VMs of an account use of a limit, and what the VMs that are    *)
(* allowed and not yet made will use; in the units of the limit.           *)
UsedBy(l, a) == TotalOf([v \in VmsOf(a) |-> SizeOf(l, vms[v])], VmsOf(a))
Pending(a) == {c \in Clients : At(c, "createVm") /\ AccountOf[c] = a}
Size(l, pkg) == IF l.by = "quota" THEN Gib(pkg.quota) ELSE CostOf(l, pkg)
PendingOf(l, a) == TotalOf([c \in Pending(a) |-> Size(l, op[c].pkg)], Pending(a))
IsLargest(m, l) == \A pkg \in Pkgs : Size(l, pkg) <= m

(* Of the VMs that are allowed, only the last that was found room; each of *)
(* the others may be of the largest size.                                  *)
Room(l, a, m) ==
    Pending(a) # {} /\ IsLargest(m, l) =>
        UsedBy(l, a) + PendingOf(l, a) <= l.value + (Concurrent(a) - 1) * m
RoomInv == \A a \in Accounts \ Admins : \A l \in WideOf(a), m \in Nat : Room(l, a, m)
SharedInv == /\ LimitsInv /\ Kept /\ Sound
             /\ \A c \in Clients : Seen(c)
             /\ RoomInv

LEMMA SizeTyped ==
    ASSUME NEW l \in LimitType
    PROVE  /\ \A vm \in VmType : SizeOf(l, vm) \in Nat
           /\ \A pkg \in PkgType : Size(l, pkg) \in Nat
<1>1. \A vm \in VmType : SizeOf(l, vm) \in Nat
  BY DEF VmType, SizeOf
<1>2. ASSUME NEW pkg \in PkgType PROVE Size(l, pkg) \in Nat
  <2>1. pkg.quota \in Nat /\ pkg.ram \in Nat
    BY DEF PkgType
  <2>2. Gib(pkg.quota) \in Nat
    BY <2>1, GibTyped
  <2> HIDE DEF Gib
  <2> QED BY <2>1, <2>2 DEF Size, CostOf
<1> QED BY <1>1, <1>2

(* The VM that is made is charged by its size.                             *)
LEMMA NewVmIs ==
    ASSUME LimitsInv, NEW c \in Clients, op[c].pc \in Asking
    PROVE  /\ NewVm(c) \in VmType /\ NewVm(c).account = AccountOf[c]
           /\ op[c].pkg \in Pkgs /\ op[c].pkg \in PkgType
           /\ \A l : SizeOf(l, NewVm(c)) = Size(l, op[c].pkg)
<1>1. op[c].img \in Images /\ op[c].pkg \in Pkgs /\ op[c].pkg \in PkgType
  BY PluginAssumption DEF LimitsInv, HasImage
<1>2. op[c].pkg.ram \in Nat /\ Gib(op[c].pkg.quota) \in Nat
  BY <1>1, GibTyped DEF PkgType
<1>3. AccountOf[c] \in Accounts /\ BrandOf[op[c].img] \in Brands \cup {None} /\ "lx" \in Brands
  BY <1>1, PluginAssumption
<1> HIDE DEF Gib
<1>4. NewVm(c) \in VmType /\ NewVm(c).account = AccountOf[c]
  BY <1>2, <1>3 DEF NewVm, VmType
<1>5. NewVm(c).ram = op[c].pkg.ram /\ NewVm(c).quota = Gib(op[c].pkg.quota)
  BY DEF NewVm
<1>6. \A l : SizeOf(l, NewVm(c)) = Size(l, op[c].pkg)
  BY <1>5 DEF SizeOf, Size, CostOf
<1> QED BY <1>1, <1>4, <1>6

LEMMA UsedTyped ==
    ASSUME TypeOK, NEW l \in LimitType, NEW a
    PROVE  /\ IsFiniteSet(VmsOf(a)) /\ UsedBy(l, a) \in Nat
           /\ \A v \in VmsOf(a) : vms[v] \in VmType /\ SizeOf(l, vms[v]) \in Nat
<1>1. IsFiniteSet(VmsOf(a))
  BY PluginAssumption, FS_Subset DEF VmsOf
<1>2. \A v \in VmsOf(a) : vms[v] \in VmType
  BY DEF TypeOK, VmsOf
<1>3. \A v \in VmsOf(a) : SizeOf(l, vms[v]) \in Nat
  BY <1>2, SizeTyped
<1> HIDE DEF SizeOf
<1> QED BY <1>1, <1>2, <1>3, UnitsFinite DEF UsedBy

LEMMA UsedAfterRemoval ==
    ASSUME TypeOK, NEW l \in LimitType, NEW a, NEW v \in Vms,
           vms' = [vms EXCEPT ![v] = None]
    PROVE  UsedBy(l, a)' <= UsedBy(l, a) /\ UsedBy(l, a)' \in Nat
<1> DEFINE f == [u \in VmsOf(a) |-> SizeOf(l, vms[u])]
           S == VmsOf(a)'
           g == [u \in S |-> SizeOf(l, vms'[u])]
<1>1. S \in SUBSET VmsOf(a) /\ \A u \in S : vms'[u] = vms[u]
  BY DEF VmsOf, TypeOK
<1>2. \A u \in S : g[u] = f[u]
  BY <1>1
<1>3. \A u \in VmsOf(a) : f[u] \in Nat
  BY UsedTyped
<1>4. UsedBy(l, a) = TotalOf(f, VmsOf(a)) /\ UsedBy(l, a)' = TotalOf(g, S)
  BY DEF UsedBy
<1> HIDE DEF f, g, S
<1>5. TotalOf(f, S) <= TotalOf(f, VmsOf(a))
  BY <1>1, <1>3, UsedTyped, TotalOfFewer
<1>6. TotalOf(f, S) \in Nat
  BY <1>1, <1>3, UsedTyped, TotalOfFewer
<1> QED BY <1>2, <1>4, <1>5, <1>6, TotalOfSame

LEMMA UsedAfterCreation ==
    ASSUME TypeOK, NEW l \in LimitType, NEW a, NEW v \in Vms, NEW vm \in VmType,
           vms[v] = None, vms' = [vms EXCEPT ![v] = vm]
    PROVE  /\ UsedBy(l, a)' <= UsedBy(l, a) + SizeOf(l, vm)
           /\ vm.account # a => UsedBy(l, a)' = UsedBy(l, a)
           /\ UsedBy(l, a)' \in Nat
<1> DEFINE f == [u \in VmsOf(a) |-> SizeOf(l, vms[u])]
           S == VmsOf(a)
           T == VmsOf(a)'
           g == [u \in T |-> SizeOf(l, vms'[u])]
<1>1. v \notin S /\ \A u \in S : vms'[u] = vms[u]
  BY DEF VmsOf, TypeOK
<1>2. T = S \/ (T = S \cup {v} /\ vms'[v] = vm /\ vm.account = a)
  BY DEF VmsOf, TypeOK
<1>3. /\ \A u \in S : f[u] \in Nat
      /\ IsFiniteSet(S) /\ UsedBy(l, a) \in Nat /\ SizeOf(l, vm) \in Nat
  BY UsedTyped, SizeTyped
<1>4. UsedBy(l, a) = TotalOf(f, S) /\ UsedBy(l, a)' = TotalOf(g, T)
  BY DEF UsedBy
<1>5. \A u \in S : f[u] = g[u]
  BY <1>1, <1>2
<1>6. T # S => g[v] = SizeOf(l, vm)
  BY <1>2
<1> HIDE DEF f, g, S, T
<1>7. TotalOf(f, S) = TotalOf(g, S)
  BY <1>5, TotalOfSame
<1>8. CASE T = S
  BY <1>3, <1>4, <1>7, <1>8
<1>9. CASE T # S
  <2>1. T = S \cup {v} /\ vm.account = a /\ g[v] = SizeOf(l, vm)
    BY <1>2, <1>6, <1>9
  <2>2. ASSUME NEW u \in S \cup {v} PROVE g[u] \in Nat
    <3>1. CASE u = v
      BY <1>3, <2>1, <3>1
    <3>2. CASE u \in S
      BY <1>3, <1>5, <3>2
    <3> QED BY <3>1, <3>2
  <2>3. TotalOf(g, S \cup {v}) = TotalOf(g, S) + g[v]
    BY <1>1, <1>3, <2>2, TotalOfOneMore
  <2> QED BY <1>3, <1>4, <1>7, <2>1, <2>3
<1> QED BY <1>8, <1>9

LEMMA PendingTyped ==
    ASSUME LimitsInv, NEW l \in LimitType, NEW a
    PROVE  /\ IsFiniteSet(Pending(a)) /\ PendingOf(l, a) \in Nat
           /\ \A c \in Pending(a) :
                op[c].pkg \in Pkgs /\ Size(l, op[c].pkg) \in Nat
<1>1. IsFiniteSet(Pending(a))
  BY PluginAssumption, FS_Subset DEF Pending
<1>2. \A c \in Pending(a) : op[c].pkg \in Pkgs /\ op[c].pkg \in PkgType
  BY NewVmIs DEF Pending, At, Asking
<1>3. \A c \in Pending(a) : Size(l, op[c].pkg) \in Nat
  BY <1>2, SizeTyped
<1> HIDE DEF Size
<1> QED BY <1>1, <1>2, <1>3, UnitsFinite DEF PendingOf

(* Requests that end leave the others pending as they are.                 *)
LEMMA PendingFewer ==
    ASSUME LimitsInv, NEW l \in LimitType, NEW a,
           Pending(a)' \subseteq Pending(a),
           \A c \in Pending(a)' : op'[c] = op[c]
    PROVE  PendingOf(l, a)' <= PendingOf(l, a) /\ PendingOf(l, a)' \in Nat
<1> DEFINE f == [c \in Pending(a) |-> Size(l, op[c].pkg)]
           S == Pending(a)'
           g == [c \in S |-> Size(l, op'[c].pkg)]
<1>1. \A c \in S : g[c] = f[c]
  OBVIOUS
<1>2. \A c \in Pending(a) : f[c] \in Nat
  BY PendingTyped
<1>3. PendingOf(l, a) = TotalOf(f, Pending(a)) /\ PendingOf(l, a)' = TotalOf(g, S)
  BY DEF PendingOf
<1>4. S \in SUBSET Pending(a)
  OBVIOUS
<1> HIDE DEF f, g, S
<1>5. TotalOf(f, S) <= TotalOf(f, Pending(a)) /\ TotalOf(f, S) \in Nat
  BY <1>2, <1>4, PendingTyped, TotalOfFewer
<1> QED BY <1>1, <1>3, <1>5, TotalOfSame

(* A request that is no longer pending takes its size away.                *)
LEMMA PendingWithout ==
    ASSUME LimitsInv, NEW l \in LimitType, NEW a, NEW c \in Pending(a),
           Pending(a)' = Pending(a) \ {c},
           \A d \in Pending(a)' : op'[d] = op[d]
    PROVE  PendingOf(l, a)' + Size(l, op[c].pkg) = PendingOf(l, a)
<1> DEFINE f == [d \in Pending(a) |-> Size(l, op[d].pkg)]
           S == Pending(a)'
           g == [d \in S |-> Size(l, op'[d].pkg)]
<1>1. \A d \in S : g[d] = f[d]
  OBVIOUS
<1>2. \A d \in Pending(a) : f[d] \in Nat
  BY PendingTyped
<1>3. PendingOf(l, a) = TotalOf(f, Pending(a)) /\ PendingOf(l, a)' = TotalOf(g, S)
  BY DEF PendingOf
<1>4. c \notin S /\ S \cup {c} = Pending(a) /\ f[c] = Size(l, op[c].pkg)
  OBVIOUS
<1> HIDE DEF f, g, S
<1>5. IsFiniteSet(S)
  BY <1>4, PendingTyped, FS_Subset
<1>6. \A d \in S \cup {c} : f[d] \in Nat
  BY <1>2, <1>4
<1>7. TotalOf(f, S \cup {c}) = TotalOf(f, S) + f[c]
  BY <1>4, <1>5, <1>6, TotalOfOneMore
<1>8. TotalOf(g, S) = TotalOf(f, S)
  BY <1>1, TotalOfSame
<1> QED BY <1>3, <1>4, <1>7, <1>8

(* A request that becomes pending finds at most all the other connections  *)
(* of its account pending.                                                 *)
LEMMA PendingWith ==
    ASSUME LimitsInv, NEW l \in LimitType, NEW a, NEW m \in Nat, IsLargest(m, l),
           NEW c \in Clients, c \notin Pending(a), AccountOf[c] = a,
           Pending(a)' = Pending(a) \cup {c},
           \A d \in Pending(a) : op'[d] = op[d],
           op'[c].pkg = op[c].pkg, op[c].pkg \in PkgType
    PROVE  /\ Concurrent(a) - 1 \in Nat
           /\ PendingOf(l, a)' <= (Concurrent(a) - 1) * m + Size(l, op[c].pkg)
<1> DEFINE f == [d \in Pending(a) |-> Size(l, op[d].pkg)]
           S == Pending(a)
           g == [d \in Pending(a)' |-> Size(l, op'[d].pkg)]
           k == Cardinality(S)
           n == Concurrent(a)
<1>1. IsFiniteSet(S) /\ k \in Nat
  BY PendingTyped, FS_CardinalityType
<1>2. k + 1 <= n /\ n \in Nat
  <2> DEFINE C == {d \in Clients : AccountOf[d] = a}
  <2>1. IsFiniteSet(C) /\ Cardinality(C) \in Nat
    BY PluginAssumption, FS_Subset, FS_CardinalityType
  <2>2. S \cup {c} \in SUBSET C
    BY DEF Pending
  <2>3. Cardinality(S \cup {c}) = k + 1
    BY <1>1, FS_AddElement
  <2> HIDE DEF C, S
  <2>4. Cardinality(S \cup {c}) <= Cardinality(C)
    BY <2>1, <2>2, FS_Subset
  <2> QED BY <2>1, <2>3, <2>4 DEF Concurrent, C
<1>3. \A d \in S : f[d] \in Nat /\ f[d] <= m
  BY PendingTyped DEF IsLargest
<1>4. PendingOf(l, a)' = TotalOf(g, S \cup {c}) /\ \A d \in S : g[d] = f[d]
  BY DEF PendingOf
<1>5. g[c] = Size(l, op[c].pkg) /\ g[c] \in Nat
  BY SizeTyped
<1> HIDE DEF f, g, S
<1>6. ASSUME NEW d \in S \cup {c} PROVE g[d] \in Nat
  BY <1>3, <1>4, <1>5
<1>7. TotalOf(g, S \cup {c}) = TotalOf(g, S) + g[c]
  BY <1>1, <1>6, TotalOfOneMore DEF S
<1>8. TotalOf(g, S) = TotalOf(f, S)
  BY <1>4, TotalOfSame
<1>9. TotalOf(f, S) <= k * m /\ TotalOf(f, S) \in Nat
  BY <1>1, <1>3, TotalOfBounded, UnitsFinite
<1> HIDE DEF k, n
<1>10. k * m <= (n - 1) * m /\ n - 1 \in Nat
  <2>1. PICK j \in Nat : n - 1 = k + j
    <3>1. n - 1 - k \in Nat /\ n - 1 = k + (n - 1 - k)
      BY <1>1, <1>2
    <3> QED BY <3>1
  <2>2. (k + j) * m = k * m + j * m /\ j * m \in Nat /\ k * m \in Nat
    BY <1>1
  <2> QED BY <1>1, <1>2, <2>1, <2>2
<1>11. k * m \in Nat /\ (n - 1) * m \in Nat
  BY <1>1, <1>10
<1> HIDE DEF Size
<1>12. TotalOf(g, S \cup {c}) <= (n - 1) * m + g[c]
  BY <1>5, <1>7, <1>8, <1>9, <1>10, <1>11
<1> QED BY <1>4, <1>5, <1>10, <1>12 DEF n

-----------------------------------------------------------------------------
(* The limits that are set for an account are among those that a request   *)
(* is told, simplified, and it is told no others.                          *)
LEMMA SimplifiedIs ==
    ASSUME NEW l \in LimitType
    PROVE  LET k == SimplifyAny(l) IN
           /\ k \in LimitType /\ ~IsAny(k)
           /\ k.by = l.by /\ k.value = l.value
           /\ Wide(l) => k.check = None
           /\ ~IsAny(l) => k = l
<1>1. CASE IsAny(l)
  <2> DEFINE m == [l EXCEPT !.check = None, !.what = None]
  <2>1. SimplifyAny(l) = m
    BY <1>1 DEF SimplifyAny
  <2>2. /\ m \in LimitType /\ m.what = None /\ m.check = None
        /\ m.by = l.by /\ m.value = l.value
    BY DEF LimitType
  <2>3. ~IsAny(m)
    BY <2>2, PluginAssumption DEF IsAny
  <2> HIDE DEF m
  <2> QED BY <1>1, <2>1, <2>2, <2>3
<1>2. CASE ~IsAny(l)
  BY <1>2 DEF SimplifyAny, Wide
<1> QED BY <1>1, <1>2

LEMMA KeptStands ==
    ASSUME TypeOK, Kept, Sound, NEW d, cfg' = cfg \/ cfg' = Rewritten(d, cfg),
           given' = given
    PROVE  Kept' /\ Sound'
<1>1. cfg \subseteq LimitType /\ given \subseteq LimitType
  BY ConfigsTyped DEF TypeOK
<1> DEFINE A == Added(d, cfg)
<1>2. A \subseteq cfg
  BY DEF Added
<1>3. CASE cfg' = cfg
  BY <1>3 DEF Kept, Sound
<1>4. CASE cfg' = Rewritten(d, cfg)
  <2>1. cfg' = (cfg \ A) \cup {SimplifyAny(m) : m \in A}
    BY <1>4 DEF Rewritten
  <2> HIDE DEF A
  <2>2. ASSUME NEW m \in cfg PROVE m \in cfg' \/ SimplifyAny(m) \in cfg'
    BY <2>1
  <2>3. ASSUME NEW l \in given PROVE l \in cfg' \/ SimplifyAny(l) \in cfg'
    <3>1. SimplifyAny(SimplifyAny(l)) = SimplifyAny(l)
      BY <1>1, SimplifyAnyTwice
    <3>2. l \in cfg \/ SimplifyAny(l) \in cfg
      BY DEF Kept
    <3> QED BY <2>2, <3>1, <3>2
  <2>4. ASSUME NEW m \in cfg' PROVE \E l \in given : m \in {l, SimplifyAny(l)}
    <3>1. PICK n \in cfg : m \in {n, SimplifyAny(n)}
      BY <1>2, <2>1
    <3>2. PICK l \in given : n \in {l, SimplifyAny(l)}
      BY DEF Sound
    <3>3. SimplifyAny(SimplifyAny(l)) = SimplifyAny(l)
      BY <1>1, SimplifyAnyTwice
    <3>4. m \in {l, SimplifyAny(l)}
      BY <3>1, <3>2, <3>3
    <3> QED BY <3>4
  <2> QED BY <2>3, <2>4 DEF Kept, Sound
<1> QED BY <1>3, <1>4

LEMMA WideIsTold ==
    ASSUME TypeOK, Kept, NEW a \in Accounts, NEW l \in WideOf(a)
    PROVE  l \in LimitType /\ SimplifyAny(l) \in FilterLimits(dc[a], cfg)
<1>1. /\ dc[a] \subseteq LimitType /\ cfg \subseteq LimitType
      /\ given \subseteq LimitType
  BY ConfigsTyped, PluginAssumption DEF TypeOK
<1>2. l \in LimitType /\ l \in SetFor(a) /\ l.value # 0 /\ Wide(l)
  BY <1>1 DEF WideOf, SetFor
<1> DEFINE k == SimplifyAny(l)
<1>3. k.check = None /\ k.value # 0
  BY <1>2, SimplifiedIs
<1>4. \E m \in dc[a] \cup Added(dc[a], cfg) : k = SimplifyAny(m)
  <2>1. CASE l \in dc[a]
    BY <2>1
  <2>2. CASE l \notin dc[a]
    <3>1. l \in given /\ ~Overridden(l, dc[a])
      BY <1>2, <2>2 DEF SetFor
    <3>2. ~HasDcWildcards(dc[a])
      BY <3>1 DEF Overridden
    <3>3. CASE l \in cfg
      <4>1. ~Collision(dc[a], l)
        BY <3>1 DEF Overridden, Collision
      <4>2. l \in Added(dc[a], cfg)
        BY <3>2, <3>3, <4>1 DEF Added
      <4> QED BY <4>2
    <3>4. CASE k \in cfg
      <4>1. ~Collision(dc[a], k)
        BY <1>3 DEF Collision
      <4>2. k \in Added(dc[a], cfg)
        BY <3>2, <3>4, <4>1 DEF Added
      <4>3. SimplifyAny(k) = k
        BY <1>2, SimplifyAnyTwice
      <4> QED BY <4>2, <4>3
    <3> QED BY <3>1, <3>3, <3>4 DEF Kept
  <2> QED BY <2>1, <2>2
<1>5. ValidateLimit(k) /\ StripImgAttr(k)
  BY <1>3, PluginAssumption DEF ValidateLimit, StripImgAttr
<1> HIDE DEF k
<1>6. k \in {SimplifyAny(m) : m \in dc[a] \cup Added(dc[a], cfg)}
  BY <1>4
<1> QED BY <1>2, <1>3, <1>5, <1>6 DEF FilterLimits, k

-----------------------------------------------------------------------------
(* A request that is allowed finds room for its VM in every limit on all   *)
(* VMs: what VMAPI lists is all that the account has.                      *)
LEMMA ScaleIs ==
    ASSUME NEW l, NEW u \in Nat, NEW value \in Int, NEW pkg \in PkgType,
           ScaleOf(l) * u + CostOf(l, pkg) <= ScaleOf(l) * value
    PROVE  u + Size(l, pkg) <= value
<1>1. pkg.quota \in Nat /\ pkg.ram \in Nat
  BY DEF PkgType
<1>2. CASE l.by = "quota"
  <2>1. 1024 * u + pkg.quota <= 1024 * value
    BY <1>2 DEF ScaleOf, CostOf, MibPerGib
  <2>2. u + (pkg.quota + 1024 - 1) \div 1024 <= value
    BY <1>1, <2>1
  <2> QED BY <1>2, <2>2 DEF Size, Gib, MibPerGib
<1>3. CASE l.by # "quota"
  BY <1>1, <1>3 DEF ScaleOf, CostOf, Size
<1> QED BY <1>2, <1>3

LEMMA CountIsUsed ==
    ASSUME NEW l, NEW k, k.by = l.by, NEW a
    PROVE  CountOf(k, VmsOf(a)) = ScaleOf(l) * UsedBy(l, a)
  BY DEF CountOf, UsedBy, ScaleOf, SizeOf

LEMMA AllowedHasRoom ==
    ASSUME LimitsInv, Kept, NEW c \in Clients, Seen(c), At(c, "listVms"),
           CanProvision(AccountOf[c], BrandOf[op[c].img], op[c].pkg, op[c].limits),
           NEW l \in WideOf(AccountOf[c])
    PROVE  UsedBy(l, AccountOf[c]) + Size(l, op[c].pkg) <= l.value
<1> DEFINE a == AccountOf[c]
           k == SimplifyAny(l)
           brand == BrandOf[op[c].img]
<1>1. TypeOK /\ a \in Accounts
  BY PluginAssumption DEF LimitsInv
<1>2. l \in LimitType /\ Wide(l)
  BY <1>1, WideIsTold DEF WideOf
<1>3. k \in op[c].limits
  BY DEF Seen, Told, At
<1>4. k.by = l.by /\ k.value = l.value /\ k.check = None
  BY <1>2, SimplifiedIs
<1>5. k.check # "brand"
  BY <1>4, PluginAssumption
<1>6. UsedBy(l, a) \in Nat
  BY <1>1, <1>2, UsedTyped
<1>7. op[c].pkg \in PkgType /\ l.value \in Int
  BY <1>2, NewVmIs DEF At, Asking, LimitType
<1> HIDE DEF a, k
<1>8. Machines(a, brand, op[c].limits, k) = VmsOf(a)
  BY <1>3, <1>5 DEF Machines, ActiveVms
<1>9. CountOf(k, VmsOf(a)) + CostOf(k, op[c].pkg) <= ValueOf(k)
  BY <1>3, <1>8 DEF CanProvision, a
<1>10. ScaleOf(l) * UsedBy(l, a) + CostOf(l, op[c].pkg) <= ScaleOf(l) * l.value
  <2>1. ValueOf(k) = ScaleOf(l) * l.value /\ CostOf(k, op[c].pkg) = CostOf(l, op[c].pkg)
    BY <1>4 DEF ValueOf, ScaleOf, CostOf
  <2>2. CountOf(k, VmsOf(a)) = ScaleOf(l) * UsedBy(l, a)
    BY <1>4, CountIsUsed
  <2> QED BY <1>9, <2>1, <2>2
<1> QED BY <1>6, <1>7, <1>10, ScaleIs DEF a

-----------------------------------------------------------------------------
(* The steps.                                                              *)

(* What an account has been told is known to each of its requests.         *)
LEMMA SeenStands ==
    ASSUME LimitsInv, Kept, UNCHANGED <<given, dc>>, NEW c \in Clients, Seen(c),
           \/ op'[c] = op[c]
           \/ op'[c].pc \notin {"getImage", "listVms"}
           \/ ListLimits(c) \/ GetVmImage(c)
    PROVE  Seen(c)'
<1> DEFINE a == AccountOf[c]
<1>1. TypeOK /\ op[c] \in OpType /\ a \in Accounts
  BY PluginAssumption DEF LimitsInv, TypeOK
<1>2. WideOf(a)' = WideOf(a)
  BY DEF WideOf, SetFor
<1>3. CASE op'[c] = op[c]
  BY <1>2, <1>3 DEF Seen, Told
<1>4. CASE op'[c].pc \notin {"getImage", "listVms"}
  BY <1>4 DEF Seen, Told
<1>5. CASE ListLimits(c)
  <2> DEFINE limits == FilterLimits(dc[a], cfg)
  <2>1. op'[c].pc \in {"getImage", "listVms"} => op'[c].limits = limits
    <3>1. \/ End(c, "refused")
          \/ \E pc : op' = [op EXCEPT ![c] = [op[c] EXCEPT !.limits = limits, !.pc = pc]]
      BY <1>5 DEF ListLimits, Become
    <3> HIDE DEF limits
    <3> QED BY <1>1, <3>1 DEF End, Become, Idle, LimitsInv, TypeOK, OpType
  <2>2. \A l \in WideOf(a) : SimplifyAny(l) \in limits
    BY <1>1, WideIsTold
  <2> QED BY <1>2, <2>1, <2>2 DEF Seen, Told
<1>6. CASE GetVmImage(c)
  <2> DEFINE limits == FilterRelevant(op[c].limits, BrandOf[op[c].img])
  <2>1. op'[c].pc \in {"getImage", "listVms"} => op'[c].limits = limits
    <3>1. \/ End(c, "idle")
          \/ op' = [op EXCEPT ![c] = [op[c] EXCEPT !.pc = "listVms", !.limits = limits]]
      BY <1>6 DEF GetVmImage, Become
    <3> HIDE DEF limits
    <3> QED BY <1>1, <3>1 DEF End, Become, Idle, LimitsInv, TypeOK, OpType
  <2>2. ASSUME NEW l \in WideOf(a) PROVE SimplifyAny(l) \in limits
    <3>1. SimplifyAny(l) \in op[c].limits
      BY <1>6 DEF GetVmImage, At, Seen, Told
    <3>2. SimplifyAny(l).check # "brand"
      BY <1>1, WideIsTold, SimplifiedIs, PluginAssumption DEF WideOf
    <3> QED BY <3>1, <3>2 DEF FilterRelevant
  <2> QED BY <1>2, <2>1, <2>2 DEF Seen, Told
<1> QED BY <1>3, <1>4, <1>5, <1>6

LEMMA PendingIs ==
    ASSUME TypeOK, NEW c \in Clients, NEW s, op' = [op EXCEPT ![c] = s], NEW a
    PROVE  /\ s.pc = "createVm" /\ AccountOf[c] = a => Pending(a)' = Pending(a) \cup {c}
           /\ ~(s.pc = "createVm" /\ AccountOf[c] = a) => Pending(a)' = Pending(a) \ {c}
           /\ op'[c] = s /\ \A d \in Clients : d # c => op'[d] = op[d]
<1>1. op'[c] = s /\ \A d \in Clients : d # c => op'[d] = op[d]
  BY DEF TypeOK
<1>2. \A d \in Clients : d \in Pending(a)' <=> op'[d].pc = "createVm" /\ AccountOf[d] = a
  BY DEF Pending, At
<1>3. \A d \in Clients : d \in Pending(a) <=> op[d].pc = "createVm" /\ AccountOf[d] = a
  BY DEF Pending, At
<1>4. Pending(a)' \subseteq Clients /\ Pending(a) \subseteq Clients
  BY DEF Pending
<1>5. ASSUME s.pc = "createVm" /\ AccountOf[c] = a
      PROVE  Pending(a)' = Pending(a) \cup {c}
  BY <1>1, <1>2, <1>3, <1>4, <1>5
<1>6. ASSUME ~(s.pc = "createVm" /\ AccountOf[c] = a)
      PROVE  Pending(a)' = Pending(a) \ {c}
  BY <1>1, <1>2, <1>3, <1>4, <1>6
<1> QED BY <1>1, <1>5, <1>6

LEMMA WideTyped ==
    ASSUME TypeOK, NEW a \in Accounts
    PROVE  WideOf(a) \subseteq LimitType /\ \A l \in WideOf(a) : l.value \in Int
<1>1. dc[a] \subseteq LimitType /\ given \subseteq LimitType
  BY ConfigsTyped, PluginAssumption DEF TypeOK
<1>2. WideOf(a) \subseteq LimitType
  BY <1>1 DEF WideOf, SetFor
<1> QED BY <1>2 DEF LimitType

LEMMA ConcurrentTyped == \A a : Concurrent(a) \in Nat
<1>1. ASSUME NEW a PROVE Concurrent(a) \in Nat
  <2>1. IsFiniteSet({c \in Clients : AccountOf[c] = a})
    BY PluginAssumption, FS_Subset
  <2> QED BY <2>1, FS_CardinalityType DEF Concurrent
<1> QED BY <1>1

(* Nothing comes to be pending, and no VM is made.                         *)
LEMMA RoomStands ==
    ASSUME LimitsInv, NEW a \in Accounts, NEW l \in WideOf(a), NEW m \in Nat,
           Room(l, a, m),
           Pending(a)' \subseteq Pending(a),
           \A c \in Pending(a)' : op'[c] = op[c],
           UsedBy(l, a)' <= UsedBy(l, a), UsedBy(l, a)' \in Nat
    PROVE  Room(l, a, m)'
<1>1. l \in LimitType /\ l.value \in Int
  BY WideTyped DEF LimitsInv
<1>2. UsedBy(l, a) \in Nat /\ PendingOf(l, a) \in Nat
  BY <1>1, UsedTyped, PendingTyped DEF LimitsInv
<1>4. PendingOf(l, a)' <= PendingOf(l, a) /\ PendingOf(l, a)' \in Nat
  BY <1>1, PendingFewer
<1>5. ASSUME Pending(a)' # {}, IsLargest(m, l)
      PROVE  UsedBy(l, a)' + PendingOf(l, a)' <= l.value + (Concurrent(a) - 1) * m
  <2>1. UsedBy(l, a) + PendingOf(l, a) <= l.value + (Concurrent(a) - 1) * m
    BY <1>5 DEF Room
  <2>2. (Concurrent(a) - 1) * m \in Int
    BY ConcurrentTyped
  <2> QED BY <1>1, <1>2, <1>4, <2>1, <2>2
<1> QED BY <1>5 DEF Room, IsLargest

(* A request is allowed: it finds room, and the others that are pending    *)
(* are at most all its other connections.                                  *)
LEMMA RoomAllowed ==
    ASSUME LimitsInv, Kept, NEW c \in Clients, Seen(c), GetAccountVms(c),
           NEW a \in Accounts, NEW l \in WideOf(a), NEW m \in Nat, Room(l, a, m)
    PROVE  Room(l, a, m)'
<1>1. /\ TypeOK /\ l \in LimitType /\ l.value \in Int
      /\ UNCHANGED <<given, dc, vms>>
      /\ At(c, "listVms")
  BY WideTyped DEF LimitsInv, GetAccountVms, stores
<1>2. UsedBy(l, a)' = UsedBy(l, a) /\ UsedBy(l, a) \in Nat
  BY <1>1, UsedTyped DEF UsedBy, VmsOf
<1> DEFINE s == [op[c] EXCEPT !.pc = "createVm"]
           q == [Idle EXCEPT !.pc = "refused"]
<1>3. s.pc = "createVm" /\ s.pkg = op[c].pkg /\ q.pc = "refused"
  BY <1>1 DEF TypeOK, OpType, Idle
<1>4. CASE op' = [op EXCEPT ![c] = s]
           /\ CanProvision(AccountOf[c], BrandOf[op[c].img], op[c].pkg, op[c].limits)
           /\ AccountOf[c] = a
  <2> HIDE DEF s
  <2>1. /\ Pending(a)' = Pending(a) \cup {c} /\ op'[c] = s
        /\ \A d \in Clients : d # c => op'[d] = op[d]
    BY <1>1, <1>3, <1>4, PendingIs
  <2>2. c \notin Pending(a) /\ Pending(a) \subseteq Clients
    BY <1>1 DEF Pending, At
  <2>3. op[c].pkg \in PkgType
    BY <1>1, NewVmIs DEF At, Asking
  <2>4. UsedBy(l, a) + Size(l, op[c].pkg) <= l.value /\ Size(l, op[c].pkg) \in Nat
    BY <1>1, <1>4, <2>3, AllowedHasRoom, SizeTyped
  <2>5. ASSUME IsLargest(m, l)
        PROVE  UsedBy(l, a)' + PendingOf(l, a)' <= l.value + (Concurrent(a) - 1) * m
    <3>1. /\ Concurrent(a) - 1 \in Nat
          /\ PendingOf(l, a)' <= (Concurrent(a) - 1) * m + Size(l, op[c].pkg)
      BY <1>1, <1>3, <1>4, <2>1, <2>2, <2>3, <2>5, PendingWith
    <3>2. (Concurrent(a) - 1) * m \in Nat
      BY <3>1
    <3>3. PendingOf(l, a)' \in Nat
      <4> DEFINE S == Pending(a)'
                 g == [d \in S |-> Size(l, op'[d].pkg)]
      <4>1. IsFiniteSet(S)
        BY <1>1, <2>1, PendingTyped, FS_AddElement
      <4>2. ASSUME NEW d \in S PROVE g[d] \in Nat
        <5>1. CASE d = c
          BY <1>3, <2>1, <2>4, <5>1
        <5>2. CASE d # c
          BY <1>1, <2>1, <2>2, <5>2, PendingTyped
        <5> QED BY <5>1, <5>2
      <4>3. PendingOf(l, a)' = TotalOf(g, S)
        BY DEF PendingOf
      <4> HIDE DEF S, g
      <4> QED BY <4>1, <4>2, <4>3, UnitsFinite
    <3> QED BY <1>1, <1>2, <2>4, <3>1, <3>2, <3>3
  <2> QED BY <2>5 DEF Room, IsLargest
<1>5. CASE op' = [op EXCEPT ![c] = s] /\ AccountOf[c] # a
  <2> HIDE DEF s
  <2>1. Pending(a)' = Pending(a) \ {c} /\ \A d \in Clients : d # c => op'[d] = op[d]
    BY <1>1, <1>5, PendingIs
  <2>2. \A d \in Pending(a)' : op'[d] = op[d]
    BY <2>1 DEF Pending
  <2> QED BY <1>1, <1>2, <2>1, <2>2, RoomStands
<1>6. CASE op' = [op EXCEPT ![c] = q]
  <2> HIDE DEF q
  <2>1. Pending(a)' = Pending(a) \ {c} /\ \A d \in Clients : d # c => op'[d] = op[d]
    BY <1>1, <1>3, <1>6, PendingIs
  <2>2. \A d \in Pending(a)' : op'[d] = op[d]
    BY <2>1 DEF Pending
  <2> QED BY <1>1, <1>2, <2>1, <2>2, RoomStands
<1> QED BY <1>4, <1>5, <1>6 DEF GetAccountVms, End, Become

(* A request that asks, fails, or need not ask: nothing of an account that *)
(* is limited comes to be pending.                                         *)
LEMMA RoomAsking ==
    ASSUME LimitsInv, Kept, NEW c \in Clients, Seen(c),
           Start(c) \/ ListLimits(c) \/ GetVmImage(c) \/ Fail(c),
           NEW a \in Accounts \ Admins, NEW l \in WideOf(a), NEW m \in Nat,
           Room(l, a, m)
    PROVE  Room(l, a, m)'
<1>1. /\ TypeOK /\ l \in LimitType /\ UNCHANGED <<given, dc, vms>>
  BY WideTyped DEF LimitsInv, Start, ListLimits, GetVmImage, Fail, stores
<1>2. UsedBy(l, a)' = UsedBy(l, a) /\ UsedBy(l, a) \in Nat
  BY <1>1, UsedTyped DEF UsedBy, VmsOf
<1>3. ASSUME NEW s, op' = [op EXCEPT ![c] = s], s.pc # "createVm" \/ AccountOf[c] # a
      PROVE  Room(l, a, m)'
  <2>1. Pending(a)' = Pending(a) \ {c} /\ \A d \in Clients : d # c => op'[d] = op[d]
    BY <1>1, <1>3, PendingIs
  <2>2. \A d \in Pending(a)' : op'[d] = op[d]
    BY <2>1 DEF Pending
  <2> QED BY <1>1, <1>2, <2>1, <2>2, RoomStands
<1>4. ASSUME NEW pc, pc # "createVm", End(c, pc) PROVE Room(l, a, m)'
  <2> DEFINE s == [Idle EXCEPT !.pc = pc]
  <2>1. op' = [op EXCEPT ![c] = s] /\ s.pc # "createVm"
    BY <1>4 DEF End, Become, Idle
  <2> HIDE DEF s
  <2> QED BY <1>3, <2>1
<1>5. CASE Start(c)
  <2>1. PICK img \in Images, pkg \in Pkgs :
          op' = [op EXCEPT ![c] = [pc |-> IF AccountOf[c] \in Admins THEN "createVm"
                                          ELSE "listLimits",
                                   img |-> img, pkg |-> pkg, limits |-> {}]]
    BY <1>5 DEF Start, Become
  <2> DEFINE s == [pc |-> IF AccountOf[c] \in Admins THEN "createVm" ELSE "listLimits",
                   img |-> img, pkg |-> pkg, limits |-> {}]
  <2>2. s.pc # "createVm" \/ AccountOf[c] # a
    OBVIOUS
  <2>3. op' = [op EXCEPT ![c] = s]
    BY <2>1
  <2> HIDE DEF s
  <2> QED BY <1>3, <2>2, <2>3
<1>6. CASE ListLimits(c)
  <2> DEFINE limits == FilterLimits(dc[AccountOf[c]], cfg)
             pc == IF limits = {} THEN "createVm"
                   ELSE IF NeedVmImage(limits) THEN "getImage" ELSE "listVms"
             s == [op[c] EXCEPT !.limits = limits, !.pc = pc]
  <2>1. End(c, "refused") \/ op' = [op EXCEPT ![c] = s]
    BY <1>6 DEF ListLimits, Become
  <2>2. s.pc # "createVm" \/ AccountOf[c] # a
    <3>1. AccountOf[c] = a => limits # {}
      BY <1>1, WideIsTold
    <3>2. limits # {} => pc # "createVm"
      OBVIOUS
    <3> HIDE DEF limits, pc
    <3>3. s.pc = pc
      BY <1>1 DEF TypeOK, OpType
    <3> QED BY <3>1, <3>2, <3>3
  <2> HIDE DEF s
  <2> QED BY <1>3, <1>4, <2>1, <2>2
<1>7. CASE GetVmImage(c)
  <2> DEFINE limits == FilterRelevant(op[c].limits, BrandOf[op[c].img])
             s == [op[c] EXCEPT !.pc = "listVms", !.limits = limits]
  <2>1. End(c, "idle") \/ op' = [op EXCEPT ![c] = s]
    BY <1>7 DEF GetVmImage, Become
  <2>2. s.pc # "createVm"
    <3> HIDE DEF limits
    <3> QED BY <1>1 DEF TypeOK, OpType
  <2> HIDE DEF s
  <2> QED BY <1>3, <1>4, <2>1, <2>2
<1>8. CASE Fail(c)
  <2>1. End(c, "lost") \/ End(c, "idle")
    BY <1>8 DEF Fail
  <2> QED BY <1>4, <2>1
<1> QED BY <1>5, <1>6, <1>7, <1>8

(* The VM is made: what was pending is now used.                           *)
LEMMA RoomCreated ==
    ASSUME LimitsInv, NEW c \in Clients, CreateVm(c),
           NEW a \in Accounts, NEW l \in WideOf(a), NEW m \in Nat, Room(l, a, m)
    PROVE  /\ Room(l, a, m)'
           /\ UsedBy(l, a)' \in Nat
           /\ AccountOf[c] = a /\ IsLargest(m, l) =>
                UsedBy(l, a)' <= l.value + (Concurrent(a) - 1) * m
<1>1. /\ TypeOK /\ l \in LimitType /\ l.value \in Int
      /\ UNCHANGED <<given, dc>> /\ At(c, "createVm") /\ op[c].pc \in Asking
  BY WideTyped DEF LimitsInv, CreateVm, At, Asking
<1> DEFINE s == [Idle EXCEPT !.pc = "idle"]
<1>2. s.pc # "createVm" /\ op' = [op EXCEPT ![c] = s]
  BY DEF CreateVm, End, Become, Idle
<1> HIDE DEF s
<1>3. /\ Pending(a)' = Pending(a) \ {c}
      /\ \A d \in Pending(a)' : op'[d] = op[d]
  <2>1. Pending(a)' = Pending(a) \ {c} /\ \A d \in Clients : d # c => op'[d] = op[d]
    BY <1>1, <1>2, PendingIs
  <2> QED BY <2>1 DEF Pending
<1> DEFINE size == Size(l, op[c].pkg)
<1>4. UsedBy(l, a) \in Nat /\ size \in Nat
  BY <1>1, UsedTyped, NewVmIs, SizeTyped
<1> HIDE DEF size
<1>5. /\ UsedBy(l, a)' \in Nat /\ UsedBy(l, a)' <= UsedBy(l, a) + size
      /\ AccountOf[c] # a => UsedBy(l, a)' = UsedBy(l, a)
  <2>1. CASE UNCHANGED vms
    <3>1. UsedBy(l, a)' = UsedBy(l, a)
      BY <2>1 DEF UsedBy, VmsOf
    <3> QED BY <1>4, <3>1
  <2>2. CASE \E v \in Vms : vms[v] = None /\ vms' = [vms EXCEPT ![v] = NewVm(c)]
    <3> DEFINE vm == NewVm(c)
    <3>1. vm \in VmType /\ vm.account = AccountOf[c] /\ SizeOf(l, vm) = size
      BY <1>1, NewVmIs DEF size
    <3> HIDE DEF vm
    <3>2. PICK v \in Vms : vms[v] = None /\ vms' = [vms EXCEPT ![v] = vm]
      BY <2>2 DEF vm
    <3> QED BY <1>1, <3>1, <3>2, UsedAfterCreation
  <2> QED BY <2>1, <2>2 DEF CreateVm
<1>6. CASE AccountOf[c] # a
  <2>1. Pending(a)' \subseteq Pending(a) /\ UsedBy(l, a)' <= UsedBy(l, a)
    BY <1>3, <1>4, <1>5, <1>6
  <2> QED BY <1>1, <1>3, <1>5, <1>6, <2>1, RoomStands
<1>7. CASE AccountOf[c] = a
  <2>1. c \in Pending(a)
    BY <1>1, <1>7 DEF Pending
  <2>2. PendingOf(l, a)' + size = PendingOf(l, a) /\ PendingOf(l, a) \in Nat
    BY <1>1, <1>3, <2>1, PendingWithout, PendingTyped DEF size
  <2>3. PendingOf(l, a)' \in Nat
    BY <1>1, <1>3, <2>1, PendingFewer
  <2>4. ASSUME IsLargest(m, l)
        PROVE  /\ UsedBy(l, a)' + PendingOf(l, a)' <= l.value + (Concurrent(a) - 1) * m
               /\ UsedBy(l, a)' <= l.value + (Concurrent(a) - 1) * m
    <3>1. UsedBy(l, a) + PendingOf(l, a) <= l.value + (Concurrent(a) - 1) * m
      BY <2>1, <2>4 DEF Room
    <3>2. (Concurrent(a) - 1) * m \in Int
      BY ConcurrentTyped
    <3> QED BY <1>1, <1>4, <1>5, <2>2, <2>3, <3>1, <3>2
  <2> QED BY <1>5, <2>4 DEF Room, IsLargest
<1> QED BY <1>6, <1>7

LEMMA RoomRemoved ==
    ASSUME LimitsInv, RemoveVm,
           NEW a \in Accounts, NEW l \in WideOf(a), NEW m \in Nat, Room(l, a, m)
    PROVE  Room(l, a, m)'
<1>1. TypeOK /\ l \in LimitType
  BY WideTyped DEF LimitsInv
<1>2. PICK v \in Vms : vms' = [vms EXCEPT ![v] = None]
  BY DEF RemoveVm
<1>3. UsedBy(l, a)' <= UsedBy(l, a) /\ UsedBy(l, a)' \in Nat
  BY <1>1, <1>2, UsedAfterRemoval
<1>4. Pending(a)' = Pending(a) /\ op' = op
  BY DEF RemoveVm, Pending, At
<1> QED BY <1>3, <1>4, RoomStands

(* A request gets to getImage or listVms only by its own steps that do.    *)
LEMMA ToldByItself ==
    ASSUME TypeOK, NEW c \in Clients, NEW d \in Clients,
           Start(c) \/ ListLimits(c) \/ GetVmImage(c) \/ GetAccountVms(c)
               \/ CreateVm(c) \/ Fail(c)
    PROVE  \/ op'[d] = op[d]
           \/ op'[d].pc \notin {"getImage", "listVms"}
           \/ ListLimits(d) \/ GetVmImage(d)
<1>1. CASE ListLimits(c) \/ GetVmImage(c)
  <2>1. d # c => op'[d] = op[d]
    BY <1>1 DEF ListLimits, GetVmImage, End, Become, TypeOK
  <2> QED BY <1>1, <2>1
<1>2. CASE Start(c) \/ GetAccountVms(c) \/ CreateVm(c) \/ Fail(c)
  <2>1. PICK s : op' = [op EXCEPT ![c] = s] /\ s.pc \notin {"getImage", "listVms"}
    <3>1. ASSUME NEW pc \in {"idle", "refused", "lost"}, End(c, pc)
          PROVE  \E s : op' = [op EXCEPT ![c] = s] /\ s.pc \notin {"getImage", "listVms"}
      <4>1. [Idle EXCEPT !.pc = pc].pc = pc
        BY DEF Idle
      <4> QED BY <3>1, <4>1 DEF End, Become
    <3>2. CASE Start(c)
      <4>1. PICK img \in Images, pkg \in Pkgs :
              op' = [op EXCEPT ![c] = [pc |-> IF AccountOf[c] \in Admins THEN "createVm"
                                              ELSE "listLimits",
                                       img |-> img, pkg |-> pkg, limits |-> {}]]
        BY <3>2 DEF Start, Become
      <4>2. [pc |-> IF AccountOf[c] \in Admins THEN "createVm" ELSE "listLimits",
             img |-> img, pkg |-> pkg, limits |-> {}].pc
              \notin {"getImage", "listVms"}
        OBVIOUS
      <4> QED BY <4>1, <4>2
    <3>3. CASE GetAccountVms(c)
      <4>1. [op[c] EXCEPT !.pc = "createVm"].pc = "createVm"
        BY DEF TypeOK, OpType
      <4> QED BY <3>1, <3>3, <4>1 DEF GetAccountVms, Become
    <3>4. CASE CreateVm(c) \/ Fail(c)
      <4>1. End(c, "idle") \/ End(c, "lost")
        <5>1. CASE At(c, "listVms")
          BY <3>4, <5>1 DEF CreateVm, Fail
        <5>2. CASE ~At(c, "listVms")
          BY <3>4, <5>2 DEF CreateVm, Fail
        <5> QED BY <5>1, <5>2
      <4> QED BY <3>1, <4>1
    <3> QED BY <1>2, <3>2, <3>3, <3>4
  <2>2. op'[c] = s /\ (d # c => op'[d] = op[d])
    BY <2>1 DEF TypeOK
  <2> QED BY <2>1, <2>2
<1> QED BY <1>1, <1>2

LEMMA SharedHolds == Spec => []SharedInv
<1>1. ASSUME Init, LimitsInv PROVE SharedInv
  <2>1. \A c \in Clients : op[c].pc = "idle"
    BY <1>1 DEF Init, Idle
  <2>2. Kept /\ Sound
    BY <1>1 DEF Init, Kept, Sound
  <2>3. \A c \in Clients : Seen(c)
    BY <2>1 DEF Seen, Told
  <2>4. \A a : Pending(a) = {}
    BY <2>1 DEF Pending, At
  <2>5. RoomInv
    BY <2>4 DEF RoomInv, Room
  <2> QED BY <1>1, <2>2, <2>3, <2>5 DEF SharedInv
<1>2. ASSUME SharedInv, LimitsInv', [Next]_vars PROVE SharedInv'
  <2>1. CASE UNCHANGED vars
    <3>1. Kept' /\ Sound' /\ \A c \in Clients : Seen(c)'
      BY <1>2, <2>1 DEF vars, SharedInv, Kept, Sound, Seen, Told, WideOf, SetFor
    <3>2. \A a, l, m : WideOf(a)' = WideOf(a) /\ Room(l, a, m)' = Room(l, a, m)
      BY <2>1 DEF vars, WideOf, SetFor, Room, Pending, At, IsLargest, UsedBy, VmsOf, PendingOf
    <3>3. RoomInv'
      BY <1>2, <3>2 DEF SharedInv, RoomInv
    <3> QED BY <1>2, <3>1, <3>3 DEF SharedInv
  <2>2. /\ LimitsInv /\ TypeOK /\ Kept /\ Sound /\ \A c \in Clients : Seen(c)
        /\ RoomInv
    BY <1>2 DEF SharedInv, LimitsInv
  <2>3. ASSUME Next
        PROVE  /\ UNCHANGED <<given, dc>>
               /\ \E d : cfg' = cfg \/ cfg' = Rewritten(d, cfg)
    BY <2>3 DEF Next, Serve, Start, ListLimits, GetVmImage, GetAccountVms, CreateVm, Fail,
                RemoveVm, stores
  <2>4. ASSUME UNCHANGED <<given, dc>>,
               \A a \in Accounts \ Admins : \A l \in WideOf(a), m \in Nat : Room(l, a, m)'
        PROVE  RoomInv'
    <3>1. \A a : WideOf(a)' = WideOf(a)
      BY <2>4 DEF WideOf, SetFor
    <3> QED BY <2>4, <3>1 DEF RoomInv
  <2>5. ASSUME NEW c \in Clients,
               Start(c) \/ ListLimits(c) \/ GetVmImage(c) \/ GetAccountVms(c)
                   \/ CreateVm(c) \/ Fail(c),
               UNCHANGED <<given, dc>>
        PROVE  (\A d \in Clients : Seen(d)') /\ RoomInv'
    <3>1. ASSUME NEW d \in Clients PROVE Seen(d)'
      <4>1. \/ op'[d] = op[d]
            \/ op'[d].pc \notin {"getImage", "listVms"}
            \/ ListLimits(d) \/ GetVmImage(d)
        BY <2>2, <2>5, ToldByItself
      <4> QED BY <2>2, <2>5, <4>1, SeenStands
    <3>2. ASSUME NEW a \in Accounts \ Admins, NEW l \in WideOf(a), NEW m \in Nat
          PROVE  Room(l, a, m)'
      <4>1. Room(l, a, m) /\ Seen(c)
        BY <2>2 DEF RoomInv
      <4> QED BY <2>2, <2>5, <4>1, RoomAsking, RoomAllowed, RoomCreated
    <3> QED BY <2>4, <2>5, <3>1, <3>2
  <2>6. CASE RemoveVm
    <3>1. UNCHANGED <<given, cfg, dc, op>>
      BY <2>6 DEF RemoveVm
    <3>2. Kept' /\ Sound' /\ \A c \in Clients : Seen(c)'
      BY <2>2, <3>1 DEF Kept, Sound, Seen, Told, WideOf, SetFor
    <3>3. RoomInv'
      BY <2>2, <2>4, <2>6, <3>1, RoomRemoved DEF RoomInv
    <3> QED BY <1>2, <3>2, <3>3 DEF SharedInv
  <2>7. CASE Next /\ ~RemoveVm
    <3>1. PICK c \in Clients : Start(c) \/ ListLimits(c) \/ GetVmImage(c) \/ GetAccountVms(c)
                                 \/ CreateVm(c) \/ Fail(c)
      BY <2>7 DEF Next, Serve
    <3>2. (\A d \in Clients : Seen(d)') /\ RoomInv'
      BY <2>3, <2>5, <2>7, <3>1
    <3>3. Kept' /\ Sound'
      BY <2>2, <2>3, <2>7, KeptStands
    <3> QED BY <1>2, <3>2, <3>3 DEF SharedInv
  <2> QED BY <1>2, <2>1, <2>6, <2>7
<1> QED BY <1>1, <1>2, InvariantHolds, PTL DEF Spec

(* A step that makes a VM of an account is the createVm of one of its      *)
(* requests.                                                               *)
LEMMA MadeByItsRequest ==
    ASSUME LimitsInv, [Next]_vars, NEW v \in Vms, vms[v] = None, vms'[v] # None,
           NEW a, vms'[v].account = a
    PROVE  \E c \in Clients : CreateVm(c) /\ AccountOf[c] = a
<1>1. vms \in [Vms -> VmType \cup {None}]
  BY DEF LimitsInv, TypeOK
<1>2. ~UNCHANGED vms
  OBVIOUS
<1>3. ~RemoveVm
  BY <1>1 DEF RemoveVm
<1>4. PICK c \in Clients : CreateVm(c)
  BY <1>2, <1>3 DEF Next, vars, Serve, Start, ListLimits, GetVmImage, GetAccountVms, Fail, stores
<1>5. op[c].pc \in Asking
  BY <1>4 DEF CreateVm, At, Asking
<1>6. vms'[v] = NewVm(c)
  <2> HIDE DEF NewVm
  <2> QED BY <1>1, <1>4 DEF CreateVm
<1> QED BY <1>4, <1>5, <1>6, NewVmIs

(* What the property says of a limit on all VMs is Room's bound.           *)
LEMMA ExcessIs ==
    ASSUME Pkgs # {}, NEW l \in LimitType, NEW a
    PROVE  \E m \in Nat : /\ IsLargest(m, l)
                          /\ Excess(l, a) = ScaleOf(l) * ((Concurrent(a) - 1) * m)
<1> DEFINE C == {Charge(l, pkg) : pkg \in Pkgs}
           g == [pkg \in Pkgs |-> Charge(l, pkg)]
<1>1. ASSUME NEW pkg \in Pkgs
      PROVE  Charge(l, pkg) = ScaleOf(l) * Size(l, pkg) /\ Size(l, pkg) \in Nat
  <2>1. Size(l, pkg) \in Nat
    BY SizeTyped, PluginAssumption
  <2>2. CASE l.by = "quota"
    <3>1. Charge(l, pkg) = MibPerGib * Gib(pkg.quota) /\ Size(l, pkg) = Gib(pkg.quota)
      BY <2>2 DEF Charge, Size
    <3>2. ScaleOf(l) = MibPerGib
      BY <2>2 DEF ScaleOf
    <3> QED BY <2>1, <3>1, <3>2
  <2>3. CASE l.by # "quota"
    BY <2>1, <2>3 DEF Charge, ScaleOf, Size
  <2> QED BY <2>1, <2>2, <2>3
<1>2. ScaleOf(l) \in {1, 1024}
  BY DEF ScaleOf, MibPerGib
<1> HIDE DEF Charge, Size, ScaleOf
<1>3. \A pkg \in Pkgs : Charge(l, pkg) \in Nat
  BY <1>1, <1>2
<1>4. C \in SUBSET Nat /\ C # {}
  BY <1>3
<1>5. IsFiniteSet(C)
  <2>1. g \in Surjection(Pkgs, C)
    BY DEF Surjection
  <2> QED BY <2>1, FS_Surjection, PluginAssumption
<1>6. Max(C) \in C /\ \A x \in C : x <= Max(C)
  <2> HIDE DEF C
  <2> QED BY <1>4, <1>5, MaxIsThere
<1>7. PICK top \in Pkgs : Max(C) = Charge(l, top)
  BY <1>6
<1> DEFINE m == Size(l, top)
<1>8. m \in Nat /\ Max(C) = ScaleOf(l) * m
  BY <1>1, <1>7
<1>9. IsLargest(m, l)
  <2>1. ASSUME NEW pkg \in Pkgs PROVE Size(l, pkg) <= m
    <3>1. ScaleOf(l) * Size(l, pkg) <= ScaleOf(l) * m /\ Size(l, pkg) \in Nat
      BY <1>1, <1>6, <1>8
    <3> HIDE DEF m
    <3> QED BY <1>2, <1>8, <3>1
  <2> QED BY <2>1 DEF IsLargest
<1>10. Excess(l, a) = (Concurrent(a) - 1) * Max(C)
  BY DEF Excess
<1> HIDE DEF m, C
<1>11. (Concurrent(a) - 1) * (ScaleOf(l) * m) = ScaleOf(l) * ((Concurrent(a) - 1) * m)
  <2>1. Concurrent(a) - 1 \in Int
    BY ConcurrentTyped
  <2>2. \A x, y, z \in Int : x * (y * z) = y * (x * z)
    OBVIOUS
  <2>3. m \in Int /\ ScaleOf(l) \in Int
    BY <1>2, <1>8
  <2> QED BY <2>1, <2>2, <2>3
<1> QED BY <1>8, <1>9, <1>10, <1>11

(* A container is created only within every limit on all VMs that is set   *)
(* for its account, but for one container for each further connection: the *)
(* requests that were allowed and are still to create count, all but the   *)
(* last of them, only with what they may take at most.  For any packages,  *)
(* limits, VMs and connections, and however long the account goes on.      *)
THEOREM LimitsHoldButForOthers == Spec => WithinLimits
<1>1. ASSUME SharedInv, [Next]_vars,
             NEW v \in Vms, NEW a \in Accounts \ Admins, NEW b \in Brands,
             vms[v] = None, vms'[v] # None, vms'[v].account = a, vms'[v].brand = b,
             NEW l \in Enforced(a, b), l.check = None \/ IsAny(l)
      PROVE  Used(l, a)' <= ValueOf(l) + Excess(l, a)
  <2>1. LimitsInv /\ TypeOK /\ RoomInv
    BY <1>1 DEF SharedInv, LimitsInv
  <2>2. PICK c \in Clients : CreateVm(c) /\ AccountOf[c] = a
    BY <1>1, <2>1, MadeByItsRequest
  <2>3. l \in WideOf(a) /\ Wide(l)
    BY <1>1 DEF Enforced, WideOf, SetFor, Wide
  <2>4. l \in LimitType /\ l.value \in Int
    BY <2>1, <2>3, WideTyped
  <2>5. Pkgs # {}
    BY <2>1, <2>2, NewVmIs DEF CreateVm, At, Asking
  <2>6. PICK m \in Nat : /\ IsLargest(m, l)
                        /\ Excess(l, a) = ScaleOf(l) * ((Concurrent(a) - 1) * m)
    BY <2>4, <2>5, ExcessIs
  <2>7. UsedBy(l, a)' <= l.value + (Concurrent(a) - 1) * m /\ UsedBy(l, a)' \in Nat
    <3>1. Room(l, a, m)
      BY <2>1, <2>3 DEF RoomInv
    <3> QED BY <2>1, <2>2, <2>3, <2>6, <3>1, RoomCreated
  <2>8. Used(l, a)' = ScaleOf(l) * UsedBy(l, a)'
    <3>1. {u \in VmsOf(a)' : Covers(l, vms'[u].brand)} = VmsOf(a)'
      BY <2>3 DEF Covers, Wide
    <3> QED BY <3>1 DEF Used, CountOf, UsedBy
  <2>9. ValueOf(l) = ScaleOf(l) * l.value /\ ScaleOf(l) \in Nat
    BY DEF ValueOf, ScaleOf, MibPerGib
  <2>10. (Concurrent(a) - 1) * m \in Int
    BY ConcurrentTyped
  <2> QED BY <2>4, <2>6, <2>7, <2>8, <2>9, <2>10
<1>2. SharedInv /\ [Next]_vars =>
        (\A v \in Vms, a \in Accounts \ Admins, b \in Brands :
            vms[v] = None /\ vms'[v] # None
                /\ vms'[v].account = a /\ vms'[v].brand = b =>
            \A l \in {m \in Enforced(a, b) : m.check = None \/ IsAny(m)} :
                Used(l, a)' <= ValueOf(l) + Excess(l, a))
  BY <1>1
<1> QED BY <1>2, SharedHolds, PTL DEF Spec, WithinLimits

-----------------------------------------------------------------------------
(* What a request is told is set for its account; once it knows the brand  *)
(* of its image, limits on other brands are gone.                          *)
IsSetFor(k, a) == \E l \in LimitsFor(a) : k = SimplifyAny(l)
IsTold(k, a) == /\ k.value # 0 /\ k.check \in {None, "brand"}
                /\ k.check = "brand" => k.what # None
                /\ IsSetFor(k, a)
Justified(c) ==
    Told(c) => \A k \in op[c].limits :
                  /\ IsTold(k, AccountOf[c])
                  /\ At(c, "listVms") /\ k.check = "brand"
                        => k.what = BrandOf[op[c].img]

LEMMA AllToldIsSet ==
    ASSUME TypeOK, Sound, NEW a \in Accounts,
           NEW k \in FilterLimits(dc[a], cfg)
    PROVE  IsTold(k, a)
<1>1. /\ dc[a] \in DcLimits /\ given \in Configs
      /\ dc[a] \subseteq LimitType /\ cfg \subseteq LimitType
      /\ given \subseteq LimitType
  BY ConfigsTyped, PluginAssumption DEF TypeOK
<1>2. PICK m \in dc[a] \cup Added(dc[a], cfg) : k = SimplifyAny(m)
  BY DEF FilterLimits
<1>3. m \in LimitType /\ k \in LimitType
  BY <1>1, <1>2, SimplifiedIs DEF Added
<1>4. /\ k.value # 0 /\ k.check \in {None, "brand"}
      /\ k.check = "brand" => k.what # None
  <2>1. ValidateLimit(k) /\ StripImgAttr(k) /\ k.value # 0
    BY DEF FilterLimits
  <2>2. k.check \in {None, "brand", "image", "os"}
    BY <1>3 DEF LimitType
  <2> QED BY <2>1, <2>2, PluginAssumption DEF ValidateLimit, StripImgAttr
<1>5. CASE m \in dc[a]
  BY <1>2, <1>4, <1>5 DEF IsTold, IsSetFor, LimitsFor
<1>6. CASE m \notin dc[a]
  <2>1. m \in cfg /\ ~HasDcWildcards(dc[a]) /\ ~Collision(dc[a], m)
    BY <1>2, <1>6 DEF Added
  <2>2. PICK l \in given : m \in {l, SimplifyAny(l)}
    BY <2>1 DEF Sound
  <2>3. k = SimplifyAny(l)
    BY <1>1, <1>2, <2>2, SimplifyAnyTwice
  <2>4. ASSUME l.by # None, ~IsAny(l), NEW j \in dc[a], j.check = l.check, j.by = l.by
        PROVE  FALSE
    <3>1. m = l
      BY <1>1, <2>2, <2>4, SimplifiedIs
    <3>2. j.check # None
      BY <2>1 DEF HasDcWildcards
    <3> QED BY <2>1, <2>4, <3>1, <3>2 DEF Collision
  <2>5. ~Replaced(l, dc[a])
    BY <2>1, <2>4 DEF Replaced
  <2> QED BY <1>4, <2>2, <2>3, <2>5 DEF IsTold, IsSetFor, LimitsFor
<1> QED BY <1>5, <1>6

(* The limits a request keeps are those it was told.                       *)
LEMMA JustifiedStands ==
    ASSUME LimitsInv, Sound, UNCHANGED <<given, dc>>,
           NEW c \in Clients, Justified(c),
           \/ op'[c] = op[c]
           \/ op'[c].pc \notin {"getImage", "listVms"}
           \/ ListLimits(c) \/ GetVmImage(c)
    PROVE  Justified(c)'
<1> DEFINE a == AccountOf[c]
<1>1. TypeOK /\ op[c] \in OpType /\ a \in Accounts
  BY PluginAssumption DEF LimitsInv, TypeOK
<1>2. \A k : IsTold(k, a)' = IsTold(k, a)
  BY DEF IsTold, IsSetFor, LimitsFor
<1>3. CASE op'[c] = op[c]
  BY <1>2, <1>3 DEF Justified, Told, At
<1>4. CASE op'[c].pc \notin {"getImage", "listVms"}
  BY <1>4 DEF Justified, Told
<1>5. CASE ListLimits(c)
  <2> DEFINE limits == FilterLimits(dc[a], cfg)
  <2>1. /\ op'[c].pc \in {"getImage", "listVms"} => op'[c].limits = limits
        /\ op'[c].pc = "listVms" => ~NeedVmImage(limits)
    <3> DEFINE pc == IF limits = {} THEN "createVm"
                     ELSE IF NeedVmImage(limits) THEN "getImage" ELSE "listVms"
    <3>1. \/ End(c, "refused")
          \/ op' = [op EXCEPT ![c] = [op[c] EXCEPT !.limits = limits, !.pc = pc]]
      BY <1>5 DEF ListLimits, Become
    <3>2. pc = "listVms" => ~NeedVmImage(limits)
      OBVIOUS
    <3> HIDE DEF limits, pc
    <3> QED BY <1>1, <3>1, <3>2 DEF End, Become, Idle, LimitsInv, TypeOK, OpType
  <2>2. \A k \in limits : IsTold(k, a)
    BY <1>1, AllToldIsSet
  <2>3. ~NeedVmImage(limits) => \A k \in limits : k.check # "brand"
    BY PluginAssumption DEF NeedVmImage
  <2> HIDE DEF limits
  <2> QED BY <1>2, <2>1, <2>2, <2>3 DEF Justified, Told, At
<1>6. CASE GetVmImage(c)
  <2> DEFINE limits == FilterRelevant(op[c].limits, BrandOf[op[c].img])
  <2>1. op'[c].pc \in {"getImage", "listVms"} => op'[c].limits = limits /\ op'[c].img = op[c].img
    <3>1. \/ End(c, "idle")
          \/ op' = [op EXCEPT ![c] = [op[c] EXCEPT !.pc = "listVms", !.limits = limits]]
      BY <1>6 DEF GetVmImage, Become
    <3> HIDE DEF limits
    <3> QED BY <1>1, <3>1 DEF End, Become, Idle, LimitsInv, TypeOK, OpType
  <2>2. ASSUME NEW k \in limits
        PROVE  IsTold(k, a) /\ (k.check = "brand" => k.what = BrandOf[op[c].img])
    <3>1. k \in op[c].limits /\ Told(c)
      BY <1>6 DEF GetVmImage, At, Told, FilterRelevant
    <3>2. k.check = "brand" => k.what = BrandOf[op[c].img]
      BY DEF FilterRelevant
    <3> QED BY <3>1, <3>2 DEF Justified
  <2> HIDE DEF limits
  <2> QED BY <1>2, <2>1, <2>2 DEF Justified, Told, At
<1> QED BY <1>3, <1>4, <1>5, <1>6

(* A limit that VMAPI's list exceeds is exceeded by what the account has:  *)
(* the list is no more than that, and holds nothing under a limit on one   *)
(* brand.                                                                  *)
LEMMA RefusedIsOver ==
    ASSUME LimitsInv, NEW c \in Clients, Justified(c), At(c, "listVms"),
           NEW k \in op[c].limits,
           LET a == AccountOf[c]
               M == Machines(a, BrandOf[op[c].img], op[c].limits, k) IN
           ~(CountOf(k, M) + CostOf(k, op[c].pkg) <= ValueOf(k))
    PROVE  \E l \in LimitsFor(AccountOf[c]) : Exceeded(l, c)
<1> DEFINE a == AccountOf[c]
           brand == BrandOf[op[c].img]
           M == Machines(a, brand, op[c].limits, k)
<1>1. TypeOK /\ a \in Accounts
  BY PluginAssumption DEF LimitsInv
<1>2. IsTold(k, a) /\ (k.check = "brand" => k.what = brand)
  BY DEF Justified, Told, At
<1>3. PICK l \in LimitsFor(a) : k = SimplifyAny(l)
  BY <1>2 DEF IsTold, IsSetFor
<1>4. l \in LimitType
  BY <1>1, ConfigsTyped, PluginAssumption DEF TypeOK, LimitsFor
<1>5. k.by = l.by /\ k.value = l.value /\ (~IsAny(l) => k = l)
  BY <1>3, <1>4, SimplifiedIs
<1>6. l.value # 0 /\ Covers(l, brand)
  <2>1. Covers(l, brand)
    <3>1. CASE IsAny(l)
      BY <3>1 DEF Covers
    <3>2. CASE ~IsAny(l)
      BY <1>2, <1>5, <3>2 DEF Covers, IsTold
    <3> QED BY <3>1, <3>2
  <2> QED BY <1>2, <1>5, <2>1 DEF IsTold
<1> DEFINE S == {v \in VmsOf(a) : Covers(l, vms[v].brand)}
           f == [v \in VmsOf(a) |-> SizeOf(l, vms[v])]
           g == [v \in M |-> SizeOf(k, vms[v])]
           h == [v \in S |-> SizeOf(l, vms[v])]
<1>7. M \subseteq S
  <2>1. CASE k.check = "brand"
    <3>1. brand # None
      BY <1>2, <2>1 DEF IsTold
    <3>2. \A v : BrandSeen(v, op[c].limits) = None
      BY DEF BrandSeen, FindMinimalFields
    <3> QED BY <2>1, <3>1, <3>2 DEF Machines
  <2>2. CASE k.check # "brand"
    <3>1. Wide(l)
      BY <1>2, <1>5, <2>2 DEF Wide, IsTold
    <3> QED BY <3>1 DEF Machines, ActiveVms, Covers, Wide
  <2> QED BY <2>1, <2>2
<1>8. /\ IsFiniteSet(VmsOf(a)) /\ \A v \in VmsOf(a) : f[v] \in Nat
      /\ S \in SUBSET VmsOf(a)
  BY <1>1, <1>4, UsedTyped
<1>9. \A v \in M : g[v] = f[v]
  BY <1>5, <1>7 DEF SizeOf
<1>10. \A v \in S : h[v] = f[v]
  OBVIOUS
<1>11. /\ CountOf(k, M) = ScaleOf(l) * TotalOf(g, M)
       /\ Used(l, a) = ScaleOf(l) * TotalOf(h, S)
       /\ CostOf(k, op[c].pkg) = CostOf(l, op[c].pkg) /\ ValueOf(k) = ValueOf(l)
  BY <1>5 DEF CountOf, Used, ScaleOf, CostOf, ValueOf
<1> HIDE DEF S, M, f, g, h
<1>12. TotalOf(g, M) = TotalOf(f, M) /\ TotalOf(h, S) = TotalOf(f, S)
  BY <1>9, <1>10, TotalOfSame
<1>13. TotalOf(f, M) <= TotalOf(f, S) /\ TotalOf(f, M) \in Nat /\ TotalOf(f, S) \in Nat
  <2>1. IsFiniteSet(S) /\ (\A v \in S : f[v] \in Nat) /\ M \in SUBSET S
    BY <1>7, <1>8, FS_Subset
  <2> QED BY <2>1, TotalOfFewer, UnitsFinite
<1>14. CostOf(l, op[c].pkg) \in Nat /\ ValueOf(l) \in Int /\ ScaleOf(l) \in {1, 1024}
  <2>1. op[c].pkg \in PkgType /\ l.value \in Int
    BY <1>4, NewVmIs DEF At, Asking, LimitType
  <2> QED BY <2>1 DEF CostOf, ValueOf, ScaleOf, PkgType, MibPerGib
<1>15. ScaleOf(l) * TotalOf(f, M) <= ScaleOf(l) * TotalOf(f, S)
  BY <1>13, <1>14
<1>16. ScaleOf(l) * TotalOf(f, M) \in Nat /\ ScaleOf(l) * TotalOf(f, S) \in Nat
  BY <1>13, <1>14
<1>17. ~(CountOf(k, M) + CostOf(k, op[c].pkg) <= ValueOf(k))
  BY DEF M
<1>18. Used(l, a) + CostOf(l, op[c].pkg) > ValueOf(l)
  BY <1>11, <1>12, <1>14, <1>15, <1>16, <1>17
<1>19. Exceeded(l, c)
  BY <1>6, <1>18 DEF Exceeded
<1> QED BY <1>3, <1>19

LEMMA JustifiedHolds == Spec => [](\A c \in Clients : Justified(c))
<1>1. ASSUME Init PROVE \A c \in Clients : Justified(c)
  <2>1. \A c \in Clients : op[c].pc = "idle"
    BY <1>1 DEF Init, Idle
  <2> QED BY <2>1 DEF Justified, Told
<1>2. ASSUME SharedInv, \A c \in Clients : Justified(c), [Next]_vars, NEW d \in Clients
      PROVE  Justified(d)'
  <2>1. LimitsInv /\ TypeOK /\ Sound
    BY <1>2 DEF SharedInv, LimitsInv
  <2>2. UNCHANGED <<given, dc>>
    BY <1>2 DEF Next, vars, Serve, Start, ListLimits, GetVmImage, GetAccountVms, CreateVm, Fail,
                RemoveVm, stores
  <2>3. \/ op'[d] = op[d]
        \/ op'[d].pc \notin {"getImage", "listVms"}
        \/ ListLimits(d) \/ GetVmImage(d)
    <3>1. CASE UNCHANGED vars \/ RemoveVm
      BY <3>1 DEF vars, RemoveVm
    <3>2. CASE Next /\ ~RemoveVm
      <4>1. PICK c \in Clients : Start(c) \/ ListLimits(c) \/ GetVmImage(c) \/ GetAccountVms(c)
                                   \/ CreateVm(c) \/ Fail(c)
        BY <3>2 DEF Next, Serve
      <4> QED BY <2>1, <4>1, ToldByItself
    <3> QED BY <1>2, <3>1, <3>2
  <2> QED BY <1>2, <2>1, <2>2, <2>3, JustifiedStands
<1>3. SharedInv /\ (\A c \in Clients : Justified(c)) /\ [Next]_vars
        => (\A c \in Clients : Justified(c))'
  BY <1>2
<1> QED BY <1>1, <1>3, SharedHolds, PTL DEF Spec

(* Only listLimits and canProvision refuse.                                *)
LEMMA RefusedBy ==
    ASSUME TypeOK, [Next]_vars, NEW c \in Clients,
           op[c].pc \notin Resting, op'[c].pc = "refused"
    PROVE  (ListLimits(c) \/ GetAccountVms(c)) /\ End(c, "refused")
<1>1. op[c].pc # "refused" /\ op \in [Clients -> OpType]
  BY DEF Resting, TypeOK
<1>2. ~UNCHANGED op
  BY <1>1
<1>3. PICK d \in Clients : Start(d) \/ ListLimits(d) \/ GetVmImage(d) \/ GetAccountVms(d)
                             \/ CreateVm(d) \/ Fail(d)
  BY <1>2 DEF Next, Serve, RemoveVm, vars
<1>4. d = c
  <2>1. \E s : op' = [op EXCEPT ![d] = s]
    BY <1>3 DEF Start, ListLimits, GetVmImage, GetAccountVms, CreateVm, Fail, End, Become
  <2> QED BY <1>1, <2>1
<1>5. ASSUME NEW s, op' = [op EXCEPT ![c] = s] PROVE s.pc = "refused"
  BY <1>1, <1>5
<1>6. ASSUME NEW pc, End(c, pc) PROVE pc = "refused"
  <2>1. [Idle EXCEPT !.pc = pc].pc = pc
    BY DEF Idle
  <2> QED BY <1>5, <1>6, <2>1 DEF End, Become
<1>7. ~Start(c)
  BY DEF Start
<1>8. ~CreateVm(c)
  BY <1>6 DEF CreateVm
<1>9. ~Fail(c)
  <2>1. ~End(c, "lost") /\ ~End(c, "idle")
    BY <1>6
  <2>2. CASE At(c, "listVms")
    BY <2>1, <2>2 DEF Fail
  <2>3. CASE ~At(c, "listVms")
    BY <2>1, <2>3 DEF Fail
  <2> QED BY <2>2, <2>3
<1>10. ~GetVmImage(c)
  <2> DEFINE limits == FilterRelevant(op[c].limits, BrandOf[op[c].img])
  <2>1. GetVmImage(c) =>
          \/ End(c, "idle")
          \/ op' = [op EXCEPT ![c] = [op[c] EXCEPT !.pc = "listVms", !.limits = limits]]
    BY DEF GetVmImage, Become
  <2> HIDE DEF limits
  <2>2. [op[c] EXCEPT !.pc = "listVms", !.limits = limits].pc = "listVms"
    BY <1>1 DEF OpType
  <2> QED BY <1>6, <1>5, <2>1, <2>2
<1>11. CASE ListLimits(c)
  <2> DEFINE limits == FilterLimits(dc[AccountOf[c]], cfg)
             pc == IF limits = {} THEN "createVm"
                   ELSE IF NeedVmImage(limits) THEN "getImage" ELSE "listVms"
  <2>1. \/ End(c, "refused")
        \/ op' = [op EXCEPT ![c] = [op[c] EXCEPT !.limits = limits, !.pc = pc]]
    BY <1>11 DEF ListLimits, Become
  <2>2. pc # "refused"
    OBVIOUS
  <2> HIDE DEF limits, pc
  <2>3. [op[c] EXCEPT !.limits = limits, !.pc = pc].pc = pc
    BY <1>1 DEF OpType
  <2> QED BY <1>5, <1>11, <2>1, <2>2, <2>3
<1>12. CASE GetAccountVms(c)
  <2>1. \/ End(c, "refused")
        \/ op' = [op EXCEPT ![c] = [op[c] EXCEPT !.pc = "createVm"]]
    BY <1>12 DEF GetAccountVms, Become
  <2>2. [op[c] EXCEPT !.pc = "createVm"].pc = "createVm"
    BY <1>1 DEF OpType
  <2> QED BY <1>5, <1>12, <2>1, <2>2
<1> QED BY <1>3, <1>4, <1>7, <1>8, <1>9, <1>10, <1>11, <1>12

(* A request is refused only for a limit that is set for its account, and  *)
(* not replaced by one of the account's own: one that forbids, or one on   *)
(* all VMs or on the brand of its image that what the account has and the  *)
(* container exceed.  In whatever order accounts have had the              *)
(* configuration rewritten, and whatever is in it (filterLimits,           *)
(* checkProvisionLimits, canProvision).                                    *)
THEOREM RefusalsAreJustified == Spec => RefusalsJustified
<1>1. ASSUME SharedInv, \A c \in Clients : Justified(c), [Next]_vars, NEW c \in Clients,
             op[c].pc \notin Resting, op'[c].pc = "refused"
      PROVE  \E l \in LimitsFor(AccountOf[c]) :
                Forbids(l, BrandOf[op[c].img]) \/ Exceeded(l, c)
  <2> DEFINE a == AccountOf[c]
             brand == BrandOf[op[c].img]
  <2>1. LimitsInv /\ TypeOK /\ Sound /\ a \in Accounts /\ op \in [Clients -> OpType]
    BY <1>1, PluginAssumption DEF SharedInv, LimitsInv, TypeOK
  <2>2. (ListLimits(c) \/ GetAccountVms(c)) /\ End(c, "refused")
    BY <1>1, <2>1, RefusedBy
  <2>3. CASE ListLimits(c)
    <3> DEFINE limits == FilterLimits(dc[a], cfg)
    <3>1. \E k \in limits : k.value <= -1
      <4>1. ASSUME ~\E k \in limits : k.value <= -1 PROVE FALSE
        <5> DEFINE pc == IF limits = {} THEN "createVm"
                         ELSE IF NeedVmImage(limits) THEN "getImage" ELSE "listVms"
        <5>1. op' = [op EXCEPT ![c] = [op[c] EXCEPT !.limits = limits, !.pc = pc]]
          BY <2>3, <4>1 DEF ListLimits, Become
        <5>2. pc # "refused"
          OBVIOUS
        <5> HIDE DEF limits, pc
        <5>3. op'[c].pc = pc
          BY <2>1, <5>1 DEF OpType
        <5> QED BY <1>1, <5>2, <5>3
      <4> QED BY <4>1
    <3>2. PICK k \in limits : k.value <= -1
      BY <3>1
    <3>3. IsTold(k, a)
      BY <2>1, <3>2, AllToldIsSet
    <3>4. PICK l \in LimitsFor(a) : k = SimplifyAny(l)
      BY <3>3 DEF IsTold, IsSetFor
    <3>5. given \in Configs /\ dc[a] \in DcLimits /\ l \in dc[a] \cup given
      BY <2>1, <3>4 DEF TypeOK, LimitsFor
    <3>6. l \in LimitType
      BY <3>5, ConfigsTyped, PluginAssumption
    <3>7. l.value = k.value /\ (~IsAny(l) => k = l)
      BY <3>4, <3>6, SimplifiedIs
    <3>8. Covers(l, brand) \/ l.check = "brand"
      BY <3>3, <3>7 DEF Covers, IsTold
    <3>9. Forbids(l, brand)
      BY <3>2, <3>7, <3>8 DEF Forbids
    <3> QED BY <3>4, <3>9
  <2>4. CASE GetAccountVms(c)
    <3>1. At(c, "listVms")
      BY <2>4 DEF GetAccountVms
    <3>2. ~CanProvision(a, brand, op[c].pkg, op[c].limits)
      <4>1. ASSUME CanProvision(a, brand, op[c].pkg, op[c].limits) PROVE FALSE
        <5>1. op' = [op EXCEPT ![c] = [op[c] EXCEPT !.pc = "createVm"]]
          <6> HIDE DEF CanProvision
          <6> QED BY <2>4, <4>1 DEF GetAccountVms, Become
        <5>2. op'[c].pc = "createVm"
          BY <2>1, <5>1 DEF OpType
        <5> QED BY <1>1, <5>2
      <4> QED BY <4>1
    <3>3. PICK k \in op[c].limits :
            ~(CountOf(k, Machines(a, brand, op[c].limits, k)) + CostOf(k, op[c].pkg)
                <= ValueOf(k))
      BY <3>2 DEF CanProvision
    <3>4. \E l \in LimitsFor(a) : Exceeded(l, c)
      <4>1. Justified(c)
        BY <1>1
      <4> QED BY <2>1, <3>1, <3>3, <4>1, RefusedIsOver
    <3> QED BY <3>4
  <2> QED BY <2>2, <2>3, <2>4
<1>2. SharedInv /\ (\A c \in Clients : Justified(c)) /\ [Next]_vars =>
        (\A c \in Clients : op[c].pc \notin Resting /\ op'[c].pc = "refused" =>
            \E l \in LimitsFor(AccountOf[c]) :
               Forbids(l, BrandOf[op[c].img]) \/ Exceeded(l, c))
  BY <1>1
<1> QED BY <1>2, SharedHolds, JustifiedHolds, PTL DEF Spec, RefusalsJustified
=============================================================================
