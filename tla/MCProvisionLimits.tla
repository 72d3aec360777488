------------------------- MODULE MCProvisionLimits -------------------------
(***************************************************************************)
(* Values of the constants of ProvisionLimits for TLC.                     *)
(***************************************************************************)
EXTENDS ProvisionLimits, TLC

Labels == Permutations(Vms)   \* VM uuids are only compared

(* TotalOf is the sum over a set.                                          *)
ASSUME TotalIsSum ==
    \A f \in [1 .. 3 -> 0 .. 3] : \A S \in SUBSET (1 .. 3) :
        TotalOf(f, S) = MapThenSumSet(LAMBDA x : f[x], S)

Limit(value, by, check, what) ==
    [value |-> value, by |-> by, check |-> check, what |-> what]
UpTo1(S) == {{}} \cup kSubset(1, S)
UpTo2(S) == UpTo1(S) \cup kSubset(2, S)

(* Limits on one brand.                                                    *)
BrandedConfigs ==
    UpTo2({Limit(-1, None, "brand", "kvm"), Limit(1, "ram", "brand", "kvm"),
           Limit(1, "quota", "brand", "kvm"), Limit(3, "ram", None, None)})

EachItsOwn == [c \in Clients |-> c]
AllAlice == [c \in Clients |-> "alice"]
MCBrandOf == [i \in Images |-> IF i = "linux" THEN "lx" ELSE "kvm"]
MCPkgs == {[ram |-> 1, quota |-> 1536], [ram |-> 2, quota |-> 1024]}

(* Limits on all VMs, and limits that docker has no use for.               *)
WideLimits ==
    {Limit(2, None, None, None), Limit(0, None, None, None),
     Limit(3, "ram", "brand", ANY), Limit(3, "quota", "os", ANY),
     Limit(-1, None, "brand", ANY), Limit(1, "ram", "os", "other"),
     Limit(1, None, "brand", None)}
MCConfigs == UpTo2(WideLimits) \cup BrandedConfigs

(* Limits of an account: for all VMs; exceptions for one brand, by which   *)
(* the configured limit is replaced (quota) or is not (number of VMs); and *)
(* one that forbids a brand.                                               *)
MCDcLimits ==
    UpTo1({Limit(3, "ram", "brand", ANY), Limit(-1, None, "brand", ANY),
           Limit(2, "quota", "brand", "kvm"), Limit(3, None, "brand", "kvm"),
           Limit(-1, None, "brand", "kvm")})

(* One limit on any brand, and an exception for one brand.                 *)
AnyBrandConfigs == {{Limit(1, "ram", "brand", ANY)}}
Exceptions == UpTo1({Limit(4, "ram", "brand", "lx")})
=============================================================================
