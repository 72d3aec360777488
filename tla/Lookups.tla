------------------------------ MODULE Lookups -------------------------------
(***************************************************************************)
(* How sdc-docker finds the container a user names, and what docker ps     *)
(* lists (lib/backends/sdc/containers.js).  VMAPI is a set of VMs that     *)
(* answers a predicate; the operators are the functions that build it and  *)
(* choose from the answer.                                                 *)
(***************************************************************************)
EXTENDS Names

VmStates == {"provisioning", "running", "stopped", "failed", "destroyed"}

(***************************************************************************)
(* The predicate for VMAPI: the running VMs, or all that neither failed    *)
(* nor were destroyed; with an id, those of that uuid prefix or that name. *)
(***************************************************************************)
Standing(vms) == {vm \in vms : vm.state \notin {"failed", "destroyed"}}
Listed(vms, all) ==
    IF all THEN Standing(vms) ELSE {vm \in vms : vm.state = "running"}
listDockerVms(vms, all, id) ==
    {vm \in Listed(vms, all) :
        id # NoText => \/ IsPrefix(dockerIdToUuid(id), vm.uuid)
                       \/ vm.alias = id}

(***************************************************************************)
(* A full id wins, then a name only one has, then a partial id only one    *)
(* has.  Each VM counts once, for the first of these it fits.              *)
(***************************************************************************)
IsFullMatch(id, vm) == Len(id) = 2 * UuidLength /\ dockerIdFromVmObj(vm) = id
IsAliasMatch(id, vm) == ~IsFullMatch(id, vm) /\ id # NoText /\ vm.alias = id
IsPartialMatch(id, vm) == /\ ~IsFullMatch(id, vm) /\ ~IsAliasMatch(id, vm)
                          /\ id # NoText /\ IsPrefix(id, dockerIdFromVmObj(vm))

(***************************************************************************)
(* Mutant: the first of several names or partial ids is taken.             *)
(***************************************************************************)
findContainerIdMatchFirst(id, vms) ==
    LET some == {vm \in vms : IsAliasMatch(id, vm) \/ IsPartialMatch(id, vm)}
    IN IF some = {} THEN {vm \in vms : IsFullMatch(id, vm)}
       ELSE {CHOOSE vm \in some : TRUE}

(***************************************************************************)
(* The VM that is found, as a set of at most one.                          *)
(***************************************************************************)
findContainerIdMatch(id, vms) ==
    LET full == {vm \in vms : IsFullMatch(id, vm)}
        alias == {vm \in vms : IsAliasMatch(id, vm)}
        partial == {vm \in vms : IsPartialMatch(id, vm)}
    IN IF full # {} THEN {CHOOSE vm \in full : TRUE}
       ELSE IF Cardinality(alias) = 1 THEN alias
       ELSE IF Cardinality(partial) = 1 THEN partial ELSE {}

getVmById(id, vms) == findContainerIdMatch(id, listDockerVms(vms, TRUE, id))

(***************************************************************************)
(* docker ps.  A list with the error of the filters, if any.               *)
(***************************************************************************)
NoSuchContainer == "Could not find container"
List(vms, error) == [vms |-> vms, error |-> error]
NewestFirst(vms) ==
    [i \in 1..Cardinality(vms) |->
        CHOOSE vm \in vms : Cardinality({v \in vms : v.created > vm.created}) = i - 1]

(***************************************************************************)
(* The part of a list that is newer, or older, than the VM a word names;   *)
(* the VMs of a list that are in a set.                                    *)
(***************************************************************************)
Slice(list, word, newer) ==
    LET match == findContainerIdMatch(word, ToSet(list.vms))
        at == CHOOSE i \in DOMAIN list.vms : list.vms[i] \in match
    IN IF match = {} THEN [list EXCEPT !.error = NoSuchContainer]
       ELSE [list EXCEPT !.vms = IF newer THEN SubSeq(@, 1, at - 1)
                                 ELSE SubSeq(@, at + 1, Len(@))]
Among(list, set) == [list EXCEPT !.vms = Kept(@, set)]

StatusOf == [created |-> "provisioning", running |-> "running",
             restarting |-> "restarting", paused |-> "paused", exited |-> "stopped"]

(***************************************************************************)
(* Each status asked for narrows the list: two of them leave nothing.  A   *)
(* status that is not known is an error and narrows nothing.               *)
(***************************************************************************)
FilterStatus(list, values) ==
    LET Narrow(l, v) ==
            IF v \in DOMAIN StatusOf
            THEN Among(l, {vm \in ToSet(l.vms) : vm.state = StatusOf[v]})
            ELSE [l EXCEPT !.error = "Unrecognised filter value for status"]
    IN Through(values, list, Narrow)

(***************************************************************************)
(* The code matches ids and names against the word as a regular expression *)
(* (containers.js:2744, :2756); here a word has no special characters, so  *)
(* that it matches where it is a part.                                     *)
(***************************************************************************)
IsWithin(part, text) ==
    \E i \in 1..(Len(text) + 1) : IsPrefix(part, Tail_(text, i - 1))
FilterId(list, values) ==
    Among(list, {vm \in ToSet(list.vms) :
                    \E v \in ToSet(values) : IsWithin(v, dockerIdFromVmObj(vm))})
FilterName(list, values) ==
    Among(list, {vm \in ToSet(list.vms) : \E v \in ToSet(values) : IsWithin(v, vm.alias)})
FilterExited(list, values) ==
    Among(list, {vm \in ToSet(list.vms) : vm.exit \in ToSet(values)})

(***************************************************************************)
(* A label filter is a key and a value, NoText when only the key is given. *)
(* The label of the package is compared with the package of the VM: its    *)
(* uuid, its short uuid, or the last of the packages of that name.         *)
(***************************************************************************)
IsBadPackageFilter(filter) ==
    filter.field = "label" /\ \E label \in ToSet(filter.values) :
        label.key = PackageLabel /\ ~IsPackageName(label.value)
PackageNamed(name, packages) ==
    LET Is(p) == p.name = name
        at == SelectLastInSeq(packages, Is)
    IN IF at = 0 THEN {} ELSE {packages[at].uuid}
HasLabel(vm, label, packages) ==
    IF label.key = PackageLabel
    THEN \/ vm.package = label.value
         \/ IsShortUuid(label.value) /\ Head_(vm.package, ShortLength) = label.value
         \/ vm.package \in PackageNamed(label.value, packages)
    ELSE \E tag \in vm.labels :
            tag.key = label.key /\ label.value \in {NoText, tag.value}
FilterLabel(list, labels, packages) ==
    Among(list, {vm \in ToSet(list.vms) :
                    \A label \in ToSet(labels) : HasLabel(vm, label, packages)})

FilterField(list, filter, packages) ==
    CASE filter.field = "status" -> FilterStatus(list, filter.values)
      [] filter.field = "exited" -> FilterExited(list, filter.values)
      [] filter.field = "id" -> FilterId(list, filter.values)
      [] filter.field = "name" -> FilterName(list, filter.values)
      [] filter.field = "label" -> FilterLabel(list, filter.values, packages)
      [] filter.field \in {"before", "since"} ->
            Slice(list, filter.values[1], filter.field = "since")
      [] OTHER -> list

(***************************************************************************)
(* A filter on the status asks for all the containers.  No containers end  *)
(* the request before anything else is looked at.  The name of a package   *)
(* that cannot be one is an error; so is an account without packages: they *)
(* are looked up for every list.  An error of a filter ends the request    *)
(* after all the filters are applied.                                      *)
(***************************************************************************)
AsksAll(query) ==
    query.all \/ \E f \in ToSet(query.filters) : f.field = "status"
getContainers(query, vms, packages) ==
    LET listed == listDockerVms(vms, AsksAll(query), NoText)
        newest == List(NewestFirst(listed), "none")
        since == IF query.since = NoText THEN newest ELSE Slice(newest, query.since, TRUE)
        before == IF query.before = NoText \/ since.error # "none" THEN since
                  ELSE Slice(since, query.before, FALSE)
        Filter(l, f) == FilterField(l, f, packages)
        filtered == Through(query.filters, before, Filter)
        Limited(l) == IF query.limit = 0 THEN l ELSE Head_(l, query.limit)
    IN CASE listed = {} -> newest
         [] listed # {} /\ before.error # "none" -> List(<<>>, before.error)
         [] listed # {} /\ before.error = "none"
               /\ \E f \in ToSet(query.filters) : IsBadPackageFilter(f) ->
                List(<<>>, "invalid value for the package label")
         [] listed # {} /\ before.error = "none" /\ packages = <<>>
               /\ \A f \in ToSet(query.filters) : ~IsBadPackageFilter(f) ->
                List(<<>>, "no packages available to this user")
         [] OTHER -> IF filtered.error # "none" THEN List(<<>>, filtered.error)
                     ELSE List(Limited(filtered.vms), "none")
=============================================================================
