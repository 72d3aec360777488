------------------------------ MODULE MCLinks ------------------------------
(***************************************************************************)
(* Values of the constants of Links for TLC.                               *)
(***************************************************************************)
EXTENDS Links, TLC

CONSTANT MaxLinks   \* bound: links of a new container

(* Connections, VMs, names and aliases are only compared.                  *)
Labels == Permutations(Clients) \cup Permutations(Vms)
            \cup Permutations(Names) \cup Permutations(Aliases)

Request(kind, id) == [kind |-> kind, id |-> id, links |-> {}, name |-> None,
                      alias |-> None, force |-> FALSE]
Creates(config) == {[Request("create", n) EXCEPT !.links = l] :
                      n \in Names,
                      l \in {l \in SUBSET config : Cardinality(l) <= MaxLinks}}
Renames == {[Request("rename", m) EXCEPT !.name = n] : m \in Names, n \in Names}
Starts == {Request(kind, n) : kind \in {"start", "restart"}, n \in Names}
Rms == {[Request("rm", n) EXCEPT !.force = f] : n \in Names, f \in BOOLEAN}
RmLinks ==
    {[Request("rmlink", n) EXCEPT !.alias = a] : n \in Names, a \in Aliases}
AnyConfig == [ref: Names \cup Vms, alias: Aliases]

Everything == Creates(AnyConfig) \cup Renames \cup Starts \cup Rms \cup RmLinks
Removals == Rms \cup RmLinks

(* From nothing.                                                           *)
EmptyInit == Init /\ \A v \in Vms : vms[v].state = "none"
EmptySpec == EmptyInit /\ [][Next]_vars
=============================================================================
