------------------------------ MODULE Networks ------------------------------
(***************************************************************************)
(* The networks of an account, and those of a new container                *)
(* (lib/backends/sdc/networks.js and the plugin filter_owner_networks).    *)
(* NAPI is a record: its networks and pools that the account may use, how  *)
(* it answers a list of each ("ok", "404", "500"), and whether it knows    *)
(* wildcards, which an older NAPI does not.                                *)
(***************************************************************************)
EXTENDS Names

AdminTag == "admin"
ExternalTag == "external"

(***************************************************************************)
(* An answer: an error ("none" if there is none) and what was found.       *)
(***************************************************************************)
Found(set) == [err |-> "none", found |-> set]
Failed(err) == [err |-> err, found |-> {}]

(***************************************************************************)
(* NAPI: the things of one kind that a search is for.  A search is for a   *)
(* name, for a uuid, or for the uuids with a prefix.                       *)
(***************************************************************************)
Kinds == {"networks", "pools"}
ByName(name) == [by |-> "name", text |-> name]
ByUuid(uuid) == [by |-> "uuid", text |-> uuid]
ByPrefix(prefix) == [by |-> "prefix", text |-> prefix]
Everything == [by |-> "all", text |-> NoText]

Fits(search, n, napi) ==
    \/ search.by = "name" /\ n.name = search.text
    \/ search.by = "uuid" /\ n.uuid = search.text
    \/ search.by = "prefix" /\ napi.wildcards /\ IsPrefix(search.text, n.uuid)
    \/ search.by = "all"
NapiList(search, kind, napi) ==
    IF napi.answers[kind] # "ok" THEN Failed(napi.answers[kind])
    ELSE Found({n \in napi[kind] : Fits(search, n, napi)})

(***************************************************************************)
(* The plugin: some accounts may only use what they own.  It is asked on   *)
(* every list and after every search.                                      *)
(***************************************************************************)
filterListNetworks(networks, account) ==
    IF account.restricted THEN {n \in networks : n.owned} ELSE networks

(***************************************************************************)
(* The networks to list: the pools, and the networks that are in no pool,  *)
(* those of the operator left out.                                         *)
(***************************************************************************)
getNapiNetworksForAccount(napi) ==
    LET pools == NapiList(Everything, "pools", napi)
        nets == NapiList(Everything, "networks", napi)
        shown == {p \in pools.found : p.tag # AdminTag}
        inPools == UNION {p.networks : p \in shown}
    IN IF pools.err # "none" THEN pools
       ELSE IF nets.err # "none" THEN nets
       ELSE Found(shown \union
                {n \in nets.found : n.tag # AdminTag /\ n.uuid \notin inPools})
napiNetworkToDockerNetwork(n) ==
    [Id |-> networkUuidToDockerId(n.uuid), Name |-> n.name,
     Scope |-> IF n.kind = "pool" THEN "pool"
               ELSE IF n.kind = "fabric" THEN "overlay" ELSE "external"]
listNetworksForAccount(napi, account) ==
    LET all == getNapiNetworksForAccount(napi)
    IN [all EXCEPT !.found = {napiNetworkToDockerNetwork(n) :
                                n \in filterListNetworks(@, account)}]

(***************************************************************************)
(* One attempt of a search: it answers, or the next is made.  An error     *)
(* other than 404 is an answer.                                            *)
(***************************************************************************)
Next_ == [err |-> "next", found |-> {}]
List_(search, kind, napi) ==
    LET answer == NapiList(search, kind, napi)
    IN IF answer.err = "404" \/ answer = Found({}) THEN Next_ ELSE answer

(***************************************************************************)
(* The search of a prefix in the list of everything, for a NAPI without    *)
(* wildcards.  After a 404 there is no list to search: the handler throws. *)
(***************************************************************************)
ListFiltered(search, kind, napi) ==
    LET all == NapiList(Everything, kind, napi)
        fitting == {n \in all.found : IsPrefix(search.text, n.uuid)}
    IN IF search.by # "prefix" THEN Next_
       ELSE IF all.err = "404" THEN Failed("thrown")
       ELSE IF all.err = "500" THEN all
       ELSE IF fitting = {} THEN Next_ ELSE Found(fitting)

(***************************************************************************)
(* The attempts, in order; a network hides the pools that fit too.         *)
(***************************************************************************)
Attempts(search, napi) ==
    <<List_(search, "networks", napi), ListFiltered(search, "networks", napi),
      List_(search, "pools", napi), ListFiltered(search, "pools", napi), Found({})>>

FirstAnswer(attempts) ==
    attempts[CHOOSE i \in DOMAIN attempts :
                /\ attempts[i].err # "next"
                /\ \A j \in 1..(i - 1) : attempts[j].err = "next"]
getNetworksOrPools(search, napi, account) ==
    LET answer == FirstAnswer(Attempts(search, napi))
    IN [answer EXCEPT !.found = filterListNetworks(@, account)]

(***************************************************************************)
(* A name that can be the whole id, and one that can be part of an id: the *)
(* second half repeats the first, compared without its last digit.         *)
(***************************************************************************)
CanBeExactId(name) == Head_(name, UuidLength) = Tail_(name, UuidLength)
CanBePartialId(name) ==
    LET first == Head_(name, UuidLength - 1)
        second == Tail_(name, UuidLength)
    IN /\ IsHex(name)
       /\ Len(name) >= UuidLength =>
            Len(second) < Len(first) /\ IsPrefix(second, first)

(***************************************************************************)
(* The three searches that are made at once, the preferred one first, and  *)
(* the choice: the first that failed or found something.  Several of one   *)
(* search are ambiguous.                                                   *)
(***************************************************************************)
Searches(name, napi, account) ==
    <<IF CanBeExactId(name)
        THEN getNetworksOrPools(ByUuid(shortNetworkIdToUuidPrefix(name)), napi, account)
        ELSE Found({}),
      getNetworksOrPools(ByName(name), napi, account),
      IF CanBePartialId(name)
        THEN getNetworksOrPools(ByPrefix(shortNetworkIdToUuidPrefix(name)), napi, account)
        ELSE Found({})>>
Choice(op) == IF op.err = "none" /\ Cardinality(op.found) > 1
              THEN Failed("ambiguous") ELSE op
FirstDecided(ops) ==
    ops[CHOOSE i \in DOMAIN ops : /\ ops[i] # Found({})
                                  /\ \A j \in 1..(i - 1) : ops[j] = Found({})]
findNetworkOrPoolByNameOrId(name, napi, account) ==
    LET ops == Searches(name, napi, account)
    IN IF \E i \in DOMAIN ops : ops[i].err = "thrown" THEN Failed("thrown")
       ELSE IF \A i \in DOMAIN ops : ops[i] = Found({}) THEN Failed("not found")
       ELSE Choice(FirstDecided(ops))

(***************************************************************************)
(* The external network of a restricted account: one of its own.           *)
(***************************************************************************)
findOwnerExternalNetwork(napi, account) ==
    LET all == getNapiNetworksForAccount(napi)
        external == {n \in all.found : n.owned /\ ExternalTag \in {n.tag} \union n.tagsPresent}
    IN IF ~account.restricted THEN Found({})
       ELSE IF all.err # "none" THEN all
       ELSE IF external = {} THEN Failed("no external network accessible")
       ELSE Found({CHOOSE n \in external : TRUE})

(***************************************************************************)
(* The networks of a payload: a sequence of uuids and whether each is the  *)
(* primary one.  The fabric network comes first, from the directory (UFDS) *)
(* or by the name the user gave.                                           *)
(***************************************************************************)
Nic(uuid, primary) == [uuid |-> uuid, primary |-> primary]
Networks_(err, nics) == [err |-> err, networks |-> nics]
publishingPorts(container) == container.publishAll \/ container.bindings # <<>>

addFabricNetworks(container, config, napi, account) ==
    LET named == findNetworkOrPoolByNameOrId(container.mode, napi, account)
        uuid == (CHOOSE n \in named.found : TRUE).uuid
    IN IF ~config.overlay THEN Networks_("none", <<>>)
       ELSE IF container.mode = NoText
       THEN IF config.fabric = NoText THEN Networks_("could not get default network", <<>>)
            ELSE Networks_("none", <<Nic(config.fabric, TRUE)>>)
       ELSE IF named.err # "none" THEN Networks_(named.err, <<>>)
       ELSE Networks_("none", <<Nic(uuid, TRUE)>>)

(***************************************************************************)
(* The external network becomes the only primary one.  It is the one the   *)
(* label names, the account's own, or the configured one; of several with  *)
(* the name, the first.                                                    *)
(***************************************************************************)
NotPrimary(nics) == [i \in DOMAIN nics |-> Nic(nics[i].uuid, FALSE)]
externalNetworkByName(container, nics, config, napi, account) ==
    LET named == container.publicLabel # NoText
        own == findOwnerExternalNetwork(napi, account)
        answer == IF ~named /\ config.overlay THEN own
                  ELSE getNetworksOrPools(
                          ByName(IF named THEN container.publicLabel ELSE config.external),
                          napi, account)
        found == (CHOOSE n \in answer.found : TRUE).uuid
        With(uuid) == Networks_("none", Append(NotPrimary(nics), Nic(uuid, TRUE)))
    IN IF answer.err # "none" THEN Networks_(answer.err, nics)
       ELSE IF answer.found # {} THEN With(found)
       ELSE IF ~named /\ config.overlay THEN With(config.externalPool)
       ELSE Networks_("not found", nics)

(***************************************************************************)
(* With fabrics, a container gets an external network only when it         *)
(* publishes ports, and may not name one otherwise.                        *)
(***************************************************************************)
addExternalNetwork(container, nics, config, napi, account) ==
    IF config.overlay /\ ~publishingPorts(container)
    THEN Networks_(IF container.publicLabel # NoText
                   THEN "label requires a container with published ports"
                   ELSE "none", nics)
    ELSE externalNetworkByName(container, nics, config, napi, account)

(***************************************************************************)
(* The step that follows in the code calls the plugins' hook               *)
(* modifyProvisionNetworks, which no plugin of the repository has.         *)
(***************************************************************************)
addNetworksToContainerPayload(container, config, napi, account) ==
    LET fabric == addFabricNetworks(container, config, napi, account)
    IN IF fabric.err # "none" THEN fabric
       ELSE addExternalNetwork(container, fabric.networks, config, napi, account)
=============================================================================
