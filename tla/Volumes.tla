------------------------------ MODULE Volumes ------------------------------
(***************************************************************************)
(* docker volume create and docker volume rm (lib/backends/sdc/volumes.js, *)
(* lib/endpoints/volumes.js): a call to VOLAPI, which answers before it    *)
(* has done the work, and then one look every second at what became of it. *)
(***************************************************************************)
EXTENDS Naturals, FiniteSets

CONSTANTS
    VolumeCreates, VolumeRemovals, \* requests
    Names, NameOf,    \* [VolumeCreates \cup VolumeRemovals -> Names]
    MaxVolumePolls,   \* MAX_VOLUME_STATE_POLLS, 600 in the code: one less than
                      \* the looks it makes
    None

VolumeRequests == VolumeCreates \cup VolumeRemovals

ASSUME VolumesAssumption ==
    /\ VolumeCreates \cap VolumeRemovals = {}
    /\ NameOf \in [VolumeRequests -> Names]
    /\ MaxVolumePolls \in Nat /\ None \notin VolumeCreates

VARIABLES
    vreq,     \* [VolumeRequests -> VolumeRequestType]
    volumes   \* [VolumeCreates -> VolumeStates]: the volume each one makes

volumeVars == <<vreq, volumes>>

VolumeStates == {"none", "creating", "ready", "failed", "deleting", "gone"}

VolumeRequestType ==
    [pc: {"idle", "network", "create", "find", "delete", "poll", "done"},
     uuid: VolumeCreates \cup {None},
     polls: 0..MaxVolumePolls,
     answer: {"none", "ok", "error"}]

VolumesTypeOK == /\ vreq \in [VolumeRequests -> VolumeRequestType]
                 /\ volumes \in [VolumeCreates -> VolumeStates]

VolumesInit ==
    /\ vreq = [r \in VolumeRequests |->
                 [pc |-> "idle", uuid |-> None, polls |-> 0, answer |-> "none"]]
    /\ volumes = [v \in VolumeCreates |-> "none"]

VolumeAt(r, pc) == vreq[r].pc = pc
VolumeGoto(r, pc) == vreq' = [vreq EXCEPT ![r].pc = pc]
VolumeAnswer(r, a) ==
    vreq' = [vreq EXCEPT ![r].pc = "done", ![r].answer = a]

ReceiveVolume(r) ==
    /\ VolumeAt(r, "idle")
    /\ VolumeGoto(r, IF r \in VolumeCreates THEN "network" ELSE "find")
    /\ UNCHANGED volumes

(* The network that was named, or the account's fabric network; then the   *)
(* affinity of the labels.                                                 *)
SetupNetwork(r) ==
    /\ VolumeAt(r, "network") /\ VolumeGoto(r, "create") /\ UNCHANGED volumes

DoCreateVolume(r) ==
    /\ VolumeAt(r, "create")
    /\ volumes' = [volumes EXCEPT ![r] = "creating"]
    /\ vreq' = [vreq EXCEPT ![r].pc = "poll", ![r].uuid = r]

(* Removal goes by name, among the ready volumes of the account: there     *)
(* must be one, and one only.                                              *)
ReadyOfName(n) == {v \in VolumeCreates : volumes[v] = "ready" /\ NameOf[v] = n}

FindVolumeByName(r) ==
    /\ VolumeAt(r, "find")
    /\ IF Cardinality(ReadyOfName(NameOf[r])) # 1 THEN VolumeAnswer(r, "error")
       ELSE \E v \in ReadyOfName(NameOf[r]) :
              vreq' = [vreq EXCEPT ![r].pc = "delete", ![r].uuid = v]
    /\ UNCHANGED volumes

(* Mutant: the call of VOLAPI is taken for the removal. *)
DoDeleteVolumeAtOnce(r) ==
    /\ VolumeAt(r, "delete")
    /\ volumes[vreq[r].uuid] \in {"ready", "deleting"}
    /\ volumes' = [volumes EXCEPT ![vreq[r].uuid] = "deleting"]
    /\ VolumeAnswer(r, "ok")

(* Another removal may have been faster: VOLAPI takes this one or not.     *)
DoDeleteVolume(r) ==
    /\ VolumeAt(r, "delete")
    /\ volumes[vreq[r].uuid] \in {"ready", "deleting"}
    /\ volumes' = [volumes EXCEPT ![vreq[r].uuid] = "deleting"]
    /\ VolumeGoto(r, "poll")

(* VOLAPI or NAPI refuses, or does not answer.                             *)
VolumeCallFails(r) ==
    /\ vreq[r].pc \in {"network", "create", "find", "delete"}
    /\ VolumeAnswer(r, "error") /\ UNCHANGED volumes

-----------------------------------------------------------------------------
(* pollVolumeState.                                                        *)

Awaited(r) == IF r \in VolumeCreates THEN {"ready", "failed"} ELSE {"failed"}

(* Mutant: an answer that is no state is not counted. *)
PollAgainUncounted(r) ==
    IF volumes[vreq[r].uuid] = "creating" THEN UNCHANGED vreq
    ELSE IF vreq[r].polls + 1 > MaxVolumePolls THEN VolumeAnswer(r, "error")
    ELSE vreq' = [vreq EXCEPT ![r].polls = @ + 1]

(* Mutant: one look more still. *)
PollAgainOnceMore(r) ==
    IF vreq[r].polls > MaxVolumePolls THEN VolumeAnswer(r, "error")
    ELSE vreq' = [vreq EXCEPT ![r].polls = @ + 1]

(* Neither gone nor in a state that is waited for, or no answer at all.    *)
(* polls counts the looks before this one: the code makes                  *)
(* MAX_VOLUME_STATE_POLLS + 1, since it compares with > (volumes.js:58).    *)
PollAgain(r) ==
    IF vreq[r].polls + 1 > MaxVolumePolls THEN VolumeAnswer(r, "error")
    ELSE vreq' = [vreq EXCEPT ![r].polls = @ + 1]

Poll(r) ==
    /\ VolumeAt(r, "poll")
    /\ LET state == volumes[vreq[r].uuid]
       IN \/ /\ state = "gone"
             /\ VolumeAnswer(r, IF r \in VolumeRemovals THEN "ok" ELSE "error")
          \/ /\ state \in Awaited(r)
             /\ VolumeAnswer(r, IF state = "ready" THEN "ok" ELSE "error")
          \/ state \notin Awaited(r) \cup {"gone"} /\ PollAgain(r)
    /\ UNCHANGED volumes

PollFails(r) ==
    /\ VolumeAt(r, "poll") /\ PollAgain(r) /\ UNCHANGED volumes

-----------------------------------------------------------------------------
(* VOLAPI, in its own time.                                                *)
VolapiWorks(v) ==
    /\ \/ /\ volumes[v] = "creating"
          /\ \E s \in {"ready", "failed"} : volumes' = [volumes EXCEPT ![v] = s]
       \/ /\ volumes[v] = "deleting"
          /\ \E s \in {"gone", "failed"} : volumes' = [volumes EXCEPT ![v] = s]
    /\ UNCHANGED vreq

VolumeStep(r) ==
    \/ ReceiveVolume(r) \/ SetupNetwork(r) \/ DoCreateVolume(r)
    \/ FindVolumeByName(r) \/ DoDeleteVolume(r) \/ VolumeCallFails(r)
    \/ Poll(r) \/ PollFails(r)

-----------------------------------------------------------------------------
(* pollVolumeState's comment: a look is made only "until                   *)
(* MAX_VOLUME_STATE_POLLS attempts have been made".  The code makes one    *)
(* more (README, Departures).                                              *)
PollsStopAtMax ==
    [][\A r \in VolumeRequests :
         VolumeAt(r, "poll") /\ vreq'[r] # vreq[r] =>
             vreq[r].polls < MaxVolumePolls]_volumeVars

(* What docker volume create and rm are told has happened, though VOLAPI   *)
(* answers both calls before it has: a volume that was created has been    *)
(* ready, one that was removed is gone, whoever else removed it, and the   *)
(* name of a removed volume was that of the request.                       *)
VolumeAnswersTrue ==
    \A r \in VolumeRequests : vreq[r].answer = "ok" =>
        /\ vreq[r].uuid # None /\ NameOf[vreq[r].uuid] = NameOf[r]
        /\ r \in VolumeCreates => volumes[r] \notin {"none", "creating"}
        /\ r \in VolumeRemovals => volumes[vreq[r].uuid] = "gone"
=============================================================================
