---------------------------- MODULE MCProvision ----------------------------
(***************************************************************************)
(* Two containers, of which c2 uses the volume of c1, and the removal of   *)
(* each; or two volumes of one name and two removals by that name.         *)
(***************************************************************************)
EXTENDS Provision

CONSTANTS c1, c2, r1, r2, v1, v2, d1, d2

MCSources == [c \in Creates |-> IF c = c1 THEN {} ELSE {c1}]
MCPublished == [c \in Creates |-> IF c = c2 THEN Protocols ELSE {}]
MCRemovalOf == [r \in Removals |-> IF r = r1 THEN c1 ELSE c2]
MCNameOf == [r \in VolumeRequests |-> "v"]
MCScenarios == {{c1, c2, r1, r2}, {v1, v2, d1, d2}}
=============================================================================
