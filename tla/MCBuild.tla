------------------------------ MODULE MCBuild -------------------------------
(***************************************************************************)
(* A build of two lines that are the same, with a build of its first line  *)
(* or a commit beside it.  Earlier builds left rows that differ from its   *)
(* first line in one thing each: the owner, the labels, the parent.        *)
(***************************************************************************)
EXTENDS Build

OnlyCommit == [commit |-> TRUE, named |-> TRUE, nocache |-> FALSE,
               rm |-> FALSE, forcerm |-> FALSE]
PlainBuild == [OnlyCommit EXCEPT !.commit = FALSE, !.rm = TRUE]

CONSTANTS b1, b2, o1, o2, run1

MCDockerfile == [b \in Builds |-> IF b = b1 THEN <<run1, run1>> ELSE <<run1>>]
MCOwnerOf == [b \in Builds |-> o1]
MCLabelsOf == [b \in Builds |-> 1]
Row(i, owner, parent, labels) ==
    [id |-> <<Past, i>>, owner |-> owner, parent |-> parent,
     cmd |-> run1, labels |-> labels]
MCOptions == [b \in Builds |->
    IF b = b1 THEN {PlainBuild, [PlainBuild EXCEPT !.nocache = TRUE]}
    ELSE {OnlyCommit,
          [PlainBuild EXCEPT !.named = FALSE, !.rm = FALSE, !.forcerm = TRUE]}]
MCEarlier == {Row(1, o2, Base, 1), Row(2, o1, Base, 2), Row(3, o1, <<Past, 0>>, 1)}
=============================================================================
