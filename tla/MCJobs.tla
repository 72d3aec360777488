------------------------------- MODULE MCJobs -------------------------------
(***************************************************************************)
(* Values of the constants of Jobs for TLC.                                *)
(***************************************************************************)
EXTENDS Jobs

CONSTANT MaxImages   \* bound: the images of a push

OneRepo == [r \in Requests |-> CHOOSE p \in Repos : TRUE]
PushesOf == [r \in Requests |-> IF r \in Pulls THEN 1 ELSE MaxImages]

=============================================================================
