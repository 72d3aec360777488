---------------------------- MODULE MCImageStore ----------------------------
(***************************************************************************)
(* Values of the constants of ImageStore for TLC.                          *)
(***************************************************************************)
EXTENDS ImageStore, TLC

MCOwnerOf == [c \in Clients |-> IF c = "b1" THEN "bob" ELSE "alice"]

(* Two connections of one account are interchangeable.                     *)
Alice == [c \in Clients |-> "alice"]
Connections == Permutations(Clients)

(* base <- mid <- app and mid <- alt.  app only changes metadata, so it    *)
(* has the layers of mid.                                                  *)
ParentOf == "base" :> None @@ "mid" :> "base" @@ "app" :> "mid"
                @@ "alt" :> "mid"
TopOf == "base" :> "l1" @@ "mid" :> "l2" @@ "app" :> "l2" @@ "alt" :> "l3"
OriginOf == "l1" :> None @@ "l2" :> "l1" @@ "l3" :> "l2"
MCParent == [d \in Digests |-> ParentOf[d]]
MCAncestry == [d \in Digests |-> {"base", d} \cup
                                 (IF d = "base" THEN {} ELSE {"mid"})]
MCTop == [d \in Digests |-> TopOf[d]]
MCLayersOf == [d \in Digests |-> {"l1", TopOf[d]} \cup
                                 (IF d = "alt" THEN {"l2"} ELSE {})]
MCOrigin == [l \in Layers |-> OriginOf[l]]

Request(kind, ref, name, force) ==
    [kind |-> kind, ref |-> ref, name |-> name, force |-> force]

(* Removals by name, and forced removals by digest.                        *)
Removals == {Request("rmi", n, None, FALSE) : n \in Names}
                \cup {Request("rmi", d, None, TRUE) :
                        d \in Digests \ {"base"}}

(* What removals alone keep, from any store in which only heads are        *)
(* tagged.                                                                 *)
RemovalInit == Init /\ HeadsTagged
RemovalSpec == RemovalInit /\ [][Next]_vars

(* Two accounts that share layers, starting from nothing.                  *)
Empty == images = {}
Everything ==
    {Request("pull", "base", n, FALSE) : n \in Names \cup {None}}
    \cup {Request("commit", "base", n, FALSE) : n \in Names \cup {None}}
    \cup {Request("rmi", ref, None, f) :
            ref \in Names \cup {"mid"}, f \in BOOLEAN}
    \cup {Request("tag", "mid", n, FALSE) : n \in Names}
    \cup {Request(kind, "base", None, FALSE) : kind \in {"run", "inspect"}}
Sharing ==
    {Request("pull", "base", "n1", FALSE),
     Request("commit", "base", None, FALSE),
     Request("tag", "mid", "n1", FALSE),
     Request("rmi", "n1", None, FALSE), Request("rmi", "mid", None, TRUE)}
EmptyInit == Init /\ Empty
SharedSpec == EmptyInit /\ [][Next]_vars
FairSharedSpec == SharedSpec /\ \A c \in Clients : WF_vars(Serve(c))

PullsAndRemovals ==
    {Request("pull", "base", None, FALSE), Request("rmi", "base", None, FALSE)}

=============================================================================
