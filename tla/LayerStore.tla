----------------------------- MODULE LayerStore -----------------------------
(***************************************************************************)
(* What the image service promises about layers, as one atomic store: the  *)
(* rows of every account name a top layer, a layer lies on another one or  *)
(* on nothing, rows come and go freely, and a layer goes only when no row  *)
(* names it and no layer lies on it.                                       *)
(***************************************************************************)
CONSTANTS Rows,     \* the rows there can be
          Layers,   \* the layers there can be
          TopOf,    \* [Rows -> Layers]
          Below,    \* [Layers -> Layers \cup {Nothing}]
          Nothing

VARIABLES rows, store

Usable(r) == TopOf[r] \in store
Unused(l) == /\ \A r \in rows : TopOf[r] # l
             /\ \A m \in store : Below[m] # l

Init == /\ rows \subseteq Rows
        /\ store \subseteq Layers
        /\ \A r \in rows : Usable(r)

Forget == \E r \in rows : rows' = rows \ {r} /\ UNCHANGED store
Remember == \E r \in Rows : /\ Usable(r)
                            /\ rows' = rows \cup {r}
                            /\ UNCHANGED store
Add == \E l \in Layers : /\ Below[l] \in store \cup {Nothing}
                         /\ store' = store \cup {l}
                         /\ UNCHANGED rows
Collect == \E l \in store : /\ Unused(l)
                            /\ store' = store \ {l}
                            /\ UNCHANGED rows

Next == Forget \/ Remember \/ Add \/ Collect

Spec == Init /\ [][Next]_<<rows, store>>
=============================================================================
