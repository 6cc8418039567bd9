--------------------------- MODULE SnapshotRegister ---------------------------
(***************************************************************************)
(* What publication promises to the readers of a project's lanes: each     *)
(* lane shows one whole generation after another, never nothing again once *)
(* it has shown one, and never changes while a reader has it pinned.       *)
(***************************************************************************)
CONSTANTS Lanes, Generations, Readers, Nothing

VARIABLES
    view,    \* per lane, the generation a reader would load
    pin      \* per reader, the lane and generation it is loading

vars == <<view, pin>>

Unpinned == <<>>

Init ==
    /\ view = [l \in Lanes |-> Nothing]
    /\ pin = [r \in Readers |-> Unpinned]

PinnedOn(l) == \E r \in Readers : pin[r] # Unpinned /\ pin[r][1] = l

Show(l, g) ==
    /\ ~PinnedOn(l)
    /\ view' = [view EXCEPT ![l] = g]
    /\ UNCHANGED pin

Pin(r, l) ==
    /\ pin[r] = Unpinned
    /\ view[l] # Nothing
    /\ pin' = [pin EXCEPT ![r] = <<l, view[l]>>]
    /\ UNCHANGED view

Unpin(r) ==
    /\ pin' = [pin EXCEPT ![r] = Unpinned]
    /\ UNCHANGED view

Next ==
    \/ \E l \in Lanes, g \in Generations : Show(l, g)
    \/ \E r \in Readers, l \in Lanes : Pin(r, l)
    \/ \E r \in Readers : Unpin(r)

Spec == Init /\ [][Next]_vars
===============================================================================
