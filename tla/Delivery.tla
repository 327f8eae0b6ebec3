------------------------------- MODULE Delivery -------------------------------
(***************************************************************************)
(* What the camera and the server promise together: a photo taken for the  *)
(* gallery is held by the camera until it has been filed there.            *)
(***************************************************************************)
CONSTANT Photos
VARIABLES held,  \* by the camera
          filed  \* in the gallery, once

Init == held = {} /\ filed = {}

Take(p)    == p \notin held \cup filed /\ held' = held \cup {p} /\ UNCHANGED filed
File(p)    == p \in held /\ filed' = filed \cup {p} /\ UNCHANGED held
Release(p) == p \in held \cap filed /\ held' = held \ {p} /\ UNCHANGED filed

Next == \E p \in Photos : Take(p) \/ File(p) \/ Release(p)
Spec == Init /\ [][Next]_<<held, filed>>
=============================================================================
