--------------------------- MODULE RoomDirectory ---------------------------
(***************************************************************************)
(* What the hub promises about live stream rooms: one relation between     *)
(* users and streams that joins, leaves and disconnects change in one      *)
(* step, and a disconnect leaves nobody behind but in the memberships      *)
(* whose last change was broken off.  WsManager keeps the relation twice,  *)
(* in two maps behind two locks, and is shown to implement this            *)
(* specification.                                                          *)
(***************************************************************************)
CONSTANTS Users, Streams

VARIABLES
  members,      \* the pairs <<user, stream>> such that user is in the room
  stray         \* the pairs whose last join or leave was broken off

vars == <<members, stray>>

Init == members = {} /\ stray = {}

Join(u, s) == members' = members \cup {<<u, s>>} /\ UNCHANGED stray

Leave(u, s) == members' = members \ {<<u, s>>} /\ UNCHANGED stray

\* A join or a leave is broken off after it changed the relation.
Stray(u, s) == stray' = stray \cup {<<u, s>>} /\ UNCHANGED members

\* A later one gets to its end.
Settle(u, s) == stray' = stray \ {<<u, s>>} /\ UNCHANGED members

\* A disconnect takes the user out of every room at once, but for memberships
\* that went astray, which it may miss.
LeaveAll(u) ==
  \E missed \in SUBSET {p \in stray : p[1] = u} :
    /\ members' = {p \in members : p[1] # u \/ p \in missed}
    /\ stray' = {p \in stray : p[1] # u \/ p \in missed}

Next == \E u \in Users :
          \/ LeaveAll(u)
          \/ \E s \in Streams : Join(u, s) \/ Leave(u, s) \/ Stray(u, s) \/ Settle(u, s)

Spec == Init /\ [][Next]_vars
=============================================================================
