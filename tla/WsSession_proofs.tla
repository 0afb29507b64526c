-------------------------- MODULE WsSession_proofs --------------------------
(***************************************************************************)
(* Proofs about sessions and presence, for every number of users and of    *)
(* sessions of each.                                                       *)
(***************************************************************************)
EXTENDS WsSession, TLAPS

USE SessionAssumption

----------------------------------------------------------------------------
(* Type correctness.                                                       *)

Places == {"new", "open", "closed"} \cup Opening \cup Closing

\* The fields of a socket, with the set of places closed up.
LEMMA SocketFields ==
  ASSUME TypeOK, NEW s \in Sessions
  PROVE  /\ socket[s] \in [at : Places, friends : SUBSET Users, asked : SUBSET Users]
         /\ SocketState = [at : Places, friends : SUBSET Users, asked : SUBSET Users]
         /\ Friends[Owner[s]] \in SUBSET Users
  BY DEF TypeOK, SocketState, Places

\* A move keeps the sockets well typed, and so does an event sent to friends.
LEMMA GotoType ==
  ASSUME TypeOK, NEW s \in Sessions, NEW place \in Places, Goto(s, place)
  PROVE  socket' \in [Sessions -> SocketState]
<1>1. socket[s] \in [at : Places, friends : SUBSET Users, asked : SUBSET Users]
  BY DEF TypeOK, SocketState, Places
<1>2. [socket[s] EXCEPT !.at = place] \in [at : Places, friends : SUBSET Users, asked : SUBSET Users]
  BY <1>1
<1>3. QED BY <1>2 DEF TypeOK, Goto, SocketState, Places

LEMMA TellType ==
  ASSUME TypeOK, NEW us, NEW about \in Users, NEW status \in Status, Tell(us, about, status)
  PROVE  view' \in [Sessions -> [Users -> Status \cup {None}]]
<1>1. \A s \in Sessions :
        [view[s] EXCEPT ![about] = status] \in [Users -> Status \cup {None}]
  BY DEF TypeOK
<1>2. QED BY <1>1 DEF TypeOK, Tell

\* The writes of set_status, and their failures, keep the types.
LEMMA SetStatusType ==
  ASSUME TypeOK, NEW s \in Sessions, NEW from, NEW place \in Places, NEW status \in Status,
         SetRedis(s, from, status, place) \/ SetPostgres(s, from, status, place)
           \/ Fails(s, from, place)
  PROVE  TypeOK'
<1>1. Goto(s, place)
  BY DEF SetRedis, SetPostgres, Fails
<1>2. socket' \in [Sessions -> SocketState]
  BY <1>1, GotoType
<1>3. CASE SetRedis(s, from, status, place)
  BY <1>2, <1>3 DEF TypeOK, SetRedis
<1>4. CASE SetPostgres(s, from, status, place)
  BY <1>2, <1>4 DEF TypeOK, SetPostgres
<1>5. CASE Fails(s, from, place)
  BY <1>2, <1>5 DEF TypeOK, Fails, stores
<1>6. QED BY <1>3, <1>4, <1>5

\* Every step keeps the types.
LEMMA TypeInductive ==
  ASSUME TypeOK, [Next]_vars
  PROVE  TypeOK'
<1>0. /\ {"open", "closed", "remove", "check", "sync"} \subseteq Places
      /\ {"online_redis", "online_postgres", "announce"} \subseteq Places
      /\ {"offline_redis", "offline_postgres", "farewell"} \subseteq Places
      /\ "online" \in Status /\ "offline" \in Status
  BY DEF Places, Opening, Closing, Status
<1>1. ASSUME NEW s \in Sessions, Register(s) PROVE TypeOK'
  <2>1. socket' \in [Sessions -> SocketState]
    BY <1>0, <1>1, GotoType DEF Register
  <2>2. QED BY <1>1, <2>1 DEF Register, TypeOK, stores
<1>2. ASSUME NEW s \in Sessions, SetOnline(s) \/ SetOffline(s) PROVE TypeOK'
  BY <1>0, <1>2, SetStatusType DEF SetOnline, SetOffline
<1>3. ASSUME NEW s \in Sessions, Announce(s) PROVE TypeOK'
  <2>1. CASE Fails(s, {"announce"}, "sync")
    BY <1>0, <2>1, SetStatusType
  <2>2. CASE Tell(Friends[Owner[s]], Owner[s], "online") /\ UNCHANGED <<clients, stores, reader>>
             /\ socket' = [socket EXCEPT ![s].at = "sync", ![s].friends = Friends[Owner[s]]]
    <3>1. view' \in [Sessions -> [Users -> Status \cup {None}]]
      BY <1>0, <2>2, TellType
    <3>2. [socket[s] EXCEPT !.at = "sync", !.friends = Friends[Owner[s]]] \in SocketState
      BY <1>0, SocketFields
    <3>3. socket' \in [Sessions -> SocketState]
      BY <2>2, <3>2 DEF TypeOK
    <3>4. QED BY <2>2, <3>1, <3>3 DEF TypeOK, stores
  <2>3. QED BY <1>3, <2>1, <2>2 DEF Announce
<1>4. ASSUME NEW s \in Sessions, NEW f \in Users, SyncCheck(s, f) PROVE TypeOK'
  <2>1. [at |-> IF IsConnected(f) THEN "sync_send" ELSE "sync",
         friends |-> socket[s].friends \ {f},
         asked |-> IF IsConnected(f) THEN {f} ELSE {}] \in SocketState
    BY DEF TypeOK, SocketState, Opening
  <2>2. socket' \in [Sessions -> SocketState]
    BY <1>4, <2>1 DEF SyncCheck, TypeOK
  <2>3. QED BY <1>4, <2>2 DEF SyncCheck, TypeOK, stores
<1>5. ASSUME NEW s \in Sessions, NEW f \in Users, SyncSend(s, f) PROVE TypeOK'
  <2>1. view' \in [Sessions -> [Users -> Status \cup {None}]]
    BY <1>0, <1>5, TellType DEF SyncSend
  <2>2. [socket[s] EXCEPT !.at = "sync", !.asked = {}] \in SocketState
    BY <1>0, SocketFields
  <2>3. socket' \in [Sessions -> SocketState]
    BY <1>5, <2>2 DEF SyncSend, TypeOK
  <2>4. QED BY <1>5, <2>1, <2>3 DEF SyncSend, TypeOK, stores
<1>6. ASSUME NEW s \in Sessions, Spawn(s) PROVE TypeOK'
  <2>1. socket' \in [Sessions -> SocketState]
    BY <1>0, <1>6, GotoType DEF Spawn
  <2>2. [reader[s] EXCEPT !.at = "idle"] \in ReaderState
    BY DEF TypeOK, ReaderState
  <2>3. QED BY <1>6, <2>1, <2>2 DEF Spawn, TypeOK, stores
<1>7. ASSUME NEW s \in Sessions, Close(s) \/ Check(s) PROVE TypeOK'
  <2>1. socket' \in [Sessions -> SocketState]
    BY <1>0, <1>7, GotoType DEF Close, Check
  <2>2. QED BY <1>7, <2>1 DEF Close, Check, TypeOK, stores
<1>8. ASSUME NEW s \in Sessions, Remove(s) PROVE TypeOK'
  <2>1. socket' \in [Sessions -> SocketState]
    BY <1>0, <1>8, GotoType DEF Remove
  <2>2. QED BY <1>8, <2>1 DEF Remove, TypeOK, stores
<1>9. ASSUME NEW s \in Sessions, Farewell(s) PROVE TypeOK'
  <2>1. CASE Fails(s, {"farewell"}, "closed")
    BY <1>0, <2>1, SetStatusType
  <2>2. CASE Tell(Friends[Owner[s]], Owner[s], "offline") /\ Goto(s, "closed")
             /\ UNCHANGED <<clients, stores, reader>>
    <3>1. view' \in [Sessions -> [Users -> Status \cup {None}]]
      BY <1>0, <2>2, TellType
    <3>2. socket' \in [Sessions -> SocketState]
      BY <1>0, <2>2, GotoType
    <3>3. QED BY <2>2, <3>1, <3>2 DEF TypeOK, stores
  <2>3. QED BY <1>9, <2>1, <2>2 DEF Farewell
<1>10. ASSUME NEW s \in Sessions, Reader(s) PROVE TypeOK'
  <2>1. CASE BeatRead(s)
    <3>1. [at |-> "beat", status |-> IF redis[Owner[s]] = None THEN "online" ELSE redis[Owner[s]]]
            \in ReaderState
      BY DEF TypeOK, ReaderState, Status
    <3>2. QED BY <2>1, <3>1 DEF BeatRead, TypeOK, stores
  <2>2. CASE BeatWrite(s)
    <3>1. reader[s].status \in Status \cup {None}
          /\ [at |-> "idle", status |-> None] \in ReaderState
      BY DEF TypeOK, ReaderState
    <3>2. QED BY <2>2, <3>1 DEF BeatWrite, TypeOK
  <2>3. CASE ReaderEnds(s)
    <3>1. [reader[s] EXCEPT !.at = "ended"] \in ReaderState
      BY DEF TypeOK, ReaderState
    <3>2. QED BY <2>3, <3>1 DEF ReaderEnds, TypeOK, stores
  <2>4. QED BY <1>10, <2>1, <2>2, <2>3 DEF Reader
<1>11. ASSUME NEW u \in Users, Expire(u) PROVE TypeOK'
  BY <1>11 DEF Expire, TypeOK
<1>12. CASE UNCHANGED vars
  BY <1>12 DEF vars, TypeOK
<1>13. QED
  BY <1>1, <1>2, <1>3, <1>4, <1>5, <1>6, <1>7, <1>8, <1>9, <1>10, <1>11, <1>12 DEF Next, Main

----------------------------------------------------------------------------
(* Who writes last.                                                        *)

Registered == Opening \cup {"open", "remove"}
Leaving == {"check", "offline_redis", "offline_postgres"}

\* A step that moves session s, if any, from one place to another and leaves the
\* places of all other sessions alone.
Moves(s, from, to) ==
  /\ socket[s].at \in from
  /\ socket'[s].at \in to
  /\ \A s2 \in Sessions \ {s} : socket'[s2].at = socket[s2].at

\* What a step does to the three things the invariant relates, in seven forms.
Registers(s) ==
  /\ Moves(s, {"new"}, Opening)
  /\ clients' = [clients EXCEPT ![Owner[s]] = @ \cup {s}]
  /\ UNCHANGED postgres

Serves(s) ==
  /\ Moves(s, Registered, Registered)
  /\ UNCHANGED clients
  /\ postgres' = postgres \/ postgres' = [postgres EXCEPT ![Owner[s]] = "online"]

Removes(s) ==
  /\ Moves(s, {"remove"}, {"check"})
  /\ clients' = [clients EXCEPT ![Owner[s]] = @ \ {s}]
  /\ UNCHANGED postgres

GoesOn(s) ==
  /\ Moves(s, {"check", "offline_redis"}, {"offline_redis", "offline_postgres"})
  /\ UNCHANGED <<clients, postgres>>

WritesOffline(s) ==
  /\ Moves(s, {"offline_postgres"}, {"farewell"})
  /\ UNCHANGED clients
  /\ postgres' = [postgres EXCEPT ![Owner[s]] = "offline"]

GivesUp(s) ==
  /\ Moves(s, Closing \ {"remove"}, {"farewell", "closed"})
  /\ socket[s].at = "farewell" \/ Owner[s] \in Flaky \/ IsConnected(Owner[s])
  /\ UNCHANGED <<clients, postgres>>

StaysPut ==
  /\ \A s \in Sessions : socket'[s].at = socket[s].at
  /\ UNCHANGED <<clients, postgres>>

\* Every step has one of the seven forms.
LEMMA StepForms ==
  ASSUME TypeOK, [Next]_vars
  PROVE  \/ StaysPut
         \/ \E s \in Sessions : \/ Registers(s) \/ Serves(s) \/ Removes(s) \/ GoesOn(s)
                                \/ WritesOffline(s) \/ GivesUp(s)
<1> DEFINE Form(s) == \/ Registers(s) \/ Serves(s) \/ Removes(s) \/ GoesOn(s)
                      \/ WritesOffline(s) \/ GivesUp(s)
<1> USE DEF Moves, At, Goto, stores
<1>0. /\ socket \in [Sessions -> SocketState]
      /\ \A s \in Sessions : socket[s] = [at |-> socket[s].at, friends |-> socket[s].friends,
                                          asked |-> socket[s].asked]
  BY DEF TypeOK, SocketState
<1>1. ASSUME NEW s \in Sessions, Register(s) PROVE Form(s)
  BY <1>0, <1>1 DEF Register, Registers, Opening
<1>2. ASSUME NEW s \in Sessions, SetOnline(s) PROVE Form(s)
  BY <1>0, <1>2 DEF SetOnline, SetRedis, SetPostgres, Fails, Serves, Registered, Opening
<1>3. ASSUME NEW s \in Sessions, Announce(s) PROVE Form(s)
  BY <1>0, <1>3 DEF Announce, Fails, Serves, Registered, Opening
<1>4. ASSUME NEW s \in Sessions, NEW f \in Users, SyncCheck(s, f) PROVE Form(s)
  BY <1>0, <1>4 DEF SyncCheck, Serves, Registered, Opening
<1>5. ASSUME NEW s \in Sessions, NEW f \in Users, SyncSend(s, f) PROVE Form(s)
  BY <1>0, <1>5 DEF SyncSend, Serves, Registered, Opening
<1>6. ASSUME NEW s \in Sessions, Spawn(s) \/ Close(s) PROVE Form(s)
  BY <1>0, <1>6 DEF Spawn, Close, Serves, Registered, Opening
<1>7. ASSUME NEW s \in Sessions, Remove(s) PROVE Form(s)
  BY <1>0, <1>7 DEF Remove, Removes
<1>8. ASSUME NEW s \in Sessions, Check(s) PROVE Form(s)
  BY <1>0, <1>8 DEF Check, GoesOn, GivesUp, Closing
<1>9. ASSUME NEW s \in Sessions, SetOffline(s) PROVE Form(s)
  BY <1>0, <1>9 DEF SetOffline, SetRedis, SetPostgres, Fails, GoesOn, WritesOffline, GivesUp, Closing
<1>10. ASSUME NEW s \in Sessions, Farewell(s) PROVE Form(s)
  BY <1>0, <1>10 DEF Farewell, Fails, GivesUp, Closing
<1>11. ASSUME NEW s \in Sessions, Reader(s) PROVE StaysPut
  BY <1>11 DEF Reader, BeatRead, BeatWrite, ReaderEnds, StaysPut
<1>12. ASSUME NEW u \in Users, Expire(u) PROVE StaysPut
  BY <1>12 DEF Expire, StaysPut
<1>13. CASE UNCHANGED vars
  BY <1>13 DEF vars, StaysPut
<1>14. QED
  BY <1>1, <1>2, <1>3, <1>4, <1>5, <1>6, <1>7, <1>8, <1>9, <1>10, <1>11, <1>12, <1>13
     DEF Next, Main

\* The hub goes on knowing exactly the sessions between Register and Remove.
LEMMA HubInductive ==
  ASSUME TypeOK, HubAgrees, [Next]_vars
  PROVE  HubAgrees'
<1> USE DEF HubAgrees, Moves, TypeOK, SessionsOf, Registered, Opening, Closing
<1>1. CASE StaysPut
  BY <1>1 DEF StaysPut
<1>2. ASSUME NEW s \in Sessions, Registers(s) PROVE HubAgrees'
  BY <1>2 DEF Registers
<1>3. ASSUME NEW s \in Sessions, Serves(s) PROVE HubAgrees'
  BY <1>3 DEF Serves
<1>4. ASSUME NEW s \in Sessions, Removes(s) PROVE HubAgrees'
  BY <1>4 DEF Removes
<1>5. ASSUME NEW s \in Sessions, GoesOn(s) \/ WritesOffline(s) \/ GivesUp(s) PROVE HubAgrees'
  BY <1>5 DEF GoesOn, WritesOffline, GivesUp
<1>6. QED BY <1>1, <1>2, <1>3, <1>4, <1>5, StepForms

\* The last session to leave the hub still owes the row its offline.
LEMMA LastInductive ==
  ASSUME TypeOK, HubAgrees, LastWritesOffline, [Next]_vars
  PROVE  LastWritesOffline'
<1> SUFFICES ASSUME NEW u \in Users \ Flaky, clients'[u] = {}, postgres'[u] = "online"
             PROVE  \E s \in SessionsOf(u) : socket'[s].at \in Leaving
  BY DEF LastWritesOffline, IsConnected, Leaving, SessionsOf
<1> DEFINE Owes == \E s \in SessionsOf(u) : socket[s].at \in Leaving
<1>0. clients[u] = {} /\ postgres[u] = "online" => Owes
  BY DEF LastWritesOffline, IsConnected, Leaving
<1> HIDE DEF Owes
<1> USE DEF Moves, TypeOK, SessionsOf
<1>1. CASE StaysPut
  BY <1>0, <1>1 DEF StaysPut, Owes
<1>2. ASSUME NEW s \in Sessions, Registers(s) PROVE \E s2 \in SessionsOf(u) : socket'[s2].at \in Leaving
  <2>1. Owner[s] # u /\ clients[u] = {} /\ postgres[u] = "online"
    BY <1>2 DEF Registers
  <2>2. QED BY <1>0, <1>2, <2>1 DEF Registers, Owes
<1>3. ASSUME NEW s \in Sessions, Serves(s) PROVE \E s2 \in SessionsOf(u) : socket'[s2].at \in Leaving
  <2>1. s \in clients[Owner[s]]
    BY <1>3 DEF Serves, HubAgrees, Registered
  <2>2. Owner[s] # u /\ clients[u] = {} /\ postgres[u] = "online"
    BY <1>3, <2>1 DEF Serves
  <2>3. QED BY <1>0, <1>3, <2>2 DEF Serves, Owes
<1>4. ASSUME NEW s \in Sessions, Removes(s) PROVE \E s2 \in SessionsOf(u) : socket'[s2].at \in Leaving
  <2>1. CASE Owner[s] = u
    BY <1>4, <2>1 DEF Removes, Leaving
  <2>2. CASE Owner[s] # u
    BY <1>0, <1>4, <2>2 DEF Removes, Owes
  <2>3. QED BY <2>1, <2>2
<1>5. ASSUME NEW s \in Sessions, GoesOn(s) PROVE \E s2 \in SessionsOf(u) : socket'[s2].at \in Leaving
  <2>1. Owes
    BY <1>0, <1>5 DEF GoesOn
  <2>2. PICK s2 \in SessionsOf(u) : socket[s2].at \in Leaving
    BY <2>1 DEF Owes
  <2>3. QED BY <1>5, <2>2 DEF GoesOn, Leaving
<1>6. ASSUME NEW s \in Sessions, WritesOffline(s) PROVE \E s2 \in SessionsOf(u) : socket'[s2].at \in Leaving
  <2>1. Owner[s] # u /\ Owes
    BY <1>0, <1>6 DEF WritesOffline
  <2>2. QED BY <1>6, <2>1 DEF WritesOffline, Owes
<1>7. ASSUME NEW s \in Sessions, GivesUp(s) PROVE \E s2 \in SessionsOf(u) : socket'[s2].at \in Leaving
  <2>1. PICK s2 \in SessionsOf(u) : socket[s2].at \in Leaving
    BY <1>0, <1>7 DEF GivesUp, Owes
  <2>2. s2 # s
    BY <1>7, <2>1 DEF GivesUp, IsConnected, Leaving
  <2>3. QED BY <1>7, <2>1, <2>2 DEF GivesUp
<1>8. QED BY <1>1, <1>2, <1>3, <1>4, <1>5, <1>6, <1>7, StepForms

----------------------------------------------------------------------------
(* The results.                                                            *)

\* The invariant holds in every reachable state.
THEOREM Invariant == Spec => []IInv
<1>1. Init => IInv
  BY DEF Init, IInv, TypeOK, HubAgrees, LastWritesOffline, SocketState, ReaderState, Status,
         Opening, Closing, SessionsOf
<1>2. IInv /\ [Next]_vars => IInv'
  BY TypeInductive, HubInductive, LastInductive DEF IInv
<1>3. QED BY <1>1, <1>2, PTL DEF Spec

\* Every reachable state is well typed.
THEOREM TypeCorrect == Spec => []TypeOK
BY Invariant, PTL DEF IInv

\* However many devices a user has and however their sessions overlap, once all
\* are through their cleanup the row of the user does not say online.
THEOREM OfflineWhenGone == Spec => []GoneIsOffline
<1>1. IInv => GoneIsOffline
  <2> SUFFICES ASSUME IInv, NEW u \in Users \ Flaky, Gone(u), postgres[u] = "online" PROVE FALSE
    BY DEF GoneIsOffline
  <2>1. ~IsConnected(u)
    BY DEF IInv, HubAgrees, Gone, SessionsOf, IsConnected, Opening
  <2>2. PICK s \in SessionsOf(u) : socket[s].at \in Leaving
    BY <2>1 DEF IInv, LastWritesOffline, Leaving
  <2>3. QED BY <2>2 DEF Gone, Leaving
<1>2. QED BY Invariant, <1>1, PTL
=============================================================================
