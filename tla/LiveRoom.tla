------------------------------ MODULE LiveRoom ------------------------------
(***************************************************************************)
(* One live stream as the gateway serves it: the requests of              *)
(* gateway/src/handlers.rs and the frames of ws/mod.rs, each of which      *)
(* writes the database first and the hub second, and the cleanup of a      *)
(* closed socket, which does it the other way round.                       *)
(*                                                                         *)
(* A transaction of the service is one step here (LiveStream shows what it *)
(* is made of), and so is a call on the hub (WsManager), unless the        *)
(* handler is dropped in the middle of it.  A request that fails before it *)
(* commits changes nothing and is left out.  A handler whose client goes   *)
(* away is dropped at its next await (Drop, CutShort).                     *)
(***************************************************************************)
EXTENDS Integers, FiniteSets

CONSTANTS
  Users, Host,
  Devices, Owner,  \* sockets, and whose they are
  Tasks            \* requests that may be in progress at once

ASSUME RoomAssumption ==
  /\ Host \in Users
  /\ Owner \in [Devices -> Users]

VARIABLES
  status, ended_at,  \* live_streams.status, and whether ended_at is set
  watching,          \* users with an active row in live_stream_viewers
  room,              \* the viewers the hub has for the stream (livestream_rooms)
  listed,            \* the users it has the stream for (user_livestreams)
  conn,              \* where handle_socket stands with each socket
  task,              \* the request in progress
  disturbed,         \* history, no state of the code: users of whom a request or a
                     \* cleanup overlapped another, was dropped or failed, and none
                     \* has run alone since
  owed               \* history: who had a row when an end was committed, has not left
                     \* since and has not been told

stream == <<status, ended_at>>
hub == <<room, listed>>
vars == <<stream, watching, hub, conn, task, disturbed, owed>>

Idle == [op |-> "idle", at |-> "idle", user |-> Host]

TaskState == [op : {"idle", "join", "leave", "start", "end"},
              at : {"idle", "write", "hub", "room", "all"}, user : Users]

Become(t, state) == task' = [task EXCEPT ![t] = state]
Finish(t) == Become(t, Idle)

Init ==
  /\ status = "created" /\ ended_at = FALSE
  /\ watching = {} /\ room = {} /\ listed = {}
  /\ conn = [d \in Devices |-> "gone"]
  /\ task = [t \in Tasks |-> Idle]
  /\ disturbed = {} /\ owed = {}

\* A request or a cleanup of u is between its two stores.
Busy(u) ==
  \/ \E t \in Tasks : task[t].op \in {"join", "leave"} /\ task[t].user = u
  \/ \E d \in Devices : Owner[d] = u /\ conn[d] \in {"rows", "remove"}

Open(u) == \E d \in Devices : Owner[d] = u /\ conn[d] = "open"

----------------------------------------------------------------------------
(* Joining and leaving, by REST or by frame.                               *)

\* A request that runs alone writes both stores anew.
Disturb(u, overlaps) == disturbed' = IF overlaps THEN disturbed \cup {u} ELSE disturbed \ {u}

\* join_stream reads no status.  A user without a socket may join by REST.
JoinRow(t, u) ==
  /\ task[t] = Idle
  /\ Become(t, [Idle EXCEPT !.op = "join", !.at = "hub", !.user = u])
  /\ watching' = watching \cup {u}
  /\ Disturb(u, Busy(u) \/ ~Open(u))
  /\ UNCHANGED <<stream, hub, conn, owed>>

\* Nothing but the number of viewers is told after it.
EnterRoom(t) ==
  /\ task[t].op = "join"
  /\ room' = room \cup {task[t].user}
  /\ listed' = listed \cup {task[t].user}
  /\ Finish(t)
  /\ UNCHANGED <<stream, watching, conn, disturbed, owed>>

LeaveRow(t, u) ==
  /\ task[t] = Idle
  /\ Become(t, [Idle EXCEPT !.op = "leave", !.at = "hub", !.user = u])
  /\ watching' = watching \ {u}
  /\ Disturb(u, Busy(u))
  /\ owed' = owed \ {u}
  /\ UNCHANGED <<stream, hub, conn>>

\* A leave that forgets the hub.
WrongQuitRoom(t) ==
  /\ task[t].op = "leave"
  /\ Finish(t)
  /\ UNCHANGED <<stream, watching, hub, conn, disturbed, owed>>

QuitRoom(t) ==
  /\ task[t].op = "leave"
  /\ room' = room \ {task[t].user}
  /\ listed' = listed \ {task[t].user}
  /\ Finish(t)
  /\ UNCHANGED <<stream, watching, conn, disturbed, owed>>

\* The client goes away while the hub has written the first of its two maps.
CutShort(t) ==
  /\ task[t].op \in {"join", "leave"}
  /\ room' = IF task[t].op = "join" THEN room \cup {task[t].user} ELSE room \ {task[t].user}
  /\ Finish(t)
  /\ disturbed' = disturbed \cup {task[t].user}
  /\ UNCHANGED <<stream, watching, listed, conn, owed>>

----------------------------------------------------------------------------
(* The life of a socket.                                                   *)

\* add_client; a socket that is gone stands for the next one.
Connect(d) ==
  /\ conn[d] = "gone"
  /\ conn' = [conn EXCEPT ![d] = "open"]
  /\ UNCHANGED <<stream, watching, hub, task, disturbed, owed>>

\* leave_all_livestreams(u) visits the rooms user_livestreams has for u.
LeaveAllRooms(u) ==
  /\ room' = IF u \in listed THEN room \ {u} ELSE room
  /\ listed' = listed \ {u}

\* A cleanup that takes the user out of the rooms and goes on to the next call.
WrongClose(d) ==
  /\ conn[d] = "open"
  /\ LeaveAllRooms(Owner[d])
  /\ conn' = [conn EXCEPT ![d] = "remove"]
  /\ disturbed' = IF Busy(Owner[d]) THEN disturbed \cup {Owner[d]} ELSE disturbed
  /\ owed' = owed \ {Owner[d]}
  /\ UNCHANGED <<stream, watching, task>>

\* leave_all_livestreams(user_id): of the user, whatever other sockets he has.
Close(d) ==
  /\ conn[d] = "open"
  /\ LeaveAllRooms(Owner[d])
  /\ conn' = [conn EXCEPT ![d] = IF Owner[d] \in listed THEN "rows" ELSE "remove"]
  /\ disturbed' = IF Busy(Owner[d]) THEN disturbed \cup {Owner[d]} ELSE disturbed
  /\ owed' = owed \ {Owner[d]}
  /\ UNCHANGED <<stream, watching, task>>

\* leave_stream for every stream that was left.  An error is passed over, and
\* nobody tries again.
LeaveRows(d) ==
  /\ conn[d] = "rows"
  /\ \/ watching' = watching \ {Owner[d]} /\ UNCHANGED disturbed
     \/ disturbed' = disturbed \cup {Owner[d]} /\ UNCHANGED watching
  /\ conn' = [conn EXCEPT ![d] = "remove"]
  /\ UNCHANGED <<stream, hub, task, owed>>

\* remove_client empties the rooms again if it was the last socket, and no row follows.
Remove(d) ==
  /\ conn[d] = "remove"
  /\ conn' = [conn EXCEPT ![d] = "gone"]
  /\ IF \A d2 \in Devices \ {d} : Owner[d2] = Owner[d] => conn[d2] = "gone"
       THEN LeaveAllRooms(Owner[d])
       ELSE UNCHANGED hub
  /\ UNCHANGED <<stream, watching, task, disturbed, owed>>

----------------------------------------------------------------------------
(* Requests of the host.  Those of others fail the host check.             *)

Start(t) ==
  /\ task[t] = Idle
  /\ status # "ended"
  /\ Become(t, [Idle EXCEPT !.op = "start", !.at = "write"])
  /\ UNCHANGED <<stream, watching, hub, conn, disturbed, owed>>

\* livestream:started, which follows, is one more broadcast.
StartWrite(t) ==
  /\ task[t].op = "start"
  /\ status' = "live"
  /\ Finish(t)
  /\ UNCHANGED <<ended_at, watching, hub, conn, disturbed, owed>>

End(t) ==
  /\ task[t] = Idle
  /\ status' = "ended" /\ ended_at' = TRUE
  /\ watching' = {}
  /\ owed' = owed \cup {u \in watching \ disturbed : ~Busy(u)}
  /\ Become(t, [Idle EXCEPT !.op = "end", !.at = "room"])
  /\ UNCHANGED <<hub, conn, disturbed>>

\* Those who are told, taken from the rows, which the end has emptied.
WrongTellRoom(t) ==
  /\ task[t].at = "room"
  /\ owed' = owed \ watching
  /\ Become(t, [task[t] EXCEPT !.at = "all"])
  /\ UNCHANGED <<stream, watching, hub, conn, disturbed>>

\* broadcast_to_livestream reaches whom the hub has in the room.
TellRoom(t) ==
  /\ task[t].at = "room"
  /\ owed' = owed \ room
  /\ Become(t, [task[t] EXCEPT !.at = "all"])
  /\ UNCHANGED <<stream, watching, hub, conn, disturbed>>

\* broadcast_all reaches everybody who has a socket.
TellAll(t) ==
  /\ task[t].at = "all"
  /\ owed' = {}
  /\ Finish(t)
  /\ UNCHANGED <<stream, watching, hub, conn, disturbed>>

\* The client of the request goes away before its next store is written.  What a
\* dropped end had still to tell nobody tells.
Drop(t) ==
  /\ task[t] # Idle
  /\ Finish(t)
  /\ disturbed' = IF task[t].op \in {"join", "leave"} THEN disturbed \cup {task[t].user}
                                                     ELSE disturbed
  /\ owed' = IF task[t].at = "room" THEN {} ELSE owed
  /\ UNCHANGED <<stream, watching, hub, conn>>

----------------------------------------------------------------------------
Request(t) ==
  \/ \E u \in Users : JoinRow(t, u) \/ LeaveRow(t, u)
  \/ Start(t) \/ End(t)

Continue(t) ==
  \/ EnterRoom(t) \/ QuitRoom(t) \/ StartWrite(t) \/ TellRoom(t) \/ TellAll(t)

Next ==
  \/ \E t \in Tasks : Request(t) \/ Continue(t) \/ CutShort(t) \/ Drop(t)
  \/ \E d \in Devices : Connect(d) \/ Close(d) \/ LeaveRows(d) \/ Remove(d)

Spec == Init /\ [][Next]_vars

----------------------------------------------------------------------------
(* Properties.                                                             *)

TypeOK ==
  /\ status \in {"created", "live", "ended"} /\ ended_at \in BOOLEAN
  /\ watching \in SUBSET Users /\ room \in SUBSET Users /\ listed \in SUBSET Users
  /\ disturbed \in SUBSET Users /\ owed \in SUBSET Users
  /\ conn \in [Devices -> {"open", "rows", "remove", "gone"}]
  /\ task \in [Tasks -> TaskState]

\* The rows and the hub's room agree about every user whose last request ran alone
\* and to its end, and whose cleanups since did, although each of them writes the two
\* stores in two steps, the host may end the stream in between, and an overlap, a
\* dropped handler or a failed leave_stream may have left the stores apart before.
\* (An end empties the rows and leaves the room as it is.)
RoomsAgree ==
  \A u \in Users \ disturbed : ~Busy(u) =>
    /\ u \in watching => u \in room
    /\ u \in room => u \in watching \/ ended_at

\* Such a user leaves nothing behind when all his sockets are cleaned up: no active
\* row and no place in the room, although the rows are only looked at for the
\* streams the hub says he was in.
GoneIsNotWatching ==
  \A u \in Users \ disturbed :
    ~Busy(u) /\ ~Open(u) => u \notin watching /\ u \notin room

\* Whoever had an active row when an end was committed, was between no two stores
\* then and has not left since, is told by the broadcast to the room, which reads the
\* other store: once it is through nobody is left to be told, and a handler that is
\* dropped before its broadcast to all costs no viewer the news.
ViewersAreTold == owed # {} => \E t \in Tasks : task[t].at = "room"
=============================================================================
