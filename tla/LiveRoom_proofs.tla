-------------------------- MODULE LiveRoom_proofs --------------------------
(***************************************************************************)
(* Proofs about LiveRoom, for any number of users, sockets and requests:   *)
(* RoomsAgree, GoneIsNotWatching and ViewersAreTold.  The first two hold   *)
(* user by user: of a user who is not disturbed at most one request or one *)
(* cleanup is between its two stores, and UserInv says what it has left    *)
(* behind in the first of them.  The third needs the first where an end is *)
(* committed, and from there on that nothing but a leave or a cleanup,     *)
(* which settle what is owed, takes a viewer out of the room.              *)
(***************************************************************************)
EXTENDS LiveRoom, TLAPS

Shape == \A t \in Tasks : task[t].op = "end" <=> task[t].at \in {"room", "all"}

Asks(t, u) == task[t].op \in {"join", "leave"} /\ task[t].user = u
Cleans(d, u) == Owner[d] = u /\ conn[d] \in {"rows", "remove"}

Alone(u) ==
  /\ \A t, t2 \in Tasks : Asks(t, u) /\ Asks(t2, u) => t = t2
  /\ \A d, d2 \in Devices : Cleans(d, u) /\ Cleans(d2, u) => d = d2
  /\ \A t \in Tasks, d \in Devices : ~ (Asks(t, u) /\ Cleans(d, u))

\* What the first of the two stores says while the second is still to come.
Halfway(u) ==
  /\ \A t \in Tasks : task[t].op = "join" /\ task[t].user = u => (u \in watching \/ ended_at) /\ Open(u)
  /\ \A t \in Tasks : task[t].op = "leave" /\ task[t].user = u => u \notin watching
  /\ \A d \in Devices : Owner[d] = u /\ conn[d] = "rows" => u \notin room /\ u \notin listed
  /\ \A d \in Devices : Owner[d] = u /\ conn[d] = "remove" =>
       u \notin room /\ u \notin listed /\ u \notin watching

Agrees(u) ==
  /\ u \in watching => u \in room
  /\ u \in room => u \in watching \/ ended_at
  /\ u \in room <=> u \in listed
  /\ ~Open(u) => u \notin watching /\ u \notin room

UserInv(u) == u \notin disturbed =>
  /\ Alone(u) /\ Halfway(u)
  /\ ~Busy(u) => Agrees(u)

\* Who is owed the news is in the room, and nothing under way takes him out of it.
Owed(u) ==
  /\ u \in room
  /\ \A t \in Tasks : ~(task[t].op = "leave" /\ task[t].user = u)
  /\ \A d \in Devices : ~Cleans(d, u)

OwedInv == ViewersAreTold /\ \A u \in owed : Owed(u)

RoomInv == TypeOK /\ Shape /\ OwedInv /\ \A u \in Users : UserInv(u)

----------------------------------------------------------------------------
(* How a step looks to a user.                                             *)

LEMMA BusyIs == ASSUME NEW u PROVE Busy(u) <=> (\E t \in Tasks : Asks(t, u)) \/ (\E d \in Devices : Cleans(d, u))
  BY DEF Busy, Asks, Cleans

\* Of somebody else, or of the host: the requests and sockets of u stay as they are, and
\* u is a viewer as before unless the stream has ended.
LEMMA OtherUser ==
  ASSUME NEW u \in Users, UserInv(u), u \in disturbed => u \in disturbed',
         \A t \in Tasks : task'[t] = task[t] \/ (~Asks(t, u) /\ ~Asks(t, u)'),
         \A d \in Devices : Owner[d] = u => conn'[d] = conn[d],
         u \in room' <=> u \in room,
         u \in listed' <=> u \in listed,
         u \in watching' => u \in watching,
         u \in watching => u \in watching' \/ ended_at',
         ended_at => ended_at'
  PROVE  UserInv(u)'
  <1> SUFFICES ASSUME u \notin disturbed' PROVE (Alone(u) /\ Halfway(u) /\ (~Busy(u) => Agrees(u)))'
    BY DEF UserInv
  <1>1. Alone(u) /\ Halfway(u) /\ (~Busy(u) => Agrees(u)) BY DEF UserInv
  <1>2. \A t \in Tasks : Asks(t, u)' <=> Asks(t, u) BY DEF Asks
  <1>3. \A d \in Devices : Cleans(d, u)' <=> Cleans(d, u) BY DEF Cleans
  <1>4. Alone(u)' BY <1>1, <1>2, <1>3 DEF Alone
  <1>5. Open(u)' <=> Open(u) BY DEF Open
  <1>6. \A t \in Tasks : Asks(t, u)' => task'[t] = task[t] OBVIOUS
  <1>7. Halfway(u)'
    <2>1. \A t \in Tasks : (task[t].op = "join" /\ task[t].user = u => (u \in watching \/ ended_at) /\ Open(u))'
      BY <1>1, <1>5, <1>6 DEF Halfway, Asks
    <2>2. \A t \in Tasks : (task[t].op = "leave" /\ task[t].user = u => u \notin watching)'
      BY <1>1, <1>6 DEF Halfway, Asks
    <2>3. \A d \in Devices : (Owner[d] = u /\ conn[d] = "rows" => u \notin room /\ u \notin listed)'
      BY <1>1 DEF Halfway
    <2>4. \A d \in Devices : (Owner[d] = u /\ conn[d] = "remove" =>
                               u \notin room /\ u \notin listed /\ u \notin watching)'
      BY <1>1 DEF Halfway
    <2> QED BY <2>1, <2>2, <2>3, <2>4 DEF Halfway
  <1>8. Busy(u)' <=> Busy(u) BY <1>2, <1>3 DEF Busy, Asks, Cleans
  <1>9. (~Busy(u) => Agrees(u))' BY <1>1, <1>5, <1>8 DEF Agrees
  <1> QED BY <1>4, <1>7, <1>9

LEMMA TaskFacts ==
  ASSUME TypeOK, NEW t \in Tasks, NEW s \in TaskState, Become(t, s)
  PROVE  /\ task' \in [Tasks -> TaskState] /\ task'[t] = s
         /\ \A t2 \in Tasks \ {t} : task'[t2] = task[t2]
  BY DEF TypeOK, Become

LEMMA IdleIs == Idle \in TaskState /\ Idle.op = "idle" /\ Idle.at = "idle" /\ Idle.user = Host
  BY RoomAssumption DEF Idle, TaskState

LEMMA ConnFacts ==
  ASSUME TypeOK, NEW d \in Devices, NEW c \in {"open", "rows", "remove", "gone"},
         conn' = [conn EXCEPT ![d] = c]
  PROVE  /\ conn' \in [Devices -> {"open", "rows", "remove", "gone"}] /\ conn'[d] = c
         /\ \A d2 \in Devices \ {d} : conn'[d2] = conn[d2]
  BY DEF TypeOK

\* What is owed stays owed or is settled, as long as the end that owes it goes on.
LEMMA OwedStays ==
  ASSUME OwedInv, owed' \subseteq owed,
         \A t \in Tasks : task[t].at = "room" => task'[t].at = "room" \/ owed' = {},
         \A u \in owed' : Owed(u)'
  PROVE  OwedInv'
  BY DEF OwedInv, ViewersAreTold

----------------------------------------------------------------------------
(* Joining and leaving.                                                    *)

LEMMA JoinRowKeeps == ASSUME RoomInv, NEW t \in Tasks, NEW v \in Users, JoinRow(t, v) PROVE RoomInv'
  <1> USE DEF RoomInv
  <1> DEFINE s == [Idle EXCEPT !.op = "join", !.at = "hub", !.user = v]
  <1>1. /\ task[t] = Idle /\ Become(t, s) /\ watching' = watching \cup {v}
        /\ disturbed' = (IF Busy(v) \/ ~Open(v) THEN disturbed \cup {v} ELSE disturbed \ {v})
        /\ UNCHANGED <<status, ended_at, room, listed, conn, owed>>
    BY DEF JoinRow, Disturb, stream, hub
  <1>2. s \in TaskState /\ s.op = "join" /\ s.at = "hub" /\ s.user = v BY DEF Idle, TaskState
  <1> HIDE DEF s
  <1>3. /\ task' \in [Tasks -> TaskState] /\ task'[t] = s
        /\ \A t2 \in Tasks \ {t} : task'[t2] = task[t2]
    BY <1>1, <1>2, TaskFacts
  <1>4. TypeOK' BY <1>1, <1>3 DEF TypeOK
  <1>5. Shape' BY <1>2, <1>3 DEF Shape
  <1>6. OwedInv'
    <2>1. \A t2 \in Tasks : task[t2].at = "room" => task'[t2].at = "room" BY <1>1, <1>3, IdleIs
    <2>2. \A u \in owed : Owed(u)' BY <1>1, <1>2, <1>3 DEF OwedInv, Owed, Cleans
    <2> QED BY <1>1, <2>1, <2>2, OwedStays
  <1>7. \A u \in Users \ {v} : UserInv(u)'
    <2> TAKE u \in Users \ {v}
    <2>1. \A t2 \in Tasks : task'[t2] = task[t2] \/ (~Asks(t2, u) /\ ~Asks(t2, u)')
      BY <1>1, <1>2, <1>3, IdleIs DEF Asks
    <2> QED BY <1>1, <2>1, OtherUser
  <1>8. UserInv(v)'
    <2> SUFFICES ASSUME v \notin disturbed' PROVE Alone(v)' /\ Halfway(v)' /\ Busy(v)' BY DEF UserInv
    <2>1. ~Busy(v) /\ Open(v) BY <1>1
    <2>2. (\A t2 \in Tasks : ~Asks(t2, v)) /\ (\A d \in Devices : ~Cleans(d, v)) BY <2>1, BusyIs
    <2>3. (\A t2 \in Tasks \ {t} : ~Asks(t2, v)') /\ (\A d \in Devices : ~Cleans(d, v)')
      BY <1>1, <1>3, <2>2 DEF Asks, Cleans
    <2>4. Alone(v)' BY <2>3 DEF Alone
    <2>5. Open(v)' BY <1>1, <2>1 DEF Open
    <2>6. Halfway(v)' BY <1>1, <1>2, <1>3, <2>3, <2>5 DEF Halfway, Asks, Cleans
    <2>7. Busy(v)' BY <1>2, <1>3 DEF Busy
    <2> QED BY <2>4, <2>6, <2>7
  <1> QED BY <1>4, <1>5, <1>6, <1>7, <1>8

LEMMA LeaveRowKeeps == ASSUME RoomInv, NEW t \in Tasks, NEW v \in Users, LeaveRow(t, v) PROVE RoomInv'
  <1> USE DEF RoomInv
  <1> DEFINE s == [Idle EXCEPT !.op = "leave", !.at = "hub", !.user = v]
  <1>1. /\ task[t] = Idle /\ Become(t, s) /\ watching' = watching \ {v}
        /\ disturbed' = (IF Busy(v) THEN disturbed \cup {v} ELSE disturbed \ {v})
        /\ owed' = owed \ {v}
        /\ UNCHANGED <<status, ended_at, room, listed, conn>>
    BY DEF LeaveRow, Disturb, stream, hub
  <1>2. s \in TaskState /\ s.op = "leave" /\ s.at = "hub" /\ s.user = v BY DEF Idle, TaskState
  <1> HIDE DEF s
  <1>3. /\ task' \in [Tasks -> TaskState] /\ task'[t] = s
        /\ \A t2 \in Tasks \ {t} : task'[t2] = task[t2]
    BY <1>1, <1>2, TaskFacts
  <1>4. TypeOK' BY <1>1, <1>3 DEF TypeOK
  <1>5. Shape' BY <1>2, <1>3 DEF Shape
  <1>6. OwedInv'
    <2>1. \A t2 \in Tasks : task[t2].at = "room" => task'[t2].at = "room" BY <1>1, <1>3, IdleIs
    <2>2. \A u \in owed' : Owed(u)' BY <1>1, <1>2, <1>3 DEF OwedInv, Owed, Cleans
    <2> QED BY <1>1, <2>1, <2>2, OwedStays
  <1>7. \A u \in Users \ {v} : UserInv(u)'
    <2> TAKE u \in Users \ {v}
    <2>1. \A t2 \in Tasks : task'[t2] = task[t2] \/ (~Asks(t2, u) /\ ~Asks(t2, u)')
      BY <1>1, <1>2, <1>3, IdleIs DEF Asks
    <2> QED BY <1>1, <2>1, OtherUser
  <1>8. UserInv(v)'
    <2> SUFFICES ASSUME v \notin disturbed' PROVE Alone(v)' /\ Halfway(v)' /\ Busy(v)' BY DEF UserInv
    <2>1. ~Busy(v) BY <1>1
    <2>2. (\A t2 \in Tasks : ~Asks(t2, v)) /\ (\A d \in Devices : ~Cleans(d, v)) BY <2>1, BusyIs
    <2>3. (\A t2 \in Tasks \ {t} : ~Asks(t2, v)') /\ (\A d \in Devices : ~Cleans(d, v)')
      BY <1>1, <1>3, <2>2 DEF Asks, Cleans
    <2>4. Alone(v)' BY <2>3 DEF Alone
    <2>5. Halfway(v)' BY <1>1, <1>2, <1>3, <2>3 DEF Halfway, Asks, Cleans
    <2>6. Busy(v)' BY <1>2, <1>3 DEF Busy
    <2> QED BY <2>4, <2>5, <2>6
  <1> QED BY <1>4, <1>5, <1>6, <1>7, <1>8

\* The second store of a request, which ends it.
LEMMA EnterRoomKeeps == ASSUME RoomInv, NEW t \in Tasks, EnterRoom(t) PROVE RoomInv'
  <1> USE DEF RoomInv
  <1>1. PICK v \in Users : v = task[t].user BY DEF TypeOK, TaskState
  <1>2. /\ task[t].op = "join" /\ room' = room \cup {v} /\ listed' = listed \cup {v} /\ Become(t, Idle)
        /\ UNCHANGED <<status, ended_at, watching, conn, disturbed, owed>>
    BY <1>1 DEF EnterRoom, Finish, stream
  <1>3. /\ task' \in [Tasks -> TaskState] /\ task'[t] = Idle
        /\ \A t2 \in Tasks \ {t} : task'[t2] = task[t2]
    BY IdleIs, <1>2, TaskFacts
  <1>4. TypeOK' BY <1>2, <1>1, <1>3 DEF TypeOK
  <1>5. Shape' BY <1>3, IdleIs DEF Shape
  <1>6. OwedInv'
    <2>1. \A t2 \in Tasks : task[t2].at = "room" => task'[t2].at = "room" BY <1>2, <1>3 DEF Shape
    <2>2. \A u \in owed' : Owed(u)' BY <1>1, <1>2, <1>3, IdleIs DEF OwedInv, Owed, Cleans
    <2> QED BY <1>2, <2>1, <2>2, OwedStays
  <1>7. \A u \in Users \ {v} : UserInv(u)'
    <2> TAKE u \in Users \ {v}
    <2>1. \A t2 \in Tasks : task'[t2] = task[t2] \/ (~Asks(t2, u) /\ ~Asks(t2, u)')
      BY <1>2, <1>1, <1>3, IdleIs DEF Asks
    <2> QED BY <1>2, <2>1, OtherUser
  <1>8. UserInv(v)'
    <2> SUFFICES ASSUME v \notin disturbed PROVE Alone(v)' /\ Halfway(v)' /\ Agrees(v)'
      BY <1>2 DEF UserInv
    <2>1. Alone(v) /\ Halfway(v) BY <1>1 DEF UserInv
    <2>2. (v \in watching \/ ended_at) /\ Open(v) BY <1>2, <1>1, <2>1 DEF Halfway
    <2>3. (\A t2 \in Tasks \ {t} : ~Asks(t2, v)) /\ (\A d \in Devices : ~Cleans(d, v))
      BY <1>2, <1>1, <2>1 DEF Alone, Asks
    <2>4. (\A t2 \in Tasks : ~Asks(t2, v)') /\ (\A d \in Devices : ~Cleans(d, v)')
      BY <1>2, <1>3, <2>3, IdleIs DEF Asks, Cleans
    <2>5. Alone(v)' /\ Halfway(v)' BY <2>4 DEF Alone, Halfway, Asks, Cleans
    <2>6. Open(v)' BY <1>2, <2>2 DEF Open
    <2> QED BY <1>2, <2>2, <2>5, <2>6 DEF Agrees
  <1> QED BY <1>4, <1>5, <1>6, <1>7, <1>8

LEMMA QuitRoomKeeps == ASSUME RoomInv, NEW t \in Tasks, QuitRoom(t) PROVE RoomInv'
  <1> USE DEF RoomInv
  <1>1. PICK v \in Users : v = task[t].user BY DEF TypeOK, TaskState
  <1>2. /\ task[t].op = "leave" /\ room' = room \ {v} /\ listed' = listed \ {v} /\ Become(t, Idle)
        /\ UNCHANGED <<status, ended_at, watching, conn, disturbed, owed>>
    BY <1>1 DEF QuitRoom, Finish, stream
  <1>3. /\ task' \in [Tasks -> TaskState] /\ task'[t] = Idle
        /\ \A t2 \in Tasks \ {t} : task'[t2] = task[t2]
    BY IdleIs, <1>2, TaskFacts
  <1>4. TypeOK' BY <1>2, <1>1, <1>3 DEF TypeOK
  <1>5. Shape' BY <1>3, IdleIs DEF Shape
  <1>6. OwedInv'
    <2>1. \A t2 \in Tasks : task[t2].at = "room" => task'[t2].at = "room" BY <1>2, <1>3 DEF Shape
    <2>2. \A u \in owed' : Owed(u)' BY <1>1, <1>2, <1>3, IdleIs DEF OwedInv, Owed, Cleans
    <2> QED BY <1>2, <2>1, <2>2, OwedStays
  <1>7. \A u \in Users \ {v} : UserInv(u)'
    <2> TAKE u \in Users \ {v}
    <2>1. \A t2 \in Tasks : task'[t2] = task[t2] \/ (~Asks(t2, u) /\ ~Asks(t2, u)')
      BY <1>2, <1>1, <1>3, IdleIs DEF Asks
    <2> QED BY <1>2, <2>1, OtherUser
  <1>8. UserInv(v)'
    <2> SUFFICES ASSUME v \notin disturbed PROVE Alone(v)' /\ Halfway(v)' /\ Agrees(v)'
      BY <1>2 DEF UserInv
    <2>1. Alone(v) /\ Halfway(v) BY <1>1 DEF UserInv
    <2>2. v \notin watching BY <1>2, <1>1, <2>1 DEF Halfway
    <2>3. (\A t2 \in Tasks \ {t} : ~Asks(t2, v)) /\ (\A d \in Devices : ~Cleans(d, v))
      BY <1>2, <1>1, <2>1 DEF Alone, Asks
    <2>4. (\A t2 \in Tasks : ~Asks(t2, v)') /\ (\A d \in Devices : ~Cleans(d, v)')
      BY <1>2, <1>3, <2>3, IdleIs DEF Asks, Cleans
    <2>5. Alone(v)' /\ Halfway(v)' BY <2>4 DEF Alone, Halfway, Asks, Cleans
    <2> QED BY <1>2, <2>2, <2>5 DEF Agrees
  <1> QED BY <1>4, <1>5, <1>6, <1>7, <1>8

----------------------------------------------------------------------------
(* The cleanup of a socket.                                                *)

\* A socket that is open or gone when the step begins is not being cleaned up.
LEMMA CloseKeeps == ASSUME RoomInv, NEW d \in Devices, Close(d) PROVE RoomInv'
  <1> USE DEF RoomInv
  <1>1. PICK v \in Users : v = Owner[d] BY RoomAssumption
  <1> DEFINE c == IF v \in listed THEN "rows" ELSE "remove"
  <1>2. /\ conn[d] = "open" /\ conn' = [conn EXCEPT ![d] = c]
        /\ room' = (IF v \in listed THEN room \ {v} ELSE room) /\ listed' = listed \ {v}
        /\ disturbed' = (IF Busy(v) THEN disturbed \cup {v} ELSE disturbed)
        /\ owed' = owed \ {v}
        /\ UNCHANGED <<status, ended_at, watching, task>>
    BY <1>1 DEF Close, LeaveAllRooms, stream
  <1>3. /\ conn' \in [Devices -> {"open", "rows", "remove", "gone"}] /\ conn'[d] = c
        /\ \A d2 \in Devices \ {d} : conn'[d2] = conn[d2]
    BY <1>2, ConnFacts
  <1>4. TypeOK' BY <1>2, <1>3 DEF TypeOK
  <1>5. Shape' BY <1>2 DEF Shape
  <1>6. OwedInv'
    <2>1. \A u \in owed' : Owed(u)' BY <1>1, <1>2, <1>3 DEF OwedInv, Owed, Cleans
    <2> QED BY <1>2, <2>1, OwedStays
  <1>7. \A u \in Users \ {v} : UserInv(u)'
    <2> TAKE u \in Users \ {v}
    <2> QED BY <1>1, <1>2, <1>3, OtherUser
  <1>8. UserInv(v)'
    <2> SUFFICES ASSUME v \notin disturbed' PROVE Alone(v)' /\ Halfway(v)' /\ Busy(v)' BY DEF UserInv
    <2>1. ~Busy(v) /\ v \notin disturbed BY <1>2
    <2>2. (\A t \in Tasks : ~Asks(t, v)) /\ (\A d2 \in Devices : ~Cleans(d2, v)) BY <2>1, BusyIs
    <2>3. Agrees(v) BY <2>1 DEF UserInv
    <2>4. (\A t \in Tasks : ~Asks(t, v)') /\ (\A d2 \in Devices \ {d} : ~Cleans(d2, v)')
      BY <1>2, <1>3, <2>2 DEF Asks, Cleans
    <2>5. Alone(v)' BY <2>4 DEF Alone
    <2>6. Halfway(v)' BY <1>2, <1>3, <2>3, <2>4 DEF Halfway, Asks, Cleans, Agrees
    <2>7. Busy(v)' BY <1>1, <1>3 DEF Busy
    <2> QED BY <2>5, <2>6, <2>7
  <1> QED BY <1>4, <1>5, <1>6, <1>7, <1>8

LEMMA ConnectKeeps == ASSUME RoomInv, NEW d \in Devices, Connect(d) PROVE RoomInv'
  <1> USE DEF RoomInv
  <1>1. PICK v \in Users : v = Owner[d] BY RoomAssumption
  <1>2. /\ conn[d] = "gone" /\ conn' = [conn EXCEPT ![d] = "open"]
        /\ UNCHANGED <<status, ended_at, watching, room, listed, task, disturbed, owed>>
    BY DEF Connect, stream, hub
  <1>3. /\ conn' \in [Devices -> {"open", "rows", "remove", "gone"}] /\ conn'[d] = "open"
        /\ \A d2 \in Devices \ {d} : conn'[d2] = conn[d2]
    BY <1>2, ConnFacts
  <1>4. TypeOK' BY <1>2, <1>3 DEF TypeOK
  <1>5. Shape' BY <1>2 DEF Shape
  <1>6. OwedInv'
    <2>1. \A u \in owed' : Owed(u)' BY <1>1, <1>2, <1>3 DEF OwedInv, Owed, Cleans
    <2> QED BY <1>2, <2>1, OwedStays
  <1>7. \A u \in Users \ {v} : UserInv(u)'
    <2> TAKE u \in Users \ {v}
    <2> QED BY <1>1, <1>2, <1>3, OtherUser
  <1>8. UserInv(v)'
    <2> SUFFICES ASSUME v \notin disturbed PROVE Alone(v)' /\ Halfway(v)' /\ (~Busy(v) => Agrees(v))'
      BY <1>2 DEF UserInv
    <2>1. Alone(v) /\ Halfway(v) /\ (~Busy(v) => Agrees(v)) BY DEF UserInv
    <2>2. (\A t \in Tasks : Asks(t, v)' <=> Asks(t, v)) /\ (\A d2 \in Devices : Cleans(d2, v)' <=> Cleans(d2, v))
      BY <1>2, <1>3 DEF Asks, Cleans
    <2>3. Open(v)' BY <1>1, <1>3 DEF Open
    <2>4. Alone(v)' BY <2>1, <2>2 DEF Alone
    <2>5. Halfway(v)' BY <1>2, <1>3, <2>1, <2>3 DEF Halfway
    <2>6. Busy(v)' <=> Busy(v) BY <2>2 DEF Busy, Asks, Cleans
    <2> QED BY <1>2, <2>1, <2>3, <2>4, <2>5, <2>6 DEF Agrees
  <1> QED BY <1>4, <1>5, <1>6, <1>7, <1>8

LEMMA LeaveRowsKeeps == ASSUME RoomInv, NEW d \in Devices, LeaveRows(d) PROVE RoomInv'
  <1> USE DEF RoomInv
  <1>1. PICK v \in Users : v = Owner[d] BY RoomAssumption
  <1>2. /\ conn[d] = "rows" /\ conn' = [conn EXCEPT ![d] = "remove"]
        /\ \/ watching' = watching \ {v} /\ disturbed' = disturbed
           \/ watching' = watching /\ disturbed' = disturbed \cup {v}
        /\ UNCHANGED <<status, ended_at, room, listed, task, owed>>
    BY <1>1 DEF LeaveRows, stream, hub
  <1>3. /\ conn' \in [Devices -> {"open", "rows", "remove", "gone"}] /\ conn'[d] = "remove"
        /\ \A d2 \in Devices \ {d} : conn'[d2] = conn[d2]
    BY <1>2, ConnFacts
  <1>4. TypeOK' BY <1>2, <1>3 DEF TypeOK
  <1>5. Shape' BY <1>2 DEF Shape
  <1>6. OwedInv'
    <2>1. \A u \in owed' : Owed(u)' BY <1>1, <1>2, <1>3 DEF OwedInv, Owed, Cleans
    <2> QED BY <1>2, <2>1, OwedStays
  <1>7. \A u \in Users \ {v} : UserInv(u)'
    <2> TAKE u \in Users \ {v}
    <2> QED BY <1>1, <1>2, <1>3, OtherUser
  <1>8. UserInv(v)'
    <2> SUFFICES ASSUME v \notin disturbed' PROVE Alone(v)' /\ Halfway(v)' /\ Busy(v)'
      BY DEF UserInv
    <2>0. v \notin disturbed /\ watching' = watching \ {v} BY <1>2
    <2>1. Alone(v) /\ Halfway(v) BY <2>0 DEF UserInv
    <2>2. (\A t \in Tasks : ~Asks(t, v)) /\ (\A d2 \in Devices \ {d} : ~Cleans(d2, v))
      BY <1>1, <1>2, <2>1 DEF Alone, Cleans
    <2>3. v \notin room /\ v \notin listed BY <1>1, <1>2, <2>1 DEF Halfway
    <2>4. (\A t \in Tasks : ~Asks(t, v)') /\ (\A d2 \in Devices \ {d} : ~Cleans(d2, v)')
      BY <1>2, <1>3, <2>2 DEF Asks, Cleans
    <2>5. Alone(v)' BY <2>4 DEF Alone
    <2>6. Halfway(v)' BY <1>2, <1>3, <2>0, <2>3, <2>4 DEF Halfway, Asks, Cleans
    <2>7. Busy(v)' BY <1>1, <1>3 DEF Busy
    <2> QED BY <2>5, <2>6, <2>7
  <1> QED BY <1>4, <1>5, <1>6, <1>7, <1>8

LEMMA RemoveKeeps == ASSUME RoomInv, NEW d \in Devices, Remove(d) PROVE RoomInv'
  <1> USE DEF RoomInv
  <1>1. PICK v \in Users : v = Owner[d] BY RoomAssumption
  <1>2. /\ conn[d] = "remove" /\ conn' = [conn EXCEPT ![d] = "gone"]
        /\ room' \in {room, room \ {v}} /\ listed' \in {listed, listed \ {v}}
        /\ UNCHANGED <<status, ended_at, watching, task, disturbed, owed>>
    BY <1>1 DEF Remove, LeaveAllRooms, stream, hub
  <1>3. /\ conn' \in [Devices -> {"open", "rows", "remove", "gone"}] /\ conn'[d] = "gone"
        /\ \A d2 \in Devices \ {d} : conn'[d2] = conn[d2]
    BY <1>2, ConnFacts
  <1>4. TypeOK' BY <1>2, <1>3 DEF TypeOK
  <1>5. Shape' BY <1>2 DEF Shape
  <1>6. OwedInv'
    <2>1. \A u \in owed' : Owed(u)' BY <1>1, <1>2, <1>3 DEF OwedInv, Owed, Cleans
    <2> QED BY <1>2, <2>1, OwedStays
  <1>7. \A u \in Users \ {v} : UserInv(u)'
    <2> TAKE u \in Users \ {v}
    <2> QED BY <1>1, <1>2, <1>3, OtherUser
  <1>8. UserInv(v)'
    <2> SUFFICES ASSUME v \notin disturbed PROVE Alone(v)' /\ Halfway(v)' /\ Agrees(v)'
      BY <1>2 DEF UserInv
    <2>1. Alone(v) /\ Halfway(v) BY DEF UserInv
    <2>2. (\A t \in Tasks : ~Asks(t, v)) /\ (\A d2 \in Devices \ {d} : ~Cleans(d2, v))
      BY <1>1, <1>2, <2>1 DEF Alone, Cleans
    <2>3. v \notin room /\ v \notin listed /\ v \notin watching BY <1>1, <1>2, <2>1 DEF Halfway
    <2>4. (\A t \in Tasks : ~Asks(t, v)') /\ (\A d2 \in Devices : ~Cleans(d2, v)')
      BY <1>2, <1>3, <2>2 DEF Asks, Cleans
    <2>5. Alone(v)' /\ Halfway(v)' BY <2>4 DEF Alone, Halfway, Asks, Cleans
    <2> QED BY <1>2, <2>3, <2>5 DEF Agrees
  <1> QED BY <1>4, <1>5, <1>6, <1>7, <1>8

----------------------------------------------------------------------------
(* The host, and requests that are dropped.                                *)

LEMMA HostKeeps == ASSUME RoomInv, NEW t \in Tasks, Start(t) \/ StartWrite(t) \/ End(t) \/ TellRoom(t) \/ TellAll(t)
                   PROVE  RoomInv'
  <1> USE DEF RoomInv
  <1>1. PICK s \in TaskState :
          /\ Become(t, s) /\ task[t].op \notin {"join", "leave"} /\ s.op \notin {"join", "leave"}
          /\ s.op = "end" <=> s.at \in {"room", "all"}
          /\ task[t].at = "room" => TellRoom(t)
          /\ End(t) => s.at = "room"
    <2>1. CASE Start(t)
      <3>1. ~End(t)
        <4>1. task'[t].op = "start" BY <2>1 DEF Start, Become, TypeOK, Idle
        <4>2. End(t) => task'[t].op = "end" BY DEF End, Become, TypeOK, Idle
        <4> QED BY <4>1, <4>2
      <3> QED BY <2>1, <3>1, IdleIs DEF Start, Idle, TaskState
    <2>2. CASE StartWrite(t)
      <3>1. ~End(t) BY <2>2, IdleIs DEF StartWrite, End
      <3>2. task[t].at # "room" BY <2>2 DEF StartWrite, Shape
      <3> QED BY <2>2, <3>1, <3>2, IdleIs DEF StartWrite, Finish
    <2>3. CASE End(t)
      <3> DEFINE s == [Idle EXCEPT !.op = "end", !.at = "room"]
      <3>1. s \in TaskState /\ s.op = "end" /\ s.at = "room"
        BY IdleIs DEF Idle, TaskState
      <3>2. Become(t, s) /\ task[t].op = "idle" /\ task[t].at = "idle" BY <2>3, IdleIs DEF End
      <3> HIDE DEF s
      <3> QED BY <3>1, <3>2
    <2>4. CASE TellRoom(t)
      <3>1. task[t] \in TaskState /\ task[t].op = "end" /\ task[t] # Idle
        BY <2>4, IdleIs DEF TellRoom, TypeOK, Shape
      <3> QED BY <2>4, <3>1 DEF TellRoom, End, TaskState
    <2>5. CASE TellAll(t)
      <3>1. task[t].op = "end" BY <2>5 DEF TellAll, Shape
      <3> QED BY <2>5, <3>1, IdleIs DEF TellAll, End, Finish
    <2> QED BY <2>1, <2>2, <2>3, <2>4, <2>5
  <1>2. /\ task' \in [Tasks -> TaskState] /\ task'[t] = s
        /\ \A t2 \in Tasks \ {t} : task'[t2] = task[t2]
    BY <1>1, TaskFacts
  <1>3. /\ UNCHANGED <<room, listed, conn, disturbed>>
        /\ status' \in {"created", "live", "ended"} /\ ended_at' \in BOOLEAN /\ watching' \in SUBSET watching
        /\ \/ UNCHANGED <<ended_at, watching>> /\ owed' \subseteq owed
           \/ End(t) /\ ended_at' /\ owed' = owed \cup {u \in watching \ disturbed : ~Busy(u)}
    BY DEF Start, StartWrite, End, TellRoom, TellAll, TypeOK, stream, hub
  <1>4. TypeOK' BY <1>2, <1>3 DEF TypeOK
  <1>5. Shape' BY <1>1, <1>2 DEF Shape
  <1>6. OwedInv'
    <2>1. \A u \in owed : Owed(u)' BY <1>1, <1>2, <1>3 DEF OwedInv, Owed, Cleans
    \* Who has a row, is not disturbed and is between no two stores, is in the room.
    <2>2. CASE End(t)
      <3>1. ASSUME NEW u \in watching \ disturbed, ~Busy(u) PROVE Owed(u)
        <4>1. u \in Users BY DEF TypeOK
        <4>2. Agrees(u) BY <3>1, <4>1 DEF UserInv
        <4> QED BY <3>1, <4>2, BusyIs DEF Owed, Agrees, Asks
      <3>2. \A u \in watching \ disturbed : ~Busy(u) => Owed(u)' BY <1>1, <1>2, <1>3, <3>1 DEF Owed, Cleans
      <3>3. ViewersAreTold' BY <1>1, <1>2, <2>2 DEF ViewersAreTold
      <3> QED BY <2>1, <2>2, <3>2, <3>3 DEF OwedInv, End
    <2>3. CASE TellRoom(t)
      <3>1. owed' = {} BY <2>3 DEF TellRoom, OwedInv, Owed
      <3> QED BY <3>1 DEF OwedInv, ViewersAreTold
    <2>4. CASE ~End(t) /\ ~TellRoom(t)
      <3>1. \A t2 \in Tasks : task[t2].at = "room" => task'[t2].at = "room" BY <1>1, <1>2, <2>4
      <3> QED BY <1>3, <2>1, <2>4, <3>1, OwedStays
    <2> QED BY <2>2, <2>3, <2>4
  <1>7. \A u \in Users : UserInv(u)'
    <2> TAKE u \in Users
    <2>1. \A t2 \in Tasks : task'[t2] = task[t2] \/ (~Asks(t2, u) /\ ~Asks(t2, u)')
      BY <1>1, <1>2 DEF Asks
    <2> QED BY <1>3, <2>1, OtherUser
  <1> QED BY <1>4, <1>5, <1>6, <1>7

LEMMA DropKeeps == ASSUME RoomInv, NEW t \in Tasks, Drop(t) \/ CutShort(t) PROVE RoomInv'
  <1> USE DEF RoomInv
  <1>1. PICK v \in Users : v = task[t].user BY DEF TypeOK, TaskState
  <1>2. /\ Become(t, Idle)
        /\ room' = room \/ (room' = room \cup {v} /\ task[t].op = "join")
                        \/ (room' = room \ {v} /\ task[t].op = "leave")
        /\ task[t].op \in {"join", "leave"} => disturbed' = disturbed \cup {v}
        /\ task[t].op \notin {"join", "leave"} => disturbed' = disturbed /\ room' = room
        /\ owed' = (IF task[t].at = "room" THEN {} ELSE owed)
        /\ UNCHANGED <<status, ended_at, watching, listed, conn>>
    <2>1. CASE Drop(t) BY <1>1, <2>1 DEF Drop, Finish, stream, hub
    <2>2. CASE CutShort(t)
      <3>1. task[t].at # "room" BY <2>2 DEF CutShort, Shape
      <3> QED BY <1>1, <2>2, <3>1 DEF CutShort, Finish, stream
    <2> QED BY <2>1, <2>2
  <1>3. /\ task' \in [Tasks -> TaskState] /\ task'[t] = Idle
        /\ \A t2 \in Tasks \ {t} : task'[t2] = task[t2]
    BY <1>2, IdleIs, TaskFacts
  <1>4. TypeOK' BY <1>2, <1>3 DEF TypeOK
  <1>5. Shape' BY <1>3, IdleIs DEF Shape
  <1>6. OwedInv'
    <2>1. \A t2 \in Tasks : task[t2].at = "room" => task'[t2].at = "room" \/ owed' = {}
      BY <1>2, <1>3
    <2>2. \A u \in owed' : Owed(u)' BY <1>1, <1>2, <1>3, IdleIs DEF OwedInv, Owed, Cleans
    <2> QED BY <1>2, <2>1, <2>2, OwedStays
  <1>7. \A u \in Users \ {v} : UserInv(u)'
    <2> TAKE u \in Users \ {v}
    <2>1. \A t2 \in Tasks : task'[t2] = task[t2] \/ (~Asks(t2, u) /\ ~Asks(t2, u)')
      BY <1>1, <1>3, IdleIs DEF Asks
    <2> QED BY <1>2, <2>1, OtherUser
  <1>8. UserInv(v)'
    <2>1. CASE task[t].op \in {"join", "leave"} BY <1>2, <2>1 DEF UserInv
    <2>2. CASE task[t].op \notin {"join", "leave"}
      <3>1. \A t2 \in Tasks : task'[t2] = task[t2] \/ (~Asks(t2, v) /\ ~Asks(t2, v)')
        BY <1>3, <2>2, IdleIs DEF Asks
      <3> QED BY <1>2, <2>2, <3>1, OtherUser
    <2> QED BY <2>1, <2>2
  <1> QED BY <1>4, <1>5, <1>6, <1>7, <1>8

----------------------------------------------------------------------------
LEMMA InitHolds == Init => RoomInv
  <1> SUFFICES ASSUME Init PROVE RoomInv OBVIOUS
  <1>1. \A t \in Tasks : task[t] = Idle BY DEF Init
  <1>2. TypeOK BY IdleIs DEF Init, TypeOK
  <1>3. Shape /\ OwedInv BY <1>1, IdleIs DEF Shape, OwedInv, ViewersAreTold, Init
  <1>4. \A u \in Users : UserInv(u)
    <2> TAKE u \in Users
    <2>1. (\A t \in Tasks : ~Asks(t, u)) /\ (\A d \in Devices : ~Cleans(d, u))
      BY <1>1, IdleIs DEF Init, Asks, Cleans
    <2>2. Alone(u) /\ Halfway(u) BY <2>1 DEF Alone, Halfway, Asks, Cleans
    <2>3. Agrees(u) BY DEF Init, Agrees
    <2> QED BY <2>2, <2>3 DEF UserInv
  <1> QED BY <1>2, <1>3, <1>4 DEF RoomInv

LEMMA StutterKeeps == RoomInv /\ UNCHANGED vars => RoomInv'
  <1> SUFFICES ASSUME RoomInv, UNCHANGED vars PROVE RoomInv' OBVIOUS
  <1>1. UNCHANGED <<status, ended_at, watching, room, listed, conn, task, disturbed, owed>>
    BY DEF vars, stream, hub
  <1>2. TypeOK' /\ Shape' BY <1>1 DEF RoomInv, TypeOK, Shape
  <1>3. OwedInv' BY <1>1 DEF RoomInv, OwedInv, ViewersAreTold, Owed, Cleans
  <1>4. \A u \in Users : UserInv(u)' BY <1>1, OtherUser DEF RoomInv
  <1> QED BY <1>2, <1>3, <1>4 DEF RoomInv

LEMMA StepKeeps == RoomInv /\ [Next]_vars => RoomInv'
  <1> SUFFICES ASSUME RoomInv, Next PROVE RoomInv' BY StutterKeeps
  <1>1. ASSUME NEW t \in Tasks, Request(t) \/ Continue(t) \/ CutShort(t) \/ Drop(t) PROVE RoomInv'
    <2>1. CASE \E u \in Users : JoinRow(t, u) \/ LeaveRow(t, u) BY <2>1, JoinRowKeeps, LeaveRowKeeps
    <2>2. CASE EnterRoom(t) \/ QuitRoom(t) BY <2>2, EnterRoomKeeps, QuitRoomKeeps
    <2>3. CASE Start(t) \/ StartWrite(t) \/ End(t) \/ TellRoom(t) \/ TellAll(t) BY <2>3, HostKeeps
    <2>4. CASE Drop(t) \/ CutShort(t) BY <2>4, DropKeeps
    <2> QED BY <1>1, <2>1, <2>2, <2>3, <2>4 DEF Request, Continue
  <1>2. ASSUME NEW d \in Devices, Connect(d) \/ Close(d) \/ LeaveRows(d) \/ Remove(d) PROVE RoomInv'
    BY <1>2, ConnectKeeps, CloseKeeps, LeaveRowsKeeps, RemoveKeeps
  <1> QED BY <1>1, <1>2 DEF Next

\* The rows, the room, the sockets and the requests stay in RoomInv, which says of each
\* user what the first of the two stores holds while the second is still to be written.
THEOREM Invariant == Spec => []RoomInv
  BY InitHolds, StepKeeps, PTL DEF Spec

\* The rows of live_stream_viewers and the hub's room agree about every user whose last
\* request ran alone and whose cleanups since did, each to its end.
THEOREM StoresAgree == Spec => []RoomsAgree
  <1>1. RoomInv => RoomsAgree BY DEF RoomInv, UserInv, Agrees, RoomsAgree
  <1> QED BY <1>1, Invariant, PTL

\* Such a user is in no room and has no active row when his sockets are gone, whichever of
\* them was cleaned up last and whatever the host did in between.
THEOREM NothingLeftBehind == Spec => []GoneIsNotWatching
  <1>1. RoomInv => GoneIsNotWatching BY DEF RoomInv, UserInv, Agrees, GoneIsNotWatching
  <1> QED BY <1>1, Invariant, PTL

\* Who was watching by the rows when an end was committed is told by the broadcast to
\* the hub's room, unless he has left meanwhile or the end was dropped before it.
THEOREM EndReachesViewers == Spec => []ViewersAreTold
  BY Invariant, PTL DEF RoomInv, OwedInv
=============================================================================
