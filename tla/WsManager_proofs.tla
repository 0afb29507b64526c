-------------------------- MODULE WsManager_proofs --------------------------
(***************************************************************************)
(* Proofs about the WebSocket hub, for every number of users, connections, *)
(* streams and tasks.                                                      *)
(***************************************************************************)
EXTENDS WsManager, TLAPS

USE ManagerAssumption

\* A step is one task's: it enters a call, goes on inside one, or is dropped.
Step(t) == Start(t) \/ Continue(t) \/ Drop(t)

----------------------------------------------------------------------------
(* Type correctness.                                                       *)

\* A task between two calls is a well-formed task.
LEMMA IdleType == Idle \in TaskState
  BY DEF Idle, TaskState, Waits

\* A call that waits for its second lock is a well-formed task.
LEMMA RoomCallType ==
  ASSUME NEW w \in Waits, NEW u \in Users, NEW ss \in SUBSET Streams
  PROVE  /\ [Idle EXCEPT !.at = w, !.user = u, !.streams = ss] \in TaskState
         /\ [Idle EXCEPT !.at = w, !.user = u] \in TaskState
  BY DEF Idle, TaskState, Waits

\* What the state of such a task says.
LEMMA RoomCallFields ==
  ASSUME NEW w, NEW u, NEW ss
  PROVE  /\ [Idle EXCEPT !.at = w, !.user = u, !.streams = ss].at = w
         /\ [Idle EXCEPT !.at = w, !.user = u, !.streams = ss].user = u
         /\ [Idle EXCEPT !.at = w, !.user = u, !.streams = ss].streams = ss
         /\ [Idle EXCEPT !.at = w, !.user = u].at = w
         /\ Idle.at = "idle"
  BY DEF Idle

\* The task that moves, and the ones that do not.
LEMMA StepFacts ==
  ASSUME TypeOK, NEW t \in Tasks, NEW state, Become(t, state)
  PROVE  /\ task'[t] = state
         /\ \A t2 \in Tasks : t2 # t => task'[t2] = task[t2]
  BY DEF Become, TypeOK

\* Every sender ends in Deliver, whoever its recipients are.
LEMMA DeliverType ==
  ASSUME TypeOK, NEW t \in Tasks, NEW us \in SUBSET Users, NEW ex \in SUBSET Conns,
         NEW m \in Msgs, Deliver(t, us, ex, m)
  PROVE  TypeOK'
<1> DEFINE to == Recipients(us, ex)
<1>1. to \in SUBSET Conns
  BY DEF Recipients, TypeOK
<1> HIDE DEF to
<1>2. [Idle EXCEPT !.at = "sending", !.users = us, !.conns = to,
                   !.excluded = ex, !.msgs = {m}] \in TaskState
  BY <1>1 DEF Idle, TaskState, Waits
<1>3. task' \in [Tasks -> TaskState]
  BY <1>2, IdleType DEF Deliver, Become, TypeOK, to
<1>4. QED BY <1>3 DEF Deliver, TypeOK, clients_vars, rooms_vars

\* Entering a call keeps the types.
LEMMA StartType ==
  ASSUME TypeOK, NEW t \in Tasks, Start(t)
  PROVE  TypeOK'
<1> USE DEF TypeOK, Become, clients_vars, rooms_vars
<1>1. ASSUME NEW c \in Conns, AddClient(t, c) PROVE TypeOK'
  BY <1>1 DEF AddClient
<1>2. ASSUME NEW c \in Conns, RemoveClient(t, c) PROVE TypeOK'
  <2>1. [Idle EXCEPT !.at = "cleanup", !.user = Owner[c]] \in TaskState
    BY RoomCallType DEF Waits
  <2>2. QED BY <1>2, <2>1 DEF RemoveClient
<1>3. ASSUME NEW u \in Users, NEW v \in Conversations \cup {None},
             SetActiveConversation(t, u, v)
      PROVE  TypeOK'
  BY <1>3 DEF SetActiveConversation
<1>4. ASSUME NEW u \in Users, NEW s \in Streams, JoinRoom(t, u, s) PROVE TypeOK'
  <2>1. [Idle EXCEPT !.at = "join", !.user = u, !.streams = {s}] \in TaskState
    BY RoomCallType DEF Waits
  <2>2. QED BY <1>4, <2>1 DEF JoinRoom
<1>5. ASSUME NEW u \in Users, NEW s \in Streams, LeaveRoom(t, u, s) PROVE TypeOK'
  <2>1. [Idle EXCEPT !.at = "leave", !.user = u, !.streams = {s}] \in TaskState
    BY RoomCallType DEF Waits
  <2>2. QED BY <1>5, <2>1 DEF LeaveRoom
<1>6. ASSUME NEW u \in Users, LeaveAll(t, u) PROVE TypeOK'
  <2>1. [Idle EXCEPT !.at = "leave_all", !.user = u, !.streams = user_livestreams[u]]
          \in TaskState
    BY RoomCallType DEF Waits
  <2>2. QED BY <1>6, <2>1 DEF LeaveAll, TakeUserStreams
<1>7. ASSUME NEW u \in Users, NEW ex \in {{}} \cup {{c} : c \in Conns}, NEW m \in Msgs,
             SendToUser(t, u, ex, m)
      PROVE  TypeOK'
  <2>1. {u} \in SUBSET Users /\ ex \in SUBSET Conns
    OBVIOUS
  <2>2. QED BY <1>7, <2>1, DeliverType DEF SendToUser
<1>8. ASSUME NEW us \in SUBSET Users, NEW m \in Msgs, BroadcastToUsers(t, us, m)
      PROVE  TypeOK'
  BY <1>8, DeliverType, {} \in SUBSET Conns DEF BroadcastToUsers
<1>9. ASSUME NEW s \in Streams, NEW m \in Msgs, BroadcastToLivestream(t, s, m)
      PROVE  TypeOK'
  <2>1. [Idle EXCEPT !.at = "broadcast", !.users = livestream_rooms[s], !.msgs = {m}]
          \in TaskState
    BY DEF Idle, TaskState, Waits
  <2>2. QED BY <1>9, <2>1 DEF BroadcastToLivestream
<1>10. QED
  BY <1>1, <1>2, <1>3, <1>4, <1>5, <1>6, <1>7, <1>8, <1>9 DEF Start

\* Going on inside a call keeps the types.
LEMMA ContinueType ==
  ASSUME TypeOK, NEW t \in Tasks, Continue(t),
         task[t].at \in {"cleanup_leave_all", "join", "leave"} => task[t].user \in Users
  PROVE  TypeOK'
<1> USE DEF TypeOK, Become, clients_vars, rooms_vars
<1>0. task[t] \in TaskState
  OBVIOUS
<1>1. CASE CleanupActive(t)
  <2>1. [task[t] EXCEPT !.at = "cleanup_leave_all"] \in TaskState
    BY <1>0 DEF TaskState, Waits
  <2>2. QED BY <1>1, <2>1 DEF CleanupActive
<1>2. CASE CleanupLeaveAll(t)
  <2> DEFINE u == task[t].user
  <2>1. u \in Users
    BY <1>2 DEF CleanupLeaveAll
  <2>2. [Idle EXCEPT !.at = "cleanup_rooms", !.user = u, !.streams = user_livestreams[u]]
          \in TaskState
    BY <2>1, RoomCallType DEF Waits
  <2>3. QED BY <1>2, <2>1, <2>2 DEF CleanupLeaveAll, TakeUserStreams
<1>3. CASE JoinUserStreams(t)
  BY <1>0, <1>3, IdleType DEF JoinUserStreams, TaskState
<1>4. CASE LeaveUserStreams(t)
  BY <1>0, <1>4, IdleType DEF LeaveUserStreams, TaskState
<1>5. CASE LeaveAllRooms(t)
  BY <1>0, <1>5, IdleType DEF LeaveAllRooms
<1>6. CASE BroadcastSend(t)
  BY <1>0, <1>6, DeliverType, {} \in SUBSET Conns DEF BroadcastSend, TaskState
<1>7. ASSUME NEW c \in Conns, SendOne(t, c) PROVE TypeOK'
  <2>1. [task[t] EXCEPT !.conns = @ \ {c}] \in TaskState
    BY <1>0 DEF TaskState
  <2>2. task[t].msgs \in SUBSET Msgs
    BY <1>0 DEF TaskState
  <2>3. QED BY <1>7, <2>1, <2>2, IdleType DEF SendOne
<1>8. QED
  BY <1>1, <1>2, <1>3, <1>4, <1>5, <1>6, <1>7 DEF Continue

\* Every step of the manager keeps the types.
LEMMA TypeInductive ==
  ASSUME TypeOK, HeldIndexes, [Next]_vars
  PROVE  TypeOK'
<1>1. ASSUME NEW t \in Tasks, Start(t) PROVE TypeOK'
  BY <1>1, StartType
<1>2. ASSUME NEW t \in Tasks
      PROVE  task[t].at \in {"cleanup_leave_all", "join", "leave"} => task[t].user \in Users
  BY DEF HeldIndexes, HeldAt
<1>3. ASSUME NEW t \in Tasks, Continue(t) PROVE TypeOK'
  BY <1>2, <1>3, ContinueType
<1>4. ASSUME NEW t \in Tasks, Drop(t) PROVE TypeOK'
  <2>1. task[t] \in TaskState
    BY DEF TypeOK
  <2>2. task[t].at # "broadcast" => Pairs(t) \subseteq Users \X Streams
    BY <1>2, <1>4, <2>1 DEF Drop, Pairs, TaskState
  <2>3. QED BY <1>4, <2>2, IdleType DEF Drop, TypeOK, Become, clients_vars
<1>5. CASE UNCHANGED vars
  BY <1>5 DEF vars, TypeOK
<1>6. QED BY <1>1, <1>3, <1>4, <1>5 DEF Next

----------------------------------------------------------------------------
(* The steps as the two room indexes see them.                             *)

\* A step of task t that writes no room index, and before and after which t
\* keeps neither of their locks.
RoomsQuiet(t) ==
  /\ \E state \in TaskState :
       /\ ~(state.at \in {"join", "leave", "leave_all", "cleanup_rooms"})
       /\ state.at \in {"cleanup", "cleanup_leave_all"} => state.user \in Users
       /\ Become(t, state)
  /\ ~InRoomCall(t)
  /\ UNCHANGED rooms_vars

\* Both forms of leave_all_livestreams up to its second lock.
StartsLeaveAll(t, u, w) ==
  /\ w \in {"leave_all", "cleanup_rooms"}
  /\ ~InRoomCall(t)
  /\ TakeUserStreams(t, u, w)

\* What each step does to the room indexes and to the tasks.
LEMMA RoomSteps ==
  ASSUME TypeOK, HeldIndexes, NEW t \in Tasks, Step(t)
  PROVE  \/ RoomsQuiet(t)
         \/ \E u \in Users, s \in Streams : JoinRoom(t, u, s) \/ LeaveRoom(t, u, s)
         \/ JoinUserStreams(t)
         \/ LeaveUserStreams(t)
         \/ \E u \in Users, w \in Waits : StartsLeaveAll(t, u, w)
         \/ LeaveAllRooms(t)
         \/ Drop(t)
<1> DEFINE Goal == \/ RoomsQuiet(t)
                   \/ \E u \in Users, s \in Streams : JoinRoom(t, u, s) \/ LeaveRoom(t, u, s)
                   \/ JoinUserStreams(t)
                   \/ LeaveUserStreams(t)
                   \/ \E u \in Users, w \in Waits : StartsLeaveAll(t, u, w)
                   \/ LeaveAllRooms(t)
                   \/ Drop(t)
<1>0. task[t] \in TaskState /\ Idle \in TaskState /\ Idle.at = "idle"
  BY IdleType DEF TypeOK, Idle
<1>a. ASSUME task' = task, ~InRoomCall(t), UNCHANGED rooms_vars PROVE RoomsQuiet(t)
  <2>1. Become(t, task[t])
    BY <1>a DEF Become, TypeOK
  <2>2. QED BY <1>0, <1>a, <2>1 DEF RoomsQuiet, InRoomCall, HeldIndexes, HeldAt
<1>b. ASSUME NEW us \in SUBSET Users, NEW ex \in SUBSET Conns, NEW m \in Msgs,
             ~InRoomCall(t), Deliver(t, us, ex, m)
      PROVE  RoomsQuiet(t)
  <2> DEFINE to == Recipients(us, ex)
             send == [Idle EXCEPT !.at = "sending", !.users = us, !.conns = to,
                                  !.excluded = ex, !.msgs = {m}]
  <2>1. to \in SUBSET Conns
    BY DEF Recipients, TypeOK
  <2>2. send \in TaskState /\ send.at = "sending"
    <3> HIDE DEF to
    <3>1. QED BY <2>1 DEF Idle, TaskState, Waits
  <2>3. Become(t, IF to = {} THEN Idle ELSE send) /\ UNCHANGED rooms_vars
    BY <1>b DEF Deliver
  <2> HIDE DEF send, to
  <2>4. QED BY <1>0, <1>b, <2>2, <2>3 DEF RoomsQuiet
<1>1. ASSUME NEW c \in Conns, AddClient(t, c) PROVE RoomsQuiet(t)
  BY <1>0, <1>1, <1>a DEF AddClient, IsIdle, InRoomCall
<1>2. ASSUME NEW c \in Conns, RemoveClient(t, c) PROVE RoomsQuiet(t)
  <2> DEFINE state == [Idle EXCEPT !.at = "cleanup", !.user = Owner[c]]
  <2>1. state \in TaskState /\ state.at = "cleanup" /\ state.user \in Users
    BY DEF Idle, TaskState, Waits
  <2>2. ~InRoomCall(t) /\ UNCHANGED rooms_vars
    BY <1>0, <1>2 DEF RemoveClient, IsIdle, InRoomCall
  <2>3. Become(t, state) \/ UNCHANGED task
    BY <1>2 DEF RemoveClient
  <2> HIDE DEF state
  <2>4. QED BY <1>a, <2>1, <2>2, <2>3 DEF RoomsQuiet
<1>3. ASSUME NEW u \in Users, NEW v \in Conversations \cup {None},
             SetActiveConversation(t, u, v)
      PROVE  RoomsQuiet(t)
  BY <1>0, <1>3, <1>a DEF SetActiveConversation, IsIdle, InRoomCall
<1>4. ASSUME NEW u \in Users, LeaveAll(t, u) PROVE Goal
  <2>1. StartsLeaveAll(t, u, "leave_all")
    BY <1>0, <1>4 DEF LeaveAll, StartsLeaveAll, IsIdle, InRoomCall
  <2>2. QED BY <2>1 DEF Waits
<1>5. ASSUME NEW u \in Users, NEW ex \in {{}} \cup {{c} : c \in Conns}, NEW m \in Msgs,
             SendToUser(t, u, ex, m)
      PROVE  RoomsQuiet(t)
  <2>1. {u} \in SUBSET Users /\ ex \in SUBSET Conns /\ ~InRoomCall(t)
    BY <1>0, <1>5 DEF SendToUser, IsIdle, InRoomCall
  <2>2. QED BY <1>5, <1>b, <2>1 DEF SendToUser
<1>6. ASSUME NEW us \in SUBSET Users, NEW m \in Msgs, BroadcastToUsers(t, us, m)
      PROVE  RoomsQuiet(t)
  <2>1. {} \in SUBSET Conns /\ ~InRoomCall(t)
    BY <1>0, <1>6 DEF BroadcastToUsers, IsIdle, InRoomCall
  <2>2. QED BY <1>6, <1>b, <2>1 DEF BroadcastToUsers
<1>7. ASSUME NEW s \in Streams, NEW m \in Msgs, BroadcastToLivestream(t, s, m)
      PROVE  RoomsQuiet(t)
  <2> DEFINE state == [Idle EXCEPT !.at = "broadcast", !.users = livestream_rooms[s], !.msgs = {m}]
  <2>1. state \in TaskState /\ state.at = "broadcast"
    BY DEF Idle, TaskState, Waits, TypeOK
  <2>2. ~InRoomCall(t) /\ UNCHANGED rooms_vars /\ Become(t, state)
    BY <1>0, <1>7 DEF BroadcastToLivestream, IsIdle, InRoomCall
  <2> HIDE DEF state
  <2>3. QED BY <2>1, <2>2 DEF RoomsQuiet
<1>8. CASE CleanupActive(t)
  <2> DEFINE state == [task[t] EXCEPT !.at = "cleanup_leave_all"]
  <2>1. /\ state \in TaskState /\ state.at = "cleanup_leave_all"
        /\ state.user = task[t].user /\ task[t].at = "cleanup"
    BY <1>0, <1>8 DEF TaskState, Waits, CleanupActive
  <2>2. ~InRoomCall(t) /\ UNCHANGED rooms_vars /\ Become(t, state)
    BY <1>8 DEF CleanupActive, InRoomCall
  <2> HIDE DEF state
  <2>3. state.user \in Users
    BY <2>1 DEF HeldIndexes, HeldAt
  <2>4. QED BY <2>1, <2>2, <2>3 DEF RoomsQuiet
<1>9. CASE CleanupLeaveAll(t)
  <2>1. task[t].user \in Users
    BY <1>9 DEF CleanupLeaveAll, HeldIndexes, HeldAt
  <2>2. StartsLeaveAll(t, task[t].user, "cleanup_rooms")
    BY <1>9 DEF CleanupLeaveAll, StartsLeaveAll, InRoomCall
  <2>3. QED BY <2>1, <2>2 DEF Waits
<1>10. CASE BroadcastSend(t)
  <2>1. task[t].users \in SUBSET Users /\ task[t].msgs \in SUBSET Msgs
    BY <1>0 DEF TaskState
  <2>2. ~InRoomCall(t) /\ {} \in SUBSET Conns
    BY <1>10 DEF BroadcastSend, InRoomCall
  <2>3. QED BY <1>10, <1>b, <2>1, <2>2 DEF BroadcastSend
<1>11. ASSUME NEW c \in Conns, SendOne(t, c) PROVE RoomsQuiet(t)
  <2> DEFINE state == [task[t] EXCEPT !.conns = @ \ {c}]
  <2>1. state \in TaskState /\ state.at = "sending"
    BY <1>0, <1>11 DEF TaskState, SendOne
  <2>2. ~InRoomCall(t) /\ UNCHANGED rooms_vars
    BY <1>11 DEF SendOne, InRoomCall
  <2>3. Become(t, Idle) \/ Become(t, state)
    BY <1>11 DEF SendOne
  <2> HIDE DEF state
  <2>4. QED BY <1>0, <2>1, <2>2, <2>3 DEF RoomsQuiet
<1>12. QED
  BY <1>1, <1>2, <1>3, <1>4, <1>5, <1>6, <1>7, <1>8, <1>9, <1>10, <1>11
     DEF Step, Start, Continue

----------------------------------------------------------------------------
(* The lock discipline.                                                    *)

\* A step is one task's; the others stand where they stood.
LEMMA Frame ==
  ASSUME TypeOK, NEW t \in Tasks, Step(t)
  PROVE  \A t2 \in Tasks : t2 # t => task'[t2] = task[t2]
  BY DEF TypeOK, Step, Start, Continue, Drop, AddClient, RemoveClient, SetActiveConversation, JoinRoom,
         LeaveRoom, LeaveAll, TakeUserStreams, SendToUser, BroadcastToUsers, Deliver,
         BroadcastToLivestream, CleanupActive, CleanupLeaveAll, JoinUserStreams,
         LeaveUserStreams, LeaveAllRooms, BroadcastSend, SendOne, Become

\* A lock is taken when nobody keeps it.
LEMMA Acquisition ==
  ASSUME TypeOK, HeldIndexes, NEW t \in Tasks, Step(t)
  PROVE  /\ HoldsRooms(t)' => RoomsFree
         /\ HoldsUserStreams(t)' => UserStreamsFree
         /\ HoldsActive(t)' => ActiveFree \/ HoldsActive(t)
<1> USE DEF HoldsRooms, HoldsUserStreams, HoldsActive
<1>0. task[t] \in TaskState /\ Idle.at = "idle"
  BY DEF TypeOK, Idle
<1>1. CASE CleanupActive(t)
  <2>1. task'[t].at = "cleanup_leave_all"
    BY <1>0, <1>1 DEF CleanupActive, Become, TypeOK, TaskState
  <2>2. QED BY <1>1, <2>1 DEF CleanupActive, LockFree
<1>2. CASE CleanupLeaveAll(t)
  <2>1. task'[t].at = "cleanup_rooms" /\ task[t].at = "cleanup_leave_all" /\ UserStreamsFree
    BY <1>2 DEF CleanupLeaveAll, TakeUserStreams, Become, TypeOK, Idle
  <2>2. QED BY <2>1
<1>3. ASSUME NEW u \in Users, LeaveAll(t, u)
      PROVE  task'[t].at = "leave_all" /\ UserStreamsFree
  BY <1>3 DEF LeaveAll, TakeUserStreams, Become, TypeOK, Idle
<1>4. ASSUME NEW u \in Users, NEW s \in Streams, JoinRoom(t, u, s) \/ LeaveRoom(t, u, s)
      PROVE  task'[t].at \in {"join", "leave"} /\ RoomsFree
  <2> DEFINE state(w) == [Idle EXCEPT !.at = w, !.user = u, !.streams = {s}]
  <2>1. PICK w \in {"join", "leave"} : Become(t, state(w))
    BY <1>4 DEF JoinRoom, LeaveRoom
  <2>2. state(w).at = w
    BY RoomCallFields
  <2> HIDE DEF state
  <2>3. task'[t] = state(w)
    BY <2>1, StepFacts
  <2>4. QED BY <1>4, <2>2, <2>3 DEF JoinRoom, LeaveRoom
<1>5. ASSUME NEW us, NEW ex, NEW m, Deliver(t, us, ex, m)
      PROVE  task'[t].at \in {"idle", "sending"}
  BY <1>5 DEF Deliver, Become, TypeOK, Idle
<1>6. ASSUME NEW c \in Conns, SendOne(t, c) PROVE task'[t].at \in {"idle", "sending"}
  BY <1>0, <1>6 DEF SendOne, Become, TypeOK, TaskState
<1>7. ASSUME NEW s \in Streams, NEW m \in Msgs, BroadcastToLivestream(t, s, m)
      PROVE  task'[t].at = "broadcast"
  BY <1>7 DEF BroadcastToLivestream, Become, TypeOK, Idle
<1>8. ASSUME NEW c \in Conns, RemoveClient(t, c) PROVE task'[t].at \in {"idle", "cleanup"}
  <2> DEFINE state == [Idle EXCEPT !.at = "cleanup", !.user = Owner[c]]
  <2>1. Become(t, state) \/ task'[t] = Idle
    BY <1>8 DEF RemoveClient, IsIdle
  <2>2. state.at = "cleanup"
    BY RoomCallFields
  <2> HIDE DEF state
  <2>3. QED BY <1>0, <2>1, <2>2, StepFacts
<1>9. ASSUME JoinUserStreams(t) \/ LeaveUserStreams(t) \/ LeaveAllRooms(t) \/ Drop(t)
      PROVE  task'[t].at = "idle"
  BY <1>0, <1>9 DEF JoinUserStreams, LeaveUserStreams, LeaveAllRooms, Drop, Become, TypeOK
<1>10. ASSUME NEW c \in Conns, AddClient(t, c) PROVE task'[t].at = "idle"
  BY <1>0, <1>10 DEF AddClient, IsIdle
<1>11. ASSUME NEW u \in Users, NEW v, SetActiveConversation(t, u, v)
       PROVE  task'[t].at = "idle"
  BY <1>0, <1>11 DEF SetActiveConversation, IsIdle
<1>12. QED
  BY <1>1, <1>2, <1>3, <1>4, <1>5, <1>6, <1>7, <1>8, <1>9, <1>10, <1>11
     DEF Step, Start, Continue, SendToUser, BroadcastToUsers, BroadcastSend

\* A lock that has one writer keeps one writer.
LEMMA LocksInductive ==
  ASSUME TypeOK, HeldIndexes, LocksExclusive, NEW t \in Tasks, Step(t)
  PROVE  LocksExclusive'
<1>1. \A t2 \in Tasks \ {t} :
        /\ HoldsRooms(t2)' <=> HoldsRooms(t2)
        /\ HoldsUserStreams(t2)' <=> HoldsUserStreams(t2)
        /\ HoldsActive(t2)' <=> HoldsActive(t2)
  BY Frame DEF HoldsRooms, HoldsUserStreams, HoldsActive
<1>2. QED
  BY <1>1, Acquisition DEF LocksExclusive, RoomsFree, UserStreamsFree, ActiveFree

----------------------------------------------------------------------------
(* The agreement of the two indexes.                                       *)

RoomsInv == LocksExclusive /\ HeldIndexes /\ IndexesAgree

\* A step that writes neither index.
LEMMA QuietIndexes ==
  ASSUME TypeOK, RoomsInv, NEW t \in Tasks, RoomsQuiet(t)
  PROVE  /\ IndexesAgree'
         /\ \A t2 \in Tasks : t2 # t /\ InRoomCall(t2) => task'[t2] = task[t2]
<1> PICK state \in TaskState :
       /\ ~(state.at \in {"join", "leave", "leave_all", "cleanup_rooms"})
       /\ Become(t, state)
  BY DEF RoomsQuiet
<1>1. /\ task'[t] = state
      /\ \A t2 \in Tasks : t2 # t => task'[t2] = task[t2]
  BY StepFacts
<1>2. \A t2 \in Tasks, u \in Users, s \in Streams :
        MidFlight(t2, u, s)' <=> MidFlight(t2, u, s)
  BY <1>1 DEF MidFlight, InRoomCall, RoomsQuiet
<1>3. IndexesAgree'
  BY <1>2 DEF RoomsInv, IndexesAgree, RoomsQuiet, rooms_vars
<1>4. QED BY <1>1, <1>3

\* The first half of join_livestream_room and of leave_livestream_room.
LEMMA FirstHalfIndexes ==
  ASSUME TypeOK, RoomsInv, NEW t \in Tasks, NEW u \in Users, NEW s \in Streams,
         JoinRoom(t, u, s) \/ LeaveRoom(t, u, s)
  PROVE  IndexesAgree'
<1>1. \A t2 \in Tasks : t2 # t => task'[t2] = task[t2]
  BY DEF JoinRoom, LeaveRoom, Become, TypeOK
<1>2. /\ task'[t].at \in {"join", "leave"} /\ task'[t].user = u /\ task'[t].streams = {s}
      /\ task[t].at = "idle"
  <2> DEFINE state(w) == [Idle EXCEPT !.at = w, !.user = u, !.streams = {s}]
  <2>1. PICK w \in {"join", "leave"} : Become(t, state(w))
    BY DEF JoinRoom, LeaveRoom
  <2>2. state(w).at = w /\ state(w).user = u /\ state(w).streams = {s}
    BY RoomCallFields
  <2>3. task[t].at = "idle"
    BY RoomCallFields DEF JoinRoom, LeaveRoom, IsIdle
  <2> HIDE DEF state
  <2>4. QED BY <2>1, <2>2, <2>3, StepFacts
<1> SUFFICES ASSUME NEW v \in Users, NEW r \in Streams,
                    \A t2 \in Tasks : ~MidFlight(t2, v, r)', <<v, r>> \notin cut'
             PROVE  v \in livestream_rooms'[r] <=> r \in user_livestreams'[v]
  BY DEF IndexesAgree
<1>3. ~(v = u /\ r = s)
  BY <1>2 DEF MidFlight, InRoomCall
<1>4. \A t2 \in Tasks : ~MidFlight(t2, v, r)
  BY <1>1, <1>2 DEF MidFlight, InRoomCall
<1>5. v \in livestream_rooms[r] <=> r \in user_livestreams[v]
  BY <1>4 DEF RoomsInv, IndexesAgree, JoinRoom, LeaveRoom
<1>6. QED BY <1>3, <1>5 DEF JoinRoom, LeaveRoom, TypeOK

\* The second half of both.
LEMMA SecondHalfIndexes ==
  ASSUME TypeOK, RoomsInv, NEW t \in Tasks, JoinUserStreams(t) \/ LeaveUserStreams(t)
  PROVE  IndexesAgree'
<1> DEFINE u == task[t].user
<1>0. u \in Users /\ task[t].streams \subseteq Streams
  BY DEF JoinUserStreams, LeaveUserStreams, RoomsInv, HeldIndexes, HeldAt, TypeOK, TaskState
<1>1. \A t2 \in Tasks : t2 # t => task'[t2] = task[t2]
  BY DEF JoinUserStreams, LeaveUserStreams, Become, TypeOK
<1> SUFFICES ASSUME NEW v \in Users, NEW r \in Streams,
                    \A t2 \in Tasks : ~MidFlight(t2, v, r)', <<v, r>> \notin cut'
             PROVE  v \in livestream_rooms'[r] <=> r \in user_livestreams'[v]
  BY DEF IndexesAgree
<1>2. CASE v = u /\ r \in task[t].streams
  <2>1. CASE JoinUserStreams(t)
    <3>1. v \in livestream_rooms[r]
      BY <1>2, <2>1 DEF JoinUserStreams, RoomsInv, HeldIndexes, HeldAt
    <3>2. QED BY <1>0, <1>2, <2>1, <3>1 DEF JoinUserStreams, TypeOK
  <2>2. CASE LeaveUserStreams(t)
    <3>1. v \notin livestream_rooms[r]
      BY <1>2, <2>2 DEF LeaveUserStreams, RoomsInv, HeldIndexes, HeldAt
    <3>2. QED BY <1>0, <1>2, <2>2, <3>1 DEF LeaveUserStreams, TypeOK
  <2>3. QED BY <2>1, <2>2
<1>3. CASE ~(v = u /\ r \in task[t].streams)
  <2>1. \A t2 \in Tasks : ~MidFlight(t2, v, r)
    BY <1>1, <1>3 DEF MidFlight, InRoomCall
  <2>2. <<v, r>> \notin cut
    BY <1>3 DEF JoinUserStreams, LeaveUserStreams, Pairs
  <2>3. v \in livestream_rooms[r] <=> r \in user_livestreams[v]
    BY <2>1, <2>2 DEF RoomsInv, IndexesAgree
  <2>4. QED BY <1>0, <1>3, <2>3 DEF JoinUserStreams, LeaveUserStreams, TypeOK
<1>4. QED BY <1>2, <1>3

\* A call that is dropped between its halves leaves its pair to cut.
LEMMA DropIndexes ==
  ASSUME TypeOK, RoomsInv, NEW t \in Tasks, Drop(t)
  PROVE  IndexesAgree'
<1>1. \A t2 \in Tasks : t2 # t => task'[t2] = task[t2]
  BY DEF Drop, Become, TypeOK
<1> SUFFICES ASSUME NEW v \in Users, NEW r \in Streams,
                    \A t2 \in Tasks : ~MidFlight(t2, v, r)', <<v, r>> \notin cut'
             PROVE  v \in livestream_rooms'[r] <=> r \in user_livestreams'[v]
  BY DEF IndexesAgree
<1>2. ~MidFlight(t, v, r)
  BY DEF MidFlight, InRoomCall, Drop, Pairs
<1>3. \A t2 \in Tasks : ~MidFlight(t2, v, r)
  BY <1>1, <1>2 DEF MidFlight, InRoomCall
<1>4. <<v, r>> \notin cut
  BY DEF Drop
<1>5. v \in livestream_rooms[r] <=> r \in user_livestreams[v]
  BY <1>3, <1>4 DEF RoomsInv, IndexesAgree
<1>6. QED BY <1>5 DEF Drop

\* leave_all_livestreams up to its wait for livestream_rooms.
LEMMA TakeIndexes ==
  ASSUME TypeOK, RoomsInv, NEW t \in Tasks, NEW u \in Users, NEW w, StartsLeaveAll(t, u, w)
  PROVE  IndexesAgree'
<1>1. \A t2 \in Tasks : t2 # t => task'[t2] = task[t2]
  BY DEF StartsLeaveAll, TakeUserStreams, Become, TypeOK
<1>2. /\ task'[t].at \in {"leave_all", "cleanup_rooms"}
      /\ task'[t].user = u /\ task'[t].streams = user_livestreams[u]
  BY DEF StartsLeaveAll, TakeUserStreams, Become, TypeOK, Idle
<1> SUFFICES ASSUME NEW v \in Users, NEW r \in Streams,
                    \A t2 \in Tasks : ~MidFlight(t2, v, r)', <<v, r>> \notin cut'
             PROVE  v \in livestream_rooms'[r] <=> r \in user_livestreams'[v]
  BY DEF IndexesAgree
<1>3. v = u => r \notin user_livestreams[u]
  BY <1>2 DEF MidFlight, InRoomCall
<1>4. \A t2 \in Tasks : ~MidFlight(t2, v, r)
  BY <1>1 DEF MidFlight, InRoomCall, StartsLeaveAll
<1>5. v \in livestream_rooms[r] <=> r \in user_livestreams[v]
  BY <1>4 DEF RoomsInv, IndexesAgree, StartsLeaveAll, TakeUserStreams
<1>6. QED BY <1>3, <1>5 DEF StartsLeaveAll, TakeUserStreams, TypeOK

\* Its end.  No other task is in the middle of a call that touches the rooms.
LEMMA LeaveAllRoomsIndexes ==
  ASSUME TypeOK, RoomsInv, NEW t \in Tasks, LeaveAllRooms(t)
  PROVE  /\ IndexesAgree'
         /\ \A s \in Streams :
              task[t].user \notin livestream_rooms'[s] \/ <<task[t].user, s>> \in cut'
<1> DEFINE u == task[t].user
<1>0. /\ u \in Users /\ task[t].streams \subseteq Streams
      /\ user_livestreams[u] = {} /\ InRoomCall(t)
  BY DEF LeaveAllRooms, RoomsInv, HeldIndexes, HeldAt, HoldsUserStreams, InRoomCall, TypeOK, TaskState
<1>1. task'[t].at = "idle" /\ \A t2 \in Tasks : t2 # t => task'[t2] = task[t2]
  BY DEF LeaveAllRooms, Become, TypeOK, Idle
<1>2. \A t2 \in Tasks : t2 # t => ~InRoomCall(t2)
  BY DEF LeaveAllRooms, LockFree, RoomsFree, RoomsInv, LocksExclusive, InRoomCall, HoldsRooms,
         HoldsUserStreams
<1>3. ASSUME NEW v \in Users, NEW r \in Streams,
             ~(v = u /\ r \in task[t].streams), <<v, r>> \notin cut
      PROVE  v \in livestream_rooms[r] <=> r \in user_livestreams[v]
  <2>1. \A t2 \in Tasks : ~MidFlight(t2, v, r)
    BY <1>2, <1>3 DEF MidFlight
  <2>2. QED BY <1>3, <2>1 DEF RoomsInv, IndexesAgree
<1>4. \A v \in Users, r \in Streams :
        <<v, r>> \in cut' <=> <<v, r>> \in cut /\ ~(v = u /\ r \in task[t].streams)
  BY DEF LeaveAllRooms, Pairs
<1>5. \A r \in Streams : u \notin livestream_rooms'[r] \/ <<u, r>> \in cut'
  BY <1>0, <1>3, <1>4 DEF LeaveAllRooms, TypeOK
<1>6. \A v \in Users, r \in Streams : <<v, r>> \notin cut' =>
        (v \in livestream_rooms'[r] <=> r \in user_livestreams'[v])
  BY <1>0, <1>3, <1>4, <1>5 DEF LeaveAllRooms, TypeOK
<1>7. QED BY <1>5, <1>6 DEF IndexesAgree

----------------------------------------------------------------------------
(* What a call wrote stands while it keeps its first lock.                 *)

\* What a call wrote under its first lock stands while it keeps the lock.
LEMMA HeldInductive ==
  ASSUME TypeOK, RoomsInv, NEW t \in Tasks, Step(t)
  PROVE  HeldIndexes'
<1> USE DEF HoldsUserStreams, HoldsRooms
<1>0. \A t2 \in Tasks : t2 # t => task'[t2] = task[t2]
  BY Frame
<1>1. ASSUME NEW t2 \in Tasks, t2 # t PROVE
        /\ HoldsRooms(t2) => UNCHANGED livestream_rooms
        /\ HoldsUserStreams(t2) => UNCHANGED user_livestreams
  \* Nobody writes an index whose lock another task keeps.
  <2>1. RoomsQuiet(t) => UNCHANGED <<livestream_rooms, user_livestreams>>
    BY DEF RoomsQuiet, rooms_vars
  <2>2. \A u \in Users, s \in Streams : JoinRoom(t, u, s) \/ LeaveRoom(t, u, s) =>
          ~HoldsRooms(t2) /\ UNCHANGED user_livestreams
    BY DEF JoinRoom, LeaveRoom, RoomsFree
  <2>3. JoinUserStreams(t) \/ LeaveUserStreams(t) =>
          ~HoldsUserStreams(t2) /\ UNCHANGED livestream_rooms
    BY DEF JoinUserStreams, LeaveUserStreams, LockFree, UserStreamsFree
  <2>4. \A u, w : StartsLeaveAll(t, u, w) => ~HoldsUserStreams(t2) /\ UNCHANGED livestream_rooms
    BY DEF StartsLeaveAll, TakeUserStreams, UserStreamsFree
  <2>5. LeaveAllRooms(t) => ~HoldsRooms(t2) /\ UNCHANGED user_livestreams
    BY DEF LeaveAllRooms, LockFree, RoomsFree
  <2>6. Drop(t) => UNCHANGED <<livestream_rooms, user_livestreams>>
    BY DEF Drop
  <2>7. QED
    BY <2>1, <2>2, <2>3, <2>4, <2>5, <2>6, RoomSteps DEF RoomsInv
<1>2. ASSUME NEW t2 \in Tasks, t2 # t PROVE HeldAt(t2)'
  BY <1>0, <1>1, <1>2 DEF HeldAt, RoomsInv, HeldIndexes, HoldsRooms, HoldsUserStreams
\* The task that moves has just taken its lock, or has let it go.
<1>3. HeldAt(t)'
  <2>1. CASE RoomsQuiet(t)
    <3>1. PICK state \in TaskState :
             /\ ~(state.at \in {"join", "leave", "leave_all", "cleanup_rooms"})
             /\ state.at \in {"cleanup", "cleanup_leave_all"} => state.user \in Users
             /\ Become(t, state)
      BY <2>1 DEF RoomsQuiet
    <3>2. task'[t] = state /\ state.at \in Waits
      BY <3>1, StepFacts DEF TaskState
    <3>3. QED BY <3>1, <3>2 DEF HeldAt, Waits
  <2>2. ASSUME NEW u \in Users, NEW s \in Streams, JoinRoom(t, u, s) PROVE HeldAt(t)'
    <3> DEFINE state == [Idle EXCEPT !.at = "join", !.user = u, !.streams = {s}]
    <3>1. state.at = "join" /\ state.user = u /\ state.streams = {s}
      BY RoomCallFields
    <3>2. Become(t, state) /\ u \in livestream_rooms'[s]
      BY <2>2 DEF JoinRoom, TypeOK
    <3> HIDE DEF state
    <3>3. task'[t] = state
      BY <3>2, StepFacts
    <3>4. QED BY <3>1, <3>2, <3>3 DEF HeldAt
  <2>3. ASSUME NEW u \in Users, NEW s \in Streams, LeaveRoom(t, u, s) PROVE HeldAt(t)'
    <3> DEFINE state == [Idle EXCEPT !.at = "leave", !.user = u, !.streams = {s}]
    <3>1. state.at = "leave" /\ state.user = u /\ state.streams = {s}
      BY RoomCallFields
    <3>2. Become(t, state) /\ u \notin livestream_rooms'[s]
      BY <2>3 DEF LeaveRoom, TypeOK
    <3> HIDE DEF state
    <3>3. task'[t] = state
      BY <3>2, StepFacts
    <3>4. QED BY <3>1, <3>2, <3>3 DEF HeldAt
  <2>4. ASSUME JoinUserStreams(t) \/ LeaveUserStreams(t) \/ LeaveAllRooms(t) \/ Drop(t)
        PROVE  HeldAt(t)'
    <3>1. task'[t] = Idle
      BY <2>4, StepFacts, IdleType DEF JoinUserStreams, LeaveUserStreams, LeaveAllRooms, Drop
    <3>2. QED BY <3>1, RoomCallFields DEF HeldAt
  <2>5. ASSUME NEW u \in Users, NEW w \in Waits, StartsLeaveAll(t, u, w) PROVE HeldAt(t)'
    <3> DEFINE state == [Idle EXCEPT !.at = w, !.user = u, !.streams = user_livestreams[u]]
    <3>1. state.at = w /\ state.user = u
      BY RoomCallFields
    <3>2. Become(t, state) /\ user_livestreams'[u] = {} /\ w \in {"leave_all", "cleanup_rooms"}
      BY <2>5 DEF StartsLeaveAll, TakeUserStreams, TypeOK
    <3> HIDE DEF state
    <3>3. task'[t] = state
      BY <3>2, StepFacts
    <3>4. QED BY <3>1, <3>2, <3>3 DEF HeldAt
  <2>6. QED BY <2>1, <2>2, <2>3, <2>4, <2>5, RoomSteps DEF RoomsInv
<1>4. QED BY <1>2, <1>3 DEF HeldIndexes

\* The part of the invariant about rooms is inductive, given the types.
LEMMA RoomsInductive ==
  ASSUME TypeOK, RoomsInv, [Next]_vars
  PROVE  RoomsInv'
<1>1. ASSUME NEW t \in Tasks, Step(t) PROVE RoomsInv'
  <2>1. LocksExclusive'
    BY <1>1, LocksInductive DEF RoomsInv
  <2>2. HeldIndexes'
    BY <1>1, HeldInductive
  <2>3. IndexesAgree'
    BY <1>1, RoomSteps, QuietIndexes, FirstHalfIndexes, SecondHalfIndexes, TakeIndexes,
       LeaveAllRoomsIndexes, DropIndexes DEF RoomsInv
  <2>4. QED BY <2>1, <2>2, <2>3 DEF RoomsInv
<1>2. CASE UNCHANGED vars
  BY <1>2 DEF vars, RoomsInv, LocksExclusive, HeldIndexes, HeldAt, IndexesAgree, MidFlight,
              InRoomCall, HoldsRooms, HoldsUserStreams, HoldsActive
<1>3. QED BY <1>1, <1>2 DEF Next, Step

----------------------------------------------------------------------------
(* Sending.                                                                *)

\* What SendingIsCurrent says of one task.
Current(t) ==
  ReadsClients(t) =>
    /\ task[t].conns \subseteq Recipients(task[t].users, {})
    /\ \A c \in Recipients(task[t].users, task[t].excluded) :
         c \in task[t].conns \/ task[t].msgs \subseteq inbox[c]

\* The steps of a sender.
LEMMA DeliverCurrent ==
  ASSUME TypeOK, NEW t \in Tasks, NEW us \in SUBSET Users, NEW ex \in SUBSET Conns,
         NEW m \in Msgs, Deliver(t, us, ex, m)
  PROVE  Current(t)' /\ UNCHANGED <<clients, inbox>>
<1> DEFINE to == Recipients(us, ex)
           state == [Idle EXCEPT !.at = "sending", !.users = us, !.conns = to,
                                 !.excluded = ex, !.msgs = {m}]
<1>1. /\ state.users = us /\ state.conns = to /\ state.excluded = ex
      /\ Idle.at = "idle"
  <2> HIDE DEF to
  <2>1. QED BY DEF Idle
<1>2. UNCHANGED <<clients, inbox>> /\ to' = to /\ Recipients(us, {})' = Recipients(us, {})
  BY DEF Deliver, clients_vars, Recipients
<1>3. to \subseteq Recipients(us, {})
  BY DEF Recipients
<1> HIDE DEF state
<1>4. task'[t] \in {Idle, state}
  BY StepFacts DEF Deliver, state
<1>5. CASE task'[t] = Idle
  BY <1>1, <1>2, <1>5 DEF Current, ReadsClients
<1>6. CASE task'[t] = state
  BY <1>1, <1>2, <1>3, <1>6 DEF Current, ReadsClients
<1>7. QED BY <1>2, <1>4, <1>5, <1>6

\* Serving one channel leaves the rest of the send exact.
LEMMA SendOneCurrent ==
  ASSUME TypeOK, NEW t \in Tasks, Current(t), NEW c \in Conns, SendOne(t, c)
  PROVE  /\ Current(t)'
         /\ clients' = clients
         /\ \A d \in Conns : inbox[d] \subseteq inbox'[d]
<1> DEFINE state == [task[t] EXCEPT !.conns = @ \ {c}]
<1>0. task[t] \in TaskState
  BY DEF TypeOK
<1>1. /\ state.users = task[t].users /\ state.excluded = task[t].excluded
      /\ state.conns = task[t].conns \ {c} /\ state.msgs = task[t].msgs
  BY <1>0 DEF TaskState
<1>2. /\ clients' = clients
      /\ \A d \in Conns : inbox[d] \subseteq inbox'[d]
      /\ task[t].msgs \subseteq inbox'[c]
  BY DEF SendOne, TypeOK
<1> HIDE DEF state
<1>3. task'[t] \in {Idle, state}
  BY StepFacts DEF SendOne, state
<1>4. CASE task'[t] = Idle
  BY <1>2, <1>4, RoomCallFields DEF Current, ReadsClients
<1>5. CASE task'[t] = state
  <2>1. \A us, ex : Recipients(us, ex)' = Recipients(us, ex)
    BY <1>2 DEF Recipients
  <2>2. Recipients(task[t].users, task[t].excluded) \subseteq Conns
    BY <1>0 DEF Recipients, TypeOK, TaskState
  <2>3. QED BY <1>1, <1>2, <1>5, <2>1, <2>2 DEF Current, ReadsClients, SendOne
<1>6. QED BY <1>2, <1>3, <1>4, <1>5

\* Every other step leaves its task outside a send, and the maps alone unless
\* nobody sends.
LEMMA OthersCurrent ==
  ASSUME TypeOK, NEW t \in Tasks, Step(t)
  PROVE  \/ Current(t)' /\ UNCHANGED <<clients, inbox>>
         \/ ~ReadsClients(t)' /\ ClientsWritable
         \/ \E c \in Conns : SendOne(t, c)
<1>0. task[t] \in TaskState /\ Idle.at = "idle"
  BY DEF TypeOK, Idle
<1>1. ASSUME NEW c \in Conns, AddClient(t, c) PROVE ~ReadsClients(t)' /\ ClientsWritable
  BY <1>0, <1>1 DEF AddClient, ReadsClients, IsIdle
<1>2. ASSUME NEW c \in Conns, RemoveClient(t, c) PROVE ~ReadsClients(t)' /\ ClientsWritable
  <2> DEFINE state == [Idle EXCEPT !.at = "cleanup", !.user = Owner[c]]
  <2>1. Become(t, state) \/ task'[t] = Idle
    BY <1>2 DEF RemoveClient, IsIdle
  <2>2. state.at = "cleanup"
    BY RoomCallFields
  <2> HIDE DEF state
  <2>3. QED BY <1>0, <1>2, <2>1, <2>2, StepFacts DEF RemoveClient, ReadsClients
<1>3. ASSUME UNCHANGED clients_vars, ~ReadsClients(t)'
      PROVE  Current(t)' /\ UNCHANGED <<clients, inbox>>
  BY <1>3 DEF Current, clients_vars
<1>4. ASSUME NEW u \in Users, NEW ex \in {{}} \cup {{c} : c \in Conns}, NEW m \in Msgs,
             SendToUser(t, u, ex, m)
      PROVE  Current(t)' /\ UNCHANGED <<clients, inbox>>
  <2>1. {u} \in SUBSET Users /\ ex \in SUBSET Conns
    OBVIOUS
  <2>2. QED BY <1>4, <2>1, DeliverCurrent DEF SendToUser
<1>5. ASSUME NEW us \in SUBSET Users, NEW m \in Msgs, BroadcastToUsers(t, us, m)
      PROVE  Current(t)' /\ UNCHANGED <<clients, inbox>>
  BY <1>5, DeliverCurrent, {} \in SUBSET Conns DEF BroadcastToUsers
<1>6. ASSUME BroadcastSend(t) PROVE Current(t)' /\ UNCHANGED <<clients, inbox>>
  BY <1>0, <1>6, DeliverCurrent, {} \in SUBSET Conns DEF BroadcastSend, TaskState
<1>7. ASSUME NEW s \in Streams, NEW m \in Msgs, BroadcastToLivestream(t, s, m)
      PROVE  ~ReadsClients(t)' /\ UNCHANGED clients_vars
  <2> DEFINE state == [Idle EXCEPT !.at = "broadcast", !.users = livestream_rooms[s], !.msgs = {m}]
  <2>1. state.at = "broadcast"
    BY DEF Idle
  <2>2. Become(t, state) /\ UNCHANGED clients_vars
    BY <1>7 DEF BroadcastToLivestream
  <2> HIDE DEF state
  <2>3. QED BY <2>1, <2>2, StepFacts DEF ReadsClients
<1>8. ASSUME NEW u \in Users, NEW s \in Streams, JoinRoom(t, u, s) \/ LeaveRoom(t, u, s)
      PROVE  ~ReadsClients(t)' /\ UNCHANGED clients_vars
  <2> DEFINE state(w) == [Idle EXCEPT !.at = w, !.user = u, !.streams = {s}]
  <2>1. PICK w \in {"join", "leave"} : Become(t, state(w))
    BY <1>8 DEF JoinRoom, LeaveRoom
  <2>2. state(w).at = w
    BY RoomCallFields
  <2> HIDE DEF state
  <2>3. QED BY <1>8, <2>1, <2>2, StepFacts DEF JoinRoom, LeaveRoom, ReadsClients
<1>9. ASSUME NEW u, NEW w, w # "sending", TakeUserStreams(t, u, w)
      PROVE  ~ReadsClients(t)' /\ UNCHANGED clients_vars
  <2> DEFINE state == [Idle EXCEPT !.at = w, !.user = u, !.streams = user_livestreams[u]]
  <2>1. state.at = w
    BY RoomCallFields
  <2>2. Become(t, state) /\ UNCHANGED clients_vars
    BY <1>9 DEF TakeUserStreams
  <2> HIDE DEF state
  <2>3. QED BY <1>9, <2>1, <2>2, StepFacts DEF ReadsClients
<1>10. ASSUME CleanupActive(t) PROVE ~ReadsClients(t)' /\ UNCHANGED clients_vars
  <2> DEFINE state == [task[t] EXCEPT !.at = "cleanup_leave_all"]
  <2>1. state.at = "cleanup_leave_all"
    BY <1>0 DEF TaskState
  <2>2. Become(t, state) /\ UNCHANGED clients_vars
    BY <1>10 DEF CleanupActive
  <2> HIDE DEF state
  <2>3. QED BY <2>1, <2>2, StepFacts DEF ReadsClients
<1>11. ASSUME JoinUserStreams(t) \/ LeaveUserStreams(t) \/ LeaveAllRooms(t) \/ Drop(t)
       PROVE  ~ReadsClients(t)' /\ UNCHANGED clients_vars
  <2>1. task'[t] = Idle
    BY <1>11, StepFacts, IdleType DEF JoinUserStreams, LeaveUserStreams, LeaveAllRooms, Drop
  <2>2. QED BY <1>0, <1>11, <2>1
            DEF ReadsClients, JoinUserStreams, LeaveUserStreams, LeaveAllRooms, Drop
<1>12. ASSUME NEW u \in Users, NEW v, SetActiveConversation(t, u, v)
       PROVE  ~ReadsClients(t)' /\ UNCHANGED clients_vars
  BY <1>0, <1>12 DEF SetActiveConversation, IsIdle, ReadsClients
<1>13. QED
  BY <1>1, <1>2, <1>3, <1>4, <1>5, <1>6, <1>7, <1>8, <1>9, <1>10, <1>11, <1>12
     DEF Step, Start, Continue, LeaveAll, CleanupLeaveAll

\* Exactness of sends is inductive.
LEMMA SendingInductive ==
  ASSUME TypeOK, SendingIsCurrent, [Next]_vars
  PROVE  SendingIsCurrent'
<1>0. \A t \in Tasks : Current(t)
  BY DEF SendingIsCurrent, Current
<1>1. ASSUME NEW t \in Tasks, Step(t), NEW t2 \in Tasks PROVE Current(t2)'
  <2>1. t2 # t => task'[t2] = task[t2]
    BY <1>1, Frame
  <2>2. CASE Current(t)' /\ UNCHANGED <<clients, inbox>>
    BY <1>0, <2>1, <2>2 DEF Current, ReadsClients, Recipients
  <2>3. CASE ~ReadsClients(t)' /\ ClientsWritable
    BY <2>1, <2>3 DEF Current, ReadsClients, ClientsWritable
  <2>4. ASSUME NEW c \in Conns, SendOne(t, c) PROVE Current(t2)'
    <3>1. /\ Current(t)' /\ clients' = clients
          /\ \A d \in Conns : inbox[d] \subseteq inbox'[d]
      BY <1>0, <2>4, SendOneCurrent
    <3>2. \A us \in SUBSET Users, ex \in SUBSET Conns :
                   Recipients(us, ex)' = Recipients(us, ex) /\ Recipients(us, ex) \subseteq Conns
      BY <3>1 DEF Recipients, TypeOK
    <3>3. task[t2].users \in SUBSET Users /\ task[t2].excluded \in SUBSET Conns
      BY DEF TypeOK, TaskState
    <3>4. QED BY <1>0, <2>1, <3>1, <3>2, <3>3 DEF Current, ReadsClients
  <2>5. QED BY <1>1, <2>2, <2>3, <2>4, OthersCurrent
<1>2. CASE UNCHANGED vars
  BY <1>2 DEF vars, SendingIsCurrent, ReadsClients, Recipients
<1>3. QED BY <1>1, <1>2 DEF Next, Step, SendingIsCurrent, Current

----------------------------------------------------------------------------
(* The results.                                                            *)

\* The manager starts inside the invariant.
LEMMA InitInv == Init => TypeOK /\ RoomsInv /\ SendingIsCurrent
<1> SUFFICES ASSUME Init PROVE TypeOK /\ RoomsInv /\ SendingIsCurrent
  OBVIOUS
<1>1. TypeOK
  BY IdleType DEF Init, TypeOK
<1>2. \A t \in Tasks : task[t] = Idle /\ task[t].at = "idle"
  BY RoomCallFields DEF Init
<1>3. RoomsInv
  BY <1>2 DEF Init, RoomsInv, LocksExclusive, HeldIndexes, HeldAt, IndexesAgree,
              HoldsRooms, HoldsUserStreams, HoldsActive
<1>4. SendingIsCurrent
  BY <1>2 DEF SendingIsCurrent, ReadsClients
<1>5. QED BY <1>1, <1>3, <1>4

\* The inductive invariant of the hub: the types, one writer per lock, what a
\* call wrote stands while it keeps its first lock, the indexes agree outside
\* the calls in progress, and sends are current.
THEOREM Invariant == Spec => []IInv
<1>1. Init => IInv
  BY InitInv DEF IInv, RoomsInv
<1>2. IInv /\ [Next]_vars => IInv'
  BY TypeInductive, RoomsInductive, SendingInductive DEF IInv, RoomsInv
<1>3. QED BY <1>1, <1>2, PTL DEF Spec

\* Every map of the hub and every task's state keeps its type.
THEOREM TypeCorrect == Spec => []TypeOK
  BY Invariant, PTL DEF IInv

\* The rooms a broadcast reads and the streams a disconnect walks are one
\* relation, but for what a dropped join or leave left behind.
THEOREM IndexAgreement == Spec => []IndexesAgree
  BY Invariant, PTL DEF IInv

\* A send writes to registered channels only and misses none of them.
THEOREM SendsAreCurrent == Spec => []SendingIsCurrent
  BY Invariant, PTL DEF IInv

\* leave_all_livestreams leaves no membership of its user behind but those of dropped joins.
THEOREM LeaveAllIsComplete == Spec => LeaveAllClears
<1>1. ASSUME IInv, [Next]_vars, NEW t \in Tasks,
             task[t].at \in {"leave_all", "cleanup_rooms"}, task'[t] # task[t]
      PROVE  \A s \in Streams :
               task[t].user \notin livestream_rooms'[s] \/ <<task[t].user, s>> \in cut'
  <2>1. PICK t2 \in Tasks : Step(t2)
    BY <1>1 DEF Next, Step, vars
  <2>2. t2 = t
    BY <1>1, <2>1, Frame DEF IInv
  <2>3. LeaveAllRooms(t)
    BY <1>1, <2>1, <2>2, RoomCallFields
       DEF Step, Start, Continue, Drop, AddClient, RemoveClient, SetActiveConversation, JoinRoom, LeaveRoom,
           LeaveAll, SendToUser, BroadcastToUsers, BroadcastToLivestream, CleanupActive,
           CleanupLeaveAll, JoinUserStreams, LeaveUserStreams, BroadcastSend, SendOne, IsIdle
  <2>4. QED BY <1>1, <2>3, LeaveAllRoomsIndexes DEF IInv, RoomsInv
<1>2. IInv /\ [Next]_vars =>
        [\A t \in Tasks :
           task[t].at \in {"leave_all", "cleanup_rooms"} /\ task'[t] # task[t]
             => \A s \in Streams :
                  task[t].user \notin livestream_rooms'[s] \/ <<task[t].user, s>> \in cut']_vars
  BY <1>1
<1>3. QED BY <1>2, Invariant, PTL DEF Spec, LeaveAllClears

\* The pair of locks of the rooms taken in both orders is the only deadlock of the hub.
THEOREM OnlyDeadlock == Spec => []OnlyInversionBlocks
<1>1. IInv => OnlyInversionBlocks
  <2> SUFFICES ASSUME IInv, NEW t \in Tasks, ~IsIdle(t), ~Inverted
               PROVE  \E t2 \in Tasks : ~IsIdle(t2) /\ LockFree(t2)
    BY DEF OnlyInversionBlocks
  <2>0. \A t2 \in Tasks : task[t2].at # "idle" => ~IsIdle(t2)
    BY RoomCallFields DEF IsIdle
  <2>1. CASE ~RoomsFree
    BY <2>0, <2>1 DEF RoomsFree, HoldsRooms, Inverted, LockFree, UserStreamsFree
  <2>2. CASE ~UserStreamsFree
    BY <2>0, <2>2 DEF RoomsFree, HoldsUserStreams, Inverted, LockFree, UserStreamsFree
  <2>3. CASE RoomsFree /\ UserStreamsFree
    <3>1. CASE ActiveFree
      BY <2>3, <3>1 DEF LockFree
    <3>2. CASE ~ActiveFree
      BY <2>0, <2>3, <3>2 DEF ActiveFree, HoldsActive, LockFree
    <3>3. QED BY <3>1, <3>2
  <2>4. QED BY <2>1, <2>2, <2>3
<1>2. QED BY <1>1, Invariant, PTL

\* The hub implements the room directory: the calls that were dropped are the
\* memberships gone astray.
THEOREM Implementation == Spec => RefinesRoomDirectory
<1> DEFINE members == {p \in Users \X Streams : p[1] \in livestream_rooms[p[2]]}
<1>1. Init => Directory!Init
  BY DEF Init, Directory!Init
<1>2. ASSUME IInv, [Next]_vars PROVE [Directory!Next]_<<members, cut>>
  <2>0. TypeOK /\ RoomsInv
    BY <1>2 DEF IInv, RoomsInv
  <2>1. ASSUME UNCHANGED livestream_rooms PROVE UNCHANGED members
    BY <2>1
  <2>2. ASSUME NEW t \in Tasks, NEW u \in Users, NEW s \in Streams, JoinRoom(t, u, s)
        PROVE  Directory!Join(u, s)
    BY <2>0, <2>2 DEF JoinRoom, Directory!Join, TypeOK
  <2>3. ASSUME NEW t \in Tasks, NEW u \in Users, NEW s \in Streams, LeaveRoom(t, u, s)
        PROVE  Directory!Leave(u, s)
    BY <2>0, <2>3 DEF LeaveRoom, Directory!Leave, TypeOK
  <2>4. ASSUME NEW t \in Tasks, LeaveAllRooms(t)
        PROVE  \E u \in Users : Directory!LeaveAll(u)
    <3> DEFINE u == task[t].user
               missed == {p \in cut' : p[1] = u}
    <3>1. u \in Users
      BY <2>0, <2>4 DEF LeaveAllRooms, RoomsInv, HeldIndexes, HeldAt
    <3>2. \A s \in Streams : u \notin livestream_rooms'[s] \/ <<u, s>> \in cut'
      BY <2>0, <2>4, LeaveAllRoomsIndexes
    <3>3. \A s \in Streams, v \in Users :
            v # u => (v \in livestream_rooms'[s] <=> v \in livestream_rooms[s])
      BY <2>0, <2>4 DEF LeaveAllRooms, TypeOK
    <3>4. \A s \in Streams :
            /\ u \in livestream_rooms'[s] => u \in livestream_rooms[s]
            /\ <<u, s>> \in cut' /\ u \in livestream_rooms[s] => u \in livestream_rooms'[s]
      BY <2>0, <2>4 DEF LeaveAllRooms, TypeOK, Pairs
    <3>5. missed \in SUBSET {p \in cut : p[1] = u}
      BY <2>4 DEF LeaveAllRooms
    <3>6. members' = {p \in members : p[1] # u \/ p \in missed}
      BY <3>2, <3>3, <3>4
    <3>7. cut' = {p \in cut : p[1] # u \/ p \in missed}
      BY <2>4 DEF LeaveAllRooms, Pairs
    <3> HIDE DEF members, missed
    <3>8. QED BY <3>1, <3>5, <3>6, <3>7 DEF Directory!LeaveAll, members
  \* The halves that write user_livestreams, and a drop.
  <2>5. ASSUME NEW t \in Tasks, JoinUserStreams(t) \/ LeaveUserStreams(t) \/ Drop(t)
        PROVE  [Directory!Next]_<<members, cut>>
    <3>1. CASE cut' = cut
      BY <2>1, <2>5, <3>1 DEF JoinUserStreams, LeaveUserStreams, Drop
    <3>2. CASE cut' # cut
      <4>1. task[t].at \in {"join", "leave"} /\ task[t].user \in Users
        BY <2>0, <2>5, <3>2 DEF JoinUserStreams, LeaveUserStreams, Drop, RoomsInv, HeldIndexes, HeldAt
      <4>2. PICK s \in Streams : task[t].streams = {s}
        BY <2>0, <4>1 DEF RoomsInv, HeldIndexes, HeldAt, HoldsRooms
      <4>3. Pairs(t) = {<<task[t].user, s>>}
        BY <4>2 DEF Pairs
      <4>4. UNCHANGED members
        BY <2>1, <2>5 DEF JoinUserStreams, LeaveUserStreams, Drop
      <4> HIDE DEF members
      <4>5. Directory!Settle(task[t].user, s) \/ Directory!Stray(task[t].user, s)
        BY <2>5, <3>2, <4>3, <4>4
           DEF JoinUserStreams, LeaveUserStreams, Drop, Directory!Settle, Directory!Stray, members
      <4>6. QED BY <4>1, <4>5 DEF Directory!Next
    <3>3. QED BY <3>1, <3>2
  <2>6. ASSUME NEW t \in Tasks, Step(t) PROVE [Directory!Next]_<<members, cut>>
    <3>1. RoomsQuiet(t) => UNCHANGED <<livestream_rooms, cut>>
      BY DEF RoomsQuiet, rooms_vars
    <3>2. \A u \in Users, w \in Waits :
            StartsLeaveAll(t, u, w) => UNCHANGED <<livestream_rooms, cut>>
      BY DEF StartsLeaveAll, TakeUserStreams
    <3>3. CASE UNCHANGED <<livestream_rooms, cut>>
      BY <2>1, <3>3
    <3>4. ASSUME NEW u \in Users, NEW s \in Streams, JoinRoom(t, u, s) \/ LeaveRoom(t, u, s)
          PROVE  Directory!Next
      BY <2>2, <2>3, <3>4 DEF Directory!Next
    <3>5. CASE LeaveAllRooms(t)
      BY <2>4, <2>6, <3>5 DEF Directory!Next
    <3>6. \/ UNCHANGED <<livestream_rooms, cut>>
          \/ \E u \in Users, s \in Streams : JoinRoom(t, u, s) \/ LeaveRoom(t, u, s)
          \/ JoinUserStreams(t) \/ LeaveUserStreams(t) \/ Drop(t)
          \/ LeaveAllRooms(t)
      BY <2>0, <2>6, <3>1, <3>2, RoomSteps DEF RoomsInv
    <3>7. QED BY <2>5, <3>3, <3>4, <3>5, <3>6
  <2>7. QED BY <1>2, <2>1, <2>6 DEF Next, Step, vars
<1>3. QED BY <1>1, <1>2, Invariant, PTL DEF Spec, RefinesRoomDirectory, Directory!Spec, Directory!vars
=============================================================================
