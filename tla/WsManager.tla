----------------------------- MODULE WsManager -----------------------------
(***************************************************************************)
(* The in-memory WebSocket hub of the gateway                              *)
(* (services/gateway/src/ws/manager.rs): four maps, each behind a tokio    *)
(* RwLock of its own, shared by every socket task and HTTP handler.        *)
(*                                                                         *)
(* A task is a tokio task inside one call of the manager, or idle.  A call *)
(* that takes one lock and lets it go is one action.  A call that waits    *)
(* for a second lock while it keeps the first is one action per lock, and  *)
(* task[t].at names the wait; the locks a task holds follow from it.       *)
(* Callers are the most general ones: an idle task may make any call, and  *)
(* the future of an HTTP handler is dropped when its client goes away,     *)
(* which ends a call at the lock it waits for.                             *)
(*                                                                         *)
(* An operator whose name begins with Wrong is not the code: it is the     *)
(* definition after it with a plausible slip, and a property has to fail   *)
(* with it in that definition's place.                                     *)
(***************************************************************************)
CONSTANTS
  Users, Conns, Streams, Conversations,
  Msgs,      \* messages a caller may ask the hub to send
  Tasks,
  Owner,     \* the user a connection id belongs to
  None       \* no user, or no focused conversation

ASSUME ManagerAssumption ==
  /\ Owner \in [Conns -> Users]
  /\ None \notin Users \cup Conversations

VARIABLES
  clients,               \* [Users -> SUBSET Conns]; {} is a user with no entry
  active_conversations,  \* [Users -> Conversations \cup {None}]
  livestream_rooms,      \* [Streams -> SUBSET Users]; {} is a stream with no entry
  user_livestreams,      \* [Users -> SUBSET Streams]; {} is a user with no entry
  inbox,                 \* [Conns -> SUBSET Msgs], what was put on each channel
  task,                  \* where each task stands
  cut                    \* the pairs <<user, stream>> whose last join or leave was
                         \* dropped between its two locks (history)

rooms_vars == <<livestream_rooms, user_livestreams, cut>>
clients_vars == <<clients, inbox>>
vars == <<clients, active_conversations, livestream_rooms, user_livestreams, inbox, task, cut>>

----------------------------------------------------------------------------
(* Tasks and the locks they hold.                                          *)

Idle == [at |-> "idle", user |-> None, streams |-> {},
         users |-> {}, conns |-> {}, excluded |-> {}, msgs |-> {}]

Waits == {"idle", "join", "leave", "leave_all", "cleanup", "cleanup_leave_all",
          "cleanup_rooms", "broadcast", "sending"}

TaskState == [at : Waits, user : Users \cup {None}, streams : SUBSET Streams,
              users : SUBSET Users, conns : SUBSET Conns, excluded : SUBSET Conns,
              msgs : SUBSET Msgs]

IsIdle(t) == task[t] = Idle

\* The memberships the call of task t is about.
Pairs(t) == {task[t].user} \X task[t].streams

Become(t, state) == task' = [task EXCEPT ![t] = state]

\* The guard on livestream_rooms dropped before user_livestreams is awaited.
WrongHoldsRooms(t) == FALSE

\* livestream_rooms is kept while join and leave wait for user_livestreams.
HoldsRooms(t) == task[t].at \in {"join", "leave"}

\* The guard on user_livestreams dropped before livestream_rooms is awaited.
WrongHoldsUserStreams(t) == FALSE

\* user_livestreams is kept while leave_all_livestreams waits for livestream_rooms.
HoldsUserStreams(t) == task[t].at \in {"leave_all", "cleanup_rooms"}

\* active_conversations is kept by remove_client around its leave_all_livestreams.
HoldsActive(t) == task[t].at \in {"cleanup_leave_all", "cleanup_rooms"}

\* Senders share the read lock of clients until the last channel is served.
ReadsClients(t) == task[t].at = "sending"

RoomsFree == \A t \in Tasks : ~HoldsRooms(t)
UserStreamsFree == \A t \in Tasks : ~HoldsUserStreams(t)
ActiveFree == \A t \in Tasks : ~HoldsActive(t)

\* The senders collected and the read lock of clients dropped before they are used.
WrongClientsWritable == TRUE

ClientsWritable == \A t \in Tasks : ~ReadsClients(t)

\* leave_all_livestreams taking active_conversations, which remove_client holds around it.
WrongLockFree(t) ==
  /\ task[t].at \in {"join", "leave", "cleanup_leave_all"} => UserStreamsFree
  /\ task[t].at \in {"leave_all", "cleanup_rooms"} => RoomsFree
  /\ task[t].at \in {"cleanup", "cleanup_leave_all"} => ActiveFree

\* The lock a task in the middle of a call waits for can be taken now.
LockFree(t) ==
  /\ task[t].at \in {"join", "leave", "cleanup_leave_all"} => UserStreamsFree
  /\ task[t].at \in {"leave_all", "cleanup_rooms"} => RoomsFree
  /\ task[t].at = "cleanup" => ActiveFree

----------------------------------------------------------------------------
Init ==
  /\ clients = [u \in Users |-> {}]
  /\ active_conversations = [u \in Users |-> None]
  /\ livestream_rooms = [s \in Streams |-> {}]
  /\ user_livestreams = [u \in Users |-> {}]
  /\ inbox = [c \in Conns |-> {}]
  /\ task = [t \in Tasks |-> Idle]
  /\ cut = {}

----------------------------------------------------------------------------
(* Connections.  A connection id is taken anew for every socket; an id     *)
(* that was removed stands for the next socket, with an empty channel.     *)

AddClient(t, c) ==
  /\ IsIdle(t)
  /\ ClientsWritable
  /\ c \notin clients[Owner[c]]
  /\ clients' = [clients EXCEPT ![Owner[c]] = @ \cup {c}]
  /\ inbox' = [inbox EXCEPT ![c] = {}]
  /\ UNCHANGED <<active_conversations, rooms_vars, task>>

\* Dropping the last connection of a user sets should_cleanup and lets clients go.
RemoveClient(t, c) ==
  /\ IsIdle(t)
  /\ ClientsWritable
  /\ c \in clients[Owner[c]]
  /\ clients' = [clients EXCEPT ![Owner[c]] = @ \ {c}]
  /\ IF clients[Owner[c]] = {c}
       THEN Become(t, [Idle EXCEPT !.at = "cleanup", !.user = Owner[c]])
       ELSE UNCHANGED task
  /\ UNCHANGED <<active_conversations, rooms_vars, inbox>>

CleanupActive(t) ==
  /\ task[t].at = "cleanup"
  /\ LockFree(t)
  /\ active_conversations' = [active_conversations EXCEPT ![task[t].user] = None]
  /\ Become(t, [task[t] EXCEPT !.at = "cleanup_leave_all"])
  /\ UNCHANGED <<clients_vars, rooms_vars>>

SetActiveConversation(t, u, v) ==
  /\ IsIdle(t)
  /\ ActiveFree
  /\ active_conversations' = [active_conversations EXCEPT ![u] = v]
  /\ UNCHANGED <<clients_vars, rooms_vars, task>>

----------------------------------------------------------------------------
(* Live stream rooms.                                                      *)

\* The two ids, both Uuid, exchanged in the room index.
WrongJoinRoom(t, u, s) ==
  /\ IsIdle(t)
  /\ RoomsFree
  /\ livestream_rooms' = [livestream_rooms EXCEPT ![s] = @ \cup {s}]
  /\ Become(t, [Idle EXCEPT !.at = "join", !.user = u, !.streams = {s}])
  /\ UNCHANGED <<clients_vars, active_conversations, user_livestreams, cut>>

JoinRoom(t, u, s) ==
  /\ IsIdle(t)
  /\ RoomsFree
  /\ livestream_rooms' = [livestream_rooms EXCEPT ![s] = @ \cup {u}]
  /\ Become(t, [Idle EXCEPT !.at = "join", !.user = u, !.streams = {s}])
  /\ UNCHANGED <<clients_vars, active_conversations, user_livestreams, cut>>

JoinUserStreams(t) ==
  /\ task[t].at = "join"
  /\ LockFree(t)
  /\ user_livestreams' = [user_livestreams EXCEPT ![task[t].user] = @ \cup task[t].streams]
  /\ cut' = cut \ Pairs(t)
  /\ Become(t, Idle)
  /\ UNCHANGED <<clients_vars, active_conversations, livestream_rooms>>

LeaveRoom(t, u, s) ==
  /\ IsIdle(t)
  /\ RoomsFree
  /\ livestream_rooms' = [livestream_rooms EXCEPT ![s] = @ \ {u}]
  /\ Become(t, [Idle EXCEPT !.at = "leave", !.user = u, !.streams = {s}])
  /\ UNCHANGED <<clients_vars, active_conversations, user_livestreams, cut>>

LeaveUserStreams(t) ==
  /\ task[t].at = "leave"
  /\ LockFree(t)
  /\ user_livestreams' = [user_livestreams EXCEPT ![task[t].user] = @ \ task[t].streams]
  /\ cut' = cut \ Pairs(t)
  /\ Become(t, Idle)
  /\ UNCHANGED <<clients_vars, active_conversations, livestream_rooms>>

\* The handler's client goes away while a join or a leave waits for its second
\* lock, or a broadcast for the lock of clients: the guards go with the future
\* and what the call has written stays.  The calls of a socket's end run in a
\* task of their own, which nothing drops.
Drop(t) ==
  /\ task[t].at \in {"join", "leave", "broadcast"}
  /\ cut' = IF task[t].at = "broadcast" THEN cut ELSE cut \cup Pairs(t)
  /\ Become(t, Idle)
  /\ UNCHANGED <<clients_vars, active_conversations, livestream_rooms, user_livestreams>>

\* leave_all_livestreams up to its wait for livestream_rooms.
TakeUserStreams(t, u, wait) ==
  /\ UserStreamsFree
  /\ user_livestreams' = [user_livestreams EXCEPT ![u] = {}]
  /\ Become(t, [Idle EXCEPT !.at = wait, !.user = u, !.streams = user_livestreams[u]])
  /\ UNCHANGED <<clients_vars, active_conversations, livestream_rooms, cut>>

LeaveAll(t, u) == IsIdle(t) /\ TakeUserStreams(t, u, "leave_all")

CleanupLeaveAll(t) ==
  /\ task[t].at = "cleanup_leave_all"
  /\ LockFree(t)
  /\ TakeUserStreams(t, task[t].user, "cleanup_rooms")

\* The room's entry dropped without the test that the user was its last viewer.
WrongLeaveAllRooms(t) ==
  /\ task[t].at \in {"leave_all", "cleanup_rooms"}
  /\ LockFree(t)
  /\ livestream_rooms' = [s \in Streams |->
       IF s \in task[t].streams THEN {} ELSE livestream_rooms[s]]
  /\ cut' = cut \ Pairs(t)
  /\ Become(t, Idle)
  /\ UNCHANGED <<clients_vars, active_conversations, user_livestreams>>

LeaveAllRooms(t) ==
  /\ task[t].at \in {"leave_all", "cleanup_rooms"}
  /\ LockFree(t)
  /\ livestream_rooms' = [s \in Streams |->
       IF s \in task[t].streams THEN livestream_rooms[s] \ {task[t].user}
                                ELSE livestream_rooms[s]]
  /\ cut' = cut \ Pairs(t)
  /\ Become(t, Idle)
  /\ UNCHANGED <<clients_vars, active_conversations, user_livestreams>>

----------------------------------------------------------------------------
(* Sending: the recipients are read once, under the read lock of clients,  *)
(* and served one channel at a time.                                       *)

Recipients(us, excluded) == UNION {clients[u] : u \in us} \ excluded

Deliver(t, us, excluded, m) ==
  LET to == Recipients(us, excluded) IN
  /\ Become(t, IF to = {} THEN Idle
               ELSE [Idle EXCEPT !.at = "sending", !.users = us, !.conns = to,
                              !.excluded = excluded, !.msgs = {m}])
  /\ UNCHANGED <<clients_vars, active_conversations, rooms_vars>>

\* send_to_user and send_to_user_except, which leaves out the caller's own connection.
SendToUser(t, u, excluded, m) == IsIdle(t) /\ Deliver(t, {u}, excluded, m)

\* broadcast_to_users; with all users it is broadcast_all.
BroadcastToUsers(t, us, m) == IsIdle(t) /\ Deliver(t, us, {}, m)

\* broadcast_to_livestream copies the room and lets livestream_rooms go.
BroadcastToLivestream(t, s, m) ==
  /\ IsIdle(t)
  /\ RoomsFree
  /\ livestream_rooms[s] # {}
  /\ Become(t, [Idle EXCEPT !.at = "broadcast", !.users = livestream_rooms[s], !.msgs = {m}])
  /\ UNCHANGED <<clients_vars, active_conversations, rooms_vars>>

BroadcastSend(t) ==
  /\ task[t].at = "broadcast"
  /\ \E m \in task[t].msgs : Deliver(t, task[t].users, {}, m)

SendOne(t, c) ==
  /\ task[t].at = "sending"
  /\ c \in task[t].conns
  /\ inbox' = [inbox EXCEPT ![c] = @ \cup task[t].msgs]
  /\ Become(t, IF task[t].conns = {c} THEN Idle ELSE [task[t] EXCEPT !.conns = @ \ {c}])
  /\ UNCHANGED <<clients, active_conversations, rooms_vars>>

----------------------------------------------------------------------------
Start(t) ==
  \/ \E c \in Conns : AddClient(t, c) \/ RemoveClient(t, c)
  \/ \E u \in Users :
       \/ \E v \in Conversations \cup {None} : SetActiveConversation(t, u, v)
       \/ \E s \in Streams : JoinRoom(t, u, s) \/ LeaveRoom(t, u, s)
       \/ LeaveAll(t, u)
  \/ \E m \in Msgs :
       \/ \E u \in Users, excluded \in {{}} \cup {{c} : c \in Conns} :
            SendToUser(t, u, excluded, m)
       \/ \E us \in SUBSET Users : BroadcastToUsers(t, us, m)
       \/ \E s \in Streams : BroadcastToLivestream(t, s, m)

\* What a task that is inside a call does next.
Continue(t) ==
  \/ CleanupActive(t) \/ CleanupLeaveAll(t)
  \/ JoinUserStreams(t) \/ LeaveUserStreams(t) \/ LeaveAllRooms(t)
  \/ BroadcastSend(t)
  \/ \E c \in Conns : SendOne(t, c)

Next == \E t \in Tasks : Start(t) \/ Continue(t) \/ Drop(t)

Spec == Init /\ [][Next]_vars

\* tokio's RwLock serves its waiters in order, so a task that is inside a call
\* and whose lock becomes free again and again is served.
FairSpec == Spec /\ \A t \in Tasks : SF_vars(Continue(t))

----------------------------------------------------------------------------
(* Properties.                                                             *)

TypeOK ==
  /\ clients \in [Users -> SUBSET Conns]
  /\ active_conversations \in [Users -> Conversations \cup {None}]
  /\ livestream_rooms \in [Streams -> SUBSET Users]
  /\ user_livestreams \in [Users -> SUBSET Streams]
  /\ inbox \in [Conns -> SUBSET Msgs]
  /\ task \in [Tasks -> TaskState]
  /\ cut \subseteq Users \X Streams

InRoomCall(t) == task[t].at \in {"join", "leave", "leave_all", "cleanup_rooms"}

\* The call of task t has written one of the two indexes for u and s, not yet the other.
MidFlight(t, u, s) == InRoomCall(t) /\ u = task[t].user /\ s \in task[t].streams

\* The two indexes of room membership agree on every pair, but for the ones a
\* call is in the middle of writing and the ones whose last join or leave was
\* dropped between its locks: what a broadcast to the room reads and what a
\* disconnect walks are the same relation, and the next call that gets to its
\* end on a pair mends what a dropped one left.  The lock pairs of
\* join_livestream_room, leave_livestream_room and leave_all_livestreams are there for this.
IndexesAgree ==
  \A u \in Users, s \in Streams :
    (\A t \in Tasks : ~MidFlight(t, u, s)) /\ <<u, s>> \notin cut
      => (u \in livestream_rooms[s] <=> s \in user_livestreams[u])

\* A lock has one writer.
LocksExclusive ==
  \A t1, t2 \in Tasks : t1 # t2 =>
    /\ ~(HoldsRooms(t1) /\ HoldsRooms(t2))
    /\ ~(HoldsUserStreams(t1) /\ HoldsUserStreams(t2))
    /\ ~(HoldsActive(t1) /\ HoldsActive(t2))

\* What a call wrote under its first lock stands as long as it keeps the lock.
HeldAt(t) ==
  /\ task[t].at \notin {"idle", "broadcast", "sending"} => task[t].user \in Users
  /\ HoldsRooms(t) => \E s \in Streams : task[t].streams = {s}
  /\ task[t].at = "join" => \A s \in task[t].streams : task[t].user \in livestream_rooms[s]
  /\ task[t].at = "leave" => \A s \in task[t].streams : task[t].user \notin livestream_rooms[s]
  /\ HoldsUserStreams(t) => user_livestreams[task[t].user] = {}

HeldIndexes == \A t \in Tasks : HeldAt(t)

\* When leave_all_livestreams returns, its user is in no room, whichever joins
\* and leaves of the same user ran while it waited for its second lock, but for
\* the rooms a dropped join left him in: those it does not know of.
LeaveAllClears ==
  [][\A t \in Tasks :
       task[t].at \in {"leave_all", "cleanup_rooms"} /\ task'[t] # task[t]
         => \A s \in Streams :
              task[t].user \notin livestream_rooms'[s] \/ <<task[t].user, s>> \in cut']_vars

\* A send in progress writes only to channels that are still registered, and
\* passes over no connection of its recipients: the read lock keeps add_client
\* and remove_client out until the last channel is served.
SendingIsCurrent ==
  \A t \in Tasks : ReadsClients(t) =>
    /\ task[t].conns \subseteq Recipients(task[t].users, {})
    /\ \A c \in Recipients(task[t].users, task[t].excluded) :
         c \in task[t].conns \/ task[t].msgs \subseteq inbox[c]

\* The inductive invariant behind the properties above.
IInv == TypeOK /\ LocksExclusive /\ HeldIndexes /\ IndexesAgree /\ SendingIsCurrent

\* One task keeps livestream_rooms and waits for user_livestreams while another
\* keeps user_livestreams and waits for livestream_rooms.
Inverted == \E t1, t2 \in Tasks : HoldsRooms(t1) /\ HoldsUserStreams(t2)

\* The inversion above is the only way the calls of the manager can wait on each
\* other for ever: in every other state in which some task is inside a call, one
\* of the tasks inside a call can take the lock it waits for.
OnlyInversionBlocks ==
  (\E t \in Tasks : ~IsIdle(t)) /\ ~Inverted
    => \E t \in Tasks : ~IsIdle(t) /\ LockFree(t)

\* A user whose last connection is gone has left every live stream room some
\* time after ("Leave all livestream rooms for a user upon disconnect").
DisconnectLeavesRooms ==
  \A u \in Users :
    (\E t \in Tasks : task[t].at = "cleanup" /\ task[t].user = u)
      ~> (\A s \in Streams : u \notin livestream_rooms[s])

\* The two indexes together implement the one relation of RoomDirectory: each
\* call changes it in a single step, where it writes livestream_rooms, and the
\* memberships that went astray are the ones of the dropped calls.
Directory == INSTANCE RoomDirectory
  WITH members <- {p \in Users \X Streams : p[1] \in livestream_rooms[p[2]]},
       stray <- cut

RefinesRoomDirectory == Directory!Spec
=============================================================================
