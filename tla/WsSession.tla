----------------------------- MODULE WsSession -----------------------------
(***************************************************************************)
(* The life of a WebSocket connection (handle_socket in                    *)
(* services/gateway/src/ws/mod.rs) and the presence it writes              *)
(* (services/presence/src/lib.rs): a status in Redis that expires, a row   *)
(* in Postgres, and the presence:status events sent to friends.            *)
(*                                                                         *)
(* Every session is two tasks: the one that runs handle_socket, and the    *)
(* read task it spawns, which it does not wait for when the outbound side  *)
(* ends first.  A step is one call on the hub, on Redis or on Postgres;    *)
(* WsManager shows what a call on the hub is made of.  The cleanup also    *)
(* leaves the live streams, which touches none of the state below.         *)
(***************************************************************************)
CONSTANTS
  Users, Sessions,
  Owner,        \* the user of a session
  Friends,      \* the accepted friends of a user
  Detachable,   \* sessions whose outbound side may fail before their inbound side
  Flaky,        \* users for whom a call on Redis or Postgres may fail
  None          \* no status

ASSUME SessionAssumption ==
  /\ Owner \in [Sessions -> Users]
  /\ Friends \in [Users -> SUBSET Users]
  /\ Detachable \subseteq Sessions
  /\ Flaky \subseteq Users
  /\ None \notin {"online", "offline"}

VARIABLES
  clients,    \* [Users -> SUBSET Sessions], the connections the hub knows
  redis,      \* [Users -> status or None], the key presence:<user>
  postgres,   \* [Users -> status or None], user_presence.status
  view,       \* [Sessions -> [Users -> status or None]], the last event received
  socket,     \* where handle_socket stands, the friends to report, the one being reported
  reader      \* where the read task stands, and the status it is about to write

vars == <<clients, redis, postgres, view, socket, reader>>
stores == <<redis, postgres>>

Status == {"online", "offline"}
Opening == {"online_redis", "online_postgres", "announce", "sync", "sync_send"}
Closing == {"remove", "check", "offline_redis", "offline_postgres", "farewell"}

SocketState == [at : {"new", "open", "closed"} \cup Opening \cup Closing,
                friends : SUBSET Users, asked : SUBSET Users]

ReaderState == [at : {"unborn", "idle", "beat", "ended"}, status : Status \cup {None}]

----------------------------------------------------------------------------
SessionsOf(u) == {s \in Sessions : Owner[s] = u}

At(s, place) == socket[s].at = place

Goto(s, place) == socket' = [socket EXCEPT ![s].at = place]

\* is_connected of the hub.
IsConnected(u) == clients[u] # {}

\* broadcast_to_users and send_to_user reach every connection of their recipients.
Tell(us, about, status) ==
  view' = [s \in Sessions |->
    IF \E u \in us : s \in clients[u] THEN [view[s] EXCEPT ![about] = status] ELSE view[s]]

\* get_status: Redis first, then Postgres.
GetStatus(u) == IF redis[u] # None THEN redis[u] ELSE postgres[u]

Init ==
  /\ clients = [u \in Users |-> {}]
  /\ redis = [u \in Users |-> None]
  /\ postgres = [u \in Users |-> None]
  /\ view = [s \in Sessions |-> [u \in Users |-> None]]
  /\ socket = [s \in Sessions |-> [at |-> "new", friends |-> {}, asked |-> {}]]
  /\ reader = [s \in Sessions |-> [at |-> "unborn", status |-> None]]

----------------------------------------------------------------------------
(* Opening a session.                                                      *)

Register(s) ==
  /\ At(s, "new")
  /\ clients' = [clients EXCEPT ![Owner[s]] = @ \cup {s}]
  /\ Goto(s, "online_redis")
  /\ UNCHANGED <<stores, view, reader>>

\* The two writes of set_status.  An error in the first returns before the second;
\* the caller logs either and goes on.
SetRedis(s, from, status, next) ==
  /\ At(s, from)
  /\ redis' = [redis EXCEPT ![Owner[s]] = status]
  /\ Goto(s, next)
  /\ UNCHANGED <<clients, postgres, view, reader>>

SetPostgres(s, from, status, next) ==
  /\ At(s, from)
  /\ postgres' = [postgres EXCEPT ![Owner[s]] = status]
  /\ Goto(s, next)
  /\ UNCHANGED <<clients, redis, view, reader>>

Fails(s, from, next) ==
  /\ Owner[s] \in Flaky
  /\ socket[s].at \in from
  /\ Goto(s, next)
  /\ UNCHANGED <<clients, stores, view, reader>>

SetOnline(s) ==
  \/ SetRedis(s, "online_redis", "online", "online_postgres")
  \/ SetPostgres(s, "online_postgres", "online", "announce")
  \/ Fails(s, {"online_redis", "online_postgres"}, "announce")

\* The name of the event sent where its status belongs.
WrongAnnounce(s) ==
  /\ At(s, "announce")
  /\ Tell(Friends[Owner[s]], Owner[s], "presence:status")
  /\ socket' = [socket EXCEPT ![s].at = "sync", ![s].friends = Friends[Owner[s]]]
  /\ UNCHANGED <<clients, stores, reader>>

\* The friends are told, and the loop over their own statuses begins.
Announce(s) ==
  \/ /\ At(s, "announce")
     /\ Tell(Friends[Owner[s]], Owner[s], "online")
     /\ socket' = [socket EXCEPT ![s].at = "sync", ![s].friends = Friends[Owner[s]]]
     /\ UNCHANGED <<clients, stores, reader>>
  \/ Fails(s, {"announce"}, "sync")

SyncCheck(s, f) ==
  /\ At(s, "sync")
  /\ f \in socket[s].friends
  /\ socket' = [socket EXCEPT
       ![s] = [at |-> IF IsConnected(f) THEN "sync_send" ELSE "sync",
               friends |-> socket[s].friends \ {f},
               asked |-> IF IsConnected(f) THEN {f} ELSE {}]]
  /\ UNCHANGED <<clients, stores, view, reader>>

SyncSend(s, f) ==
  /\ At(s, "sync_send")
  /\ f \in socket[s].asked
  /\ Tell({Owner[s]}, f, "online")
  /\ socket' = [socket EXCEPT ![s].at = "sync", ![s].asked = {}]
  /\ UNCHANGED <<clients, stores, reader>>

Spawn(s) ==
  /\ At(s, "sync")
  /\ socket[s].friends = {}
  /\ Goto(s, "open")
  /\ reader' = [reader EXCEPT ![s].at = "idle"]
  /\ UNCHANGED <<clients, stores, view>>

----------------------------------------------------------------------------
(* The read task.  A heartbeat reads the status and writes it back with a  *)
(* new expiry; the row in Postgres keeps its status.                       *)

BeatRead(s) ==
  /\ reader[s].at = "idle"
  /\ reader' = [reader EXCEPT ![s] =
       [at |-> "beat",
        status |-> IF redis[Owner[s]] = None THEN "online" ELSE redis[Owner[s]]]]
  /\ UNCHANGED <<clients, stores, view, socket>>

\* The heartbeat putting its status in the row as well.
WrongBeatWrite(s) ==
  /\ reader[s].at = "beat"
  /\ redis' = [redis EXCEPT ![Owner[s]] = reader[s].status]
  /\ postgres' = [postgres EXCEPT ![Owner[s]] = reader[s].status]
  /\ reader' = [reader EXCEPT ![s] = [at |-> "idle", status |-> None]]
  /\ UNCHANGED <<clients, view, socket>>

BeatWrite(s) ==
  /\ reader[s].at = "beat"
  /\ redis' = [redis EXCEPT ![Owner[s]] = reader[s].status]
  /\ reader' = [reader EXCEPT ![s] = [at |-> "idle", status |-> None]]
  /\ UNCHANGED <<clients, postgres, view, socket>>

\* A close frame, or an inbound side that is gone.
ReaderEnds(s) ==
  /\ reader[s].at = "idle"
  /\ reader' = [reader EXCEPT ![s].at = "ended"]
  /\ UNCHANGED <<clients, stores, view, socket>>

\* Sixty seconds without a write of the key.
Expire(u) ==
  /\ redis[u] # None
  /\ redis' = [redis EXCEPT ![u] = None]
  /\ UNCHANGED <<clients, postgres, view, socket, reader>>

----------------------------------------------------------------------------
(* Closing a session.                                                      *)

\* select! returns when either side of the socket has ended.
Close(s) ==
  /\ At(s, "open")
  /\ reader[s].at = "ended" \/ s \in Detachable
  /\ Goto(s, "remove")
  /\ UNCHANGED <<clients, stores, view, reader>>

\* The channel goes with the entry: the session hears no more.
Remove(s) ==
  /\ At(s, "remove")
  /\ clients' = [clients EXCEPT ![Owner[s]] = @ \ {s}]
  /\ view' = [view EXCEPT ![s] = [u \in Users |-> None]]
  /\ Goto(s, "check")
  /\ UNCHANGED <<stores, reader>>

\* is_connected answered by the sockets that have not finished, not by the hub.
WrongCheck(s) ==
  /\ At(s, "check")
  /\ Goto(s, IF \E s2 \in SessionsOf(Owner[s]) \ {s} : socket[s2].at \in Closing \cup {"open"}
             THEN "closed" ELSE "offline_redis")
  /\ UNCHANGED <<clients, stores, view, reader>>

Check(s) ==
  /\ At(s, "check")
  /\ Goto(s, IF IsConnected(Owner[s]) THEN "closed" ELSE "offline_redis")
  /\ UNCHANGED <<clients, stores, view, reader>>

SetOffline(s) ==
  \/ SetRedis(s, "offline_redis", "offline", "offline_postgres")
  \/ SetPostgres(s, "offline_postgres", "offline", "farewell")
  \/ Fails(s, {"offline_redis", "offline_postgres"}, "farewell")

Farewell(s) ==
  \/ /\ At(s, "farewell")
     /\ Tell(Friends[Owner[s]], Owner[s], "offline")
     /\ Goto(s, "closed")
     /\ UNCHANGED <<clients, stores, reader>>
  \/ Fails(s, {"farewell"}, "closed")

----------------------------------------------------------------------------
\* What handle_socket does once the socket is up.
Main(s) ==
  \/ SetOnline(s) \/ Announce(s) \/ Spawn(s)
  \/ \E f \in Users : SyncCheck(s, f) \/ SyncSend(s, f)
  \/ Close(s) \/ Remove(s) \/ Check(s) \/ SetOffline(s) \/ Farewell(s)

Reader(s) == BeatRead(s) \/ BeatWrite(s) \/ ReaderEnds(s)

Next ==
  \/ \E s \in Sessions : Register(s) \/ Main(s) \/ Reader(s)
  \/ \E u \in Users : Expire(u)

Spec == Init /\ [][Next]_vars

\* Every session of u that was opened has gone through its cleanup.
Gone(u) ==
  /\ \E s \in SessionsOf(u) : At(s, "closed")
  /\ \A s \in SessionsOf(u) : socket[s].at \in {"new", "closed"}

\* A task that can go on does (no socket has to fail); a socket that failed holds
\* finitely many frames for its read task; a key nobody writes any more expires.
Fairness ==
  /\ \A s \in Sessions : /\ WF_vars((At(s, "open") => reader[s].at = "ended") /\ Main(s))
                        /\ WF_vars(BeatWrite(s))
  /\ \A s \in Sessions : SF_vars(At(s, "closed") /\ ReaderEnds(s))
  /\ \A u \in Users : WF_vars(Gone(u) /\ Expire(u))

FairSpec == Spec /\ Fairness

----------------------------------------------------------------------------
(* Properties.                                                             *)

TypeOK ==
  /\ clients \in [Users -> SUBSET Sessions]
  /\ redis \in [Users -> Status \cup {None}]
  /\ postgres \in [Users -> Status \cup {None}]
  /\ view \in [Sessions -> [Users -> Status \cup {None}]]
  /\ socket \in [Sessions -> SocketState]
  /\ reader \in [Sessions -> ReaderState]

\* When every session of a user is through its cleanup, the row of the user
\* does not say online, in whatever order the sessions of the devices opened,
\* wrote and closed: the last to leave the hub finds nobody there and writes
\* after all the others (handle_socket, set_status).
GoneIsOffline ==
  \A u \in Users \ Flaky : Gone(u) => postgres[u] # "online"

\* The hub knows exactly the sessions between Register and Remove.
HubAgrees ==
  /\ \A u \in Users : clients[u] \subseteq SessionsOf(u)
  /\ \A s \in Sessions :
       s \in clients[Owner[s]] <=> socket[s].at \in Opening \cup {"open", "remove"}

\* A row that says online is that of a connected user, or of one whose last
\* session is on its way to write it.
LastWritesOffline ==
  \A u \in Users \ Flaky :
    ~IsConnected(u) /\ postgres[u] = "online"
      => \E s \in SessionsOf(u) : socket[s].at \in {"check", "offline_redis", "offline_postgres"}

\* The inductive invariant behind GoneIsOffline.
IInv == TypeOK /\ HubAgrees /\ LastWritesOffline

\* A user who stays gone is offline for every reader of the status from some
\* time on, although a read task that outlived its session may go on beating.
GoneFadesOut ==
  \A u \in Users \ Flaky : <>[]Gone(u) => <>[](GetStatus(u) # "online")

\* When no session is between opening and closed, an open session was last told
\* that a friend is online exactly when the friend is connected.
FriendsToldRight ==
  (\A s \in Sessions : socket[s].at \in {"new", "open", "closed"}) =>
    \A s \in Sessions : \A f \in Friends[Owner[s]] \ Flaky :
      At(s, "open") => (view[s][f] = "online" <=> IsConnected(f))
=============================================================================
