------------------------------- MODULE Devices -------------------------------
(***************************************************************************)
(* Devices, notifications and pushes (services/notification/src/lib.rs):   *)
(* the rows of devices and notifications, the tasks that push one          *)
(* notification to one device each, and the access token of FCM they share *)
(* behind a read-write lock.  Firebase itself is external: it answers a    *)
(* push or not, and knows which device tokens are still registered, and    *)
(* which payloads it takes.                                                *)
(***************************************************************************)
EXTENDS Service

CONSTANTS
  Handles,  \* tokens of devices, each of one installed app
  Notes     \* notifications

ASSUME DeviceAssumption == None \notin Handles \cup Notes

VARIABLES
  devices,    \* <<user, handle>>: the rows of devices
  note, for,  \* state and user of each notification
  registered, \* handles that Firebase still knows (external)
  oversized,  \* notifications whose payload Firebase does not take (external)
  cached,     \* the access token: none, fresh or stale
  writer,     \* the task that holds the write lock of cached_token
  wire,       \* what each task is doing
  \* History, no state of the code:
  kept,       \* rows that nobody has asked to remove, nor lost to a payload not taken
  shared      \* handles of two logins, or of requests that overlapped

tables == <<devices, note, for>>
firebase == <<registered, oversized>>
token == <<cached, writer>>
deviceVars == <<tables, firebase, token, wire, kept, shared>>

Quiet == [op |-> "none", at |-> "none", user |-> None, note |-> None, handle |-> None, to |-> {}]

DeviceInit ==
  /\ devices = {} /\ kept = {} /\ shared = {}
  /\ note = [n \in Notes |-> "none"] /\ for = [n \in Notes |-> None]
  /\ registered = Handles /\ oversized = {}
  /\ cached = "none" /\ writer = None
  /\ wire = [t \in Tasks |-> Quiet]

Turn(t, state) == wire' = [wire EXCEPT ![t] = state]
Hang(t) == Turn(t, Quiet)

----------------------------------------------------------------------------
(* Registration.                                                           *)

Others(u, h) == {d \in devices : d[2] = h /\ d[1] # u}

\* Requests on one handle that overlap.
Meet(h) == IF \E t \in Tasks : wire[t].op = "register" /\ wire[t].handle = h THEN shared \cup {h} ELSE shared

\* A registration that leaves the rows of other users alone.
WrongEvict(t, u, h) ==
  /\ wire[t] = Quiet
  /\ shared' = Meet(h)
  /\ Turn(t, [Quiet EXCEPT !.op = "register", !.at = "insert", !.user = u, !.handle = h])
  /\ UNCHANGED <<tables, firebase, token, kept>>

\* The DELETE of register_device; its INSERT is a statement of its own.
Evict(t, u, h) ==
  /\ wire[t] = Quiet
  /\ devices' = devices \ Others(u, h)
  /\ kept' = kept \ Others(u, h)
  /\ shared' = Meet(h)
  /\ Turn(t, [Quiet EXCEPT !.op = "register", !.at = "insert", !.user = u, !.handle = h])
  /\ UNCHANGED <<note, for, firebase, token>>

\* ON CONFLICT (user_id, token): one row for each user and handle.
InsertDevice(t) == LET d == <<wire[t].user, wire[t].handle>> IN
  /\ wire[t].at = "insert"
  /\ devices' = devices \cup {d} /\ kept' = kept \cup {d}
  /\ Hang(t)
  /\ UNCHANGED <<note, for, firebase, token, shared>>

\* login inserts the row and evicts nobody.
LoginDevice(u, h) ==
  /\ devices' = devices \cup {<<u, h>>} /\ kept' = kept \cup {<<u, h>>}
  /\ shared' = IF Others(u, h) # {} THEN shared \cup {h} ELSE Meet(h)
  /\ UNCHANGED <<note, for, firebase, token, wire>>

Unregister(u, h) ==
  /\ devices' = devices \ {<<u, h>>} /\ kept' = kept \ {<<u, h>>}
  /\ UNCHANGED <<note, for, firebase, token, wire, shared>>

\* The app is uninstalled; its token never works again.
Uninstall(h) ==
  /\ h \in registered
  /\ registered' = registered \ {h}
  /\ UNCHANGED <<tables, oversized, token, wire, kept, shared>>

----------------------------------------------------------------------------
(* Notifications.                                                          *)

\* send_notification: the record, then the devices, then the pushes.  The payload has the
\* whole text of a chat message or comment, which may be longer than Firebase takes.
Record(t, u, n) ==
  /\ wire[t] = Quiet /\ note[n] = "none"
  /\ note' = [note EXCEPT ![n] = "unread"] /\ for' = [for EXCEPT ![n] = u]
  /\ oversized' \in {oversized, oversized \cup {n}}
  /\ Turn(t, [Quiet EXCEPT !.op = "send", !.at = "resolve", !.user = u, !.note = n])
  /\ UNCHANGED <<devices, registered, token, kept, shared>>

Resolve(t) == LET to == {h \in Handles : <<wire[t].user, h>> \in devices} IN
  /\ wire[t].at = "resolve"
  /\ Turn(t, IF to = {} THEN Quiet ELSE [wire[t] EXCEPT !.at = "spawn", !.to = to])
  /\ UNCHANGED <<tables, firebase, token, kept, shared>>

Spawned(r, h) == IF r.to = {h} THEN Quiet ELSE [r EXCEPT !.to = r.to \ {h}]

\* A task of its own for each device; the last may take the place of the request, which
\* is through.  (The prunes wait for the last push: they may be as late here.)
SpawnPush(t, t2, h) ==
  /\ wire[t].at = "spawn" /\ h \in wire[t].to
  /\ wire[t2] = Quiet \/ (t2 = t /\ wire[t].to = {h})
  /\ wire' = [wire EXCEPT
       ![t] = Spawned(wire[t], h),
       ![t2] = [Quiet EXCEPT !.op = "push", !.at = "read", !.user = wire[t].user, !.note = wire[t].note, !.handle = h]]
  /\ UNCHANGED <<tables, firebase, token, kept, shared>>

MarkNoteRead(u, n) ==
  /\ note[n] \in {"unread", "read"} /\ for[n] = u
  /\ note' = [note EXCEPT ![n] = "read"]
  /\ UNCHANGED <<devices, for, firebase, token, wire, kept, shared>>

MarkAllRead(u) ==
  /\ note' = [n \in Notes |-> IF for[n] = u /\ note[n] = "unread" THEN "read" ELSE note[n]]
  /\ UNCHANGED <<devices, for, firebase, token, wire, kept, shared>>

DeleteNote(u, n) ==
  /\ note[n] \in {"unread", "read"} /\ for[n] = u
  /\ note' = [note EXCEPT ![n] = "gone"]
  /\ UNCHANGED <<devices, for, firebase, token, wire, kept, shared>>

----------------------------------------------------------------------------
(* The access token.                                                       *)

\* Within 300 seconds of its end a token is stale.
Age ==
  /\ cached = "fresh"
  /\ cached' = "stale"
  /\ UNCHANGED <<tables, firebase, writer, wire, kept, shared>>

\* The check under the read lock.
ReadToken(t) ==
  /\ wire[t].at = "read" /\ writer = None
  /\ Turn(t, [wire[t] EXCEPT !.at = IF cached = "fresh" THEN "post" ELSE "lock"])
  /\ UNCHANGED <<tables, firebase, token, kept, shared>>

\* Whoever gets the write lock fetches.
WrongLockToken(t) ==
  /\ wire[t].at = "lock" /\ writer = None
  /\ writer' = t
  /\ Turn(t, [wire[t] EXCEPT !.at = "fetch"])
  /\ UNCHANGED <<tables, firebase, cached, kept, shared>>

\* The write lock, and the check again.
LockToken(t) ==
  /\ wire[t].at = "lock" /\ writer = None
  /\ IF cached = "fresh"
     THEN UNCHANGED writer /\ Turn(t, [wire[t] EXCEPT !.at = "post"])
     ELSE writer' = t /\ Turn(t, [wire[t] EXCEPT !.at = "fetch"])
  /\ UNCHANGED <<tables, firebase, cached, kept, shared>>

\* Google answers with a token that lives long enough, or with one that does not.
Fetched(t) ==
  /\ wire[t].at = "fetch"
  /\ cached' \in {"fresh", "stale"}
  /\ writer' = None
  /\ Turn(t, [wire[t] EXCEPT !.at = "post"])
  /\ UNCHANGED <<tables, firebase, kept, shared>>

\* Or not at all: the guard is dropped, and this push has failed.
FetchFailed(t) ==
  /\ wire[t].at = "fetch"
  /\ writer' = None
  /\ Hang(t)
  /\ UNCHANGED <<tables, firebase, cached, kept, shared>>

----------------------------------------------------------------------------
(* The push.                                                               *)

\* 400 or 404 with one of the codes of a dead token.  One of them, INVALID_ARGUMENT, is
\* also Firebase's answer to a payload it does not take.
Refused(h, n) == h \notin registered \/ n \in oversized

\* A push that failed counts as refused.
WrongPost(t) ==
  /\ wire[t].at \in {"post", "again"}
  /\ \/ wire[t].at = "post" /\ Turn(t, [wire[t] EXCEPT !.at = "again"])
     \/ Turn(t, [wire[t] EXCEPT !.at = "prune"])
  /\ UNCHANGED <<tables, firebase, token, kept, shared>>

\* At most two attempts: an error of the server or of the network is tried again once,
\* and then, as any other answer, ends the push.
Post(t) ==
  /\ wire[t].at \in {"post", "again"}
  /\ \/ wire[t].at = "post" /\ Turn(t, [wire[t] EXCEPT !.at = "again"])
     \/ Refused(wire[t].handle, wire[t].note) /\ Turn(t, [wire[t] EXCEPT !.at = "prune"])
     \/ Hang(t)
  /\ UNCHANGED <<tables, firebase, token, kept, shared>>

\* DELETE by the value of the token, whoever's row it is, and whatever was refused.
Prune(t) == LET rows == {d \in devices : d[2] = wire[t].handle} IN
  /\ wire[t].at = "prune"
  /\ devices' = devices \ rows
  /\ kept' = IF wire[t].note \in oversized THEN kept \ rows ELSE kept
  /\ Hang(t)
  /\ UNCHANGED <<note, for, firebase, token, shared>>

\* A request fails or its client goes away; pushes are tasks of their own.
DropDevice(t) ==
  /\ wire[t].at \in {"insert", "resolve"}
  /\ shared' = IF wire[t].op = "register" THEN shared \cup {wire[t].handle} ELSE shared
  /\ Hang(t)
  /\ UNCHANGED <<tables, firebase, token, kept>>

----------------------------------------------------------------------------
DeviceRequest(u) ==
  \/ \E h \in Handles :
       LoginDevice(u, h) \/ Unregister(u, h) \/ \E t \in Tasks : Evict(t, u, h)
  \/ \E n \in Notes :
       MarkNoteRead(u, n) \/ DeleteNote(u, n) \/ \E t \in Tasks : Record(t, u, n)
  \/ MarkAllRead(u)

DeviceStep(t) ==
  \/ InsertDevice(t) \/ Resolve(t) \/ DropDevice(t)
  \/ \E t2 \in Tasks, h \in Handles : SpawnPush(t, t2, h)

PushStep(t) ==
  \/ ReadToken(t) \/ LockToken(t) \/ Fetched(t) \/ FetchFailed(t)
  \/ Post(t) \/ Prune(t)

DeviceNext ==
  \/ \E u \in Users : DeviceRequest(u)
  \/ \E t \in Tasks : DeviceStep(t) \/ PushStep(t)
  \/ \E h \in Handles : Uninstall(h)
  \/ Age

DeviceSpec == DeviceInit /\ [][DeviceNext]_deviceVars

----------------------------------------------------------------------------
(* Properties.                                                             *)

DeviceTypeOK ==
  /\ devices \subseteq Users \X Handles /\ kept \subseteq Users \X Handles
  /\ note \in [Notes -> {"none", "unread", "read", "gone"}]
  /\ for \in [Notes -> Users \cup {None}]
  /\ registered \subseteq Handles /\ oversized \subseteq Notes /\ shared \subseteq Handles
  /\ cached \in {"none", "fresh", "stale"}
  /\ writer \in Tasks \cup {None}
  /\ wire \in [Tasks -> [op : {"none", "register", "send", "push"},
                         at : {"none", "insert", "resolve", "spawn", "read", "lock", "fetch", "post", "again", "prune"},
                         user : Users \cup {None}, note : Notes \cup {None},
                         handle : Handles \cup {None}, to : SUBSET Handles]]

\* A device belongs to one user at a time, although the row of the former owner is
\* deleted in a statement of its own: unless two registrations of it overlapped or one
\* was dropped, or somebody logged in on it while it was another's.
OneOwner ==
  \A d, d2 \in devices : d[2] = d2[2] /\ d[2] \notin shared => d = d2

\* The row of a device that works stays until its user unregisters it, another
\* registers it, or Firebase does not take a payload for it: neither a push that fails,
\* nor a prune that another user's push to a dead device leads to, takes it away.
WorkingStay ==
  \A d \in kept : d[2] \in registered => d \in devices

\* Of the pushes that found no usable access token at the same time one fetches it,
\* and the others use what it fetched: no request goes to Google while a fresh token
\* is in the cache, or from two tasks at once.
NoNeedlessFetch ==
  \A t \in Tasks : wire[t].at = "fetch" => writer = t /\ cached # "fresh"
=============================================================================
