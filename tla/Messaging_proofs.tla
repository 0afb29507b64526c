--------------------------- MODULE Messaging_proofs ---------------------------
(***************************************************************************)
(* Proofs about the modules that MCMessaging puts side by side, for any    *)
(* number of users, tasks and rows: Devices, PostComment and Chat, each    *)
(* with its inductive invariant, and the four together, with the proofs    *)
(* of Calls_proofs.                                                        *)
(***************************************************************************)
EXTENDS MCMessaging, Calls_proofs, FiniteSetTheorems, TLAPS

----------------------------------------------------------------------------
(*************************************************************************)
(* Devices: OneOwner, WorkingStay and NoNeedlessFetch.  What a task knows*)
(* between two statements: a registration that its user is the owner, a  *)
(* prune that its token or its payload was refused, a fetch that it has  *)
(* the lock.                                                             *)
(*************************************************************************)

WireState == [op : {"none", "register", "send", "push"},
              at : {"none", "insert", "resolve", "spawn", "read", "lock", "fetch", "post", "again", "prune"},
              user : Users \cup {None}, note : Notes \cup {None},
              handle : Handles \cup {None}, to : SUBSET Handles]

Registering(t) == wire[t].at = "insert"

RegistersForSomebody == \A t \in Tasks :
  /\ wire[t].op = "register" <=> Registering(t)
  /\ Registering(t) => wire[t].user \in Users /\ wire[t].handle \in Handles

\* A task prunes the rows of a handle that Firebase has refused: the device, or the payload.
PrunesDead == \A t \in Tasks : wire[t].at = "prune" => Refused(wire[t].handle, wire[t].note)

RegistersAlone == \A t, t2 \in Tasks :
  Registering(t) /\ Registering(t2) /\ wire[t].handle = wire[t2].handle /\ t # t2 => wire[t].handle \in shared

Owns == \A t \in Tasks : Registering(t) /\ wire[t].handle \notin shared =>
  \A d \in devices : d[2] = wire[t].handle => d[1] = wire[t].user

DeviceInv ==
  /\ DeviceTypeOK /\ RegistersForSomebody /\ PrunesDead
  /\ RegistersAlone /\ Owns
  /\ OneOwner /\ WorkingStay /\ NoNeedlessFetch

----------------------------------------------------------------------------
(* Steps that register nothing.                                            *)

LEMMA WireFrame ==
  ASSUME DeviceInv, wire' \in [Tasks -> WireState],
         \A t \in Tasks : wire'[t] = wire[t] \/
           /\ wire'[t].op # "register" /\ wire'[t].at # "insert"
           /\ wire'[t].at = "prune" => Refused(wire'[t].handle, wire'[t].note),
         devices' \subseteq devices, kept' \subseteq Users \X Handles,
         registered' \subseteq registered, oversized \subseteq oversized', oversized' \subseteq Notes, shared \subseteq shared', shared' \subseteq Handles,
         \A d \in kept' : d[2] \in registered' => d \in devices',
         \A t \in Tasks : wire'[t].at = "fetch" => writer' = t /\ cached' # "fresh",
         cached' \in {"none", "fresh", "stale"}, writer' \in Tasks \cup {None},
         note' \in [Notes -> {"none", "unread", "read", "gone"}], for' \in [Notes -> Users \cup {None}]
  PROVE  DeviceInv'
  <1> USE DEF DeviceInv
  <1>1. DeviceTypeOK' BY DEF DeviceTypeOK, WireState
  <1>2. RegistersForSomebody' BY DEF RegistersForSomebody, Registering
  <1>3. PrunesDead'
    <2>1. \A h, n : Refused(h, n) => Refused(h, n)' BY DEF Refused
    <2> QED BY <2>1 DEF PrunesDead
  <1>4. \A t \in Tasks : Registering(t)' => Registering(t) /\ wire'[t] = wire[t] BY DEF Registering
  <1>5. RegistersAlone' BY <1>4 DEF RegistersAlone
  <1>6. Owns' BY <1>4 DEF Owns
  <1>7. OneOwner' BY DEF OneOwner
  <1>8. WorkingStay' /\ NoNeedlessFetch' BY DEF WorkingStay, NoNeedlessFetch
  <1> QED BY <1>1, <1>2, <1>3, <1>5, <1>6, <1>7, <1>8

\* The parts of the invariant that a step leaves as they are, in the form WireFrame asks for.
LEMMA WireFields ==
  ASSUME DeviceInv
  PROVE  /\ kept \subseteq Users \X Handles /\ devices \subseteq Users \X Handles /\ shared \subseteq Handles
         /\ registered \subseteq Handles /\ oversized \subseteq Notes
         /\ \A d \in kept : d[2] \in registered => d \in devices
         /\ \A t \in Tasks : wire[t].at = "fetch" => writer = t /\ cached # "fresh"
         /\ cached \in {"none", "fresh", "stale"} /\ writer \in Tasks \cup {None}
         /\ note \in [Notes -> {"none", "unread", "read", "gone"}] /\ for \in [Notes -> Users \cup {None}]
         /\ wire \in [Tasks -> WireState]
         /\ \A t \in Tasks : wire[t].op = "register" <=> wire[t].at = "insert"
  BY DEF DeviceInv, DeviceTypeOK, WorkingStay, NoNeedlessFetch, RegistersForSomebody, Registering, WireState

LEMMA TurnFacts == ASSUME DeviceInv, NEW t \in Tasks, NEW s \in WireState, Turn(t, s)
                   PROVE  /\ wire' \in [Tasks -> WireState] /\ wire'[t] = s
                          /\ \A t2 \in Tasks \ {t} : wire'[t2] = wire[t2]
  BY DEF Turn, DeviceInv, DeviceTypeOK, WireState

LEMMA QuietIsCalm == /\ Quiet \in WireState /\ Quiet.op = "none" /\ Quiet.at = "none"
  BY DEF Quiet, WireState

\* The task alone takes a step, to a place that is none of the three.
LEMMA WireStep ==
  ASSUME DeviceInv, NEW t \in Tasks, NEW s \in WireState, Turn(t, s), s.op # "register",
         s.at \notin {"insert", "prune", "fetch"},
         UNCHANGED <<devices, registered, cached, writer, kept>>, oversized \subseteq oversized', oversized' \subseteq Notes, shared \subseteq shared', shared' \subseteq Handles,
         note' \in [Notes -> {"none", "unread", "read", "gone"}], for' \in [Notes -> Users \cup {None}]
  PROVE  DeviceInv'
  <1>1. /\ wire' \in [Tasks -> WireState] /\ wire'[t] = s
        /\ \A t2 \in Tasks \ {t} : wire'[t2] = wire[t2]
    BY TurnFacts
  <1>2. \A t2 \in Tasks : wire'[t2].at = "fetch" => writer' = t2 /\ cached' # "fresh"
    BY <1>1, WireFields
  <1>3. \A t2 \in Tasks : wire'[t2] = wire[t2] \/
          /\ wire'[t2].op # "register" /\ wire'[t2].at # "insert"
          /\ wire'[t2].at = "prune" => Refused(wire'[t2].handle, wire'[t2].note)
    BY <1>1
  <1> QED BY <1>1, <1>2, <1>3, WireFields, WireFrame

LEMMA ResolveKeeps == ASSUME DeviceInv, NEW t \in Tasks, Resolve(t) PROVE DeviceInv'
  <1> DEFINE to == {h \in Handles : <<wire[t].user, h>> \in devices}
             s == IF to = {} THEN Quiet ELSE [wire[t] EXCEPT !.at = "spawn", !.to = to]
  <1>1. wire[t].at = "resolve" /\ Turn(t, s) /\ UNCHANGED <<devices, note, for, registered, oversized, cached, writer, kept, shared>>
    BY DEF Resolve, tables, firebase, token
  <1>2. wire[t] \in WireState /\ wire[t].op # "register" BY <1>1, WireFields
  <1>3. s \in WireState /\ s.op # "register" /\ s.at \notin {"insert", "prune", "fetch"}
    BY <1>2, QuietIsCalm DEF WireState
  <1> HIDE DEF s
  <1> QED BY <1>1, <1>3, WireFields, WireStep

LEMMA RecordKeeps == ASSUME DeviceInv, NEW t \in Tasks, NEW u \in Users, NEW n \in Notes, Record(t, u, n)
                     PROVE  DeviceInv'
  <1> DEFINE s == [Quiet EXCEPT !.op = "send", !.at = "resolve", !.user = u, !.note = n]
  <1>1. /\ Turn(t, s) /\ UNCHANGED <<devices, registered, cached, writer, kept, shared>>
        /\ oversized' \in {oversized, oversized \cup {n}} /\ note' = [note EXCEPT ![n] = "unread"] /\ for' = [for EXCEPT ![n] = u]
    BY DEF Record, firebase, token
  <1>2. s \in WireState /\ s.op # "register" /\ s.at \notin {"insert", "prune", "fetch"}
    BY DEF Quiet, WireState
  <1>3. note' \in [Notes -> {"none", "unread", "read", "gone"}] /\ for' \in [Notes -> Users \cup {None}]
    BY <1>1, WireFields
  <1> HIDE DEF s
  <1> QED BY <1>1, <1>2, <1>3, WireFields, WireStep

LEMMA DropDeviceKeeps == ASSUME DeviceInv, NEW t \in Tasks, DropDevice(t) PROVE DeviceInv'
  <1>1. /\ Turn(t, Quiet) /\ UNCHANGED <<devices, note, for, registered, oversized, cached, writer, kept>>
        /\ shared' = IF wire[t].op = "register" THEN shared \cup {wire[t].handle} ELSE shared
    BY DEF DropDevice, Hang, tables, firebase, token
  <1>2. shared \subseteq shared' /\ shared' \subseteq Handles
    BY <1>1, WireFields DEF DeviceInv, RegistersForSomebody
  <1> QED BY <1>1, <1>2, QuietIsCalm, WireFields, WireStep

LEMMA SpawnKeeps == ASSUME DeviceInv, NEW t \in Tasks, NEW t2 \in Tasks, NEW h \in Handles, SpawnPush(t, t2, h)
                    PROVE  DeviceInv'
  <1> DEFINE a == Spawned(wire[t], h)
             b == [Quiet EXCEPT !.op = "push", !.at = "read", !.user = wire[t].user, !.note = wire[t].note, !.handle = h]
  <1>1. /\ wire[t].at = "spawn"
        /\ wire' = [wire EXCEPT ![t] = a, ![t2] = b]
        /\ UNCHANGED <<devices, note, for, registered, oversized, cached, writer, kept, shared>>
    BY DEF SpawnPush, tables, firebase, token
  <1>2. wire[t] \in WireState /\ wire[t].op # "register" BY <1>1, WireFields
  <1>3. a \in WireState /\ a.op # "register" /\ a.at \in {"none", "spawn"}
    BY <1>1, <1>2, QuietIsCalm DEF WireState, Spawned
  <1>4. b \in WireState /\ b.op # "register" /\ b.at = "read"
    BY <1>2 DEF Quiet, WireState
  <1> HIDE DEF a, b
  <1>5. wire' \in [Tasks -> WireState] BY <1>1, <1>3, <1>4, WireFields
  <1>6. ASSUME NEW t3 \in Tasks PROVE wire'[t3] = wire[t3] \/ wire'[t3] = a \/ wire'[t3] = b
    <2>1. CASE t3 = t2 BY <2>1, <1>1, WireFields
    <2>2. CASE t3 # t2 /\ t3 = t BY <2>2, <1>1, WireFields
    <2>3. CASE t3 # t2 /\ t3 # t BY <2>3, <1>1, WireFields
    <2> QED BY <2>1, <2>2, <2>3
  <1>7. \A t3 \in Tasks : wire'[t3] = wire[t3] \/
          /\ wire'[t3].op # "register" /\ wire'[t3].at # "insert"
          /\ wire'[t3].at = "prune" => Refused(wire'[t3].handle, wire'[t3].note)
    BY <1>3, <1>4, <1>6
  <1>8. \A t3 \in Tasks : wire'[t3].at = "fetch" => writer' = t3 /\ cached' # "fresh"
    BY <1>1, <1>3, <1>4, <1>6, WireFields
  <1> QED BY <1>1, <1>5, <1>7, <1>8, WireFields, WireFrame

LEMMA NotesKeep ==
  ASSUME DeviceInv, UNCHANGED <<devices, for, registered, oversized, cached, writer, wire, kept, shared>>,
         note' \in [Notes -> {"none", "unread", "read", "gone"}]
  PROVE  DeviceInv'
  BY WireFields, WireFrame

LEMMA ReadNoteKeeps == ASSUME DeviceInv, NEW u \in Users, NEW n \in Notes,
                          MarkNoteRead(u, n) \/ DeleteNote(u, n)
                   PROVE  DeviceInv'
  <1>1. UNCHANGED <<devices, for, registered, oversized, cached, writer, wire, kept, shared>>
    BY DEF MarkNoteRead, DeleteNote, firebase, token
  <1>2. note' \in [Notes -> {"none", "unread", "read", "gone"}]
    BY WireFields DEF MarkNoteRead, DeleteNote
  <1> QED BY <1>1, <1>2, NotesKeep

LEMMA MarkAllKeeps == ASSUME DeviceInv, NEW u \in Users, MarkAllRead(u) PROVE DeviceInv'
  <1>1. UNCHANGED <<devices, for, registered, oversized, cached, writer, wire, kept, shared>>
    BY DEF MarkAllRead, firebase, token
  <1>2. note' \in [Notes -> {"none", "unread", "read", "gone"}] BY WireFields DEF MarkAllRead
  <1> QED BY <1>1, <1>2, NotesKeep

----------------------------------------------------------------------------
(* The access token.                                                       *)

LEMMA AgeKeeps == ASSUME DeviceInv, Age PROVE DeviceInv'
  <1>1. cached' = "stale" /\ UNCHANGED <<devices, note, for, registered, oversized, writer, wire, kept, shared>>
    BY DEF Age, firebase, tables
  <1> QED BY <1>1, WireFields, WireFrame

LEMMA ReadTokenKeeps == ASSUME DeviceInv, NEW t \in Tasks, ReadToken(t) PROVE DeviceInv'
  <1> DEFINE s == [wire[t] EXCEPT !.at = IF cached = "fresh" THEN "post" ELSE "lock"]
  <1>1. wire[t].at = "read" /\ Turn(t, s) /\ UNCHANGED <<devices, note, for, registered, oversized, cached, writer, kept, shared>>
    BY DEF ReadToken, tables, firebase, token
  <1>2. wire[t] \in WireState /\ wire[t].op # "register" BY <1>1, WireFields
  <1>3. s \in WireState /\ s.op # "register" /\ s.at \notin {"insert", "prune", "fetch"}
    BY <1>2 DEF WireState
  <1> HIDE DEF s
  <1> QED BY <1>1, <1>3, WireFields, WireStep

\* Nobody fetches while the lock is free.
LEMMA FreeLock == ASSUME DeviceInv, writer = None PROVE \A t \in Tasks : wire[t].at # "fetch"
  BY WireFields, ServiceAssumption

LEMMA LockKeeps == ASSUME DeviceInv, NEW t \in Tasks, LockToken(t) PROVE DeviceInv'
  <1>1. wire[t].at = "lock" /\ writer = None /\ UNCHANGED <<devices, note, for, registered, oversized, cached, kept, shared>>
    BY DEF LockToken, firebase, tables
  <1>2. wire[t] \in WireState /\ wire[t].op # "register" BY <1>1, WireFields
  <1>3. CASE cached = "fresh"
    <2> DEFINE s == [wire[t] EXCEPT !.at = "post"]
    <2>1. Turn(t, s) /\ UNCHANGED writer BY <1>3 DEF LockToken
    <2>2. s \in WireState /\ s.op # "register" /\ s.at \notin {"insert", "prune", "fetch"}
      BY <1>2 DEF WireState
    <2> HIDE DEF s
    <2> QED BY <1>1, <2>1, <2>2, WireFields, WireStep
  <1>4. CASE cached # "fresh"
    <2> DEFINE s == [wire[t] EXCEPT !.at = "fetch"]
    <2>1. Turn(t, s) /\ writer' = t BY <1>4 DEF LockToken
    <2>2. s \in WireState /\ s.op # "register" /\ s.at = "fetch" BY <1>2 DEF WireState
    <2> HIDE DEF s
    <2>3. /\ wire' \in [Tasks -> WireState] /\ wire'[t] = s
          /\ \A t2 \in Tasks \ {t} : wire'[t2] = wire[t2]
      BY <2>1, <2>2, TurnFacts
    <2>4. \A t2 \in Tasks : wire'[t2].at = "fetch" => writer' = t2 /\ cached' # "fresh"
      BY <1>1, <1>4, <2>1, <2>3, FreeLock
    <2>5. \A t2 \in Tasks : wire'[t2] = wire[t2] \/
            /\ wire'[t2].op # "register" /\ wire'[t2].at # "insert"
            /\ wire'[t2].at = "prune" => Refused(wire'[t2].handle, wire'[t2].note)
      BY <2>2, <2>3
    <2> QED BY <1>1, <2>1, <2>3, <2>4, <2>5, WireFields, WireFrame
  <1> QED BY <1>3, <1>4

LEMMA FetchKeeps == ASSUME DeviceInv, NEW t \in Tasks, Fetched(t) \/ FetchFailed(t) PROVE DeviceInv'
  <1>1. PICK s \in {Quiet, [wire[t] EXCEPT !.at = "post"]} :
          /\ wire[t].at = "fetch" /\ Turn(t, s) /\ writer' = None
          /\ cached' \in {"fresh", "stale", cached}
          /\ UNCHANGED <<devices, note, for, registered, oversized, kept, shared>>
    BY DEF Fetched, FetchFailed, Hang, firebase, tables
  <1>2. wire[t] \in WireState /\ wire[t].op # "register" /\ writer = t BY <1>1, WireFields
  <1>3. [wire[t] EXCEPT !.at = "post"] \in WireState /\ [wire[t] EXCEPT !.at = "post"].op # "register"
        /\ [wire[t] EXCEPT !.at = "post"].at = "post"
    BY <1>2 DEF WireState
  <1>4. s \in WireState /\ s.op # "register" /\ s.at \in {"none", "post"} BY <1>3, QuietIsCalm
  <1>5. /\ wire' \in [Tasks -> WireState] /\ wire'[t] = s
        /\ \A t2 \in Tasks \ {t} : wire'[t2] = wire[t2]
    BY <1>1, <1>4, TurnFacts
  <1>6. \A t2 \in Tasks : wire'[t2].at # "fetch" BY <1>2, <1>4, <1>5, WireFields
  <1>7. \A t2 \in Tasks : wire'[t2] = wire[t2] \/
          /\ wire'[t2].op # "register" /\ wire'[t2].at # "insert"
          /\ wire'[t2].at = "prune" => Refused(wire'[t2].handle, wire'[t2].note)
    BY <1>4, <1>5
  <1>8. cached' \in {"none", "fresh", "stale"} BY <1>1, WireFields
  <1> QED BY <1>1, <1>5, <1>6, <1>7, <1>8, WireFields, WireFrame

----------------------------------------------------------------------------
(* Pushes and prunes.                                                      *)

LEMMA PostKeeps == ASSUME DeviceInv, NEW t \in Tasks, Post(t) PROVE DeviceInv'
  <1>1. /\ wire[t].at \in {"post", "again"}
        /\ UNCHANGED <<devices, note, for, registered, oversized, cached, writer, kept, shared>>
    BY DEF Post, tables, firebase, token
  <1>2. wire[t] \in WireState /\ wire[t].op # "register" BY <1>1, WireFields
  <1>3. CASE Turn(t, [wire[t] EXCEPT !.at = "again"])
    <2> DEFINE s == [wire[t] EXCEPT !.at = "again"]
    <2>1. Turn(t, s) BY <1>3
    <2>2. s \in WireState /\ s.op # "register" /\ s.at \notin {"insert", "prune", "fetch"}
      BY <1>2 DEF WireState
    <2> HIDE DEF s
    <2> QED BY <1>1, <2>1, <2>2, WireFields, WireStep
  <1>4. CASE Refused(wire[t].handle, wire[t].note) /\ Turn(t, [wire[t] EXCEPT !.at = "prune"])
    <2> DEFINE s == [wire[t] EXCEPT !.at = "prune"]
    <2>1. Turn(t, s) /\ Refused(wire[t].handle, wire[t].note) BY <1>4
    <2>2. s \in WireState /\ s.op # "register" /\ s.at = "prune" /\ s.handle = wire[t].handle /\ s.note = wire[t].note
      BY <1>2 DEF WireState
    <2> HIDE DEF s
    <2>3. /\ wire' \in [Tasks -> WireState] /\ wire'[t] = s
          /\ \A t2 \in Tasks \ {t} : wire'[t2] = wire[t2]
      BY <2>1, <2>2, TurnFacts
    <2>4. \A t2 \in Tasks : wire'[t2].at = "fetch" => writer' = t2 /\ cached' # "fresh"
      BY <1>1, <2>2, <2>3, WireFields
    <2>5. \A t2 \in Tasks : wire'[t2] = wire[t2] \/
            /\ wire'[t2].op # "register" /\ wire'[t2].at # "insert"
            /\ wire'[t2].at = "prune" => Refused(wire'[t2].handle, wire'[t2].note)
      BY <2>1, <2>2, <2>3
    <2> QED BY <1>1, <2>3, <2>4, <2>5, WireFields, WireFrame
  <1>5. CASE Hang(t) BY <1>1, <1>5, QuietIsCalm, WireFields, WireStep DEF Hang
  <1> QED BY <1>3, <1>4, <1>5 DEF Post

\* The task is through and has touched neither the cache nor the lock.
LEMMA Hanging ==
  ASSUME DeviceInv, NEW t \in Tasks, Hang(t), UNCHANGED <<cached, writer>>
  PROVE  /\ wire' \in [Tasks -> WireState] /\ wire'[t] = Quiet
         /\ \A t2 \in Tasks \ {t} : wire'[t2] = wire[t2]
         /\ \A t2 \in Tasks : wire'[t2].at = "fetch" => writer' = t2 /\ cached' # "fresh"
         /\ \A t2 \in Tasks : wire'[t2] = wire[t2] \/
              /\ wire'[t2].op # "register" /\ wire'[t2].at # "insert"
              /\ wire'[t2].at = "prune" => Refused(wire'[t2].handle, wire'[t2].note)
  <1>1. /\ wire' \in [Tasks -> WireState] /\ wire'[t] = Quiet
        /\ \A t2 \in Tasks \ {t} : wire'[t2] = wire[t2]
    BY QuietIsCalm, TurnFacts DEF Hang
  <1> QED BY <1>1, QuietIsCalm, WireFields

LEMMA PruneKeeps == ASSUME DeviceInv, NEW t \in Tasks, Prune(t) PROVE DeviceInv'
  <1>1. /\ wire[t].at = "prune" /\ devices' = devices \ {d \in devices : d[2] = wire[t].handle}
        /\ kept' = IF wire[t].note \in oversized THEN kept \ {d \in devices : d[2] = wire[t].handle} ELSE kept
        /\ Hang(t) /\ UNCHANGED <<note, for, registered, oversized, cached, writer, shared>>
    BY DEF Prune, firebase, token
  <1>2. wire[t].handle \notin registered \/ wire[t].note \in oversized BY <1>1 DEF DeviceInv, PrunesDead, Refused
  <1>3. kept' \subseteq kept /\ \A d \in kept' : d[2] \in registered' => d \in devices' BY <1>1, <1>2, WireFields
  <1>4. devices' \subseteq devices BY <1>1
  <1> QED BY <1>1, <1>3, <1>4, Hanging, WireFields, WireFrame

LEMMA UninstallKeeps == ASSUME DeviceInv, NEW h \in Handles, Uninstall(h) PROVE DeviceInv'
  <1>1. /\ registered' = registered \ {h}
        /\ UNCHANGED <<devices, note, for, oversized, cached, writer, wire, kept, shared>>
    BY DEF Uninstall, tables, firebase, token
  <1>2. registered' \subseteq registered BY <1>1
  <1>3. \A d \in kept' : d[2] \in registered' => d \in devices' BY <1>1, WireFields
  <1> QED BY <1>1, <1>2, <1>3, WireFields, WireFrame

----------------------------------------------------------------------------
(* The rows of devices.                                                    *)

LEMMA UnregisterKeeps == ASSUME DeviceInv, NEW u \in Users, NEW h \in Handles, Unregister(u, h)
                         PROVE  DeviceInv'
  <1>1. /\ devices' = devices \ {<<u, h>>} /\ kept' = kept \ {<<u, h>>}
        /\ UNCHANGED <<note, for, registered, oversized, cached, writer, wire, shared>>
    BY DEF Unregister, firebase, token
  <1>2. /\ devices' \subseteq devices /\ kept' \subseteq Users \X Handles
        /\ \A d \in kept' : d[2] \in registered' => d \in devices'
    BY <1>1, WireFields
  <1> QED BY <1>1, <1>2, WireFields, WireFrame

LEMMA EvictKeeps == ASSUME DeviceInv, NEW t \in Tasks, NEW u \in Users, NEW h \in Handles, Evict(t, u, h)
                    PROVE  DeviceInv'
  <1> USE DEF DeviceInv
  <1> DEFINE s == [Quiet EXCEPT !.op = "register", !.at = "insert", !.user = u, !.handle = h]
  <1>1. /\ wire[t] = Quiet /\ devices' = devices \ Others(u, h) /\ kept' = kept \ Others(u, h)
        /\ shared' = Meet(h) /\ Turn(t, s)
        /\ UNCHANGED <<note, for, registered, oversized, cached, writer>>
    BY DEF Evict, firebase, token
  <1>2. /\ s \in WireState /\ s.op = "register" /\ s.at = "insert" /\ s.user = u /\ s.handle = h
    BY DEF Quiet, WireState
  <1> HIDE DEF s
  <1>3. /\ wire' \in [Tasks -> WireState] /\ wire'[t] = s
        /\ \A t2 \in Tasks \ {t} : wire'[t2] = wire[t2]
    BY <1>1, <1>2, TurnFacts
  <1>4. shared \subseteq shared' /\ shared' \subseteq Handles BY <1>1, WireFields DEF Meet
  <1>5. devices' \subseteq devices /\ kept' \subseteq kept BY <1>1
  <1>6. DeviceTypeOK' BY <1>1, <1>3, <1>4, <1>5, WireFields DEF DeviceTypeOK, WireState
  <1>7. RegistersForSomebody' BY <1>2, <1>3 DEF RegistersForSomebody, Registering
  <1>8. PrunesDead' BY <1>1, <1>2, <1>3 DEF PrunesDead, Refused
  <1>9. \A t2 \in Tasks : Registering(t2) /\ wire[t2].handle = h => h \in shared'
    BY <1>1 DEF Meet, RegistersForSomebody
  <1>10. \A t2 \in Tasks \ {t} : Registering(t2)' <=> Registering(t2) BY <1>3 DEF Registering
  <1>11. RegistersAlone' BY <1>2, <1>3, <1>4, <1>9, <1>10 DEF RegistersAlone
  <1>12. \A d \in devices' : d[2] = h => d[1] = u BY <1>1 DEF Others
  <1>13. Owns' BY <1>2, <1>3, <1>4, <1>5, <1>10, <1>12 DEF Owns
  <1>14. OneOwner' BY <1>4, <1>5 DEF OneOwner
  <1>15. WorkingStay' BY <1>1 DEF WorkingStay
  <1>16. NoNeedlessFetch' BY <1>1, <1>2, <1>3 DEF NoNeedlessFetch
  <1> QED BY <1>6, <1>7, <1>8, <1>11, <1>13, <1>14, <1>15, <1>16

LEMMA InsertDeviceKeeps == ASSUME DeviceInv, NEW t \in Tasks, InsertDevice(t) PROVE DeviceInv'
  <1> USE DEF DeviceInv
  <1> DEFINE u == wire[t].user
             h == wire[t].handle
  <1>1. /\ Registering(t) /\ devices' = devices \cup {<<u, h>>} /\ kept' = kept \cup {<<u, h>>}
        /\ Hang(t) /\ UNCHANGED <<note, for, registered, oversized, cached, writer, shared>>
    BY DEF InsertDevice, firebase, token, Registering
  <1>2. u \in Users /\ h \in Handles BY <1>1 DEF RegistersForSomebody
  <1>3. /\ wire' \in [Tasks -> WireState] /\ wire'[t] = Quiet
        /\ \A t2 \in Tasks \ {t} : wire'[t2] = wire[t2]
    BY <1>1, QuietIsCalm, TurnFacts DEF Hang
  <1>4. h \notin shared => \A d \in devices : d[2] = h => d[1] = u BY <1>1 DEF Owns
  <1>5. \A t2 \in Tasks \ {t} : Registering(t2) /\ wire[t2].handle = h => h \in shared
    BY <1>1 DEF RegistersAlone
  <1> HIDE DEF u, h
  <1>6. DeviceTypeOK' BY <1>1, <1>2, <1>3, WireFields DEF DeviceTypeOK, WireState
  <1>7. RegistersForSomebody' BY <1>3, QuietIsCalm DEF RegistersForSomebody, Registering
  <1>8. PrunesDead' BY <1>1, <1>3, QuietIsCalm DEF PrunesDead, Refused
  <1>9. \A t2 \in Tasks : Registering(t2)' => t2 # t /\ Registering(t2) /\ wire'[t2] = wire[t2]
    BY <1>3, QuietIsCalm DEF Registering
  <1>10. RegistersAlone' BY <1>1, <1>9 DEF RegistersAlone
  <1>11. ASSUME NEW t2 \in Tasks, Registering(t2)', wire'[t2].handle \notin shared',
                NEW d \in devices', d[2] = wire'[t2].handle
         PROVE  d[1] = wire'[t2].user
    <2>1. Registering(t2) /\ wire'[t2] = wire[t2] /\ wire[t2].handle # h BY <1>1, <1>5, <1>9, <1>11
    <2>2. d \in devices BY <1>1, <1>11, <2>1
    <2> QED BY <1>1, <1>11, <2>1, <2>2 DEF Owns
  <1>12. Owns' BY <1>11 DEF Owns
  <1>13. OneOwner'
    <2> SUFFICES ASSUME NEW d \in devices', NEW d2 \in devices', d[2] = d2[2], d[2] \notin shared
                 PROVE  d = d2
      BY <1>1 DEF OneOwner
    <2>1. d = <<d[1], d[2]>> /\ d2 = <<d2[1], d2[2]>> BY <1>6 DEF DeviceTypeOK
    <2>2. CASE d[2] = h BY <1>1, <1>4, <2>1, <2>2
    <2>3. CASE d[2] # h BY <1>1, <2>3 DEF OneOwner
    <2> QED BY <2>2, <2>3
  <1>14. WorkingStay' BY <1>1 DEF WorkingStay
  <1>15. NoNeedlessFetch' BY <1>1, <1>3, QuietIsCalm DEF NoNeedlessFetch
  <1> QED BY <1>6, <1>7, <1>8, <1>10, <1>12, <1>13, <1>14, <1>15

LEMMA LoginDeviceKeeps == ASSUME DeviceInv, NEW u \in Users, NEW h \in Handles, LoginDevice(u, h)
                    PROVE  DeviceInv'
  <1> USE DEF DeviceInv
  <1>1. /\ devices' = devices \cup {<<u, h>>} /\ kept' = kept \cup {<<u, h>>}
        /\ shared' = (IF Others(u, h) # {} THEN shared \cup {h} ELSE Meet(h))
        /\ UNCHANGED <<note, for, registered, oversized, cached, writer, wire>>
    BY DEF LoginDevice, firebase, token
  <1>2. shared \subseteq shared' /\ shared' \subseteq Handles BY <1>1, WireFields DEF Meet
  <1>3. \A t \in Tasks : Registering(t) /\ wire[t].handle = h => h \in shared'
    BY <1>1 DEF Meet, RegistersForSomebody
  <1>4. DeviceTypeOK' BY <1>1, <1>2, WireFields DEF DeviceTypeOK, WireState
  <1>5. RegistersForSomebody' /\ PrunesDead' BY <1>1 DEF RegistersForSomebody, Registering, PrunesDead, Refused
  <1>6. \A t \in Tasks : Registering(t)' <=> Registering(t) BY <1>1 DEF Registering
  <1>7. RegistersAlone' BY <1>1, <1>2, <1>6 DEF RegistersAlone
  <1>8. ASSUME NEW t \in Tasks, Registering(t)', wire'[t].handle \notin shared',
               NEW d \in devices', d[2] = wire'[t].handle
        PROVE  d[1] = wire'[t].user
    <2>1. Registering(t) /\ wire[t].handle # h BY <1>1, <1>3, <1>6, <1>8
    <2>2. d \in devices BY <1>1, <1>8, <2>1
    <2> QED BY <1>1, <1>2, <1>8, <2>1, <2>2 DEF Owns
  <1>9. Owns' BY <1>8 DEF Owns
  <1>10. OneOwner'
    <2> SUFFICES ASSUME NEW d \in devices', NEW d2 \in devices', d[2] = d2[2], d[2] \notin shared'
                 PROVE  d = d2
      BY DEF OneOwner
    <2>1. d = <<d[1], d[2]>> /\ d2 = <<d2[1], d2[2]>> BY <1>4 DEF DeviceTypeOK
    <2>2. CASE d[2] = h
      <3>1. Others(u, h) = {} BY <1>1, <2>2
      <3> QED BY <1>1, <2>1, <2>2, <3>1 DEF Others
    <2>3. CASE d[2] # h BY <1>1, <1>2, <2>3 DEF OneOwner
    <2> QED BY <2>2, <2>3
  <1>11. WorkingStay' BY <1>1 DEF WorkingStay
  <1>12. NoNeedlessFetch' BY <1>1 DEF NoNeedlessFetch
  <1> QED BY <1>4, <1>5, <1>7, <1>9, <1>10, <1>11, <1>12

----------------------------------------------------------------------------
LEMMA DeviceInitHolds == DeviceInit => DeviceInv
  <1> SUFFICES ASSUME DeviceInit PROVE DeviceInv OBVIOUS
  <1>1. wire \in [Tasks -> WireState] /\ \A t \in Tasks : wire[t] = Quiet
    BY QuietIsCalm DEF DeviceInit
  <1>2. DeviceTypeOK BY <1>1 DEF DeviceInit, DeviceTypeOK, WireState
  <1>3. \A t \in Tasks : wire[t].op = "none" /\ wire[t].at = "none" BY <1>1, QuietIsCalm
  <1>4. RegistersForSomebody /\ PrunesDead /\ RegistersAlone /\ Owns
    BY <1>3 DEF RegistersForSomebody, Registering, PrunesDead, RegistersAlone, Owns
  <1>5. OneOwner /\ WorkingStay /\ NoNeedlessFetch
    BY <1>3 DEF DeviceInit, OneOwner, WorkingStay, NoNeedlessFetch
  <1> QED BY <1>2, <1>4, <1>5 DEF DeviceInv

LEMMA DeviceRequestKeeps == ASSUME DeviceInv, NEW u \in Users, DeviceRequest(u) PROVE DeviceInv'
  <1>1. CASE \E h \in Handles : LoginDevice(u, h) \/ Unregister(u, h) BY <1>1, LoginDeviceKeeps, UnregisterKeeps
  <1>2. CASE \E h \in Handles, t \in Tasks : Evict(t, u, h) BY <1>2, EvictKeeps
  <1>3. CASE \E n \in Notes : MarkNoteRead(u, n) \/ DeleteNote(u, n) BY <1>3, ReadNoteKeeps
  <1>4. CASE \E n \in Notes, t \in Tasks : Record(t, u, n) BY <1>4, RecordKeeps
  <1>5. CASE MarkAllRead(u) BY <1>5, MarkAllKeeps
  <1> QED BY <1>1, <1>2, <1>3, <1>4, <1>5 DEF DeviceRequest

LEMMA WireTaskKeeps == ASSUME DeviceInv, NEW t \in Tasks, DeviceStep(t) \/ PushStep(t) PROVE DeviceInv'
  <1>1. CASE InsertDevice(t) \/ Resolve(t) \/ DropDevice(t) BY <1>1, InsertDeviceKeeps, ResolveKeeps, DropDeviceKeeps
  <1>2. CASE \E t2 \in Tasks, h \in Handles : SpawnPush(t, t2, h) BY <1>2, SpawnKeeps
  <1>3. CASE ReadToken(t) \/ LockToken(t) BY <1>3, ReadTokenKeeps, LockKeeps
  <1>4. CASE Fetched(t) \/ FetchFailed(t) BY <1>4, FetchKeeps
  <1>5. CASE Post(t) \/ Prune(t) BY <1>5, PostKeeps, PruneKeeps
  <1> QED BY <1>1, <1>2, <1>3, <1>4, <1>5 DEF DeviceStep, PushStep

LEMMA DeviceStutterKeeps == DeviceInv /\ UNCHANGED deviceVars => DeviceInv'
  <1> SUFFICES ASSUME DeviceInv, UNCHANGED deviceVars PROVE DeviceInv' OBVIOUS
  <1>1. UNCHANGED <<devices, note, for, registered, oversized, cached, writer, wire, kept, shared>>
    BY DEF deviceVars, tables, firebase, token
  <1> QED BY <1>1, WireFields, WireFrame

LEMMA DeviceStepKeeps == DeviceInv /\ [DeviceNext]_deviceVars => DeviceInv'
  <1> SUFFICES ASSUME DeviceInv, DeviceNext PROVE DeviceInv' BY DeviceStutterKeeps
  <1>1. CASE \E u \in Users : DeviceRequest(u) BY <1>1, DeviceRequestKeeps
  <1>2. CASE \E t \in Tasks : DeviceStep(t) \/ PushStep(t) BY <1>2, WireTaskKeeps
  <1>3. CASE \E h \in Handles : Uninstall(h) BY <1>3, UninstallKeeps
  <1>4. CASE Age BY <1>4, AgeKeeps
  <1> QED BY <1>1, <1>2, <1>3, <1>4 DEF DeviceNext

\* The rows of devices and notifications, the cache and its lock, and the tasks stay in
\* DeviceInv: what a registration, a prune and a fetch rely on between two statements.
THEOREM DeviceInvariance == DeviceSpec => []DeviceInv
  BY DeviceInitHolds, DeviceStepKeeps, PTL DEF DeviceSpec

\* A device has one owner, whatever the interleaving of register_device's two statements
\* with everything that does not meet it on the same handle.
THEOREM OwnedByOne == DeviceSpec => []OneOwner
  BY DeviceInvariance, PTL DEF DeviceInv

\* Neither a failed push nor the prune by the value of a token, which may be another
\* user's row by then, takes away the row of a device that works, unless Firebase has
\* refused the payload (the code takes INVALID_ARGUMENT for a dead token).
THEOREM WorkingRemain == DeviceSpec => []WorkingStay
  BY DeviceInvariance, PTL DEF DeviceInv

\* The check that get_access_token makes again under the write lock spares every fetch
\* but the one that is needed.
THEOREM FetchedOnce == DeviceSpec => []NoNeedlessFetch
  BY DeviceInvariance, PTL DEF DeviceInv

----------------------------------------------------------------------------
(*************************************************************************)
(* PostComment: CommentSettles.  A request that is alone with its kind has*)
(* counted what it will leave, a version still to be told of is the      *)
(* content, and the row belongs to whoever is about to commit.           *)
(*************************************************************************)

WorkStates == [op : {"none", "like", "unlike", "add", "edit"},
               at : {"none", "insert", "delete", "count", "update", "commit", "tell"},
               user : Users \cup {None}, change : {"none", "add", "drop"},
               count : 0..Cardinality(Users), says : Wordings \cup {None}, alone : BOOLEAN]

\* The row, column by column.
CommentTypes ==
  /\ comment \in {"none", "there", "gone"} /\ commenter \in Users \cup {None}
  /\ content \in Wordings \cup {None} /\ shown \in Wordings \cup {None}
  /\ like_count \in 0..Cardinality(Users) /\ liked \subseteq Users
  /\ row_lock \in Tasks \cup {None} /\ mixed \subseteq {"likes", "edits"}

\* A request about likes, the creation, or an edit, at one of its own statements.
WorkFits(w) ==
  /\ w.op = "none" => w = NoWork
  /\ w.op # "none" => w.user \in Users
  /\ w.op \in {"like", "unlike"} => w.at \in {"insert", "delete", "count", "update", "commit"}
  /\ w.op = "edit" => w.at \in {"update", "commit", "tell"} /\ w.change = "none"
  /\ w.op = "add" => w.at = "tell" /\ w.change = "none"

AloneIs == \A t, t2 \in Tasks :
  work[t].alone /\ work[t2].op # "none" /\ Kind(work[t2].op) = Kind(work[t].op) => t2 = t

\* Whoever has written the row of the comment is about to commit, and nobody is
\* without it while the comment is there.
LockFits == \A t \in Tasks :
  /\ row_lock = t => work[t].at = "commit" /\ comment = "there"
  /\ work[t].at = "commit" => row_lock = t \/ comment = "gone"
  /\ work[t].op # "none" => comment # "none"

\* What a request on its own has counted is what it will leave.
LikesFit == comment # "gone" =>
  /\ "likes" \in mixed \/ like_count = Cardinality(liked)
  /\ \A t \in Tasks : work[t].alone /\ work[t].op \in {"like", "unlike"} /\ work[t].at \in {"update", "commit"} =>
       work[t].count = Cardinality(Seen(t))

\* One version at most is still to be told, and it is the content of the comment.
EditsFit == comment # "gone" /\ "edits" \notin mixed =>
  /\ \A t \in Tasks : work[t].at = "tell" => work[t].says = content
  /\ \A t, t2 \in Tasks : work[t].at = "tell" /\ work[t2].at = "tell" => t = t2
  /\ (\A t \in Tasks : work[t].at # "tell") => shown = content

CommentInv == /\ CommentTypeOK /\ (\A t \in Tasks : WorkFits(work[t]))
              /\ AloneIs /\ LockFits /\ LikesFit /\ EditsFit

LEMMA CommentFacts ==
  ASSUME CommentInv, NEW t \in Tasks
  PROVE  CommentTypes /\ work \in [Tasks -> WorkStates] /\ work[t] \in WorkStates /\ WorkFits(work[t])
  <1>1. CommentTypes BY DEF CommentInv, CommentTypeOK, CommentTypes
  <1>2. work \in [Tasks -> WorkStates] BY DEF CommentInv, CommentTypeOK, WorkStates
  <1> QED BY <1>1, <1>2 DEF CommentInv

LEMMA CommentTypesNext == ASSUME CommentTypes', work' \in [Tasks -> WorkStates] PROVE CommentTypeOK'
  BY DEF CommentTypeOK, CommentTypes, WorkStates

\* Numbers of likes are numbers of users.
LEMMA LikesCounted ==
  ASSUME NEW S \in SUBSET Users
  PROVE  Cardinality(S) \in 0..Cardinality(Users)
  <1>1. IsFiniteSet(S) /\ Cardinality(S) <= Cardinality(Users) BY CommentAssumption, FS_Subset
  <1>2. Cardinality(S) \in Nat /\ Cardinality(Users) \in Nat BY <1>1, CommentAssumption, FS_CardinalityType
  <1> QED BY <1>1, <1>2

LEMMA NoWorkIs == /\ NoWork \in WorkStates /\ WorkFits(NoWork)
                  /\ NoWork.op = "none" /\ NoWork.at = "none" /\ NoWork.user = None
                  /\ NoWork.change = "none" /\ NoWork.alone = FALSE
  <1>1. 0 \in 0..Cardinality(Users)
    <2>1. Cardinality(Users) \in Nat BY CommentAssumption, FS_CardinalityType
    <2> QED BY <2>1
  <1> QED BY <1>1 DEF NoWork, WorkStates, WorkFits

LEMMA SeenIsUsers == ASSUME CommentInv, NEW t \in Tasks, work[t].op # "none" PROVE Seen(t) \subseteq Users
  BY CommentFacts DEF Seen, CommentTypes, WorkFits

\* A step of task t.
LEMMA NewWork ==
  ASSUME CommentInv, NEW t \in Tasks, NEW w \in WorkStates, work' = [work EXCEPT ![t] = w], WorkFits(w)
  PROVE  /\ work' \in [Tasks -> WorkStates] /\ work'[t] = w
         /\ \A t2 \in Tasks \ {t} : work'[t2] = work[t2]
         /\ \A t2 \in Tasks : WorkFits(work'[t2])
  <1>1. work' \in [Tasks -> WorkStates] /\ work'[t] = w /\ \A t2 \in Tasks \ {t} : work'[t2] = work[t2]
    BY CommentFacts
  <1>2. \A t2 \in Tasks : WorkFits(work'[t2]) BY <1>1 DEF CommentInv
  <1> QED BY <1>1, <1>2



\* Who was alone with his kind still is.
LEMMA AloneStays ==
  ASSUME CommentInv, NEW t \in Tasks, NEW w \in WorkStates, work' = [work EXCEPT ![t] = w], WorkFits(w),
         w.op \in {work[t].op, "none"}, w.alone => work[t].alone /\ w.op = work[t].op
  PROVE  AloneIs'
  <1>1. work'[t] = w /\ \A t2 \in Tasks \ {t} : work'[t2] = work[t2] BY NewWork
  <1>2. \A t2 \in Tasks : work'[t2].op \in {work[t2].op, "none"} BY <1>1
  <1>3. \A t2 \in Tasks : work'[t2].alone => work[t2].alone /\ work'[t2].op = work[t2].op BY <1>1
  <1> SUFFICES ASSUME NEW t2 \in Tasks, NEW t3 \in Tasks,
                      work'[t2].alone, work'[t3].op # "none", Kind(work'[t3].op) = Kind(work'[t2].op)
               PROVE  t3 = t2
    BY DEF AloneIs
  <1>4. work'[t3].op = work[t3].op /\ work'[t2].op = work[t2].op BY <1>2, <1>3
  <1> QED BY <1>3, <1>4 DEF CommentInv, AloneIs

\* A step that writes neither the comment nor the event, of a task that is not about to tell.
LEMMA QuietStep ==
  ASSUME CommentInv, NEW t \in Tasks, NEW w \in WorkStates, work' = [work EXCEPT ![t] = w], WorkFits(w),
         w.op \in {work[t].op, "none"}, w.alone => work[t].alone /\ w.op = work[t].op,
         UNCHANGED <<comment, commenter, content, like_count, liked, shown, mixed>>,
         row_lock' \in Tasks \cup {None}, LockFits',
         work[t].at # "tell", w.at # "tell",
         w.alone /\ w.op \in {"like", "unlike"} /\ w.at \in {"update", "commit"} => w.count = Cardinality(Seen(t)')
  PROVE  CommentInv'
  <1>1. /\ work' \in [Tasks -> WorkStates] /\ work'[t] = w
        /\ \A t2 \in Tasks \ {t} : work'[t2] = work[t2]
        /\ \A t2 \in Tasks : WorkFits(work'[t2])
    BY NewWork
  <1>2. CommentTypeOK'
    <2>1. CommentTypes' BY CommentFacts DEF CommentTypes
    <2> QED BY <1>1, <2>1, CommentTypesNext
  <1>3. AloneIs' BY AloneStays
  <1>4. LikesFit'
    <2> SUFFICES ASSUME comment # "gone" PROVE LikesFit' BY DEF LikesFit
    <2>1. \A t2 \in Tasks \ {t} : Seen(t2)' = Seen(t2) BY <1>1 DEF Seen
    <2>2. \A t2 \in Tasks \ {t} : work[t2].alone /\ work[t2].op \in {"like", "unlike"} /\ work[t2].at \in {"update", "commit"} =>
            work[t2].count = Cardinality(Seen(t2)')
      BY <2>1 DEF CommentInv, LikesFit
    <2> QED BY <1>1, <2>2 DEF CommentInv, LikesFit
  <1>5. EditsFit'
    <2>1. \A t2 \in Tasks : (work'[t2].at = "tell") <=> (work[t2].at = "tell") BY <1>1
    <2>2. \A t2 \in Tasks : work[t2].at = "tell" => work'[t2] = work[t2] BY <1>1
    <2> QED BY <2>1, <2>2 DEF CommentInv, EditsFit
  <1> QED BY <1>1, <1>2, <1>3, <1>4, <1>5 DEF CommentInv

\* The lock of a step that neither takes nor gives it, nor comes to its commit.
LEMMA LockStays ==
  ASSUME CommentInv, NEW t \in Tasks, NEW w \in WorkStates, work' = [work EXCEPT ![t] = w], WorkFits(w),
         UNCHANGED <<comment, row_lock>>, w.at # "commit", row_lock # t, work[t].op # "none"
  PROVE  LockFits'
  <1>1. work'[t] = w /\ \A t2 \in Tasks \ {t} : work'[t2] = work[t2] BY NewWork
  <1> QED BY <1>1 DEF CommentInv, LockFits

LEMMA InsertLikeKeeps == ASSUME CommentInv, NEW t \in Tasks, InsertLike(t) PROVE CommentInv'
  <1>0. /\ CommentTypes /\ work[t] \in WorkStates /\ WorkFits(work[t])
        /\ work[t].at = "insert" /\ row_lock # t
    BY CommentFacts DEF InsertLike, CommentInv, LockFits
  <1>1. UNCHANGED <<comment, commenter, content, like_count, liked, row_lock, shown, mixed>>
    BY DEF InsertLike, commentRow
  <1>2. work[t].op \in {"like", "unlike"} BY <1>0 DEF WorkFits, WorkStates, NoWork
  <1>3. PICK w \in WorkStates : /\ work' = [work EXCEPT ![t] = w] /\ WorkFits(w) /\ w.at \in {"none", "count"}
                                /\ w.op \in {work[t].op, "none"}
                                /\ w.alone => work[t].alone /\ w.op = work[t].op
    <2>1. CASE comment = "gone"
      <3>1. work' = [work EXCEPT ![t] = NoWork] BY <2>1, CommentFacts DEF InsertLike
      <3> QED BY <3>1, NoWorkIs
    <2>2. CASE comment # "gone"
      <3> DEFINE w == [work[t] EXCEPT !.at = "count", !.change = "add"]
      <3>1. work' = [work EXCEPT ![t] = w] BY <2>2, CommentFacts DEF InsertLike
      <3>2. w \in WorkStates /\ w.at = "count" /\ w.op = work[t].op /\ w.alone = work[t].alone /\ w.user = work[t].user
        BY <1>0 DEF WorkStates
      <3> HIDE DEF w
      <3>3. WorkFits(w) BY <1>0, <1>2, <3>2 DEF WorkFits
      <3> QED BY <3>1, <3>2, <3>3
    <2> QED BY <2>1, <2>2
  <1>4. LockFits' BY <1>0, <1>1, <1>2, <1>3, LockStays
  <1> QED BY <1>0, <1>1, <1>3, <1>4, QuietStep DEF CommentTypes

LEMMA DeleteLikeKeeps == ASSUME CommentInv, NEW t \in Tasks, DeleteLike(t) PROVE CommentInv'
  <1>0. /\ CommentTypes /\ work \in [Tasks -> WorkStates] /\ work[t] \in WorkStates /\ WorkFits(work[t])
        /\ work[t].at = "delete" /\ row_lock # t
    BY CommentFacts DEF DeleteLike, CommentInv, LockFits
  <1>1. UNCHANGED <<comment, commenter, content, like_count, liked, row_lock, shown, mixed>>
    BY DEF DeleteLike, commentRow
  <1>2. work[t].op \in {"like", "unlike"} BY <1>0 DEF WorkFits, WorkStates, NoWork
  <1>c. PICK c \in {"drop", "none"} : c = IF work[t].user \in liked THEN "drop" ELSE "none" OBVIOUS
  <1> DEFINE w == [work[t] EXCEPT !.at = "count", !.change = c]
  <1>3. work' = [work EXCEPT ![t] = w] BY <1>0, <1>c DEF DeleteLike, WorkStates
  <1>4. w \in WorkStates /\ w.at = "count" /\ w.op = work[t].op /\ w.alone = work[t].alone /\ w.user = work[t].user
    BY <1>0 DEF WorkStates
  <1> HIDE DEF w
  <1>5. WorkFits(w) BY <1>0, <1>2, <1>4 DEF WorkFits
  <1>6. LockFits' BY <1>0, <1>1, <1>2, <1>3, <1>4, <1>5, LockStays
  <1> QED BY <1>0, <1>1, <1>3, <1>4, <1>5, <1>6, QuietStep DEF CommentTypes

LEMMA CountLikesKeeps == ASSUME CommentInv, NEW t \in Tasks, CountLikes(t) PROVE CommentInv'
  <1>0. /\ CommentTypes /\ work \in [Tasks -> WorkStates] /\ work[t] \in WorkStates /\ WorkFits(work[t])
        /\ work[t].at = "count" /\ row_lock # t
    BY CommentFacts DEF CountLikes, CommentInv, LockFits
  <1>1. UNCHANGED <<comment, commenter, content, like_count, liked, row_lock, shown, mixed>>
    BY DEF CountLikes, commentRow
  <1>2. work[t].op \in {"like", "unlike"} BY <1>0 DEF WorkFits, WorkStates, NoWork
  <1>n. PICK n \in 0..Cardinality(Users) : n = Cardinality(Seen(t)) BY <1>2, SeenIsUsers, LikesCounted
  <1> DEFINE w == [work[t] EXCEPT !.at = "update", !.count = n]
  <1>3. work' = [work EXCEPT ![t] = w] BY <1>0, <1>n DEF CountLikes, WorkStates
  <1>4. /\ w \in WorkStates /\ w.at = "update" /\ w.op = work[t].op /\ w.alone = work[t].alone
        /\ w.user = work[t].user /\ w.change = work[t].change /\ w.count = n
    BY <1>0 DEF WorkStates
  <1> HIDE DEF w
  <1>5. WorkFits(w) BY <1>0, <1>2, <1>4 DEF WorkFits
  <1>6. LockFits' BY <1>0, <1>1, <1>2, <1>3, <1>4, <1>5, LockStays
  <1>7. Seen(t)' = Seen(t) BY <1>0, <1>1, <1>3, <1>4 DEF Seen
  <1>8. w.count = Cardinality(Seen(t)') BY <1>4, <1>7, <1>n
  <1> QED BY <1>0, <1>1, <1>3, <1>4, <1>5, <1>6, <1>8, QuietStep DEF CommentTypes

LEMMA UpdateCommentKeeps == ASSUME CommentInv, NEW t \in Tasks, UpdateComment(t) PROVE CommentInv'
  <1>0. /\ CommentTypes /\ work \in [Tasks -> WorkStates] /\ work[t] \in WorkStates /\ WorkFits(work[t])
        /\ work[t].at = "update" /\ row_lock = None /\ t # None
    BY CommentFacts, ServiceAssumption DEF UpdateComment
  <1>1. UNCHANGED <<comment, commenter, content, like_count, liked, shown, mixed>>
    BY DEF UpdateComment, commentRow
  <1>2. work[t].op \in {"like", "unlike", "edit"} BY <1>0 DEF WorkFits, WorkStates, NoWork
  <1>3. comment # "none" BY <1>2 DEF CommentInv, LockFits
  <1>4. CASE Continue(t, "commit") /\ ((row_lock' = t /\ comment = "there") \/ (row_lock' = None /\ comment = "gone"))
    <2> DEFINE w == [work[t] EXCEPT !.at = "commit"]
    <2>1. work' = [work EXCEPT ![t] = w] BY <1>0, <1>4 DEF Continue
    <2>2. /\ w \in WorkStates /\ w.at = "commit" /\ w.op = work[t].op /\ w.alone = work[t].alone
          /\ w.user = work[t].user /\ w.change = work[t].change /\ w.count = work[t].count
      BY <1>0 DEF WorkStates
    <2> HIDE DEF w
    <2>3. WorkFits(w) BY <1>0, <1>2, <2>2 DEF WorkFits
    <2>4. work'[t] = w /\ \A t2 \in Tasks \ {t} : work'[t2] = work[t2] BY <2>1, <2>2, <2>3, NewWork
    <2>5. LockFits'
      <3> SUFFICES ASSUME NEW t2 \in Tasks
                   PROVE  /\ row_lock' = t2 => work'[t2].at = "commit" /\ comment' = "there"
                          /\ work'[t2].at = "commit" => row_lock' = t2 \/ comment' = "gone"
                          /\ work'[t2].op # "none" => comment' # "none"
        BY DEF LockFits
      <3>1. CASE t2 = t BY <1>0, <1>1, <1>3, <1>4, <2>2, <2>4, <3>1
      <3>2. CASE t2 # t
        <4>1. t2 # None BY ServiceAssumption
        <4>2. work[t2].at = "commit" => comment = "gone" BY <1>0, <4>1 DEF CommentInv, LockFits
        <4> QED BY <1>1, <1>3, <1>4, <2>4, <3>2, <4>1, <4>2
      <3> QED BY <3>1, <3>2
    <2>6. Seen(t)' = Seen(t) BY <1>1, <2>2, <2>4 DEF Seen
    <2>7. w.alone /\ w.op \in {"like", "unlike"} /\ comment # "gone" => w.count = Cardinality(Seen(t)')
      BY <1>0, <2>2, <2>6 DEF CommentInv, LikesFit
    <2>8. CASE comment # "gone"
      <3>1. w.alone /\ w.op \in {"like", "unlike"} => w.count = Cardinality(Seen(t)') BY <2>7, <2>8
      <3> QED BY <1>0, <1>1, <1>4, <2>1, <2>2, <2>3, <2>5, <3>1, QuietStep DEF CommentTypes
    <2>9. CASE comment = "gone"
      <3>1. LikesFit' /\ EditsFit' BY <1>1, <2>9 DEF LikesFit, EditsFit
      <3>2. AloneIs' BY <2>1, <2>2, <2>3, AloneStays
      <3>3. work' \in [Tasks -> WorkStates] /\ \A t2 \in Tasks : WorkFits(work'[t2]) BY <2>1, <2>2, <2>3, NewWork
      <3>4. CommentTypes' BY <1>0, <1>1, <1>4 DEF CommentTypes
      <3> QED BY <2>5, <3>1, <3>2, <3>3, <3>4, CommentTypesNext DEF CommentInv
    <2> QED BY <2>8, <2>9
  <1>5. CASE EndWork(t) /\ row_lock' = row_lock
    <2>1. work' = [work EXCEPT ![t] = NoWork] BY <1>5 DEF EndWork
    <2>2. LockFits' BY <1>0, <1>1, <1>2, <1>5, <2>1, NoWorkIs, LockStays
    <2> QED BY <1>0, <1>1, <1>5, <2>1, <2>2, NoWorkIs, QuietStep DEF CommentTypes
  <1> QED BY <1>0, <1>3, <1>4, <1>5 DEF UpdateComment, CommentTypes

LEMMA TellPostAuthorKeeps == ASSUME CommentInv, NEW t \in Tasks, TellPostAuthor(t) PROVE CommentInv'
  <1>0. /\ CommentTypes /\ work \in [Tasks -> WorkStates] /\ work[t] \in WorkStates /\ WorkFits(work[t])
        /\ work[t].at = "tell" /\ row_lock # t
    BY CommentFacts DEF TellPostAuthor, CommentInv, LockFits
  <1>1. /\ shown' = work[t].says /\ work' = [work EXCEPT ![t] = NoWork]
        /\ UNCHANGED <<comment, commenter, content, like_count, liked, row_lock, mixed>>
    BY DEF TellPostAuthor, EndWork, commentRow
  <1>2. work[t].op \in {"add", "edit"} BY <1>0 DEF WorkFits, WorkStates, NoWork
  <1>3. /\ work' \in [Tasks -> WorkStates] /\ work'[t] = NoWork
        /\ \A t2 \in Tasks \ {t} : work'[t2] = work[t2]
        /\ \A t2 \in Tasks : WorkFits(work'[t2])
    BY <1>1, NoWorkIs, NewWork
  <1>4. CommentTypeOK'
    <2>1. CommentTypes' BY <1>0, <1>1 DEF CommentTypes, WorkStates
    <2> QED BY <1>3, <2>1, CommentTypesNext
  <1>5. AloneIs' BY <1>1, NoWorkIs, AloneStays
  <1>6. LockFits' BY <1>0, <1>1, <1>2, NoWorkIs, LockStays
  <1>7. LikesFit'
    <2>1. \A t2 \in Tasks \ {t} : Seen(t2)' = Seen(t2) BY <1>1, <1>3 DEF Seen
    <2>2. comment # "gone" =>
            \A t2 \in Tasks \ {t} : work[t2].alone /\ work[t2].op \in {"like", "unlike"} /\ work[t2].at \in {"update", "commit"} =>
              work[t2].count = Cardinality(Seen(t2)')
      BY <2>1 DEF CommentInv, LikesFit
    <2> QED BY <1>1, <1>3, <2>2, NoWorkIs DEF CommentInv, LikesFit
  <1>8. EditsFit'
    <2> SUFFICES ASSUME comment # "gone", "edits" \notin mixed PROVE EditsFit' BY <1>1 DEF EditsFit
    <2>1. work[t].says = content BY <1>0 DEF CommentInv, EditsFit
    <2>2. \A t2 \in Tasks : work[t2].at = "tell" => t2 = t BY <1>0 DEF CommentInv, EditsFit
    <2>3. \A t2 \in Tasks : work'[t2].at # "tell" BY <1>3, <2>2, NoWorkIs
    <2> QED BY <1>1, <2>1, <2>3 DEF EditsFit
  <1> QED BY <1>3, <1>4, <1>5, <1>6, <1>7, <1>8 DEF CommentInv

LEMMA AbortCommentKeeps == ASSUME CommentInv, NEW t \in Tasks, AbortComment(t) PROVE CommentInv'
  <1>0. /\ CommentTypes /\ work \in [Tasks -> WorkStates] /\ work[t] \in WorkStates /\ WorkFits(work[t])
        /\ work[t].op # "none" /\ comment # "none"
    BY CommentFacts DEF AbortComment, WorkFits, CommentInv, LockFits
  <1>1. /\ work' = [work EXCEPT ![t] = NoWork]
        /\ row_lock' = IF row_lock = t THEN None ELSE row_lock
        /\ mixed' = IF work[t].at = "tell" THEN mixed \cup {"edits"} ELSE mixed
        /\ UNCHANGED <<comment, commenter, content, like_count, liked, shown>>
    BY DEF AbortComment, EndWork, commentRow
  <1>3. /\ work' \in [Tasks -> WorkStates] /\ work'[t] = NoWork
        /\ \A t2 \in Tasks \ {t} : work'[t2] = work[t2]
        /\ \A t2 \in Tasks : WorkFits(work'[t2])
    BY <1>1, NoWorkIs, NewWork
  <1>4. LockFits'
    <2> SUFFICES ASSUME NEW t2 \in Tasks
                 PROVE  /\ row_lock' = t2 => work'[t2].at = "commit" /\ comment' = "there"
                        /\ work'[t2].at = "commit" => row_lock' = t2 \/ comment' = "gone"
                        /\ work'[t2].op # "none" => comment' # "none"
      BY DEF LockFits
    <2>1. t2 # None BY ServiceAssumption
    <2>2. CASE t2 = t BY <1>1, <1>3, <2>1, <2>2, NoWorkIs
    <2>3. CASE t2 # t BY <1>1, <1>3, <2>1, <2>3 DEF CommentInv, LockFits
    <2> QED BY <2>2, <2>3
  <1>5. CASE work[t].at = "tell"
    <2>2. mixed' = mixed \cup {"edits"} BY <1>1, <1>5
    <2>3. EditsFit' BY <2>2 DEF EditsFit
    <2>4. \A t2 \in Tasks \ {t} : Seen(t2)' = Seen(t2) BY <1>1, <1>3 DEF Seen
    <2>5. comment # "gone" =>
            \A t2 \in Tasks \ {t} : work[t2].alone /\ work[t2].op \in {"like", "unlike"} /\ work[t2].at \in {"update", "commit"} =>
              work[t2].count = Cardinality(Seen(t2)')
      BY <2>4 DEF CommentInv, LikesFit
    <2>6. LikesFit' BY <1>1, <1>3, <2>2, <2>5, NoWorkIs DEF CommentInv, LikesFit
    <2>7. CommentTypes' BY <1>0, <1>1, <2>2 DEF CommentTypes
    <2>8. AloneIs' BY <1>1, NoWorkIs, AloneStays
    <2> QED BY <1>3, <1>4, <2>3, <2>6, <2>7, <2>8, CommentTypesNext DEF CommentInv
  <1>6. CASE work[t].at # "tell"
    BY <1>0, <1>1, <1>4, <1>6, NoWorkIs, QuietStep DEF CommentTypes
  <1> QED BY <1>5, <1>6

\* A commit gives up the row and leaves the others what they saw of it, if they were
\* alone: then there are none of the same kind.
LEMMA CommitLikesKeeps ==
  ASSUME CommentInv, NEW t \in Tasks, CommitComment(t), work[t].op \in {"like", "unlike"}
  PROVE  CommentInv'
  <1>0. /\ CommentTypes /\ work \in [Tasks -> WorkStates] /\ work[t] \in WorkStates /\ WorkFits(work[t])
        /\ work[t].at = "commit" /\ Kind(work[t].op) = "likes"
    BY CommentFacts DEF CommitComment, Kind
  <1>1. /\ work' = [work EXCEPT ![t] = NoWork] /\ liked' = Seen(t)
        /\ like_count' = IF row_lock = t THEN work[t].count ELSE like_count
        /\ row_lock' = IF row_lock = t THEN None ELSE row_lock
        /\ mixed' = IF work[t].alone THEN mixed \ {"likes"} ELSE mixed \cup {"likes"}
        /\ UNCHANGED <<comment, commenter, content, shown>>
    BY <1>0 DEF CommitComment
  <1>2. Seen(t) \subseteq Users BY SeenIsUsers
  <1>3. /\ work' \in [Tasks -> WorkStates] /\ work'[t] = NoWork
        /\ \A t2 \in Tasks \ {t} : work'[t2] = work[t2]
        /\ \A t2 \in Tasks : WorkFits(work'[t2])
    BY <1>1, NoWorkIs, NewWork
  <1>4. LockFits'
    <2> SUFFICES ASSUME NEW t2 \in Tasks
                 PROVE  /\ row_lock' = t2 => work'[t2].at = "commit" /\ comment' = "there"
                        /\ work'[t2].at = "commit" => row_lock' = t2 \/ comment' = "gone"
                        /\ work'[t2].op # "none" => comment' # "none"
      BY DEF LockFits
    <2>1. t2 # None BY ServiceAssumption
    <2>2. CASE t2 = t BY <1>1, <1>3, <2>1, <2>2, NoWorkIs
    <2>3. CASE t2 # t BY <1>1, <1>3, <2>1, <2>3 DEF CommentInv, LockFits
    <2> QED BY <2>2, <2>3
  <1>5. AloneIs' BY <1>1, NoWorkIs, AloneStays
  <1>6. LikesFit'
    <2> SUFFICES ASSUME comment # "gone" PROVE LikesFit' BY <1>1 DEF LikesFit
    <2>1. row_lock = t BY <1>0 DEF CommentInv, LockFits
    <2>2. work[t].alone => work[t].count = Cardinality(Seen(t)) BY <1>0 DEF CommentInv, LikesFit
    <2>3. "likes" \in mixed' \/ like_count' = Cardinality(liked') BY <1>1, <2>1, <2>2
    <2>4. ASSUME NEW t2 \in Tasks, work'[t2].alone, work'[t2].op \in {"like", "unlike"} PROVE FALSE
      <3>1. t2 # t /\ work[t2].alone /\ work[t2].op \in {"like", "unlike"} BY <1>3, <2>4, NoWorkIs
      <3>2. Kind(work[t2].op) = "likes" BY <3>1 DEF Kind
      <3> QED BY <1>0, <3>1, <3>2 DEF CommentInv, AloneIs
    <2> QED BY <2>3, <2>4 DEF LikesFit
  <1>7. EditsFit'
    <2>1. \A t2 \in Tasks : (work'[t2].at = "tell") <=> (work[t2].at = "tell") BY <1>0, <1>3, NoWorkIs
    <2>2. \A t2 \in Tasks : work[t2].at = "tell" => work'[t2] = work[t2] BY <1>0, <1>3
    <2>3. ("edits" \in mixed') <=> ("edits" \in mixed) BY <1>1
    <2> QED BY <1>1, <2>1, <2>2, <2>3 DEF CommentInv, EditsFit
  <1>8. CommentTypeOK'
    <2>1. work[t].count \in 0..Cardinality(Users) BY <1>0 DEF WorkStates
    <2>2. CommentTypes' BY <1>0, <1>1, <1>2, <2>1 DEF CommentTypes
    <2> QED BY <1>3, <2>2, CommentTypesNext
  <1> QED BY <1>3, <1>4, <1>5, <1>6, <1>7, <1>8 DEF CommentInv

LEMMA CommitEditKeeps ==
  ASSUME CommentInv, NEW t \in Tasks, CommitComment(t), work[t].op = "edit"
  PROVE  CommentInv'
  <1>0. /\ CommentTypes /\ work \in [Tasks -> WorkStates] /\ work[t] \in WorkStates /\ WorkFits(work[t])
        /\ work[t].at = "commit" /\ Kind(work[t].op) = "edits" /\ work[t].change = "none"
    BY CommentFacts DEF CommitComment, Kind, WorkFits
  <1> DEFINE w == [work[t] EXCEPT !.at = "tell", !.change = "none"]
  <1>1. /\ work' = [work EXCEPT ![t] = w] /\ liked' = liked /\ content' = work[t].says
        /\ row_lock' = IF row_lock = t THEN None ELSE row_lock
        /\ mixed' = IF work[t].alone THEN mixed \ {"edits"} ELSE mixed \cup {"edits"}
        /\ UNCHANGED <<comment, commenter, like_count, shown>>
    BY <1>0 DEF CommitComment, Seen
  <1>2. /\ w \in WorkStates /\ w.at = "tell" /\ w.op = "edit" /\ w.alone = work[t].alone
        /\ w.user = work[t].user /\ w.change = "none" /\ w.says = work[t].says
    BY <1>0 DEF WorkStates
  <1> HIDE DEF w
  <1>w. WorkFits(w) BY <1>0, <1>2 DEF WorkFits
  <1>3. /\ work' \in [Tasks -> WorkStates] /\ work'[t] = w
        /\ \A t2 \in Tasks \ {t} : work'[t2] = work[t2]
        /\ \A t2 \in Tasks : WorkFits(work'[t2])
    BY <1>1, <1>2, <1>w, NewWork
  <1>4. LockFits'
    <2> SUFFICES ASSUME NEW t2 \in Tasks
                 PROVE  /\ row_lock' = t2 => work'[t2].at = "commit" /\ comment' = "there"
                        /\ work'[t2].at = "commit" => row_lock' = t2 \/ comment' = "gone"
                        /\ work'[t2].op # "none" => comment' # "none"
      BY DEF LockFits
    <2>1. t2 # None BY ServiceAssumption
    <2>2. CASE t2 = t BY <1>1, <1>2, <1>3, <2>1, <2>2 DEF CommentInv, LockFits
    <2>3. CASE t2 # t BY <1>1, <1>3, <2>1, <2>3 DEF CommentInv, LockFits
    <2> QED BY <2>2, <2>3
  <1>5. AloneIs' BY <1>1, <1>2, <1>w, AloneStays
  <1>6. LikesFit'
    <2>1. \A t2 \in Tasks \ {t} : Seen(t2)' = Seen(t2) BY <1>1, <1>3 DEF Seen
    <2>2. comment # "gone" =>
            \A t2 \in Tasks \ {t} : work[t2].alone /\ work[t2].op \in {"like", "unlike"} /\ work[t2].at \in {"update", "commit"} =>
              work[t2].count = Cardinality(Seen(t2)')
      BY <2>1 DEF CommentInv, LikesFit
    <2>3. ("likes" \in mixed') <=> ("likes" \in mixed) BY <1>1
    <2> QED BY <1>1, <1>2, <1>3, <2>2, <2>3 DEF CommentInv, LikesFit
  <1>7. EditsFit'
    <2> SUFFICES ASSUME "edits" \notin mixed' PROVE EditsFit' BY DEF EditsFit
    <2>1. work[t].alone BY <1>1
    <2>2. \A t2 \in Tasks : work'[t2].at = "tell" => t2 = t
      <3> SUFFICES ASSUME NEW t2 \in Tasks, t2 # t, work[t2].at = "tell" PROVE FALSE BY <1>3
      <3>1. work[t2].op \in {"add", "edit"} BY CommentFacts DEF WorkFits, WorkStates, NoWork
      <3>2. Kind(work[t2].op) = "edits" /\ work[t2].op # "none" BY <3>1 DEF Kind
      <3> QED BY <1>0, <2>1, <3>2 DEF CommentInv, AloneIs
    <2> QED BY <1>1, <1>2, <1>3, <2>2 DEF EditsFit
  <1>8. CommentTypeOK'
    <2>1. work[t].says \in Wordings \cup {None} BY <1>0 DEF WorkStates
    <2>2. CommentTypes' BY <1>0, <1>1, <2>1 DEF CommentTypes
    <2> QED BY <1>3, <2>2, CommentTypesNext
  <1> QED BY <1>3, <1>4, <1>5, <1>6, <1>7, <1>8 DEF CommentInv

LEMMA RemoveCommentKeeps == ASSUME CommentInv, RemoveComment PROVE CommentInv'
  <1>1. /\ comment' = "gone" /\ liked' = {} /\ row_lock = None
        /\ UNCHANGED <<commenter, content, like_count, row_lock, work, shown, mixed>>
    BY DEF RemoveComment
  <1>2. CommentTypeOK' BY <1>1 DEF CommentInv, CommentTypeOK
  <1>3. AloneIs' BY <1>1 DEF CommentInv, AloneIs
  <1>4. LockFits' BY <1>1, ServiceAssumption DEF CommentInv, LockFits
  <1>5. LikesFit' /\ EditsFit' BY <1>1 DEF LikesFit, EditsFit
  <1> QED BY <1>1, <1>2, <1>3, <1>4, <1>5 DEF CommentInv

LEMMA AddCommentKeeps ==
  ASSUME CommentInv, NEW t \in Tasks, NEW u \in Users, NEW x \in Wordings, AddComment(t, u, x)
  PROVE  CommentInv'
  <1> DEFINE w == [NoWork EXCEPT !.op = "add", !.user = u, !.at = "tell", !.says = x, !.alone = TRUE]
  <1>1. /\ comment = "none" /\ comment' = "there" /\ commenter' = u /\ content' = x
        /\ work' = [work EXCEPT ![t] = w] /\ UNCHANGED <<like_count, liked, row_lock, shown, mixed>>
    BY DEF AddComment
  <1>2. \A t2 \in Tasks : work[t2] = NoWork BY <1>1 DEF CommentInv, LockFits, WorkFits
  <1>3. /\ w \in WorkStates /\ w.op = "add" /\ w.at = "tell" /\ w.says = x /\ w.user = u /\ w.change = "none"
    BY NoWorkIs DEF WorkStates, NoWork
  <1> HIDE DEF w
  <1>4. WorkFits(w) BY <1>3 DEF WorkFits
  <1>5. /\ work' \in [Tasks -> WorkStates] /\ work'[t] = w
        /\ \A t2 \in Tasks \ {t} : work'[t2] = NoWork
        /\ \A t2 \in Tasks : WorkFits(work'[t2])
    BY <1>1, <1>2, <1>3, <1>4, NewWork
  <1>6. CommentTypeOK'
    <2>1. CommentTypes BY CommentFacts
    <2>2. CommentTypes' BY <1>1, <2>1 DEF CommentTypes
    <2> QED BY <1>5, <2>2, CommentTypesNext
  <1>7. AloneIs' BY <1>5, NoWorkIs DEF AloneIs
  <1>8. LockFits'
    <2>1. \A t2 \in Tasks : row_lock # t2 BY <1>2, NoWorkIs DEF CommentInv, LockFits
    <2> QED BY <1>1, <1>3, <1>5, <2>1, NoWorkIs DEF LockFits
  <1>9. LikesFit'
    <2>1. "likes" \in mixed \/ like_count = Cardinality(liked) BY <1>1 DEF CommentInv, LikesFit
    <2> QED BY <1>1, <1>3, <1>5, <2>1, NoWorkIs DEF LikesFit
  <1>10. EditsFit' BY <1>1, <1>3, <1>5, NoWorkIs DEF EditsFit
  <1> QED BY <1>5, <1>6, <1>7, <1>8, <1>9, <1>10 DEF CommentInv

\* A request that starts is alone if there is no other of its kind, which it makes
\* anything but alone.
LEMMA FindCommentKeeps ==
  ASSUME CommentInv, NEW t \in Tasks, NEW op \in {"like", "unlike", "edit"}, NEW u \in Users,
         NEW x \in Wordings \cup {None}, FindComment(t, op, u, x)
  PROVE  CommentInv'
  <1>0. /\ CommentTypes /\ work \in [Tasks -> WorkStates] /\ work[t] = NoWork /\ comment = "there"
        /\ UNCHANGED <<comment, commenter, content, like_count, liked, row_lock, shown, mixed>>
    BY CommentFacts DEF FindComment, commentRow
  <1>p. PICK at \in {"insert", "delete", "update"} :
          at = CASE op = "like" -> "insert" [] op = "unlike" -> "delete" [] op = "edit" -> "update"
    OBVIOUS
  <1>b. PICK b \in BOOLEAN : b = (OfKind(Kind(op)) = {}) OBVIOUS
  <1> DEFINE w == [NoWork EXCEPT !.op = op, !.user = u, !.says = x, !.alone = b, !.at = at]
  <1>1. work' = [t2 \in Tasks |->
          IF t2 \in OfKind(Kind(op)) THEN [work[t2] EXCEPT !.alone = FALSE] ELSE IF t2 # t THEN work[t2] ELSE w]
    BY <1>p, <1>b DEF FindComment
  <1>2. /\ w \in WorkStates /\ w.op = op /\ w.user = u /\ w.at = at /\ w.alone = b /\ w.change = "none"
    BY NoWorkIs DEF WorkStates, NoWork
  <1> HIDE DEF w
  <1>3. WorkFits(w) BY <1>2, <1>p DEF WorkFits
  <1>4. t \notin OfKind(Kind(op)) BY <1>0, NoWorkIs DEF OfKind
  <1>5. work'[t] = w BY <1>1, <1>4
  <1>6. ASSUME NEW t2 \in Tasks \ {t}
        PROVE  /\ work'[t2] \in WorkStates /\ WorkFits(work'[t2])
               /\ work'[t2].op = work[t2].op /\ work'[t2].at = work[t2].at /\ work'[t2].user = work[t2].user
               /\ work'[t2].change = work[t2].change /\ work'[t2].count = work[t2].count
               /\ work'[t2].says = work[t2].says
               /\ work'[t2].alone => work[t2].alone /\ t2 \notin OfKind(Kind(op))
    <2>1. work[t2] \in WorkStates /\ WorkFits(work[t2]) BY CommentFacts
    <2>2. CASE t2 \in OfKind(Kind(op))
      <3>1. work'[t2] = [work[t2] EXCEPT !.alone = FALSE] BY <1>1, <2>2
      <3>2. work[t2].op # "none" BY <2>2 DEF OfKind
      <3>3. /\ work'[t2] \in WorkStates /\ work'[t2].alone = FALSE
            /\ work'[t2].op = work[t2].op /\ work'[t2].at = work[t2].at /\ work'[t2].user = work[t2].user
            /\ work'[t2].change = work[t2].change /\ work'[t2].count = work[t2].count
            /\ work'[t2].says = work[t2].says
        BY <2>1, <3>1 DEF WorkStates
      <3>4. WorkFits(work'[t2]) BY <2>1, <3>2, <3>3 DEF WorkFits
      <3> QED BY <3>3, <3>4
    <2>3. CASE t2 \notin OfKind(Kind(op))
      <3>1. work'[t2] = work[t2] BY <1>1, <2>3
      <3> QED BY <2>1, <2>3, <3>1
    <2> QED BY <2>2, <2>3
  <1>7. work' \in [Tasks -> WorkStates] /\ \A t2 \in Tasks : WorkFits(work'[t2])
    <2>1. \A t2 \in Tasks : work'[t2] \in WorkStates /\ WorkFits(work'[t2]) BY <1>2, <1>3, <1>5, <1>6
    <2>2. work' = [t2 \in Tasks |-> work'[t2]] BY <1>1
    <2> QED BY <2>1, <2>2
  <1>8. AloneIs'
    <2> SUFFICES ASSUME NEW t2 \in Tasks, NEW t3 \in Tasks,
                        work'[t2].alone, work'[t3].op # "none", Kind(work'[t3].op) = Kind(work'[t2].op)
                 PROVE  t3 = t2
      BY DEF AloneIs
    <2>1. CASE t2 = t
      <3>1. OfKind(Kind(op)) = {} BY <1>2, <1>5, <1>b, <2>1
      <3>2. CASE t3 # t
        <4>1. work[t3].op # "none" /\ Kind(work[t3].op) = Kind(op) BY <1>2, <1>5, <1>6, <2>1, <3>2
        <4> QED BY <3>1, <4>1 DEF OfKind
      <3> QED BY <2>1, <3>2
    <2>2. CASE t2 # t
      <3>1. work[t2].alone /\ work'[t2].op = work[t2].op /\ t2 \notin OfKind(Kind(op)) BY <1>6, <2>2
      <3>2. CASE t3 = t
        <4>1. Kind(work[t2].op) = Kind(op) BY <1>2, <1>5, <3>1, <3>2
        <4>2. work[t2].op = "none" BY <3>1, <4>1 DEF OfKind
        <4>3. work[t2].alone = FALSE BY <4>2, NoWorkIs DEF CommentInv, WorkFits
        <4> QED BY <3>1, <4>3
      <3>3. CASE t3 # t BY <1>6, <3>1, <3>3 DEF CommentInv, AloneIs
      <3> QED BY <3>2, <3>3
    <2> QED BY <2>1, <2>2
  <1>9. LockFits'
    <2> SUFFICES ASSUME NEW t2 \in Tasks
                 PROVE  /\ row_lock' = t2 => work'[t2].at = "commit" /\ comment' = "there"
                        /\ work'[t2].at = "commit" => row_lock' = t2 \/ comment' = "gone"
                        /\ work'[t2].op # "none" => comment' # "none"
      BY DEF LockFits
    <2>1. CASE t2 = t BY <1>0, <1>2, <1>5, <2>1, NoWorkIs DEF CommentInv, LockFits
    <2>2. CASE t2 # t BY <1>0, <1>6, <2>2 DEF CommentInv, LockFits
    <2> QED BY <2>1, <2>2
  <1>10. LikesFit'
    <2>1. ASSUME NEW t2 \in Tasks, work'[t2].alone, work'[t2].op \in {"like", "unlike"}, work'[t2].at \in {"update", "commit"}
          PROVE  work'[t2].count = Cardinality(Seen(t2)')
      <3>1. t2 # t BY <1>2, <1>5, <1>p, <2>1
      <3>2. Seen(t2)' = Seen(t2) BY <1>0, <1>6, <3>1 DEF Seen
      <3>3. work[t2].count = Cardinality(Seen(t2)) BY <1>0, <1>6, <2>1, <3>1 DEF CommentInv, LikesFit
      <3> QED BY <1>6, <3>1, <3>2, <3>3
    <2>2. "likes" \in mixed' \/ like_count' = Cardinality(liked') BY <1>0 DEF CommentInv, LikesFit
    <2> QED BY <2>1, <2>2 DEF LikesFit
  <1>11. EditsFit'
    <2>1. \A t2 \in Tasks : (work'[t2].at = "tell") <=> (work[t2].at = "tell") BY <1>0, <1>2, <1>5, <1>6, NoWorkIs
    <2>2. \A t2 \in Tasks : work[t2].at = "tell" => work'[t2].says = work[t2].says BY <1>0, <1>6, NoWorkIs
    <2> QED BY <1>0, <2>1, <2>2 DEF CommentInv, EditsFit
  <1>12. CommentTypeOK'
    <2>1. CommentTypes' BY <1>0 DEF CommentTypes
    <2> QED BY <1>7, <2>1, CommentTypesNext
  <1> QED BY <1>7, <1>8, <1>9, <1>10, <1>11, <1>12 DEF CommentInv

LEMMA CommentInitHolds == CommentInit => CommentInv
  <1> SUFFICES ASSUME CommentInit PROVE CommentInv OBVIOUS
  <1>1. /\ comment = "none" /\ commenter = None /\ content = None /\ shown = None
        /\ like_count = 0 /\ liked = {} /\ row_lock = None /\ mixed = {}
        /\ work = [t \in Tasks |-> NoWork]
    BY DEF CommentInit
  <1>2. Cardinality({}) = 0 /\ 0 \in 0..Cardinality(Users)
    BY CommentAssumption, FS_EmptySet, FS_CardinalityType
  <1>3. \A t \in Tasks : work[t] = NoWork BY <1>1
  <1>4. work \in [Tasks -> WorkStates] BY <1>1, NoWorkIs
  <1>5. CommentTypeOK BY <1>1, <1>2, <1>4 DEF CommentTypeOK, WorkStates
  <1>6. \A t \in Tasks : WorkFits(work[t]) BY <1>3, NoWorkIs
  <1>7. AloneIs BY <1>3, NoWorkIs DEF AloneIs
  <1>8. LockFits BY <1>1, <1>3, NoWorkIs, ServiceAssumption DEF LockFits
  <1>9. LikesFit BY <1>1, <1>2, <1>3, NoWorkIs DEF LikesFit
  <1>10. EditsFit BY <1>1, <1>3, NoWorkIs DEF EditsFit
  <1> QED BY <1>5, <1>6, <1>7, <1>8, <1>9, <1>10 DEF CommentInv

LEMMA CommentStutterKeeps == CommentInv /\ UNCHANGED commentVars => CommentInv'
  <1> SUFFICES ASSUME CommentInv, UNCHANGED commentVars PROVE CommentInv' OBVIOUS
  <1>1. UNCHANGED <<comment, commenter, content, like_count, liked, row_lock, work, shown, mixed>>
    BY DEF commentVars, commentRow
  <1>2. CommentTypeOK' BY <1>1 DEF CommentInv, CommentTypeOK
  <1>3. (\A t \in Tasks : WorkFits(work[t]))' BY <1>1 DEF CommentInv
  <1>4. AloneIs' BY <1>1 DEF CommentInv, AloneIs
  <1>5. LockFits' BY <1>1 DEF CommentInv, LockFits
  <1>6. LikesFit' BY <1>1 DEF CommentInv, LikesFit, Seen
  <1>7. EditsFit' BY <1>1 DEF CommentInv, EditsFit
  <1> QED BY <1>2, <1>3, <1>4, <1>5, <1>6, <1>7 DEF CommentInv

LEMMA CommentNextKeeps == CommentInv /\ CommentNext => CommentInv'
  <1> SUFFICES ASSUME CommentInv, CommentNext PROVE CommentInv' OBVIOUS
  <1>1. CASE RemoveComment BY <1>1, RemoveCommentKeeps
  <1>3. ASSUME NEW t \in Tasks, CommentRequest(t) PROVE CommentInv'
    BY <1>3, AddCommentKeeps, FindCommentKeeps DEF CommentRequest
  <1>4. ASSUME NEW t \in Tasks, CommentStep(t) PROVE CommentInv'
    <2>1. ASSUME CommitComment(t) PROVE CommentInv'
      <3>1. work[t].op \in {"like", "unlike", "edit"}
        BY <2>1, CommentFacts DEF CommitComment, WorkFits, WorkStates, NoWork
      <3> QED BY <2>1, <3>1, CommitLikesKeeps, CommitEditKeeps
    <2> QED BY <1>4, <2>1, InsertLikeKeeps, DeleteLikeKeeps, CountLikesKeeps, UpdateCommentKeeps,
               TellPostAuthorKeeps, AbortCommentKeeps DEF CommentStep
  <1> QED BY <1>1, <1>3, <1>4 DEF CommentNext

LEMMA CommentInvMeans == CommentInv => CommentTypeOK /\ CommentSettles
  <1> SUFFICES ASSUME CommentInv PROVE CommentSettles BY DEF CommentInv
  <1> SUFFICES ASSUME comment = "there", "edits" \notin mixed, OfKind("edits") = {} PROVE shown = content
    BY DEF CommentSettles, CommentInv, LikesFit
  <1>1. ASSUME NEW t \in Tasks, work[t].at = "tell" PROVE FALSE
    <2>1. work[t].op \in {"add", "edit"} BY <1>1, CommentFacts DEF WorkFits, WorkStates, NoWork
    <2> QED BY <2>1 DEF OfKind, Kind
  <1> QED BY <1>1 DEF CommentInv, EditsFit

\* A request that holds the row of the comment is about to commit, one that is alone
\* leaves the number it has counted, and a version that is still to be told of is the
\* content of the comment.
THEOREM CommentInvariance == CommentSpec => []CommentInv
  <1>1. CommentInv /\ [CommentNext]_commentVars => CommentInv' BY CommentStutterKeeps, CommentNextKeeps
  <1> QED BY <1>1, CommentInitHolds, PTL DEF CommentSpec

\* The row of the comment and what its requests keep are well typed: no number of
\* likes ever exceeds the number of users (services/feed/src/lib.rs).
THEOREM CommentTypesHold == CommentSpec => []CommentTypeOK
  BY CommentInvariance, CommentInvMeans, PTL

\* Whatever number of likes or event requests that overlapped have left, one that
\* runs alone afterwards mends it.
THEOREM CommentDoesSettle == CommentSpec => []CommentSettles
  BY CommentInvariance, CommentInvMeans, PTL

----------------------------------------------------------------------------
(*************************************************************************)
(* Chat: OneChatPerPair, ToldIsTrue and UnseenIsAlerted.  One request at *)
(* most fills a conversation or is about to open one for a pair; one at  *)
(* most writes a message, and it reaches everybody who was told before.  *)
(*************************************************************************)

Writes == {"send", "edit", "delete"}
Marks == {"react", "unreact", "read"}

JobStates ==
  [op : {"done", "private", "group"} \cup Writes \cup Marks,
   at : {"done", "create", "row", "members", "delete", "list", "tell", "alert", "ring", "mark"},
   user : Users \cup {None}, peer : Users \cup {None}, conv : Convs \cup {None},
   msg : Messages \cup {None}, shows : Texts \cup {"gone", None},
   todo : Seq(Users), to : SUBSET Users]

\* A request at one of its own statements, with what that statement needs.
JobFits(j) ==
  /\ j.op = "done" => j = Done
  /\ j.op = "private" => j.at \in {"create", "members"} /\ j.user \in Users /\ j.peer \in Users
  /\ j.op = "group" => j.at \in {"row", "members"}
  /\ j.op \in {"private", "group"} => j.msg = None
  /\ j.at \in {"row", "members"} => j.conv \in Convs /\ Len(j.todo) > 0
  /\ j.at \notin {"row", "members"} => j.conv = None
  /\ j.op \in Writes => /\ j.at \in {"delete", "list", "tell", "alert", "ring"} /\ j.shows \in Texts \cup {"gone"}
                        /\ j.at = "delete" => j.op = "delete" /\ j.shows = "gone"
                        /\ j.at \in {"alert", "ring"} => j.op = "send"
                        /\ j.at = "ring" => j.peer \in j.to
  /\ j.op \in Marks => j.at = "mark" /\ j.user \in Users
  /\ j.op \in Writes \cup Marks => j.msg \in Messages

\* A conversation has members once it has a row, and a private one has two at most; one
\* request at most is still adding members to it.
JobRoom(t) ==
  /\ kind[job[t].conv] = job[t].op
  /\ \A t2 \in Tasks : job[t2].conv = job[t].conv => t2 = t
  /\ job[t].op = "private" =>
       \/ job[t].todo = <<job[t].user, job[t].peer>> /\ members[job[t].conv] = {}
       \/ job[t].todo = <<job[t].peer>> /\ members[job[t].conv] = {job[t].user}

RoomsFit ==
  /\ \A c \in Convs : /\ kind[c] = "none" => members[c] = {}
                      /\ kind[c] = "private" => \E u, v \in Users : members[c] \subseteq {u, v}
  /\ \A t \in Tasks : job[t].conv # None => JobRoom(t)

Opens(t, u, v) == job[t].op = "private" /\ {job[t].user, job[t].peer} = {u, v}

\* Two users without creations that overlapped have one private conversation, or
\* somebody is about to make it, or neither.
PairsFit == \A u, v \in Users : u # v /\ {u, v} \notin raced =>
  /\ \A t, t2 \in Tasks : Opens(t, u, v) /\ Opens(t2, u, v) => t = t2
  /\ \A t \in Tasks : Opens(t, u, v) => Private(u, v) = {}
  /\ \A c, c2 \in Private(u, v) : c = c2

\* Whoever has been told of a message is a member of its conversation, and so are those
\* who are going to be.
SentFits(m) ==
  /\ text[m] # "none" => place[m].conv \in Convs /\ place[m].from \in members[place[m].conv]
  /\ \A u \in Users : /\ told[u][m] # "none" => text[m] # "none" /\ u \in members[place[m].conv]
                      /\ <<u, m>> \in received => told[u][m] # "none"
  /\ \A t \in Tasks : job[t].msg = m =>
       /\ text[m] # "none" /\ job[t].to \subseteq members[place[m].conv]
       /\ job[t].op = "send" => job[t].user = place[m].from
       /\ job[t].at \in {"alert", "ring"} => \A u \in job[t].to : <<u, m>> \in received

Writer(t, m) == job[t].msg = m /\ job[t].op \in Writes

\* An event about message m is on its way.
Telling(t, m) == job[t].msg = m /\ job[t].at \in {"list", "tell"}

\* One request at most is writing a message that no two have written at a time; until it
\* has told everybody who was ever told, it shows what the row holds.
ToldFits(m) == m \notin crossed =>
  /\ \A t, t2 \in Tasks : Writer(t, m) /\ Writer(t2, m) => t = t2
  /\ \A t \in Tasks : Telling(t, m) =>
       /\ job[t].shows = text[m]
       /\ job[t].at = "tell" => /\ place[m].from \in job[t].to
                                /\ \A u \in Users : told[u][m] # "none" => u \in job[t].to
  /\ (\A t \in Tasks : ~Telling(t, m)) => \A u \in Users :
       /\ told[u][m] \in {"none", text[m]}
       /\ u = place[m].from \/ <<u, m>> \in alerts \cup rung => told[u][m] = text[m]

\* Whoever has received a message and has never looked is alerted, or will be.
AlertFits(m) == m \notin crossed => \A u \in Users :
  u # place[m].from /\ <<u, m>> \in received /\ <<u, place[m].conv>> \notin looked =>
    \/ <<u, m>> \in rung
    \/ \E t \in Tasks : job[t].msg = m /\ job[t].at \in {"alert", "ring"} /\ u \in job[t].to

MessageFits(m) == SentFits(m) /\ ToldFits(m) /\ AlertFits(m)

ChatInv == /\ ChatTypeOK /\ job \in [Tasks -> JobStates] /\ (\A t \in Tasks : JobFits(job[t]))
           /\ RoomsFit /\ PairsFit /\ (\A m \in Messages : MessageFits(m))
           /\ \A u \in Users : focus[u] # None => <<u, focus[u]>> \in looked

\* The tables and the screens, column by column.
ChatTypes ==
  /\ kind \in [Convs -> {"none", "private", "group"}] /\ members \in [Convs -> SUBSET Users] /\ groups \subseteq Convs
  /\ text \in [Messages -> Texts \cup {"none", "gone"}]
  /\ place \in [Messages -> [conv : Convs \cup {None}, from : Users \cup {None}]]
  /\ marks \subseteq Messages \X Users \X {"reaction", "read"}
  /\ focus \in [Users -> Convs \cup {None}]
  /\ told \in [Users -> [Messages -> Texts \cup {"none", "gone"}]]
  /\ received \subseteq Users \X Messages /\ alerts \cup rung \subseteq received

Focused == \A u \in Users : focus[u] # None => <<u, focus[u]>> \in looked

LEMMA ChatFacts ==
  ASSUME ChatInv
  PROVE  /\ ChatTypes /\ job \in [Tasks -> JobStates] /\ Focused
         /\ \A t \in Tasks : job[t] \in JobStates /\ JobFits(job[t])
  BY DEF ChatInv, ChatTypeOK, ChatTypes, Focused

LEMMA ChatAgain ==
  ASSUME ChatTypes', (job \in [Tasks -> JobStates])', (\A t \in Tasks : JobFits(job[t]))', RoomsFit', PairsFit',
         (\A m \in Messages : MessageFits(m))', Focused'
  PROVE  ChatInv'
  BY DEF ChatInv, ChatTypeOK, ChatTypes, Focused

LEMMA DoneIs ==
  /\ Done \in JobStates /\ JobFits(Done) /\ Done.op = "done" /\ Done.at = "done" /\ Done.user = None
  /\ Done.conv = None /\ Done.msg = None /\ Done.to = {} /\ Done.todo = <<>>
  BY DEF Done, JobStates, JobFits, Writes, Marks

\* A step of the request of task t.
LEMMA NewJob ==
  ASSUME ChatInv, NEW t \in Tasks, NEW j \in JobStates, Go(t, j), JobFits(j)
  PROVE  /\ (job \in [Tasks -> JobStates])' /\ job'[t] = j
         /\ \A t2 \in Tasks \ {t} : job'[t2] = job[t2]
         /\ (\A t2 \in Tasks : JobFits(job[t2]))'
  <1>1. job' \in [Tasks -> JobStates] /\ job'[t] = j /\ \A t2 \in Tasks \ {t} : job'[t2] = job[t2]
    BY ChatFacts DEF Go
  <1>2. \A t2 \in Tasks : JobFits(job'[t2]) BY <1>1, ChatFacts
  <1> QED BY <1>1, <1>2

LEMMA RoomsAsBefore ==
  ASSUME ChatInv, NEW t \in Tasks, NEW j \in JobStates, Go(t, j), JobFits(j), j.conv = None, UNCHANGED <<kind, members>>
  PROVE  RoomsFit'
  <1>1. job'[t] = j /\ \A t2 \in Tasks \ {t} : job'[t2] = job[t2] BY NewJob
  <1>2. \A t2 \in Tasks : job'[t2].conv # None => t2 # t /\ job'[t2] = job[t2] BY <1>1
  <1>3. (\A c \in Convs : /\ kind[c] = "none" => members[c] = {}
                          /\ kind[c] = "private" => \E u, v \in Users : members[c] \subseteq {u, v})'
    BY DEF ChatInv, RoomsFit
  <1>4. ASSUME NEW t2 \in Tasks, job'[t2].conv # None PROVE JobRoom(t2)'
    <2>1. job'[t2] = job[t2] /\ JobRoom(t2) BY <1>2, <1>4 DEF ChatInv, RoomsFit
    <2>2. \A t3 \in Tasks : job'[t3].conv = job[t2].conv => job'[t3] = job[t3] BY <1>2, <1>4
    <2> QED BY <2>1, <2>2 DEF JobRoom
  <1> QED BY <1>3, <1>4 DEF RoomsFit

\* The rooms are left alone by whoever ends a creation or does something else.
LEMMA RoomsStay ==
  ASSUME ChatInv, NEW t \in Tasks, NEW j \in JobStates, Go(t, j), JobFits(j),
         j.op \notin {"private", "group"}, UNCHANGED <<kind, members>>, raced \subseteq raced'
  PROVE  RoomsFit' /\ PairsFit'
  <1>1. job'[t] = j /\ \A t2 \in Tasks \ {t} : job'[t2] = job[t2] BY NewJob
  <1>2. j.conv = None /\ j.op # "private"
    BY DoneIs DEF JobFits, JobStates, Writes, Marks
  <1>3. RoomsFit' BY <1>2, RoomsAsBefore
  <1>4. PairsFit'
    <2>1. \A u, v \in Users : Private(u, v)' = Private(u, v) BY DEF Private
    <2>2. \A t2 \in Tasks, u, v \in Users : Opens(t2, u, v)' => Opens(t2, u, v) BY <1>1, <1>2 DEF Opens
    <2>3. \A u, v \in Users : {u, v} \notin raced' => {u, v} \notin raced OBVIOUS
    <2> QED BY <2>1, <2>2, <2>3 DEF ChatInv, PairsFit
  <1> QED BY <1>3, <1>4

\* A message that a step of task t, about something else, leaves as it is.
LEMMA MessageStays ==
  ASSUME ChatInv, NEW t \in Tasks, NEW j \in JobStates, Go(t, j), JobFits(j), NEW m \in Messages,
         job[t].msg # m, j.msg # m,
         text'[m] = text[m], place'[m] = place[m], \A u \in Users : told'[u][m] = told[u][m],
         \A u \in Users : (<<u, m>> \in received') <=> (<<u, m>> \in received),
         \A u \in Users : /\ (<<u, m>> \in alerts') <=> (<<u, m>> \in alerts)
                          /\ (<<u, m>> \in rung') <=> (<<u, m>> \in rung),
         m \in crossed => m \in crossed', looked' = looked,
         \A c \in Convs : members[c] \subseteq members'[c]
  PROVE  MessageFits(m)'
  <1>1. job'[t] = j /\ \A t2 \in Tasks \ {t} : job'[t2] = job[t2] BY NewJob
  <1>2. \A t2 \in Tasks : job'[t2].msg = m => job'[t2] = job[t2] BY <1>1
  <1>3. \A t2 \in Tasks : job[t2].msg = m => job'[t2] = job[t2] BY <1>1
  <1>4. SentFits(m) /\ ToldFits(m) /\ AlertFits(m) BY DEF ChatInv, MessageFits
  <1>5. SentFits(m)'
    <2>1. \A u \in Users : told[u][m] # "none" => text[m] # "none" BY <1>4 DEF SentFits
    <2>2. \A t2 \in Tasks : job[t2].msg = m => text[m] # "none" BY <1>4 DEF SentFits
    <2>3. text[m] # "none" => place[m].conv \in Convs /\ members[place[m].conv] \subseteq members'[place[m].conv]
      BY <1>4 DEF SentFits
    <2>4. \A t2 \in Tasks : job'[t2].msg = m => job[t2].msg = m /\ job'[t2] = job[t2] BY <1>2
    <2>5. text'[m] # "none" => place'[m].conv \in Convs /\ place'[m].from \in members'[place'[m].conv]
      BY <1>4, <2>3 DEF SentFits
    <2>6. \A u \in Users : /\ told'[u][m] # "none" => text'[m] # "none" /\ u \in members'[place'[m].conv]
                           /\ <<u, m>> \in received' => told'[u][m] # "none"
      BY <1>4, <2>1, <2>3 DEF SentFits
    <2>7. ASSUME NEW t2 \in Tasks, job'[t2].msg = m
          PROVE  /\ text'[m] # "none" /\ job'[t2].to \subseteq members'[place'[m].conv]
                 /\ job'[t2].op = "send" => job'[t2].user = place'[m].from
                 /\ job'[t2].at \in {"alert", "ring"} => \A u \in job'[t2].to : <<u, m>> \in received'
      <3>1. job[t2].msg = m /\ job'[t2] = job[t2] BY <2>4, <2>7
      <3>2. job[t2].to \subseteq Users BY ChatFacts DEF JobStates
      <3> QED BY <1>4, <2>2, <2>3, <3>1, <3>2 DEF SentFits
    <2> QED BY <2>5, <2>6, <2>7 DEF SentFits
  <1>6. ToldFits(m)'
    <2> SUFFICES ASSUME m \notin crossed' PROVE ToldFits(m)' BY DEF ToldFits, Writer
    <2>1. \A t2 \in Tasks : Telling(t2, m)' <=> Telling(t2, m) BY <1>2, <1>3 DEF Telling
    <2>2. \A t2 \in Tasks : job'[t2].msg = m => job[t2].msg = m /\ job'[t2] = job[t2] BY <1>2
    <2>3. \A t2 \in Tasks : Telling(t2, m) => job'[t2] = job[t2] BY <1>3 DEF Telling
    <2> QED BY <1>4, <2>1, <2>2, <2>3 DEF ToldFits, Writer
  <1>7. AlertFits(m)' BY <1>3, <1>4 DEF AlertFits
  <1> QED BY <1>5, <1>6, <1>7 DEF MessageFits


\* A step of a request on message m.
LEMMA MessageStep ==
  ASSUME ChatInv, NEW t \in Tasks, NEW j \in JobStates, Go(t, j), JobFits(j), NEW m \in Messages,
         job[t].msg \in {m, None}, j.msg \in {m, None}, j.op \notin {"private", "group"},
         UNCHANGED <<kind, members, raced, focus, looked>>, ChatTypes',
         \A m2 \in Messages \ {m} :
           /\ text'[m2] = text[m2] /\ place'[m2] = place[m2] /\ (m2 \in crossed => m2 \in crossed')
           /\ \A u \in Users : /\ told'[u][m2] = told[u][m2]
                               /\ (<<u, m2>> \in received') <=> (<<u, m2>> \in received)
                               /\ (<<u, m2>> \in alerts') <=> (<<u, m2>> \in alerts)
                               /\ (<<u, m2>> \in rung') <=> (<<u, m2>> \in rung),
         MessageFits(m)'
  PROVE  ChatInv'
  <1>1. /\ (job \in [Tasks -> JobStates])' /\ (\A t2 \in Tasks : JobFits(job[t2]))'
    BY NewJob
  <1>2. RoomsFit' /\ PairsFit' BY RoomsStay
  <1>3. ASSUME NEW m2 \in Messages \ {m} PROVE MessageFits(m2)'
    <2>1. job[t].msg # m2 /\ j.msg # m2 BY ChatAssumption
    <2> QED BY <2>1, MessageStays
  <1>4. Focused' BY ChatFacts DEF Focused
  <1> QED BY <1>1, <1>2, <1>3, <1>4, ChatAgain

LEMMA SendKeeps ==
  ASSUME ChatInv, NEW t \in Tasks, NEW u \in Users, NEW c \in Convs, NEW m \in Messages, NEW x \in Texts,
         Send(t, u, c, m, x)
  PROVE  ChatInv'
  <1> DEFINE j == [Done EXCEPT !.op = "send", !.at = "list", !.user = u, !.msg = m, !.shows = x]
  <1>0. /\ ChatTypes /\ job[t] = Done /\ text[m] = "none" /\ u \in members[c] /\ Go(t, j)
        /\ text' = [text EXCEPT ![m] = x] /\ place' = [place EXCEPT ![m] = [conv |-> c, from |-> u]]
        /\ UNCHANGED <<kind, members, groups, marks, focus, told, received, alerts, rung, looked, crossed, raced>>
    BY ChatFacts DEF Send, Ask, IsMember, InsertMessage, Announce, rooms, screens
  <1>1. /\ j \in JobStates /\ j.op = "send" /\ j.at = "list" /\ j.user = u /\ j.msg = m /\ j.shows = x
        /\ j.to = {} /\ j.conv = None
    BY DoneIs DEF Done, JobStates, Writes, Marks
  <1> HIDE DEF j
  <1>2. JobFits(j) BY <1>1 DEF JobFits, Writes, Marks
  <1>3. ChatTypes' BY <1>0 DEF ChatTypes
  <1>4. job'[t] = j /\ \A t2 \in Tasks \ {t} : job'[t2] = job[t2] BY <1>0, <1>1, <1>2, NewJob
  <1>5. SentFits(m) BY DEF ChatInv, MessageFits
  <1>6. /\ \A t2 \in Tasks : job[t2].msg # m
        /\ \A u2 \in Users : told[u2][m] = "none" /\ <<u2, m>> \notin received
    BY <1>0, <1>5 DEF SentFits
  <1>7. /\ \A t2 \in Tasks : job'[t2].msg = m => t2 = t
        /\ text'[m] = x /\ place'[m].conv = c /\ place'[m].from = u /\ x # "none"
    BY <1>0, <1>4, <1>6, ChatAssumption DEF ChatTypes
  <1>8. SentFits(m)' BY <1>0, <1>1, <1>4, <1>6, <1>7 DEF SentFits
  <1>9. ToldFits(m)'
    <2>1. Telling(t, m)' BY <1>1, <1>4 DEF Telling
    <2>2. \A t2 \in Tasks : Telling(t2, m)' => t2 = t BY <1>7 DEF Telling
    <2> QED BY <1>1, <1>4, <1>7, <2>1, <2>2 DEF ToldFits, Writer
  <1>10. AlertFits(m)' BY <1>0, <1>6 DEF AlertFits
  <1>11. MessageFits(m)' BY <1>8, <1>9, <1>10 DEF MessageFits
  <1>12. \A m2 \in Messages \ {m} : text'[m2] = text[m2] /\ place'[m2] = place[m2]
    BY <1>0 DEF ChatTypes
  <1>13. job[t].msg = None BY <1>0, DoneIs
  <1> QED BY <1>0, <1>1, <1>2, <1>3, <1>11, <1>12, <1>13, MessageStep

\* The requests that cross another one.
LEMMA CrossMeans ==
  ASSUME ChatInv, NEW t \in Tasks, NEW m \in Messages, job[t] = Done, Cross(t, m)
  PROVE  /\ crossed' \subseteq crossed \cup {m} /\ crossed \subseteq crossed'
         /\ m \notin crossed' => \A t2 \in Tasks : job[t2].msg # m
  <1>1. job[t].msg # m BY DoneIs, ChatAssumption
  <1> QED BY <1>1 DEF Cross

LEMMA EditKeeps ==
  ASSUME ChatInv, NEW t \in Tasks, NEW m \in Messages, NEW x \in Texts, Edit(t, m, x)
  PROVE  ChatInv'
  <1>u. PICK u \in Users \cup {None} : u = place[m].from BY ChatFacts DEF ChatTypes
  <1> DEFINE j == [Done EXCEPT !.op = "edit", !.at = "list", !.user = u, !.msg = m, !.shows = x]
  <1>0. /\ ChatTypes /\ job[t] = Done /\ text[m] \in Texts /\ Cross(t, m) /\ Go(t, j)
        /\ text' = [text EXCEPT ![m] = x]
        /\ UNCHANGED <<kind, members, groups, place, marks, focus, told, received, alerts, rung, looked, raced>>
    BY <1>u, ChatFacts DEF Edit, Ask, Alive, UpdateMessage, Announce, rooms, screens
  <1>1. /\ j \in JobStates /\ j.op = "edit" /\ j.at = "list" /\ j.msg = m /\ j.shows = x
        /\ j.to = {} /\ j.conv = None
    BY DoneIs DEF Done, JobStates, Writes, Marks
  <1> HIDE DEF j
  <1>2. JobFits(j) BY <1>1 DEF JobFits, Writes, Marks
  <1>3. ChatTypes' BY <1>0 DEF ChatTypes
  <1>4. job'[t] = j /\ \A t2 \in Tasks \ {t} : job'[t2] = job[t2] BY <1>0, <1>1, <1>2, NewJob
  <1>5. SentFits(m) /\ AlertFits(m) BY DEF ChatInv, MessageFits
  <1>6. text'[m] = x /\ x # "none" /\ text[m] # "none" BY <1>0, ChatAssumption DEF ChatTypes
  <1>7. /\ crossed' \subseteq crossed \cup {m} /\ crossed \subseteq crossed'
        /\ m \notin crossed' => \A t2 \in Tasks : job[t2].msg # m
    BY <1>0, CrossMeans
  <1>8. SentFits(m)' BY <1>0, <1>1, <1>4, <1>5, <1>6 DEF SentFits
  <1>9. ToldFits(m)'
    <2> SUFFICES ASSUME m \notin crossed' PROVE ToldFits(m)' BY DEF ToldFits, Writer
    <2>1. Telling(t, m)' BY <1>1, <1>4 DEF Telling
    <2>2. \A t2 \in Tasks : job'[t2].msg = m => t2 = t BY <1>4, <1>7
    <2>3. \A t2 \in Tasks : Telling(t2, m)' => t2 = t BY <2>2 DEF Telling
    <2> QED BY <1>1, <1>4, <1>6, <2>1, <2>2, <2>3 DEF ToldFits, Writer
  <1>10. AlertFits(m)'
    <2> SUFFICES ASSUME m \notin crossed' PROVE AlertFits(m)' BY DEF AlertFits
    <2>1. \A t2 \in Tasks : job[t2].msg # m BY <1>7
    <2> QED BY <1>0, <1>5, <1>7, <2>1 DEF AlertFits
  <1>11. MessageFits(m)' BY <1>8, <1>9, <1>10 DEF MessageFits
  <1>12. \A m2 \in Messages \ {m} : text'[m2] = text[m2] /\ (m2 \in crossed => m2 \in crossed')
    BY <1>0, <1>7 DEF ChatTypes
  <1>13. job[t].msg = None BY <1>0, DoneIs
  <1> QED BY <1>0, <1>1, <1>2, <1>3, <1>11, <1>12, <1>13, MessageStep

LEMMA DeleteFindKeeps ==
  ASSUME ChatInv, NEW t \in Tasks, NEW m \in Messages, DeleteFind(t, m)
  PROVE  ChatInv'
  <1>u. PICK u \in Users \cup {None} : u = place[m].from BY ChatFacts DEF ChatTypes
  <1> DEFINE j == [Done EXCEPT !.op = "delete", !.at = "delete", !.user = u, !.msg = m, !.shows = "gone"]
  <1>0. /\ ChatTypes /\ job[t] = Done /\ text[m] \in Texts /\ Cross(t, m) /\ Go(t, j)
        /\ UNCHANGED <<kind, members, groups, text, place, marks, focus, told, received, alerts, rung, looked, raced>>
    BY <1>u, ChatFacts DEF DeleteFind, Ask, Alive, rooms, rows, screens
  <1>1. /\ j \in JobStates /\ j.op = "delete" /\ j.at = "delete" /\ j.msg = m /\ j.shows = "gone"
        /\ j.to = {} /\ j.conv = None
    BY DoneIs DEF Done, JobStates, Writes, Marks
  <1> HIDE DEF j
  <1>2. JobFits(j) BY <1>1 DEF JobFits, Writes, Marks
  <1>3. ChatTypes' BY <1>0 DEF ChatTypes
  <1>4. job'[t] = j /\ \A t2 \in Tasks \ {t} : job'[t2] = job[t2] BY <1>0, <1>1, <1>2, NewJob
  <1>5. SentFits(m) /\ ToldFits(m) /\ AlertFits(m) BY DEF ChatInv, MessageFits
  <1>6. text[m] # "none" BY <1>0, ChatAssumption
  <1>7. /\ crossed' \subseteq crossed \cup {m} /\ crossed \subseteq crossed'
        /\ m \notin crossed' => \A t2 \in Tasks : job[t2].msg # m
    BY <1>0, CrossMeans
  <1>8. SentFits(m)' BY <1>0, <1>1, <1>4, <1>5, <1>6 DEF SentFits
  <1>9. ToldFits(m)'
    <2> SUFFICES ASSUME m \notin crossed' PROVE ToldFits(m)' BY DEF ToldFits, Writer
    <2>1. \A t2 \in Tasks : ~Telling(t2, m) BY <1>7 DEF Telling
    <2>2. \A t2 \in Tasks : job'[t2].msg = m => t2 = t BY <1>4, <1>7
    <2>3. \A t2 \in Tasks : ~Telling(t2, m)' BY <1>1, <1>4, <2>2 DEF Telling
    <2> QED BY <1>0, <1>5, <1>7, <2>1, <2>2, <2>3 DEF ToldFits, Writer
  <1>10. AlertFits(m)'
    <2> SUFFICES ASSUME m \notin crossed' PROVE AlertFits(m)' BY DEF AlertFits
    <2>1. \A t2 \in Tasks : job[t2].msg # m BY <1>7
    <2> QED BY <1>0, <1>5, <1>7, <2>1 DEF AlertFits
  <1>11. MessageFits(m)' BY <1>8, <1>9, <1>10 DEF MessageFits
  <1>12. job[t].msg = None BY <1>0, DoneIs
  <1> QED BY <1>0, <1>1, <1>2, <1>3, <1>7, <1>11, <1>12, MessageStep


\* What the statements that follow a write know of it.
LEMMA AfterWrite ==
  ASSUME ChatInv, NEW t \in Tasks, job[t].at \in {"delete", "list", "tell", "alert", "ring"}
  PROVE  /\ job[t].op \in Writes /\ job[t].msg \in Messages /\ job[t].conv = None
         /\ job[t].shows \in Texts \cup {"gone"} /\ text[job[t].msg] # "none"
         /\ place[job[t].msg].conv \in Convs
         /\ job[t].at = "delete" => job[t].op = "delete" /\ job[t].shows = "gone"
         /\ job[t].at \in {"alert", "ring"} => job[t].op = "send"
  <1>1. job[t] \in JobStates /\ JobFits(job[t]) BY ChatFacts
  <1>2. /\ job[t].op \in Writes /\ job[t].msg \in Messages /\ job[t].conv = None
        /\ job[t].shows \in Texts \cup {"gone"}
        /\ job[t].at = "delete" => job[t].op = "delete" /\ job[t].shows = "gone"
        /\ job[t].at \in {"alert", "ring"} => job[t].op = "send"
    BY <1>1, DoneIs DEF JobFits, JobStates, Writes, Marks
  <1> QED BY <1>2 DEF ChatInv, MessageFits, SentFits

\* The request that tells of a message that no two have written at a time is the only one.
LEMMA TellsAlone ==
  ASSUME ChatInv, NEW t \in Tasks, NEW m \in Messages, m \notin crossed, Writer(t, m)
  PROVE  \A t2 \in Tasks \ {t} : ~Telling(t2, m)
  <1> SUFFICES ASSUME NEW t2 \in Tasks, Telling(t2, m) PROVE t2 = t OBVIOUS
  <1>1. Writer(t2, m) BY AfterWrite DEF Telling, Writer
  <1> QED BY <1>1 DEF ChatInv, MessageFits, ToldFits

LEMMA DeleteRowKeeps ==
  ASSUME ChatInv, NEW t \in Tasks, DeleteRow(t)
  PROVE  ChatInv'
  <1>m. PICK m \in Messages : m = job[t].msg BY AfterWrite DEF DeleteRow
  <1> DEFINE j == [job[t] EXCEPT !.at = "list"]
  <1>0. /\ ChatTypes /\ job[t] \in JobStates /\ job[t].at = "delete" /\ job[t].op = "delete" /\ job[t].shows = "gone"
        /\ job[t].conv = None /\ JobFits(job[t]) /\ text[m] # "none" /\ place[m].conv \in Convs /\ Go(t, j)
        /\ text' = [text EXCEPT ![m] = "gone"] /\ marks' \subseteq marks
        /\ UNCHANGED <<kind, members, groups, place, focus, told, received, alerts, rung, looked, crossed, raced>>
    BY <1>m, ChatFacts, AfterWrite DEF DeleteRow, rooms, screens
  <1>1. /\ j \in JobStates /\ j.op = "delete" /\ j.at = "list" /\ j.msg = m /\ j.shows = "gone"
        /\ j.to = job[t].to /\ j.conv = None
    BY <1>0, <1>m DEF JobStates
  <1> HIDE DEF j
  <1>2. JobFits(j) BY <1>1 DEF JobFits, Writes, Marks
  <1>3. ChatTypes' BY <1>0 DEF ChatTypes
  <1>4. job'[t] = j /\ \A t2 \in Tasks \ {t} : job'[t2] = job[t2] BY <1>0, <1>1, <1>2, NewJob
  <1>5. SentFits(m) /\ ToldFits(m) /\ AlertFits(m) BY DEF ChatInv, MessageFits
  <1>6. text'[m] = "gone" BY <1>0 DEF ChatTypes
  <1>8. SentFits(m)'
    <2>1. \A t2 \in Tasks : job'[t2].msg = m =>
            /\ job[t2].msg = m /\ job'[t2].to = job[t2].to
            /\ job'[t2].op = "send" => job[t2].op = "send" /\ job'[t2].user = job[t2].user
            /\ job'[t2].at \in {"alert", "ring"} => job[t2].at \in {"alert", "ring"}
      BY <1>m, <1>1, <1>4
    <2> QED BY <1>0, <1>5, <1>6, <2>1 DEF SentFits
  <1>9. ToldFits(m)'
    <2> SUFFICES ASSUME m \notin crossed PROVE ToldFits(m)' BY <1>0 DEF ToldFits
    <2>1. Telling(t, m)' BY <1>1, <1>4 DEF Telling
    <2>2. \A t2 \in Tasks \ {t} : ~Telling(t2, m) BY <1>0, <1>m, TellsAlone DEF Writes, Writer
    <2>3. \A t2 \in Tasks : Telling(t2, m)' => t2 = t BY <1>4, <2>2 DEF Telling
    <2>4. \A t2 \in Tasks : Writer(t2, m)' => Writer(t2, m)
      BY <1>0, <1>m, <1>1, <1>4 DEF Writer
    <2>e. \A t2, t3 \in Tasks : Writer(t2, m) /\ Writer(t3, m) => t2 = t3
      BY <1>5 DEF ToldFits
    <2>5. \A t2, t3 \in Tasks : Writer(t2, m)' /\ Writer(t3, m)' => t2 = t3
      BY <2>4, <2>e
    <2> QED BY <1>1, <1>4, <1>6, <2>1, <2>3, <2>5 DEF ToldFits
  <1>10. AlertFits(m)'
    <2>1. \A t2 \in Tasks : job[t2].at \in {"alert", "ring"} => job'[t2] = job[t2] BY <1>0, <1>4
    <2> QED BY <1>0, <1>5, <2>1 DEF AlertFits
  <1>11. MessageFits(m)' BY <1>8, <1>9, <1>10 DEF MessageFits
  <1>12. \A m2 \in Messages \ {m} : text'[m2] = text[m2] BY <1>0 DEF ChatTypes
  <1> QED BY <1>0, <1>m, <1>1, <1>2, <1>3, <1>11, <1>12, MessageStep

LEMMA ListMembersKeeps ==
  ASSUME ChatInv, NEW t \in Tasks, ListMembers(t)
  PROVE  ChatInv'
  <1>m. PICK m \in Messages : m = job[t].msg BY AfterWrite DEF ListMembers
  <1>s. PICK S \in SUBSET Users : S = members[place[m].conv]
    BY <1>m, ChatFacts, AfterWrite DEF ListMembers, ChatTypes
  <1> DEFINE j == [job[t] EXCEPT !.at = "tell", !.to = S]
  <1>0. /\ ChatTypes /\ job[t] \in JobStates /\ job[t].at = "list" /\ job[t].op \in Writes
        /\ job[t].shows \in Texts \cup {"gone"}
        /\ job[t].conv = None /\ text[m] # "none" /\ place[m].conv \in Convs /\ Go(t, j)
        /\ UNCHANGED <<kind, members, groups, text, place, marks, focus, told, received, alerts, rung, looked, crossed, raced>>
    BY <1>m, <1>s, ChatFacts, AfterWrite DEF ListMembers, rooms, rows, screens
  <1>1. /\ j \in JobStates /\ j.op = job[t].op /\ j.at = "tell" /\ j.msg = m /\ j.shows = job[t].shows
        /\ j.to = S /\ j.conv = None /\ j.user = job[t].user
    BY <1>0, <1>m DEF JobStates
  <1> HIDE DEF j
  <1>2. JobFits(j) BY <1>0, <1>1 DEF JobFits, Writes, Marks
  <1>3. ChatTypes' BY <1>0 DEF ChatTypes
  <1>4. job'[t] = j /\ \A t2 \in Tasks \ {t} : job'[t2] = job[t2] BY <1>0, <1>1, <1>2, NewJob
  <1>5. SentFits(m) /\ ToldFits(m) /\ AlertFits(m) BY DEF ChatInv, MessageFits
  <1>8. SentFits(m)'
    <2>1. /\ text'[m] # "none" => place'[m].conv \in Convs /\ place'[m].from \in members'[place'[m].conv]
          /\ \A u \in Users : /\ told'[u][m] # "none" => text'[m] # "none" /\ u \in members'[place'[m].conv]
                              /\ <<u, m>> \in received' => told'[u][m] # "none"
      BY <1>0, <1>5 DEF SentFits
    <2>2. \A t2 \in Tasks : job'[t2].msg = m =>
            /\ job[t2].msg = m /\ job'[t2].to \in {job[t2].to, S}
            /\ job'[t2].op = "send" => job[t2].op = "send" /\ job'[t2].user = job[t2].user
            /\ job'[t2].at \in {"alert", "ring"} => job[t2].at \in {"alert", "ring"} /\ job'[t2].to = job[t2].to
      BY <1>m, <1>1, <1>4
    <2>3. \A t2 \in Tasks : job'[t2].msg = m => job'[t2].to \subseteq members'[place'[m].conv]
      BY <1>0, <1>5, <1>s, <2>2 DEF SentFits
    <2> QED BY <1>0, <1>5, <2>1, <2>2, <2>3 DEF SentFits
  <1>9. ToldFits(m)'
    <2> SUFFICES ASSUME m \notin crossed PROVE ToldFits(m)' BY <1>0 DEF ToldFits
    <2>1. Telling(t, m)' /\ Telling(t, m) BY <1>0, <1>m, <1>1, <1>4 DEF Telling
    <2>2. \A t2 \in Tasks \ {t} : ~Telling(t2, m) BY <1>0, <1>m, TellsAlone DEF Writer
    <2>3. \A t2 \in Tasks : Telling(t2, m)' => t2 = t BY <1>4, <2>2 DEF Telling
    <2>4. \A t2 \in Tasks : Writer(t2, m)' => Writer(t2, m)
      BY <1>0, <1>m, <1>1, <1>4 DEF Writer
    <2>e. \A t2, t3 \in Tasks : Writer(t2, m) /\ Writer(t3, m) => t2 = t3
      BY <1>5 DEF ToldFits
    <2>5. \A t2, t3 \in Tasks : Writer(t2, m)' /\ Writer(t3, m)' => t2 = t3
      BY <2>4, <2>e
    <2>6. job[t].shows = text[m] BY <1>5, <2>1 DEF ToldFits
    <2>7. place[m].from \in S /\ \A u \in Users : told[u][m] # "none" => u \in S
      BY <1>0, <1>s, <1>5 DEF SentFits
    <2> QED BY <1>0, <1>1, <1>4, <2>1, <2>3, <2>5, <2>6, <2>7 DEF ToldFits
  <1>10. AlertFits(m)'
    <2>1. \A t2 \in Tasks : job[t2].at \in {"alert", "ring"} => job'[t2] = job[t2] BY <1>0, <1>4
    <2> QED BY <1>0, <1>5, <2>1 DEF AlertFits
  <1>11. MessageFits(m)' BY <1>8, <1>9, <1>10 DEF MessageFits
  <1>12. j.op \notin {"private", "group"} BY <1>0, <1>1 DEF Writes
  <1> QED BY <1>0, <1>m, <1>1, <1>2, <1>3, <1>11, <1>12, MessageStep


\* An event reaches everybody who was told before: what each was told last is what the row holds.
LEMMA TellKeeps ==
  ASSUME ChatInv, NEW t \in Tasks, Tell(t)
  PROVE  ChatInv'
  <1>m. PICK m \in Messages : m = job[t].msg BY AfterWrite DEF Tell
  <1>x. PICK x \in Texts \cup {"gone"} : x = job[t].shows BY AfterWrite DEF Tell
  <1>b. PICK S \in SUBSET Users : S = job[t].to BY ChatFacts DEF JobStates
  <1>0. /\ ChatTypes /\ job[t] \in JobStates /\ job[t].at = "tell" /\ job[t].op \in Writes /\ JobFits(job[t])
        /\ job[t].conv = None /\ text[m] # "none" /\ place[m].conv \in Convs
        /\ told' = [u \in Users |-> IF u \in S THEN [told[u] EXCEPT ![m] = x] ELSE told[u]]
        /\ received' = IF job[t].op = "send" THEN received \cup (S \X {m}) ELSE received
        /\ UNCHANGED <<kind, members, groups, text, place, marks, focus, alerts, rung, looked, crossed, raced>>
    BY <1>m, <1>x, <1>b, ChatFacts, AfterWrite DEF Tell, rooms, rows
  <1>1. PICK j \in JobStates :
          /\ Go(t, j) /\ JobFits(j) /\ j.op \in {"done", "send"} /\ j.at \in {"done", "alert"} /\ j.msg \in {m, None}
          /\ j.to \subseteq S
          /\ job[t].op = "send" => /\ j.op = "send" /\ j.at = "alert" /\ j.msg = m
                                   /\ j.to = S \ {job[t].user} /\ j.user = job[t].user
          /\ job[t].op # "send" => j = Done
    <2>1. CASE job[t].op = "send"
      <3> DEFINE j == [job[t] EXCEPT !.at = "alert", !.to = S \ {job[t].user}]
      <3>1. /\ j \in JobStates /\ j.op = "send" /\ j.at = "alert" /\ j.msg = m /\ j.shows = x
            /\ j.to = S \ {job[t].user} /\ j.conv = None /\ j.user = job[t].user
        BY <1>0, <1>m, <1>x, <2>1 DEF JobStates
      <3>2. Go(t, j) BY <1>0, <1>b, <2>1 DEF Tell
      <3> HIDE DEF j
      <3>3. JobFits(j) BY <3>1 DEF JobFits, Writes, Marks
      <3> QED BY <2>1, <3>1, <3>2, <3>3
    <2>2. CASE job[t].op # "send"
      <3>1. Go(t, Done) BY <2>2 DEF Tell
      <3> QED BY <2>2, <3>1, DoneIs
    <2> QED BY <2>1, <2>2
  <1>2. /\ \A u \in Users : told'[u][m] = IF u \in S THEN x ELSE told[u][m]
        /\ \A u \in Users, m2 \in Messages \ {m} : told'[u][m2] = told[u][m2]
        /\ told' \in [Users -> [Messages -> Texts \cup {"none", "gone"}]]
    BY <1>0 DEF ChatTypes
  <1>3. /\ \A u \in Users : <<u, m>> \in received' <=> (<<u, m>> \in received \/ (job[t].op = "send" /\ u \in S))
        /\ \A u \in Users, m2 \in Messages \ {m} : (<<u, m2>> \in received') <=> (<<u, m2>> \in received)
        /\ received' \subseteq Users \X Messages /\ received \subseteq received'
    BY <1>0 DEF ChatTypes
  <1>4. ChatTypes' BY <1>0, <1>2, <1>3 DEF ChatTypes
  <1>5. job'[t] = j /\ \A t2 \in Tasks \ {t} : job'[t2] = job[t2] BY <1>1, NewJob
  <1>6. SentFits(m) /\ ToldFits(m) /\ AlertFits(m) BY DEF ChatInv, MessageFits
  <1>7. x # "none" BY ChatAssumption
  <1>8. SentFits(m)'
    <2>1. S \subseteq members[place[m].conv] BY <1>6, <1>m, <1>b DEF SentFits
    <2>2. text'[m] # "none" => place'[m].conv \in Convs /\ place'[m].from \in members'[place'[m].conv]
      BY <1>0, <1>6 DEF SentFits
    <2>3. ASSUME NEW u \in Users
          PROVE  /\ told'[u][m] # "none" => text'[m] # "none" /\ u \in members'[place'[m].conv]
                 /\ <<u, m>> \in received' => told'[u][m] # "none"
      BY <1>0, <1>2, <1>3, <1>6, <1>7, <2>1 DEF SentFits
    <2>4. ASSUME NEW t2 \in Tasks, job'[t2].msg = m
          PROVE  /\ text'[m] # "none" /\ job'[t2].to \subseteq members'[place'[m].conv]
                 /\ job'[t2].op = "send" => job'[t2].user = place'[m].from
                 /\ job'[t2].at \in {"alert", "ring"} => \A u \in job'[t2].to : <<u, m>> \in received'
      <3>1. CASE t2 # t
        <4>1. job'[t2] = job[t2] /\ job[t2].msg = m BY <1>5, <2>4, <3>1
        <4>2. job[t2].to \subseteq Users BY ChatFacts DEF JobStates
        <4> QED BY <1>0, <1>3, <1>6, <4>1, <4>2 DEF SentFits
      <3>2. CASE t2 = t
        <4>1. job[t].op = "send"
          <5> SUFFICES ASSUME job[t].op # "send" PROVE FALSE OBVIOUS
          <5>1. job'[t2] = Done BY <1>1, <1>5, <3>2
          <5> QED BY <2>4, <5>1, DoneIs, ChatAssumption
        <4>2. job[t].user = place[m].from BY <1>6, <1>m, <4>1 DEF SentFits
        <4> QED BY <1>0, <1>1, <1>3, <1>5, <2>1, <3>2, <4>1, <4>2
      <3> QED BY <3>1, <3>2
    <2> QED BY <2>2, <2>3, <2>4 DEF SentFits
  <1>9. ToldFits(m)'
    <2> SUFFICES ASSUME m \notin crossed PROVE ToldFits(m)' BY <1>0 DEF ToldFits
    <2>1. Telling(t, m) /\ Writer(t, m) BY <1>0, <1>m DEF Telling, Writer
    <2>2. \A t2 \in Tasks : ~Telling(t2, m)'
      <3>1. \A t2 \in Tasks \ {t} : ~Telling(t2, m) BY <2>1, TellsAlone
      <3> QED BY <1>1, <1>5, <3>1 DEF Telling
    <2>3. \A t2 \in Tasks : Writer(t2, m)' => Writer(t2, m) BY <1>5, <2>1 DEF Writer
    <2>4. \A t2, t3 \in Tasks : Writer(t2, m)' /\ Writer(t3, m)' => t2 = t3
      BY <1>6, <2>3 DEF ToldFits
    <2>5. x = text[m] /\ place[m].from \in S /\ \A u \in Users : told[u][m] # "none" => u \in S
      BY <1>0, <1>x, <1>b, <1>6, <2>1 DEF ToldFits
    <2>6. ASSUME NEW u \in Users
          PROVE  /\ told'[u][m] \in {"none", text'[m]}
                 /\ u = place'[m].from \/ <<u, m>> \in alerts' \cup rung' => told'[u][m] = text'[m]
      <3>1. <<u, m>> \in alerts \cup rung => u \in S BY <1>0, <1>6, <2>5 DEF ChatTypes, SentFits
      <3> QED BY <1>0, <1>2, <2>5, <3>1
    <2> QED BY <2>2, <2>4, <2>6 DEF ToldFits
  <1>10. AlertFits(m)'
    <2> SUFFICES ASSUME m \notin crossed, NEW u \in Users, u # place[m].from,
                        <<u, m>> \in received', <<u, place[m].conv>> \notin looked
                 PROVE  <<u, m>> \in rung \/ \E t2 \in Tasks : job'[t2].msg = m /\ job'[t2].at \in {"alert", "ring"} /\ u \in job'[t2].to
      BY <1>0 DEF AlertFits
    <2>1. CASE <<u, m>> \in received
      <3>1. \A t2 \in Tasks : job[t2].at \in {"alert", "ring"} => job'[t2] = job[t2] BY <1>0, <1>5
      <3> QED BY <1>6, <2>1, <3>1 DEF AlertFits
    <2>2. CASE job[t].op = "send" /\ u \in S
      <3>1. job[t].user = place[m].from BY <1>6, <1>m, <2>2 DEF SentFits
      <3> QED BY <1>1, <1>5, <2>2, <3>1
    <2> QED BY <1>3, <2>1, <2>2
  <1>11. MessageFits(m)' BY <1>8, <1>9, <1>10 DEF MessageFits
  <1> QED BY <1>0, <1>m, <1>1, <1>2, <1>3, <1>4, <1>11, MessageStep

\* A step of the alerts of a message, at user u.
LEMMA AlertingKeeps ==
  ASSUME ChatInv, NEW t \in Tasks, NEW j \in JobStates, Go(t, j), JobFits(j), job[t].at \in {"alert", "ring"},
         NEW m \in Messages, m = job[t].msg, NEW u \in Users, u \in job[t].to,
         j.op = "send", j.at \in {"alert", "ring"}, j.msg = m, j.user = job[t].user, j.to \subseteq job[t].to,
         alerts' \in {alerts, alerts \cup {<<u, m>>}}, rung' \in {rung, rung \cup {<<u, m>>}},
         \A u2 \in job[t].to \ j.to : <<u2, m>> \in rung' \/ focus[u2] = place[m].conv,
         UNCHANGED <<kind, members, groups, text, place, marks, focus, told, received, looked, crossed, raced>>
  PROVE  ChatInv'
  <1>0. /\ ChatTypes /\ job[t].op = "send" /\ text[m] # "none" /\ place[m].conv \in Convs
    BY ChatFacts, AfterWrite
  <1>4. job'[t] = j /\ \A t2 \in Tasks \ {t} : job'[t2] = job[t2] BY NewJob
  <1>5. SentFits(m) /\ ToldFits(m) /\ AlertFits(m) BY DEF ChatInv, MessageFits
  <1>6. <<u, m>> \in received BY <1>5 DEF SentFits
  <1>7. /\ ChatTypes' /\ rung \subseteq rung'
        /\ \A u2 \in Users \ {u} : <<u2, m>> \in alerts' \cup rung' => <<u2, m>> \in alerts \cup rung
        /\ \A u2 \in Users, m2 \in Messages \ {m} : /\ (<<u2, m2>> \in alerts') <=> (<<u2, m2>> \in alerts)
                                                   /\ (<<u2, m2>> \in rung') <=> (<<u2, m2>> \in rung)
    BY <1>0, <1>6 DEF ChatTypes
  <1>8. SentFits(m)'
    <2>1. /\ text'[m] # "none" => place'[m].conv \in Convs /\ place'[m].from \in members'[place'[m].conv]
          /\ \A u2 \in Users : /\ told'[u2][m] # "none" => text'[m] # "none" /\ u2 \in members'[place'[m].conv]
                               /\ <<u2, m>> \in received' => told'[u2][m] # "none"
      BY <1>0, <1>5 DEF SentFits
    <2>2. \A t2 \in Tasks : job'[t2].msg = m =>
            /\ job[t2].msg = m /\ job'[t2].to \subseteq job[t2].to
            /\ job'[t2].op = job[t2].op /\ job'[t2].user = job[t2].user
            /\ job'[t2].at \in {"alert", "ring"} => job[t2].at \in {"alert", "ring"}
      BY <1>0, <1>4
    <2> QED BY <1>0, <1>5, <2>1, <2>2 DEF SentFits
  <1>9. ToldFits(m)'
    <2> SUFFICES ASSUME m \notin crossed PROVE ToldFits(m)' BY <1>0 DEF ToldFits
    <2>2. \A t2 \in Tasks : ~Telling(t2, m)' /\ ~Telling(t2, m)
      <3>1. \A t2 \in Tasks \ {t} : ~Telling(t2, m) BY <1>0, TellsAlone DEF Writer, Writes
      <3> QED BY <1>4, <3>1 DEF Telling
    <2>3. \A t2 \in Tasks : Writer(t2, m)' => Writer(t2, m) BY <1>0, <1>4 DEF Writer
    <2>4. \A t2, t3 \in Tasks : Writer(t2, m)' /\ Writer(t3, m)' => t2 = t3
      BY <1>5, <2>3 DEF ToldFits
    <2>5. \A u2 \in Users : /\ told[u2][m] \in {"none", text[m]}
                            /\ u2 = place[m].from \/ <<u2, m>> \in alerts \cup rung => told[u2][m] = text[m]
      BY <1>5, <2>2 DEF ToldFits
    <2>6. told[u][m] = text[m] BY <1>5, <1>6, <2>5 DEF SentFits
    <2>7. \A u2 \in Users : /\ told'[u2][m] \in {"none", text'[m]}
                            /\ u2 = place'[m].from \/ <<u2, m>> \in alerts' \cup rung' => told'[u2][m] = text'[m]
      BY <1>7, <2>5, <2>6
    <2> QED BY <2>2, <2>4, <2>7 DEF ToldFits
  <1>10. AlertFits(m)'
    <2> SUFFICES ASSUME m \notin crossed, NEW u2 \in Users, u2 # place[m].from,
                        <<u2, m>> \in received, <<u2, place[m].conv>> \notin looked
                 PROVE  <<u2, m>> \in rung' \/ \E t2 \in Tasks : job'[t2].msg = m /\ job'[t2].at \in {"alert", "ring"} /\ u2 \in job'[t2].to
      BY <1>0 DEF AlertFits
    <2>1. <<u2, m>> \in rung \/ \E t2 \in Tasks : job[t2].msg = m /\ job[t2].at \in {"alert", "ring"} /\ u2 \in job[t2].to
      BY <1>5 DEF AlertFits
    <2>2. CASE <<u2, m>> \in rung BY <1>7, <2>2
    <2>3. CASE u2 \in job[t].to \ j.to
      <3>1. focus[u2] # None => <<u2, focus[u2]>> \in looked BY ChatFacts DEF Focused
      <3>2. focus[u2] # place[m].conv BY <1>0, <3>1, ChatAssumption
      <3> QED BY <2>3, <3>2
    <2>4. CASE u2 \in j.to BY <1>4, <2>4
    <2>5. ASSUME NEW t2 \in Tasks \ {t}, job[t2].msg = m /\ job[t2].at \in {"alert", "ring"} /\ u2 \in job[t2].to
          PROVE  job'[t2].msg = m /\ job'[t2].at \in {"alert", "ring"} /\ u2 \in job'[t2].to
      BY <1>4, <2>5
    <2> QED BY <2>1, <2>2, <2>3, <2>4, <2>5
  <1>11. MessageFits(m)' BY <1>8, <1>9, <1>10 DEF MessageFits
  <1> QED BY <1>0, <1>7, <1>11, MessageStep

LEMMA AlertKeeps ==
  ASSUME ChatInv, NEW t \in Tasks, NEW u \in Users, Alert(t, u)
  PROVE  ChatInv'
  <1>m. PICK m \in Messages : m = job[t].msg BY AfterWrite DEF Alert
  <1>0. /\ job[t] \in JobStates /\ job[t].at = "alert" /\ job[t].op = "send" /\ u \in job[t].to
        /\ JobFits(job[t]) /\ job[t].conv = None
        /\ UNCHANGED <<kind, members, groups, text, place, marks, focus, told, received, rung, looked, crossed, raced>>
    BY ChatFacts, AfterWrite DEF Alert, rooms, rows
  <1>1. CASE focus[u] = place[m].conv
    <2> DEFINE j == [job[t] EXCEPT !.to = job[t].to \ {u}]
    <2>1. Go(t, j) /\ UNCHANGED alerts BY <1>m, <1>1 DEF Alert, Viewing
    <2>2. /\ j \in JobStates /\ j.op = "send" /\ j.at = "alert" /\ j.msg = m /\ j.shows = job[t].shows
          /\ j.to = job[t].to \ {u} /\ j.conv = None /\ j.user = job[t].user
      BY <1>0, <1>m DEF JobStates
    <2> HIDE DEF j
    <2>3. JobFits(j) BY <1>0, <2>2 DEF JobFits, Writes, Marks
    <2> QED BY <1>m, <1>0, <1>1, <2>1, <2>2, <2>3, AlertingKeeps
  <1>2. CASE focus[u] # place[m].conv
    <2> DEFINE j == [job[t] EXCEPT !.at = "ring", !.peer = u]
    <2>1. Go(t, j) /\ alerts' \in {alerts, alerts \cup {<<u, m>>}} BY <1>m, <1>2 DEF Alert, Viewing
    <2>2. /\ j \in JobStates /\ j.op = "send" /\ j.at = "ring" /\ j.msg = m /\ j.shows = job[t].shows
          /\ j.to = job[t].to /\ j.conv = None /\ j.user = job[t].user /\ j.peer = u
      BY <1>0, <1>m DEF JobStates
    <2> HIDE DEF j
    <2>3. JobFits(j) BY <1>0, <2>2 DEF JobFits, Writes, Marks
    <2> QED BY <1>m, <1>0, <2>1, <2>2, <2>3, AlertingKeeps
  <1> QED BY <1>1, <1>2

LEMMA RingUserKeeps == ASSUME ChatInv, NEW t \in Tasks, RingUser(t) PROVE ChatInv'
  <1>m. PICK m \in Messages : m = job[t].msg BY AfterWrite DEF RingUser
  <1>0. /\ job[t] \in JobStates /\ job[t].at = "ring" /\ job[t].op = "send" /\ JobFits(job[t]) /\ job[t].conv = None
        /\ UNCHANGED <<kind, members, groups, text, place, marks, focus, told, received, alerts, looked, crossed, raced>>
    BY ChatFacts, AfterWrite DEF RingUser, rooms, rows
  <1>u. PICK u \in Users : u = job[t].peer /\ u \in job[t].to
    BY <1>0 DEF JobFits, JobStates, Writes
  <1> DEFINE j == [job[t] EXCEPT !.at = "alert", !.to = job[t].to \ {u}, !.peer = None]
  <1>1. Go(t, j) /\ rung' = rung \cup {<<u, m>>} BY <1>m, <1>u DEF RingUser
  <1>2. /\ j \in JobStates /\ j.op = "send" /\ j.at = "alert" /\ j.msg = m /\ j.shows = job[t].shows
        /\ j.to = job[t].to \ {u} /\ j.conv = None /\ j.user = job[t].user
    BY <1>0, <1>m DEF JobStates
  <1> HIDE DEF j
  <1>3. JobFits(j) BY <1>0, <1>2 DEF JobFits, Writes, Marks
  <1> QED BY <1>m, <1>0, <1>u, <1>1, <1>2, <1>3, AlertingKeeps


\* A step that neither tells nor alerts, nor writes the message, of a request that did not.
LEMMA QuietMessage ==
  ASSUME ChatInv, NEW t \in Tasks, NEW j \in JobStates, Go(t, j), JobFits(j), NEW m \in Messages,
         UNCHANGED <<members, text, place, told, received, alerts, rung, looked>>, crossed \subseteq crossed',
         j.msg = m => text[m] # "none" /\ j.to = {} /\ j.op \in Marks,
         m \notin crossed' => /\ ~Telling(t, m)
                              /\ job[t].msg = m /\ job[t].at \in {"alert", "ring"} => job[t].to = {}
  PROVE  MessageFits(m)'
  <1>1. job'[t] = j /\ \A t2 \in Tasks \ {t} : job'[t2] = job[t2] BY NewJob
  <1>2. SentFits(m) /\ ToldFits(m) /\ AlertFits(m) BY DEF ChatInv, MessageFits
  <1>3. j.op \in Marks => j.at = "mark" BY DEF JobFits
  <1>4. SentFits(m)'
    <2>1. /\ text'[m] # "none" => place'[m].conv \in Convs /\ place'[m].from \in members'[place'[m].conv]
          /\ \A u \in Users : /\ told'[u][m] # "none" => text'[m] # "none" /\ u \in members'[place'[m].conv]
                              /\ <<u, m>> \in received' => told'[u][m] # "none"
      BY <1>2 DEF SentFits
    <2>2. ASSUME NEW t2 \in Tasks, job'[t2].msg = m
          PROVE  /\ text'[m] # "none" /\ job'[t2].to \subseteq members'[place'[m].conv]
                 /\ job'[t2].op = "send" => job'[t2].user = place'[m].from
                 /\ job'[t2].at \in {"alert", "ring"} => \A u \in job'[t2].to : <<u, m>> \in received'
      <3>1. CASE t2 = t BY <1>1, <1>3, <2>2, <3>1 DEF Marks
      <3>2. CASE t2 # t BY <1>1, <1>2, <2>2, <3>2 DEF SentFits
      <3> QED BY <3>1, <3>2
    <2> QED BY <2>1, <2>2 DEF SentFits
  <1>5. ToldFits(m)'
    <2> SUFFICES ASSUME m \notin crossed' PROVE ToldFits(m)' BY DEF ToldFits
    <2>1. \A t2 \in Tasks : Telling(t2, m)' <=> Telling(t2, m) BY <1>1, <1>3 DEF Telling
    <2>2. \A t2 \in Tasks : Writer(t2, m)' => Writer(t2, m) BY <1>1 DEF Writer, Writes, Marks
    <2>3. \A t2, t3 \in Tasks : Writer(t2, m)' /\ Writer(t3, m)' => t2 = t3
      BY <1>2, <2>2 DEF ToldFits
    <2>4. \A t2 \in Tasks : Telling(t2, m) => job'[t2] = job[t2] BY <1>1
    <2> QED BY <1>2, <2>1, <2>3, <2>4 DEF ToldFits
  <1>6. AlertFits(m)'
    <2> SUFFICES ASSUME m \notin crossed' PROVE AlertFits(m)' BY DEF AlertFits
    <2>1. \A t2 \in Tasks, u \in Users : job[t2].msg = m /\ job[t2].at \in {"alert", "ring"} /\ u \in job[t2].to => job'[t2] = job[t2]
      BY <1>1
    <2> QED BY <1>2, <2>1 DEF AlertFits
  <1> QED BY <1>4, <1>5, <1>6 DEF MessageFits

LEMMA AlertedKeeps == ASSUME ChatInv, NEW t \in Tasks, Alerted(t) PROVE ChatInv'
  <1>m. PICK m \in Messages : m = job[t].msg BY AfterWrite DEF Alerted
  <1>0. /\ ChatTypes /\ job[t].at = "alert" /\ job[t].to = {} /\ Go(t, Done)
        /\ UNCHANGED <<kind, members, groups, text, place, marks, focus, told, received, alerts, rung, looked, crossed, raced>>
    BY ChatFacts DEF Alerted, rooms, rows, screens
  <1>1. ChatTypes' BY <1>0 DEF ChatTypes
  <1>2. Done.msg # m BY DoneIs, ChatAssumption
  <1>3. ~Telling(t, m) BY <1>0 DEF Telling
  <1>4. MessageFits(m)' BY <1>0, <1>2, <1>3, DoneIs, QuietMessage
  <1> QED BY <1>0, <1>1, <1>4, <1>m, DoneIs, MessageStep

LEMMA MarkFindKeeps ==
  ASSUME ChatInv, NEW t \in Tasks, NEW u \in Users, NEW m \in Messages, NEW what \in Marks, MarkFind(t, u, m, what)
  PROVE  ChatInv'
  <1> DEFINE j == [Done EXCEPT !.op = what, !.at = "mark", !.user = u, !.msg = m]
  <1>0. /\ ChatTypes /\ job[t] = Done /\ text[m] \in Texts /\ Go(t, j)
        /\ UNCHANGED <<kind, members, groups, text, place, marks, focus, told, received, alerts, rung, looked, crossed, raced>>
    BY ChatFacts DEF MarkFind, Ask, Alive, rooms, rows, screens
  <1>1. j \in JobStates /\ j.op = what /\ j.at = "mark" /\ j.user = u /\ j.msg = m /\ j.to = {} /\ j.conv = None
    BY DoneIs DEF Done, JobStates, Writes, Marks
  <1> HIDE DEF j
  <1>2. JobFits(j) /\ j.op \notin {"private", "group"} BY <1>1 DEF JobFits, Writes, Marks
  <1>3. ChatTypes' BY <1>0 DEF ChatTypes
  <1>4. job[t].msg = None /\ None # m BY <1>0, DoneIs, ChatAssumption
  <1>5. ~Telling(t, m) BY <1>4 DEF Telling
  <1>6. text[m] # "none" BY <1>0, ChatAssumption
  <1>7. MessageFits(m)' BY <1>0, <1>1, <1>2, <1>4, <1>5, <1>6, QuietMessage
  <1> QED BY <1>0, <1>1, <1>2, <1>3, <1>4, <1>7, MessageStep

LEMMA MarkRowKeeps == ASSUME ChatInv, NEW t \in Tasks, MarkRow(t) PROVE ChatInv'
  <1>1. /\ job[t].at = "mark" /\ job[t] \in JobStates /\ JobFits(job[t]) /\ ChatTypes
    BY ChatFacts DEF MarkRow
  <1>2. job[t].op \in Marks /\ job[t].user \in Users /\ job[t].msg \in Messages
    BY <1>1, DoneIs DEF JobFits, JobStates, Writes, Marks
  <1>m. PICK m \in Messages : m = job[t].msg BY <1>2
  <1>3. Mark(t) \in Messages \X Users \X {"reaction", "read"} BY <1>2 DEF Mark
  <1>0. /\ Go(t, Done) /\ marks' \subseteq marks \cup {Mark(t)}
        /\ UNCHANGED <<kind, members, groups, text, place, focus, told, received, alerts, rung, looked, crossed, raced>>
    BY DEF MarkRow, rooms, screens
  <1>4. ChatTypes' BY <1>0, <1>1, <1>3 DEF ChatTypes
  <1>5. Done.msg # m BY DoneIs, ChatAssumption
  <1>6. ~Telling(t, m) BY <1>1 DEF Telling
  <1>7. MessageFits(m)' BY <1>0, <1>1, <1>5, <1>6, DoneIs, QuietMessage
  <1> QED BY <1>0, <1>4, <1>7, <1>m, DoneIs, MessageStep

LEMMA DropChatKeeps == ASSUME ChatInv, NEW t \in Tasks, DropChat(t) PROVE ChatInv'
  <1>0. /\ Go(t, Done) /\ job[t] \in JobStates /\ ChatTypes
        /\ crossed' = IF job[t].msg = None THEN crossed ELSE crossed \cup {job[t].msg}
        /\ UNCHANGED <<kind, members, groups, text, place, marks, focus, told, received, alerts, rung, looked, raced>>
    BY ChatFacts DEF DropChat, rooms, rows, screens
  <1>1. ChatTypes' BY <1>0 DEF ChatTypes
  <1>2. crossed \subseteq crossed' BY <1>0
  <1>3. \A m \in Messages : Done.msg # m BY DoneIs, ChatAssumption
  <1>4. \A m \in Messages : job[t].msg = m => m \in crossed' BY <1>0, ChatAssumption
  <1>5. \A m \in Messages : m \notin crossed' => ~Telling(t, m) BY <1>4 DEF Telling
  <1>6. \A m \in Messages : MessageFits(m)' BY <1>0, <1>2, <1>3, <1>4, <1>5, DoneIs, QuietMessage
  <1>7. RoomsFit' /\ PairsFit' BY <1>0, DoneIs, RoomsStay
  <1>8. (job \in [Tasks -> JobStates])' /\ (\A t2 \in Tasks : JobFits(job[t2]))' BY <1>0, DoneIs, NewJob
  <1>9. Focused' BY <1>0, ChatFacts DEF Focused
  <1> QED BY <1>1, <1>6, <1>7, <1>8, <1>9, ChatAgain

\* What a user looks at concerns the alerts alone.
LEMMA LooksKeep ==
  ASSUME ChatInv, NEW u \in Users, NEW c \in Convs \cup {None}, focus' = [focus EXCEPT ![u] = c],
         looked \subseteq looked', c # None => <<u, c>> \in looked',
         UNCHANGED <<kind, members, groups, text, place, marks, told, received, alerts, rung, job, crossed, raced>>
  PROVE  ChatInv'
  <1>1. ChatTypes' BY ChatFacts DEF ChatTypes
  <1>2. Focused' BY ChatFacts DEF Focused, ChatTypes
  <1>3. RoomsFit' BY DEF ChatInv, RoomsFit, JobRoom
  <1>4. PairsFit'
    <2>1. \A v, w \in Users : Private(v, w)' = Private(v, w) BY DEF Private
    <2>2. \A t \in Tasks, v, w \in Users : Opens(t, v, w)' <=> Opens(t, v, w) BY DEF Opens
    <2> QED BY <2>1, <2>2 DEF ChatInv, PairsFit
  <1>5. ASSUME NEW m \in Messages PROVE MessageFits(m)'
    <2>1. SentFits(m) /\ ToldFits(m) /\ AlertFits(m) BY DEF ChatInv, MessageFits
    <2>2. SentFits(m)' BY <2>1 DEF SentFits
    <2>3. ToldFits(m)' BY <2>1 DEF ToldFits, Telling, Writer
    <2>4. AlertFits(m)' BY <2>1 DEF AlertFits
    <2> QED BY <2>2, <2>3, <2>4 DEF MessageFits
  <1>6. (job \in [Tasks -> JobStates])' /\ (\A t2 \in Tasks : JobFits(job[t2]))' BY ChatFacts
  <1> QED BY <1>1, <1>2, <1>3, <1>4, <1>5, <1>6, ChatAgain

LEMMA FocusKeeps == ASSUME ChatInv, NEW u \in Users, NEW c \in Convs, Focus(u, c) PROVE ChatInv'
  BY LooksKeep DEF Focus, rooms, rows

LEMMA BlurKeeps == ASSUME ChatInv, NEW u \in Users, Blur(u) PROVE ChatInv'
  BY LooksKeep DEF Blur, rooms, rows


\* A step of the creation of a conversation.
LEMMA CreationStep ==
  ASSUME ChatInv, NEW t \in Tasks, NEW j \in JobStates, Go(t, j), JobFits(j),
         job[t].msg = None, j.msg = None,
         UNCHANGED <<text, place, marks, focus, told, received, alerts, rung, looked, crossed>>,
         kind' \in [Convs -> {"none", "private", "group"}], members' \in [Convs -> SUBSET Users], groups' \subseteq Convs,
         \A c \in Convs : members[c] \subseteq members'[c],
         RoomsFit', PairsFit'
  PROVE  ChatInv'
  <1>1. ChatTypes' BY ChatFacts DEF ChatTypes
  <1>2. (job \in [Tasks -> JobStates])' /\ (\A t2 \in Tasks : JobFits(job[t2]))' BY NewJob
  <1>3. ASSUME NEW m \in Messages PROVE MessageFits(m)'
    <2>1. None # m BY ChatAssumption
    <2> QED BY <2>1, MessageStays
  <1>4. Focused' BY ChatFacts DEF Focused
  <1> QED BY <1>1, <1>2, <1>3, <1>4, ChatAgain

LEMMA FindPrivateKeeps ==
  ASSUME ChatInv, NEW t \in Tasks, NEW u \in Users, NEW v \in Users, FindPrivate(t, u, v)
  PROVE  ChatInv'
  <1>0. /\ ChatTypes /\ job \in [Tasks -> JobStates] /\ job[t] = Done
        /\ raced' = IF \E t2 \in Tasks : job[t2].op = "private" /\ {job[t2].user, job[t2].peer} = {u, v}
                    THEN raced \cup {{u, v}} ELSE raced
        /\ UNCHANGED <<kind, members, groups, text, place, marks, focus, told, received, alerts, rung, looked, crossed>>
    BY ChatFacts DEF FindPrivate, Ask, rooms, rows, screens
  <1>1. raced \subseteq raced' /\ job[t].msg = None BY <1>0, DoneIs
  <1>2. CASE Private(u, v) # {}
    <2>1. Go(t, Done) BY <1>0, <1>2 DEF FindPrivate, Go
    <2>2. RoomsFit' /\ PairsFit' BY <1>0, <1>1, <2>1, DoneIs, RoomsStay
    <2> QED BY <1>0, <1>1, <2>1, <2>2, DoneIs, CreationStep DEF ChatTypes
  <1>3. CASE Private(u, v) = {}
    <2> DEFINE j == [Done EXCEPT !.op = "private", !.at = "create", !.user = u, !.peer = v]
    <2>1. Go(t, j) BY <1>3 DEF FindPrivate
    <2>2. /\ j \in JobStates /\ j.op = "private" /\ j.at = "create" /\ j.user = u /\ j.peer = v
          /\ j.msg = None /\ j.conv = None
      BY DoneIs DEF Done, JobStates
    <2> HIDE DEF j
    <2>3. JobFits(j) BY <2>2 DEF JobFits, Writes, Marks
    <2>4. job'[t] = j /\ \A t2 \in Tasks \ {t} : job'[t2] = job[t2] BY <2>1, <2>2, <2>3, NewJob
    <2>5. RoomsFit' BY <1>0, <2>1, <2>2, <2>3, RoomsAsBefore
    <2>6. PairsFit'
      <3>1. \A a, b \in Users : Private(a, b)' = Private(a, b) BY <1>0 DEF Private
      <3>2. \A t2 \in Tasks \ {t}, a, b \in Users : Opens(t2, a, b)' <=> Opens(t2, a, b) BY <2>4 DEF Opens
      <3>3. \A a, b \in Users : Opens(t, a, b)' <=> {u, v} = {a, b} BY <2>2, <2>4 DEF Opens
      <3> SUFFICES ASSUME NEW a \in Users, NEW b \in Users, a # b, {a, b} \notin raced'
                   PROVE  /\ \A t2, t3 \in Tasks : Opens(t2, a, b)' /\ Opens(t3, a, b)' => t2 = t3
                          /\ \A t2 \in Tasks : Opens(t2, a, b)' => Private(a, b)' = {}
                          /\ \A c, c2 \in Private(a, b)' : c = c2
        BY DEF PairsFit
      <3>4. /\ \A t2, t3 \in Tasks : Opens(t2, a, b) /\ Opens(t3, a, b) => t2 = t3
            /\ \A t2 \in Tasks : Opens(t2, a, b) => Private(a, b) = {}
            /\ \A c, c2 \in Private(a, b) : c = c2
        BY <1>1 DEF ChatInv, PairsFit
      <3>5. CASE {u, v} = {a, b}
        <4>1. Private(a, b) = {} BY <1>3, <3>5 DEF Private
        <4>2. \A t2 \in Tasks : ~Opens(t2, a, b) BY <1>0, <3>5 DEF Opens
        <4> QED BY <3>1, <3>2, <4>1, <4>2
      <3>6. CASE {u, v} # {a, b} BY <3>1, <3>2, <3>3, <3>4, <3>6
      <3> QED BY <3>5, <3>6
    <2> QED BY <1>0, <1>1, <2>1, <2>2, <2>3, <2>5, <2>6, CreationStep DEF ChatTypes
  <1> QED BY <1>2, <1>3

\* A new row is nobody else's, and has no members.
LEMMA NewRoom ==
  ASSUME ChatInv, NEW t \in Tasks, NEW j \in JobStates, Go(t, j), JobFits(j), NEW c \in Convs, NEW what \in {"private", "group"},
         NewConversation(c, what), UNCHANGED members, j.conv = c, j.op = what,
         what = "private" => j.todo = <<j.user, j.peer>>
  PROVE  /\ RoomsFit' /\ kind' \in [Convs -> {"none", "private", "group"}]
         /\ \A u, v \in Users : Private(u, v)' = Private(u, v)
  <1>0. /\ ChatTypes /\ kind[c] = "none" /\ kind' = [kind EXCEPT ![c] = what]
    BY ChatFacts DEF NewConversation
  <1>1. /\ kind' \in [Convs -> {"none", "private", "group"}] /\ kind'[c] = what
        /\ \A c2 \in Convs \ {c} : kind'[c2] = kind[c2]
    BY <1>0 DEF ChatTypes
  <1>2. members[c] = {} BY <1>0 DEF ChatInv, RoomsFit
  <1>3. job'[t] = j /\ \A t2 \in Tasks \ {t} : job'[t2] = job[t2] BY NewJob
  <1>4. \A t2 \in Tasks : job[t2].conv \in Convs \cup {None} /\ job[t2].op # "none"
    BY ChatFacts DEF JobStates, Writes, Marks
  <1>5. \A t2 \in Tasks : job[t2].conv # c
    <2> SUFFICES ASSUME NEW t2 \in Tasks, job[t2].conv = c PROVE FALSE OBVIOUS
    <2>1. JobRoom(t2) BY ChatAssumption DEF ChatInv, RoomsFit
    <2> QED BY <1>0, <1>4, <2>1 DEF JobRoom
  <1>6. RoomsFit'
    <2>1. ASSUME NEW c2 \in Convs
          PROVE  /\ kind'[c2] = "none" => members'[c2] = {}
                 /\ kind'[c2] = "private" => \E u, v \in Users : members'[c2] \subseteq {u, v}
      <3>1. CASE c2 = c
        <4>1. what = "private" => j.user \in Users BY DEF JobFits
        <4> QED BY <1>1, <1>2, <3>1, <4>1
      <3>2. CASE c2 # c BY <1>1, <3>2 DEF ChatInv, RoomsFit
      <3> QED BY <3>1, <3>2
    <2>2. ASSUME NEW t2 \in Tasks, job'[t2].conv # None PROVE JobRoom(t2)'
      <3>1. CASE t2 = t
        <4>1. \A t3 \in Tasks : job'[t3].conv = c => t3 = t BY <1>3, <1>5
        <4> QED BY <1>1, <1>2, <1>3, <3>1, <4>1 DEF JobRoom
      <3>2. CASE t2 # t
        <4>1. job'[t2] = job[t2] /\ JobRoom(t2) /\ job[t2].conv \in Convs \ {c}
          BY <1>3, <1>4, <1>5, <2>2, <3>2 DEF ChatInv, RoomsFit
        <4>2. \A t3 \in Tasks : job'[t3].conv = job[t2].conv => t3 = t2 BY <1>3, <4>1 DEF JobRoom
        <4> QED BY <1>1, <4>1, <4>2 DEF JobRoom
      <3> QED BY <3>1, <3>2
    <2> QED BY <2>1, <2>2 DEF RoomsFit
  <1>7. \A u, v \in Users : Private(u, v)' = Private(u, v)
    <2>1. \A u, v \in Users, c2 \in Convs :
            (kind'[c2] = "private" /\ {u, v} \subseteq members[c2]) <=> (kind[c2] = "private" /\ {u, v} \subseteq members[c2])
      BY <1>0, <1>1, <1>2
    <2> QED BY <2>1 DEF Private
  <1> QED BY <1>1, <1>6, <1>7

\* Whose pairs the creations are about has not changed, and their conversations neither.
LEMMA PairsStay ==
  ASSUME ChatInv, raced' = raced, \A u, v \in Users : u # v => Private(u, v)' = Private(u, v),
         \A t \in Tasks, u, v \in Users : Opens(t, u, v)' => Opens(t, u, v)
  PROVE  PairsFit'
  BY DEF ChatInv, PairsFit

LEMMA CreatePrivateKeeps ==
  ASSUME ChatInv, NEW t \in Tasks, NEW c \in Convs, CreatePrivate(t, c)
  PROVE  ChatInv'
  <1>0. /\ ChatTypes /\ job[t] \in JobStates /\ JobFits(job[t]) /\ job[t].at = "create"
        /\ NewConversation(c, "private")
        /\ UNCHANGED <<members, groups, text, place, marks, focus, told, received, alerts, rung, looked, crossed, raced>>
    BY ChatFacts DEF CreatePrivate, rows, screens
  <1>1. job[t].op = "private" /\ job[t].user \in Users /\ job[t].peer \in Users /\ job[t].msg = None
    BY <1>0, DoneIs DEF JobFits, JobStates, Writes, Marks
  <1> DEFINE w == <<job[t].user, job[t].peer>>
  <1>2. w \in Seq(Users) /\ Len(w) > 0 /\ w = <<job[t].user, job[t].peer>> BY <1>1
  <1> HIDE DEF w
  <1> DEFINE j == [job[t] EXCEPT !.at = "members", !.conv = c, !.todo = w]
  <1>3. Go(t, j) BY <1>2 DEF CreatePrivate
  <1>4. /\ j \in JobStates /\ j.op = "private" /\ j.at = "members" /\ j.user = job[t].user /\ j.peer = job[t].peer
        /\ j.msg = None /\ j.conv = c /\ j.todo = w
    BY <1>0, <1>1, <1>2 DEF JobStates
  <1> HIDE DEF j
  <1>5. JobFits(j) BY <1>1, <1>2, <1>4 DEF JobFits, Writes, Marks
  <1>6. /\ RoomsFit' /\ kind' \in [Convs -> {"none", "private", "group"}]
        /\ \A u, v \in Users : Private(u, v)' = Private(u, v)
    BY <1>0, <1>2, <1>3, <1>4, <1>5, NewRoom
  <1>7. job'[t] = j /\ \A t2 \in Tasks \ {t} : job'[t2] = job[t2] BY <1>3, <1>4, <1>5, NewJob
  <1>8. PairsFit'
    <2>1. \A t2 \in Tasks, u, v \in Users : Opens(t2, u, v)' => Opens(t2, u, v) BY <1>1, <1>4, <1>7 DEF Opens
    <2> QED BY <1>0, <1>6, <2>1, PairsStay
  <1> QED BY <1>0, <1>1, <1>3, <1>4, <1>5, <1>6, <1>8, CreationStep DEF ChatTypes

LEMMA CreateGroupKeeps ==
  ASSUME ChatInv, NEW t \in Tasks, NEW u \in Users, NEW v \in Users, NEW c \in Convs, CreateGroup(t, u, <<v>>, c)
  PROVE  ChatInv'
  <1>0. /\ ChatTypes /\ job[t] = Done /\ job[t].msg = None /\ NewConversation(c, "group")
        /\ UNCHANGED <<members, groups, text, place, marks, focus, told, received, alerts, rung, looked, crossed, raced>>
    BY ChatFacts, DoneIs DEF CreateGroup, Ask, rows, screens
  <1> DEFINE w == <<u>> \o <<v>>
  <1>2. w \in Seq(Users) /\ Len(w) > 0 OBVIOUS
  <1>w. w = <<u>> \o <<v>> OBVIOUS
  <1> HIDE DEF w
  <1> DEFINE j == [Done EXCEPT !.op = "group", !.at = "row", !.user = u, !.conv = c, !.todo = w]
  <1>3. Go(t, j) BY <1>w DEF CreateGroup
  <1>4. /\ j \in JobStates /\ j.op = "group" /\ j.at = "row" /\ j.user = u
        /\ j.msg = None /\ j.conv = c /\ j.todo = w
    BY <1>2, DoneIs DEF Done, JobStates
  <1> HIDE DEF j
  <1>5. JobFits(j) BY <1>2, <1>4 DEF JobFits, Writes, Marks
  <1>6. /\ RoomsFit' /\ kind' \in [Convs -> {"none", "private", "group"}]
        /\ \A a, b \in Users : Private(a, b)' = Private(a, b)
    BY <1>0, <1>2, <1>3, <1>4, <1>5, NewRoom
  <1>7. job'[t] = j /\ \A t2 \in Tasks \ {t} : job'[t2] = job[t2] BY <1>3, <1>4, <1>5, NewJob
  <1>8. PairsFit'
    <2>1. \A t2 \in Tasks, a, b \in Users : Opens(t2, a, b)' => Opens(t2, a, b) BY <1>4, <1>7 DEF Opens
    <2> QED BY <1>0, <1>6, <2>1, PairsStay
  <1> QED BY <1>0, <1>3, <1>4, <1>5, <1>6, <1>8, CreationStep DEF ChatTypes

LEMMA GroupRowKeeps == ASSUME ChatInv, NEW t \in Tasks, GroupRow(t) PROVE ChatInv'
  <1>0. /\ ChatTypes /\ job[t] \in JobStates /\ JobFits(job[t]) /\ job[t].at = "row" /\ groups' = groups \cup {job[t].conv}
        /\ UNCHANGED <<kind, members, text, place, marks, focus, told, received, alerts, rung, looked, crossed, raced>>
    BY ChatFacts DEF GroupRow, rows, screens
  <1>1. job[t].op = "group" /\ job[t].msg = None /\ job[t].conv \in Convs /\ job[t].conv # None
    BY <1>0, DoneIs, ChatAssumption DEF JobFits, JobStates, Writes, Marks
  <1> DEFINE j == [job[t] EXCEPT !.at = "members"]
  <1>3. Go(t, j) BY DEF GroupRow
  <1>4. /\ j \in JobStates /\ j.op = "group" /\ j.at = "members" /\ j.user = job[t].user
        /\ j.msg = None /\ j.conv = job[t].conv /\ j.todo = job[t].todo
    BY <1>0, <1>1 DEF JobStates
  <1> HIDE DEF j
  <1>5. JobFits(j) BY <1>0, <1>1, <1>4 DEF JobFits, Writes, Marks
  <1>7. job'[t] = j /\ \A t2 \in Tasks \ {t} : job'[t2] = job[t2] BY <1>3, <1>4, <1>5, NewJob
  <1>6. RoomsFit'
    <2>1. (\A c \in Convs : /\ kind[c] = "none" => members[c] = {}
                            /\ kind[c] = "private" => \E u, v \in Users : members[c] \subseteq {u, v})'
      BY <1>0 DEF ChatInv, RoomsFit
    <2>2. \A t2 \in Tasks : job'[t2].conv = job[t2].conv BY <1>4, <1>7
    <2>3. ASSUME NEW t2 \in Tasks, job'[t2].conv # None PROVE JobRoom(t2)'
      <3>1. JobRoom(t2) BY <2>2, <2>3 DEF ChatInv, RoomsFit
      <3>2. CASE t2 = t BY <1>0, <1>1, <1>4, <1>7, <2>2, <3>1, <3>2 DEF JobRoom
      <3>3. CASE t2 # t BY <1>0, <1>7, <2>2, <3>1, <3>3 DEF JobRoom
      <3> QED BY <3>2, <3>3
    <2> QED BY <2>1, <2>3 DEF RoomsFit
  <1>8. PairsFit'
    <2>1. \A t2 \in Tasks, a, b \in Users : Opens(t2, a, b)' => Opens(t2, a, b) BY <1>4, <1>7 DEF Opens
    <2>2. \A a, b \in Users : Private(a, b)' = Private(a, b) BY <1>0 DEF Private
    <2> QED BY <1>0, <2>1, <2>2, PairsStay
  <1> QED BY <1>0, <1>1, <1>3, <1>4, <1>5, <1>6, <1>8, CreationStep DEF ChatTypes


LEMMA AddMemberFacts ==
  ASSUME ChatInv, NEW t \in Tasks, AddMember(t)
  PROVE  \E c \in Convs, w \in Users, j \in JobStates :
           /\ c = job[t].conv /\ w = Head(job[t].todo) /\ kind[c] = job[t].op /\ job[t].op \in {"private", "group"}
           /\ JobRoom(t) /\ Go(t, j) /\ JobFits(j) /\ job[t].msg = None /\ j.msg = None
           /\ members' = [members EXCEPT ![c] = @ \cup {w}]
           /\ \/ j = Done /\ Len(job[t].todo) = 1
              \/ /\ j.op = job[t].op /\ j.user = job[t].user /\ j.peer = job[t].peer /\ j.conv = c
                 /\ j.at = "members" /\ j.todo = Tail(job[t].todo) /\ Len(job[t].todo) # 1
  <1>0. /\ job[t] \in JobStates /\ JobFits(job[t]) /\ job[t].at = "members"
    BY ChatFacts DEF AddMember
  <1>1. /\ job[t].op \in {"private", "group"} /\ job[t].msg = None /\ job[t].conv \in Convs /\ job[t].conv # None
        /\ job[t].todo \in Seq(Users) /\ Len(job[t].todo) > 0
    BY <1>0, DoneIs, ChatAssumption DEF JobFits, JobStates, Writes, Marks
  <1>2. JobRoom(t) BY <1>1 DEF ChatInv, RoomsFit
  <1>3. Head(job[t].todo) \in Users /\ Tail(job[t].todo) \in Seq(Users) /\ Len(Tail(job[t].todo)) = Len(job[t].todo) - 1
    BY <1>1
  <1>4. PICK w \in Users : w = Head(job[t].todo) BY <1>3
  <1>5. members' = [members EXCEPT ![job[t].conv] = @ \cup {w}] BY <1>4 DEF AddMember
  <1>6. CASE Len(job[t].todo) = 1
    <2>1. Go(t, Done) BY <1>6 DEF AddMember
    <2> QED BY <1>1, <1>2, <1>4, <1>5, <1>6, <2>1, DoneIs DEF JobRoom
  <1>7. CASE Len(job[t].todo) # 1
    <2> DEFINE s == Tail(job[t].todo)
    <2>n. Len(job[t].todo) \in Nat BY <1>1
    <2>k. \A n \in Nat : n > 0 /\ n # 1 => n - 1 > 0 OBVIOUS
    <2>l. Len(job[t].todo) - 1 > 0 BY <1>1, <1>7, <2>n, <2>k
    <2>1. s \in Seq(Users) /\ Len(s) > 0 BY <1>3, <2>l
    <2>s. s = Tail(job[t].todo) OBVIOUS
    <2> HIDE DEF s
    <2> DEFINE j == [job[t] EXCEPT !.todo = s]
    <2>2. Go(t, j) BY <1>7, <2>s DEF AddMember
    <2>3. /\ j \in JobStates /\ j.op = job[t].op /\ j.user = job[t].user /\ j.peer = job[t].peer
          /\ j.conv = job[t].conv /\ j.at = "members" /\ j.todo = s /\ j.msg = None
      BY <1>0, <1>1, <2>1 DEF JobStates
    <2> HIDE DEF j
    <2>4. JobFits(j) BY <1>0, <1>1, <2>1, <2>3 DEF JobFits, Writes, Marks
    <2>5. kind[job[t].conv] = job[t].op BY <1>2 DEF JobRoom
    <2> QED BY <1>1, <1>2, <1>4, <1>5, <1>7, <2>s, <2>2, <2>3, <2>4, <2>5
  <1> QED BY <1>6, <1>7

LEMMA AddMemberKeeps == ASSUME ChatInv, NEW t \in Tasks, AddMember(t) PROVE ChatInv'
  <1>1. PICK c \in Convs, w \in Users, j \in JobStates :
           /\ c = job[t].conv /\ w = Head(job[t].todo) /\ kind[c] = job[t].op /\ job[t].op \in {"private", "group"}
           /\ JobRoom(t) /\ Go(t, j) /\ JobFits(j) /\ job[t].msg = None /\ j.msg = None
           /\ members' = [members EXCEPT ![c] = @ \cup {w}]
           /\ \/ j = Done /\ Len(job[t].todo) = 1
              \/ /\ j.op = job[t].op /\ j.user = job[t].user /\ j.peer = job[t].peer /\ j.conv = c
                 /\ j.at = "members" /\ j.todo = Tail(job[t].todo) /\ Len(job[t].todo) # 1
    BY AddMemberFacts
  <1>2. /\ ChatTypes /\ c # None
        /\ UNCHANGED <<kind, groups, text, place, marks, focus, told, received, alerts, rung, looked, crossed, raced>>
    BY ChatFacts, ChatAssumption DEF AddMember, rows, screens
  <1>3. /\ members' \in [Convs -> SUBSET Users] /\ members'[c] = members[c] \cup {w}
        /\ \A c2 \in Convs \ {c} : members'[c2] = members[c2]
        /\ \A c2 \in Convs : members[c2] \subseteq members'[c2]
    BY <1>1, <1>2 DEF ChatTypes
  <1>4. job'[t] = j /\ \A t2 \in Tasks \ {t} : job'[t2] = job[t2] BY <1>1, NewJob
  <1>5. \A t2 \in Tasks \ {t} : job[t2].conv # c BY <1>1 DEF JobRoom
  \* What a private conversation still lacks.
  <1>6. job[t].op = "private" => LET u == job[t].user v == job[t].peer IN
          /\ u \in Users /\ v \in Users
          /\ \/ w = u /\ members[c] = {} /\ j.op = "private" /\ j.todo = <<v>>
             \/ w = v /\ members[c] = {u} /\ j = Done
    <2> SUFFICES ASSUME job[t].op = "private"
                 PROVE  LET u == job[t].user v == job[t].peer IN
                          /\ u \in Users /\ v \in Users
                          /\ \/ w = u /\ members[c] = {} /\ j.op = "private" /\ j.todo = <<v>>
                             \/ w = v /\ members[c] = {u} /\ j = Done
      OBVIOUS
    <2>1. job[t].user \in Users /\ job[t].peer \in Users BY ChatFacts DEF JobFits
    <2>2. CASE job[t].todo = <<job[t].user, job[t].peer>> /\ members[c] = {}
      <3>1. w = job[t].user /\ Tail(job[t].todo) = <<job[t].peer>> /\ Len(job[t].todo) # 1 BY <1>1, <2>1, <2>2
      <3> QED BY <1>1, <2>1, <2>2, <3>1
    <2>3. CASE job[t].todo = <<job[t].peer>> /\ members[c] = {job[t].user}
      <3>1. w = job[t].peer /\ Len(job[t].todo) = 1 BY <1>1, <2>1, <2>3
      <3> QED BY <1>1, <2>1, <2>3, <3>1
    <2> QED BY <1>1, <2>2, <2>3 DEF JobRoom
  <1>7. RoomsFit'
    <2>1. ASSUME NEW c2 \in Convs
          PROVE  /\ kind'[c2] = "none" => members'[c2] = {}
                 /\ kind'[c2] = "private" => \E u, v \in Users : members'[c2] \subseteq {u, v}
      <3>1. CASE c2 = c
        <4>1. kind'[c2] = "private" => members'[c2] \subseteq {job[t].user, job[t].peer} BY <1>1, <1>2, <1>3, <1>6, <3>1
        <4> QED BY <1>1, <1>2, <1>6, <3>1, <4>1
      <3>2. CASE c2 # c BY <1>2, <1>3, <3>2 DEF ChatInv, RoomsFit
      <3> QED BY <3>1, <3>2
    <2>2. ASSUME NEW t2 \in Tasks, job'[t2].conv # None PROVE JobRoom(t2)'
      <3>1. CASE t2 = t
        <4>1. j.op = job[t].op /\ j.conv = c /\ j.user = job[t].user /\ j.peer = job[t].peer
          BY <1>1, <1>4, <2>2, <3>1, DoneIs
        <4>2. \A t3 \in Tasks : job'[t3].conv = c => t3 = t BY <1>4, <1>5
        <4>3. j.op = "private" => j.todo = <<j.peer>> /\ members'[c] = {j.user} BY <1>3, <1>6, <4>1, DoneIs
        <4> QED BY <1>1, <1>2, <1>4, <3>1, <4>1, <4>2, <4>3 DEF JobRoom
      <3>2. CASE t2 # t
        <4>1. job'[t2] = job[t2] /\ JobRoom(t2) /\ job[t2].conv \in Convs \ {c}
          BY <1>4, <1>5, <2>2, <3>2, ChatFacts DEF ChatInv, RoomsFit, JobStates
        <4>2. \A t3 \in Tasks : job'[t3].conv = job[t2].conv => t3 = t2
          BY <1>1, <1>4, <4>1, DoneIs, ChatAssumption DEF JobRoom
        <4> QED BY <1>2, <1>3, <4>1, <4>2 DEF JobRoom
      <3> QED BY <3>1, <3>2
    <2> QED BY <2>1, <2>2 DEF RoomsFit
  <1>8. PairsFit'
    <2>1. \A t2 \in Tasks, u, v \in Users : Opens(t2, u, v)' => Opens(t2, u, v) BY <1>1, <1>4, DoneIs DEF Opens
    <2>2. CASE job[t].op = "private" /\ j = Done
      <3> SUFFICES ASSUME NEW u \in Users, NEW v \in Users, u # v, {u, v} \notin raced
                   PROVE  /\ \A t2, t3 \in Tasks : Opens(t2, u, v)' /\ Opens(t3, u, v)' => t2 = t3
                          /\ \A t2 \in Tasks : Opens(t2, u, v)' => Private(u, v)' = {}
                          /\ \A c2, c3 \in Private(u, v)' : c2 = c3
        BY <1>2 DEF PairsFit
      <3>1. /\ \A t2, t3 \in Tasks : Opens(t2, u, v) /\ Opens(t3, u, v) => t2 = t3
            /\ \A t2 \in Tasks : Opens(t2, u, v) => Private(u, v) = {}
            /\ \A c2, c3 \in Private(u, v) : c2 = c3
        BY DEF ChatInv, PairsFit
      <3>2. \A c2 \in Private(u, v)' : c2 \in Private(u, v) \/ c2 = c BY <1>2, <1>3 DEF Private
      <3>3. ~Opens(t, u, v)' BY <1>4, <2>2, DoneIs DEF Opens
      <3>4. CASE {job[t].user, job[t].peer} = {u, v}
        <4>1. Opens(t, u, v) BY <2>2, <3>4 DEF Opens
        <4> QED BY <2>1, <3>1, <3>2, <3>3, <4>1
      <3>5. CASE {job[t].user, job[t].peer} # {u, v}
        <4>1. members'[c] \subseteq {job[t].user, job[t].peer} BY <1>3, <1>6, <2>2
        <4>2. ~({u, v} \subseteq members'[c]) BY <3>5, <4>1
        <4>3. Private(u, v)' \subseteq Private(u, v) BY <3>2, <4>2 DEF Private
        <4> QED BY <2>1, <3>1, <4>3
      <3> QED BY <3>4, <3>5
    <2>3. CASE job[t].op = "private" /\ j # Done
      <3>1. members'[c] = {w} /\ members[c] = {} BY <1>3, <1>6, <2>3
      <3>2. \A u, v \in Users : u # v => Private(u, v)' = Private(u, v)
        <4>1. \A u, v \in Users, c2 \in Convs : u # v => ({u, v} \subseteq members'[c2]) <=> ({u, v} \subseteq members[c2])
          BY <1>3, <3>1
        <4> QED BY <1>2, <4>1 DEF Private
      <3> QED BY <1>2, <2>1, <3>2, PairsStay
    <2>4. CASE job[t].op = "group"
      <3>1. \A u, v \in Users, c2 \in Convs :
              (kind'[c2] = "private" /\ {u, v} \subseteq members'[c2]) <=> (kind[c2] = "private" /\ {u, v} \subseteq members[c2])
        BY <1>1, <1>2, <1>3, <2>4
      <3>2. \A u, v \in Users : Private(u, v)' = Private(u, v) BY <3>1 DEF Private
      <3> QED BY <1>2, <2>1, <3>2, PairsStay
    <2> QED BY <1>1, <2>2, <2>3, <2>4
  <1> QED BY <1>1, <1>2, <1>3, <1>7, <1>8, CreationStep DEF ChatTypes


LEMMA ChatInitHolds == ChatInit => ChatInv
  <1> SUFFICES ASSUME ChatInit PROVE ChatInv OBVIOUS
  <1>1. ChatTypeOK BY DEF ChatInit, ChatTypeOK
  <1>2. /\ job = [t \in Tasks |-> Done] /\ kind = [c \in Convs |-> "none"] /\ members = [c \in Convs |-> {}]
        /\ text = [m \in Messages |-> "none"] /\ received = {} /\ alerts = {} /\ rung = {} /\ focus = [u \in Users |-> None]
        /\ told = [u \in Users |-> [m \in Messages |-> "none"]]
        /\ place = [m \in Messages |-> [conv |-> None, from |-> None]]
    BY DEF ChatInit
  <1>3. job \in [Tasks -> JobStates] /\ \A t \in Tasks : job[t] = Done /\ JobFits(job[t]) BY <1>2, DoneIs
  <1>4. RoomsFit BY <1>2, <1>3, DoneIs DEF RoomsFit
  <1>5. PairsFit
    <2>1. \A u, v \in Users : Private(u, v) = {} BY <1>2 DEF Private
    <2>2. \A t \in Tasks, u, v \in Users : ~Opens(t, u, v) BY <1>3, DoneIs DEF Opens
    <2> QED BY <2>1, <2>2 DEF PairsFit
  <1>6. ASSUME NEW m \in Messages PROVE MessageFits(m)
    <2>1. \A t \in Tasks : job[t].msg # m BY <1>3, DoneIs, ChatAssumption
    <2>2. text[m] = "none" /\ place[m].from = None /\ \A u \in Users : told[u][m] = "none" /\ u # None
      BY <1>2, ServiceAssumption
    <2>3. SentFits(m) BY <1>2, <2>1, <2>2 DEF SentFits
    <2>4. ToldFits(m) BY <1>2, <2>1, <2>2 DEF ToldFits, Telling, Writer
    <2>5. AlertFits(m) BY <1>2 DEF AlertFits
    <2> QED BY <2>3, <2>4, <2>5 DEF MessageFits
  <1>7. \A u \in Users : focus[u] = None BY <1>2
  <1> QED BY <1>1, <1>3, <1>4, <1>5, <1>6, <1>7 DEF ChatInv

LEMMA ChatStutterKeeps == ChatInv /\ UNCHANGED chatVars => ChatInv'
  <1> SUFFICES ASSUME ChatInv, UNCHANGED chatVars PROVE ChatInv' OBVIOUS
  <1>1. UNCHANGED <<kind, members, groups, text, place, marks, focus, told, received, alerts, rung, job, crossed, raced, looked>>
    BY DEF chatVars, rooms, rows, screens
  <1>2. ChatTypes' /\ Focused' BY <1>1, ChatFacts DEF ChatTypes, Focused
  <1>3. RoomsFit' BY <1>1 DEF ChatInv, RoomsFit, JobRoom
  <1>4. PairsFit'
    <2>1. \A v, w \in Users : Private(v, w)' = Private(v, w) BY <1>1 DEF Private
    <2>2. \A t \in Tasks, v, w \in Users : Opens(t, v, w)' <=> Opens(t, v, w) BY <1>1 DEF Opens
    <2> QED BY <1>1, <2>1, <2>2 DEF ChatInv, PairsFit
  <1>5. ASSUME NEW m \in Messages PROVE MessageFits(m)'
    <2>1. SentFits(m) /\ ToldFits(m) /\ AlertFits(m) BY DEF ChatInv, MessageFits
    <2>2. SentFits(m)' BY <1>1, <2>1 DEF SentFits
    <2>3. ToldFits(m)' BY <1>1, <2>1 DEF ToldFits, Telling, Writer
    <2>4. AlertFits(m)' BY <1>1, <2>1 DEF AlertFits
    <2> QED BY <2>2, <2>3, <2>4 DEF MessageFits
  <1>6. (job \in [Tasks -> JobStates])' /\ (\A t2 \in Tasks : JobFits(job[t2]))' BY <1>1, ChatFacts
  <1> QED BY <1>2, <1>3, <1>4, <1>5, <1>6, ChatAgain

LEMMA ChatNextKeeps == ChatInv /\ ChatNext => ChatInv'
  <1> SUFFICES ASSUME ChatInv, ChatNext PROVE ChatInv' OBVIOUS
  <1>1. ASSUME NEW t \in Tasks, CreateRequest(t) PROVE ChatInv'
    BY <1>1, FindPrivateKeeps, CreateGroupKeeps DEF CreateRequest
  <1>2. ASSUME NEW t \in Tasks, MessageRequest(t) PROVE ChatInv'
    BY <1>2, EditKeeps, SendKeeps, DeleteFindKeeps, MarkFindKeeps DEF MessageRequest, Marks
  <1>3. ASSUME NEW t \in Tasks, ChatStep(t) PROVE ChatInv'
    BY <1>3, CreatePrivateKeeps, GroupRowKeeps, AddMemberKeeps, DeleteRowKeeps, ListMembersKeeps, TellKeeps,
       AlertedKeeps, MarkRowKeeps, AlertKeeps, RingUserKeeps DEF ChatStep
  <1>4. ASSUME NEW u \in Users, Blur(u) \/ \E c \in Convs : IsMember(u, c) /\ Focus(u, c) PROVE ChatInv'
    BY <1>4, BlurKeeps, FocusKeeps
  <1> QED BY <1>1, <1>2, <1>3, <1>4, DropChatKeeps DEF ChatNext

LEMMA ChatInvMeans == ChatInv => ChatTypeOK /\ OneChatPerPair /\ ToldIsTrue /\ UnseenIsAlerted
  <1> SUFFICES ASSUME ChatInv PROVE OneChatPerPair /\ ToldIsTrue /\ UnseenIsAlerted BY DEF ChatInv
  <1>1. OneChatPerPair
    <2> SUFFICES ASSUME NEW c \in Convs, NEW c2 \in Convs, kind[c] = "private"
                 PROVE  /\ \E u, v \in Users : members[c] \subseteq {u, v}
                        /\ \A u, v \in members[c] : u # v /\ {u, v} \notin raced /\ c2 \in Private(u, v) => c2 = c
      BY DEF OneChatPerPair
    <2>1. members[c] \subseteq Users BY ChatFacts DEF ChatTypes
    <2>2. \A u, v \in members[c] : c \in Private(u, v) BY DEF Private
    <2> QED BY <2>1, <2>2 DEF ChatInv, RoomsFit, PairsFit
  <1>2. ToldIsTrue
    <2> SUFFICES ASSUME NEW m \in Messages \ crossed, \A t \in Tasks : job[t].msg # m
                 PROVE  \A u \in Users : /\ told[u][m] \in {"none", text[m]}
                                         /\ u = place[m].from \/ <<u, m>> \in alerts \cup rung => told[u][m] = text[m]
      BY DEF ToldIsTrue
    <2>1. \A t \in Tasks : ~Telling(t, m) BY DEF Telling
    <2>2. ToldFits(m) BY DEF ChatInv, MessageFits
    <2> QED BY <2>1, <2>2 DEF ToldFits
  <1>3. UnseenIsAlerted
    <2> SUFFICES ASSUME NEW m \in Messages \ crossed, NEW u \in Users, u # place[m].from, <<u, m>> \in received,
                        <<u, place[m].conv>> \notin looked, \A t \in Tasks : job[t].msg # m
                 PROVE  <<u, m>> \in rung
      BY DEF UnseenIsAlerted
    <2>1. AlertFits(m) BY DEF ChatInv, MessageFits
    <2> QED BY <2>1 DEF AlertFits
  <1> QED BY <1>1, <1>2, <1>3

\* A conversation is filled by one request, a message that no two requests write at a
\* time is told of by one, and whoever was ever told of it hears what that one wrote.
THEOREM ChatInvariance == ChatSpec => []ChatInv
  <1>1. ChatInv /\ [ChatNext]_chatVars => ChatInv' BY ChatStutterKeeps, ChatNextKeeps
  <1> QED BY <1>1, ChatInitHolds, PTL DEF ChatSpec

\* The rows of conversations and messages and what the clients show are well typed, and
\* nobody is alerted of a message he did not receive (services/chat/src/lib.rs).
THEOREM ChatTypesHold == ChatSpec => []ChatTypeOK
  BY ChatInvariance, ChatInvMeans, PTL

\* Two users have one private conversation, and it is theirs alone, unless two creations
\* for them overlapped (create_private_chat).
THEOREM OnePrivateChat == ChatSpec => []OneChatPerPair
  BY ChatInvariance, ChatInvMeans, PTL

\* What the last event about a message showed to a member is what the row holds, unless
\* two requests on it overlapped or one was dropped.
THEOREM ToldRemainsTrue == ChatSpec => []ToldIsTrue
  BY ChatInvariance, ChatInvMeans, PTL

\* A member who received a message and never looked at its conversation got the event
\* of the alert, with or without its row.
THEOREM UnseenAreAlerted == ChatSpec => []UnseenIsAlerted
  BY ChatInvariance, ChatInvMeans, PTL

----------------------------------------------------------------------------
(***************************************************************************)
(* The four side by side.                                                  *)
(***************************************************************************)

MessagingInv == ChatInv /\ CallInv /\ DeviceInv /\ CommentInv

LEMMA MessagingStepKeeps == ASSUME MessagingInv, [Next]_vars PROVE MessagingInv'
  <1>1. CASE UNCHANGED vars
    <2>1. UNCHANGED chatVars /\ UNCHANGED callVars /\ UNCHANGED deviceVars /\ UNCHANGED commentVars
      BY <1>1 DEF vars
    <2> QED BY <2>1, ChatStutterKeeps, CallStutterKeeps, DeviceStutterKeeps, CommentStutterKeeps DEF MessagingInv
  <1>2. CASE ChatNext /\ UNCHANGED <<callVars, deviceVars, commentVars>>
    BY <1>2, ChatNextKeeps, CallStutterKeeps, DeviceStutterKeeps, CommentStutterKeeps DEF MessagingInv
  <1>3. CASE CallNext /\ UNCHANGED <<chatVars, deviceVars, commentVars>>
    BY <1>3, ChatStutterKeeps, CallNextKeeps, DeviceStutterKeeps, CommentStutterKeeps DEF MessagingInv
  <1>4. CASE DeviceNext /\ UNCHANGED <<chatVars, callVars, commentVars>>
    BY <1>4, ChatStutterKeeps, CallStutterKeeps, DeviceStepKeeps, CommentStutterKeeps DEF MessagingInv
  <1>5. CASE CommentNext /\ UNCHANGED <<chatVars, callVars, deviceVars>>
    BY <1>5, ChatStutterKeeps, CallStutterKeeps, DeviceStutterKeeps, CommentNextKeeps DEF MessagingInv
  <1> QED BY <1>1, <1>2, <1>3, <1>4, <1>5 DEF Next, Only

\* The invariants of the four hold beside one another, whichever of them has requests.
THEOREM MessagingInvariance == Spec => []MessagingInv
  <1>1. Init => MessagingInv
    BY ChatInitHolds, CallInitHolds, DeviceInitHolds, CommentInitHolds DEF Init, MessagingInv
  <1>2. MessagingInv /\ [Next]_vars => MessagingInv' BY MessagingStepKeeps
  <1> QED BY <1>1, <1>2, PTL DEF Spec

\* Conversations, calls, devices and the reactions to a comment are well typed, and so is
\* what the requests on them keep.
THEOREM MessagingTypesHold == Spec => []MessagingTypeOK
  <1>1. MessagingInv => MessagingTypeOK
    BY ChatInvMeans, CallInvMeans, CommentInvMeans DEF MessagingInv, MessagingTypeOK, DeviceInv
  <1> QED BY <1>1, MessagingInvariance, PTL
==============================================================================
