------------------------------ MODULE LiveHost ------------------------------
(***************************************************************************)
(* What the host of one live stream decides (services/livestream/src/      *)
(* lib.rs, and the handlers that tell the room): the settings of the       *)
(* stream, of which an update reads all and writes all back, and the       *)
(* co-hosts, who ask, are answered, and leave.  The row and the user are   *)
(* looked up first; neither the host of a stream nor a user ever changes.  *)
(***************************************************************************)
EXTENDS Service

CONSTANTS
  Guests,         \* users who may be co-hosts
  Fields, Values  \* title, description, thumbnail_url, privacy, and what they hold

ASSUME HostAssumption == None \notin Guests /\ Values # {}

VARIABLES
  setting,   \* the four columns of live_streams
  cohost,    \* status of the rows of live_stream_cohosts; none: no row
  asked,     \* whose livestream:cohost_request reached the host
  in_room,   \* the last status of each user the room was told
  answer,    \* the last livestream:cohost_response a user got
  desk,      \* what each task is doing
  \* History, no state of the code:
  meant,     \* what the last update that named a field put there
  unsure,    \* fields named by updates that overlapped
  muddled    \* users about whom two requests overlapped, or one was dropped

hostRows == <<setting, cohost>>
hostTold == <<asked, in_room, answer>>
hostVars == <<hostRows, hostTold, desk, meant, unsure, muddled>>

Free == [at |-> "none", user |-> None, status |-> "none", named |-> {}, copy |-> <<>>]

LiveHostInit ==
  /\ setting = [f \in Fields |-> CHOOSE x \in Values : TRUE] /\ meant = setting
  /\ cohost = [u \in Guests |-> "none"] /\ in_room = cohost /\ answer = cohost
  /\ desk = [t \in Tasks |-> Free]
  /\ asked = {} /\ unsure = {} /\ muddled = {}

Attend(t, state) == desk' = [desk EXCEPT ![t] = state]

----------------------------------------------------------------------------
(* update_stream                                                           *)

Updating == {t \in Tasks : desk[t].at = "write"}

\* The row is read, and the fields the request names are replaced in the copy.
ReadSettings(t, named, x) ==
  /\ desk[t] = Free
  /\ Attend(t, [Free EXCEPT !.at = "write", !.named = named,
       !.copy = [f \in Fields |-> IF f \in named THEN x ELSE setting[f]]])
  /\ unsure' = IF Updating = {} THEN unsure
               ELSE unsure \cup named \cup UNION {desk[t2].named : t2 \in Updating}
  /\ UNCHANGED <<hostRows, hostTold, meant, muddled>>

Write(t, new) ==
  /\ desk[t].at = "write"
  /\ setting' = new
  /\ meant' = [f \in Fields |-> IF f \in desk[t].named THEN desk[t].copy[f] ELSE meant[f]]
  /\ unsure' = IF Updating = {t} THEN unsure \ desk[t].named ELSE unsure
  /\ Attend(t, Free)
  /\ UNCHANGED <<cohost, hostTold, muddled>>

\* The fields the request left out are taken from what it names.
WrongWriteSettings(t) == \E x \in Values : Write(t, [f \in Fields |->
  IF f \in desk[t].named THEN desk[t].copy[f] ELSE x])

\* The whole copy.
WriteSettings(t) == Write(t, desk[t].copy)

----------------------------------------------------------------------------
(* Co-hosts.                                                               *)

\* A request about u starts while another is in progress.
Muddle(u) == muddled' = IF \E t \in Tasks : desk[t].user = u THEN muddled \cup {u} ELSE muddled

\* The upsert: a co-host, or somebody who was rejected, may ask again.
RequestCohost(t, u) ==
  /\ desk[t] = Free
  /\ cohost' = [cohost EXCEPT ![u] = "pending"]
  /\ Muddle(u)
  /\ Attend(t, [Free EXCEPT !.at = "host", !.user = u])
  /\ UNCHANGED <<setting, hostTold, meant, unsure>>

TellHost(t) ==
  /\ desk[t].at = "host"
  /\ asked' = asked \cup {desk[t].user}
  /\ Attend(t, Free)
  /\ UNCHANGED <<hostRows, in_room, answer, meant, unsure, muddled>>

\* An UPDATE that matches no row passes for an answer.
WrongRespond(t, u, status) ==
  /\ desk[t] = Free
  /\ cohost' = [cohost EXCEPT ![u] = IF @ = "none" THEN @ ELSE status]
  /\ Muddle(u)
  /\ Attend(t, [Free EXCEPT !.at = "room", !.user = u, !.status = status])
  /\ UNCHANGED <<setting, hostTold, meant, unsure>>

\* The host may answer anybody with a row, who has left as well; no row is an error.
Respond(t, u, status) ==
  /\ desk[t] = Free /\ cohost[u] # "none"
  /\ cohost' = [cohost EXCEPT ![u] = status]
  /\ Muddle(u)
  /\ Attend(t, [Free EXCEPT !.at = "room", !.user = u, !.status = status])
  /\ UNCHANGED <<setting, hostTold, meant, unsure>>

\* Of somebody without a row the room is told all the same.
LeaveCohost(t, u) ==
  /\ desk[t] = Free
  /\ cohost' = [cohost EXCEPT ![u] = IF @ = "none" THEN @ ELSE "ended"]
  /\ Muddle(u)
  /\ Attend(t, [Free EXCEPT !.at = "room", !.user = u, !.status = "ended"])
  /\ UNCHANGED <<setting, hostTold, meant, unsure>>

\* livestream:cohost_status or livestream:cohost_left
TellRoom(t) ==
  /\ desk[t].at = "room"
  /\ in_room' = [in_room EXCEPT ![desk[t].user] = desk[t].status]
  /\ Attend(t, IF desk[t].status = "ended" THEN Free ELSE [desk[t] EXCEPT !.at = "candidate"])
  /\ UNCHANGED <<hostRows, asked, answer, meant, unsure, muddled>>

TellCandidate(t) ==
  /\ desk[t].at = "candidate"
  /\ answer' = [answer EXCEPT ![desk[t].user] = desk[t].status]
  /\ Attend(t, Free)
  /\ UNCHANGED <<hostRows, asked, in_room, meant, unsure, muddled>>

\* A statement fails or the client goes away.
DropDesk(t) ==
  /\ desk[t] # Free
  /\ muddled' = IF desk[t].user = None THEN muddled ELSE muddled \cup {desk[t].user}
  /\ Attend(t, Free)
  /\ UNCHANGED <<hostRows, hostTold, meant, unsure>>

----------------------------------------------------------------------------
LiveHostNext == \E t \in Tasks :
  \/ \E named \in SUBSET Fields, x \in Values : ReadSettings(t, named, x)
  \/ WriteSettings(t)
  \/ \E u \in Guests :
       \/ RequestCohost(t, u) \/ LeaveCohost(t, u)
       \/ \E status \in {"accepted", "rejected"} : Respond(t, u, status)
  \/ TellHost(t) \/ TellRoom(t) \/ TellCandidate(t) \/ DropDesk(t)

LiveHostSpec == LiveHostInit /\ [][LiveHostNext]_hostVars

----------------------------------------------------------------------------
(* Properties.                                                             *)

CohostStates == {"none", "pending", "accepted", "rejected", "ended"}

LiveHostTypeOK ==
  /\ {setting, meant} \subseteq [Fields -> Values]
  /\ {cohost, in_room, answer} \subseteq [Guests -> CohostStates]
  /\ {asked, muddled} \subseteq SUBSET Guests /\ unsure \subseteq Fields
  /\ desk \in [Tasks -> [at : {"none", "write", "host", "room", "candidate"},
                         user : Guests \cup {None}, status : CohostStates,
                         named : SUBSET Fields, copy : [Fields -> Values] \cup {<<>>}]]

\* A field holds what the last update that named it put there, although every update
\* writes all of them: unless two updates overlapped, one of which named it, and no
\* update on its own has named it since.
EditsKept == \A f \in Fields \ unsure : setting[f] = meant[f]

\* Once the requests about a user are through, and no two of them overlapped: a
\* pending request reached the host, an accepted co-host was told so as the room was,
\* and whom the room takes for a co-host is one, or has asked again.
CohostsAgree ==
  \A u \in Guests \ muddled : (\A t \in Tasks : desk[t].user # u) =>
    /\ cohost[u] = "pending" => u \in asked
    /\ cohost[u] = "accepted" => in_room[u] = "accepted" /\ answer[u] = "accepted"
    /\ in_room[u] = "accepted" => cohost[u] \in {"accepted", "pending"}
=============================================================================
