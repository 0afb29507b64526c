-------------------------------- MODULE Chat --------------------------------
(***************************************************************************)
(* Conversations, members, messages, reactions and receipts                *)
(* (services/chat/src/lib.rs), and what the REST handlers and the chat     *)
(* frames tell the members (gateway/src/handlers.rs, ws/mod.rs): the       *)
(* statement first, then the list of members, then the event.              *)
(***************************************************************************)
EXTENDS Service, Integers, Sequences

CONSTANTS
  Convs, Messages,  \* ids, never used twice
  Texts,            \* contents of messages
  MaxRequests       \* bound on the requests that are made

ASSUME ChatAssumption ==
  /\ None \notin Convs \cup Messages \cup Texts
  /\ {"none", "gone"} \cap Texts = {}
  /\ MaxRequests \in Nat

VARIABLES
  kind,       \* none before the row of conversations exists
  members,    \* conversation_members, in no order
  groups,     \* conversations with a row in groups
  text,       \* content of each message: none before it is sent, gone once deleted
  place,      \* its conversation and its sender
  marks,      \* message_reactions and message_reads: <<message, user, "reaction" or "read">>
  focus,      \* active_conversations of the hub
  told,       \* the content the last event about a message gave to a user
  received,   \* <<user, message>> of the chat:message events
  alerts,     \* rows of notifications about unread messages
  rung,       \* <<user, message>> of the notification:new events
  job,        \* what each task is doing
  \* History, no state of the code:
  requests,   \* how many have been made
  crossed,    \* messages of which two requests overlapped, or one was dropped
  raced,      \* pairs of users for whom two creations overlapped
  looked      \* <<user, conversation>> he has ever had in focus

rooms == <<kind, members, groups>>
rows == <<text, place, marks>>
screens == <<focus, told, received, alerts, rung, looked>>
chatVars == <<rooms, rows, screens, job, requests, crossed, raced>>

\* todo: members still to be added; to: the members listed, then those still
\* to be alerted, of whom peer is the one being alerted.
Done == [op |-> "done", at |-> "done", user |-> None, peer |-> None, conv |-> None,
         msg |-> None, shows |-> None, todo |-> <<>>, to |-> {}]

Private(u, v) == {c \in Convs : kind[c] = "private" /\ {u, v} \subseteq members[c]}

ChatInit ==
  /\ kind = [c \in Convs |-> "none"] /\ members = [c \in Convs |-> {}] /\ groups = {}
  /\ text = [m \in Messages |-> "none"] /\ marks = {}
  /\ place = [m \in Messages |-> [conv |-> None, from |-> None]]
  /\ focus = [u \in Users |-> None] /\ looked = {} /\ received = {}
  /\ alerts = {} /\ rung = {}
  /\ told = [u \in Users |-> [m \in Messages |-> "none"]]
  /\ job = [t \in Tasks |-> Done]
  /\ requests = 0 /\ crossed = {} /\ raced = {}

Go(t, state) == job' = [job EXCEPT ![t] = state]

Ask(t) == job[t] = Done /\ requests < MaxRequests /\ requests' = requests + 1

\* A request on message m starts while another is in progress.
Cross(t, m) ==
  crossed' = IF \E t2 \in Tasks \ {t} : job[t2].msg = m THEN crossed \cup {m} ELSE crossed

\* find_message, is_member
Alive(m) == text[m] \in Texts
IsMember(u, c) == u \in members[c]

----------------------------------------------------------------------------
(* Creating conversations.                                                 *)

\* create_conversation
NewConversation(c, what) ==
  /\ kind[c] = "none"
  /\ kind' = [kind EXCEPT ![c] = what]

\* A creation that does not look first.
WrongFindPrivate(t, u, v) ==
  /\ Ask(t)
  /\ Go(t, [Done EXCEPT !.op = "private", !.at = "create", !.user = u, !.peer = v])
  /\ UNCHANGED <<rooms, rows, screens, crossed, raced>>

\* find_private_conversation; one that exists is the answer.  Nobody is refused a
\* conversation with himself: any private one of his is the answer to that.
FindPrivate(t, u, v) ==
  /\ Ask(t)
  /\ raced' = IF \E t2 \in Tasks : job[t2].op = "private" /\ {job[t2].user, job[t2].peer} = {u, v}
              THEN raced \cup {{u, v}} ELSE raced
  /\ IF Private(u, v) # {} THEN UNCHANGED job
     ELSE Go(t, [Done EXCEPT !.op = "private", !.at = "create", !.user = u, !.peer = v])
  /\ UNCHANGED <<rooms, rows, screens, crossed>>

CreatePrivate(t, c) ==
  /\ job[t].at = "create"
  /\ NewConversation(c, "private")
  /\ Go(t, [job[t] EXCEPT !.at = "members", !.conv = c, !.todo = <<job[t].user, job[t].peer>>])
  /\ UNCHANGED <<members, groups, rows, screens, requests, crossed, raced>>

CreateGroup(t, u, list, c) ==
  /\ Ask(t) /\ NewConversation(c, "group")
  /\ Go(t, [Done EXCEPT !.op = "group", !.at = "row", !.user = u, !.conv = c, !.todo = <<u>> \o list])
  /\ UNCHANGED <<members, groups, rows, screens, crossed, raced>>

GroupRow(t) ==
  /\ job[t].at = "row"
  /\ groups' = groups \cup {job[t].conv}
  /\ Go(t, [job[t] EXCEPT !.at = "members"])
  /\ UNCHANGED <<kind, members, rows, screens, requests, crossed, raced>>

\* ON CONFLICT DO NOTHING; a statement of its own for each member.
AddMember(t) ==
  /\ job[t].at = "members"
  /\ members' = [members EXCEPT ![job[t].conv] = @ \cup {Head(job[t].todo)}]
  /\ Go(t, IF Len(job[t].todo) = 1 THEN Done ELSE [job[t] EXCEPT !.todo = Tail(@)])
  /\ UNCHANGED <<kind, groups, rows, screens, requests, crossed, raced>>

----------------------------------------------------------------------------
(* Messages.  Members are never removed, so that whoever was found to be   *)
(* one still is when the statement after the check runs.                   *)

Announce(t, op, u, m, shows) ==
  Go(t, [Done EXCEPT !.op = op, !.at = "list", !.user = u, !.msg = m, !.shows = shows])

\* create_message
InsertMessage(m, u, c, x) ==
  /\ text[m] = "none"
  /\ text' = [text EXCEPT ![m] = x]
  /\ place' = [place EXCEPT ![m] = [conv |-> c, from |-> u]]

Send(t, u, c, m, x) ==
  /\ Ask(t) /\ IsMember(u, c)
  /\ InsertMessage(m, u, c, x)
  /\ Announce(t, "send", u, m, x)
  /\ UNCHANGED <<rooms, marks, screens, crossed, raced>>

\* update_message_content
UpdateMessage(m, x) == text' = [text EXCEPT ![m] = x]

\* Found, and then updated; a row that is gone by then is an error.
Edit(t, m, x) ==
  /\ Ask(t) /\ Alive(m)
  /\ UpdateMessage(m, x)
  /\ Cross(t, m)
  /\ Announce(t, "edit", place[m].from, m, x)
  /\ UNCHANGED <<rooms, place, marks, screens, raced>>

\* Found and allowed; the row may be gone when DELETE runs, which is no error.
DeleteFind(t, m) ==
  /\ Ask(t) /\ Alive(m)
  /\ Cross(t, m)
  /\ Go(t, [Done EXCEPT !.op = "delete", !.at = "delete", !.user = place[m].from, !.msg = m, !.shows = "gone"])
  /\ UNCHANGED <<rooms, rows, screens, raced>>

\* Reactions and receipts go with their message.
DeleteRow(t) ==
  /\ job[t].at = "delete"
  /\ text' = [text EXCEPT ![job[t].msg] = "gone"]
  /\ marks' = {k \in marks : k[1] # job[t].msg}
  /\ Go(t, [job[t] EXCEPT !.at = "list"])
  /\ UNCHANGED <<rooms, place, screens, requests, crossed, raced>>

\* The alerts of a new message before the event.
WrongListMembers(t) ==
  /\ job[t].at = "list"
  /\ Go(t, [job[t] EXCEPT !.at = IF job[t].op = "send" THEN "alert" ELSE "tell",
                            !.to = members[place[job[t].msg].conv]])
  /\ UNCHANGED <<rooms, rows, screens, requests, crossed, raced>>

\* get_conversation_members
ListMembers(t) ==
  /\ job[t].at = "list"
  /\ Go(t, [job[t] EXCEPT !.at = "tell", !.to = members[place[job[t].msg].conv]])
  /\ UNCHANGED <<rooms, rows, screens, requests, crossed, raced>>

\* The event carries what the request began with, for an edit.
WrongTell(t) ==
  /\ job[t].at = "tell"
  /\ told' = [u \in Users |-> IF u \in job[t].to
       THEN [told[u] EXCEPT ![job[t].msg] = IF job[t].op = "edit" /\ @ # "none" THEN @ ELSE job[t].shows] ELSE told[u]]
  /\ received' = IF job[t].op = "send" THEN received \cup (job[t].to \X {job[t].msg}) ELSE received
  /\ Go(t, IF job[t].op # "send" THEN Done
           ELSE [job[t] EXCEPT !.at = "alert", !.to = @ \ {job[t].user}])
  /\ UNCHANGED <<rooms, rows, focus, alerts, rung, looked, requests, crossed, raced>>

\* broadcast_to_users; only a new message is alerted as well.
Tell(t) ==
  /\ job[t].at = "tell"
  /\ told' = [u \in Users |-> IF u \in job[t].to
       THEN [told[u] EXCEPT ![job[t].msg] = job[t].shows] ELSE told[u]]
  /\ received' = IF job[t].op = "send" THEN received \cup (job[t].to \X {job[t].msg}) ELSE received
  /\ Go(t, IF job[t].op # "send" THEN Done
           ELSE [job[t] EXCEPT !.at = "alert", !.to = @ \ {job[t].user}])
  /\ UNCHANGED <<rooms, rows, focus, alerts, rung, looked, requests, crossed, raced>>

\* Somebody who looks at any conversation is left alone.
WrongViewing(u, c) == focus[u] # None

\* is_viewing_conversation
Viewing(u, c) == focus[u] = c

\* One member after the other.  The error of send_notification is ignored: the row may
\* or may not be there.
Alert(t, u) ==
  /\ job[t].at = "alert" /\ u \in job[t].to
  /\ IF Viewing(u, place[job[t].msg].conv)
     THEN UNCHANGED alerts /\ Go(t, [job[t] EXCEPT !.to = @ \ {u}])
     ELSE /\ alerts' \in {alerts, alerts \cup {<<u, job[t].msg>>}}
          /\ Go(t, [job[t] EXCEPT !.at = "ring", !.peer = u])
  /\ UNCHANGED <<rooms, rows, focus, told, received, rung, looked, requests, crossed, raced>>

\* send_to_user, with or without the row.
RingUser(t) ==
  /\ job[t].at = "ring"
  /\ rung' = rung \cup {<<job[t].peer, job[t].msg>>}
  /\ Go(t, [job[t] EXCEPT !.at = "alert", !.to = @ \ {job[t].peer}, !.peer = None])
  /\ UNCHANGED <<rooms, rows, focus, told, received, alerts, looked, requests, crossed, raced>>

Alerted(t) ==
  /\ job[t].at = "alert" /\ job[t].to = {}
  /\ Go(t, Done)
  /\ UNCHANGED <<rooms, rows, screens, requests, crossed, raced>>

\* chat:focus, of the user and not of the connection; without a conversation, Blur.
Focus(u, c) ==
  /\ focus' = [focus EXCEPT ![u] = c]
  /\ looked' = looked \cup {<<u, c>>}
  /\ UNCHANGED <<rooms, rows, told, received, alerts, rung, job, requests, crossed, raced>>

Blur(u) ==
  /\ focus' = [focus EXCEPT ![u] = None]
  /\ UNCHANGED <<rooms, rows, told, received, alerts, rung, looked, job, requests, crossed, raced>>

----------------------------------------------------------------------------
(* Reactions and receipts: found, then inserted.  The events that follow   *)
(* say nothing of the content.                                             *)

MarkFind(t, u, m, what) ==
  /\ Ask(t) /\ Alive(m) /\ IsMember(u, place[m].conv)
  /\ Go(t, [Done EXCEPT !.op = what, !.at = "mark", !.user = u, !.msg = m])
  /\ UNCHANGED <<rooms, rows, screens, crossed, raced>>

Mark(t) == <<job[t].msg, job[t].user, IF job[t].op = "read" THEN "read" ELSE "reaction">>

\* The foreign key refuses a mark of a message that was deleted in between.
MarkRow(t) ==
  /\ job[t].at = "mark"
  /\ marks' = CASE job[t].op = "unreact" -> marks \ {Mark(t)}
                [] Alive(job[t].msg) -> marks \cup {Mark(t)}
                [] OTHER -> marks
  /\ Go(t, Done)
  /\ UNCHANGED <<rooms, text, place, screens, requests, crossed, raced>>

DropChat(t) ==
  /\ job[t] # Done
  /\ Go(t, Done)
  /\ crossed' = IF job[t].msg = None THEN crossed ELSE crossed \cup {job[t].msg}
  /\ UNCHANGED <<rooms, rows, screens, requests, raced>>

----------------------------------------------------------------------------
CreateRequest(t) ==
  \/ \E u, v \in Users : FindPrivate(t, u, v)
  \/ \E u, v \in Users, c \in Convs : CreateGroup(t, u, <<v>>, c)

MessageRequest(t) == \E m \in Messages :
  \/ \E x \in Texts : Edit(t, m, x)
  \/ \E u \in Users, c \in Convs, x \in Texts : Send(t, u, c, m, x)
  \/ DeleteFind(t, m)
  \/ \E u \in Users, what \in {"react", "unreact", "read"} : MarkFind(t, u, m, what)

ChatStep(t) ==
  \/ \E c \in Convs : CreatePrivate(t, c)
  \/ GroupRow(t) \/ AddMember(t)
  \/ DeleteRow(t) \/ ListMembers(t) \/ Tell(t) \/ RingUser(t) \/ Alerted(t) \/ MarkRow(t)
  \/ \E u \in Users : Alert(t, u)

\* The clients open conversations of their users only; the hub would take any id.
ChatNext ==
  \/ \E t \in Tasks : CreateRequest(t) \/ MessageRequest(t) \/ ChatStep(t) \/ DropChat(t)
  \/ \E u \in Users : Blur(u) \/ \E c \in Convs : IsMember(u, c) /\ Focus(u, c)

ChatSpec == ChatInit /\ [][ChatNext]_chatVars

----------------------------------------------------------------------------
(* Properties.                                                             *)

ChatTypeOK ==
  /\ kind \in [Convs -> {"none", "private", "group"}]
  /\ members \in [Convs -> SUBSET Users]
  /\ groups \subseteq Convs
  /\ text \in [Messages -> Texts \cup {"none", "gone"}]
  /\ place \in [Messages -> [conv : Convs \cup {None}, from : Users \cup {None}]]
  /\ marks \subseteq Messages \X Users \X {"reaction", "read"}
  /\ focus \in [Users -> Convs \cup {None}]
  /\ told \in [Users -> [Messages -> Texts \cup {"none", "gone"}]]
  /\ received \subseteq Users \X Messages /\ alerts \cup rung \subseteq received

\* Two users have at most one private conversation, and it is theirs alone, unless
\* two creations for them overlapped: nothing but the lookup prevents a second.
OneChatPerPair ==
  \A c, c2 \in Convs : kind[c] = "private" =>
    /\ \E u, v \in Users : members[c] \subseteq {u, v}
    /\ \A u, v \in members[c] :
         u # v /\ {u, v} \notin raced /\ c2 \in Private(u, v) => c2 = c

\* Once the requests on a message are through, and no two of them overlapped, the last
\* event any user got about it shows what the row holds; its sender, and everybody
\* who was alerted, did get one.
ToldIsTrue ==
  \A m \in Messages \ crossed : (\A t \in Tasks : job[t].msg # m) =>
    \A u \in Users :
      /\ told[u][m] \in {"none", text[m]}
      /\ u = place[m].from \/ <<u, m>> \in alerts \cup rung => told[u][m] = text[m]

\* A member who received a message and never had its conversation in focus got the
\* event of the alert, whatever other conversation he was looking at, and whether or
\* not the row of the alert could be written.
UnseenIsAlerted ==
  \A m \in Messages \ crossed, u \in Users :
    /\ u # place[m].from
    /\ <<u, m>> \in received
    /\ <<u, place[m].conv>> \notin looked
    /\ \A t \in Tasks : job[t].msg # m
    => <<u, m>> \in rung
=============================================================================
