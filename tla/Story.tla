------------------------------- MODULE Story -------------------------------
(***************************************************************************)
(* Stories (services/story/src/lib.rs): who may see one, who is counted    *)
(* among its viewers, who reacts and who answers.  A request finds the     *)
(* story, asks for the permission and writes in statements of their own;   *)
(* the friendships, the list of close friends and the story may change in  *)
(* between.  Of the friendships only the accepted ones matter here         *)
(* (Friends has the rest).                                                 *)
(***************************************************************************)
EXTENDS Service

CONSTANTS Stories  \* ids, never used twice

ASSUME StoryAssumption == None \notin Stories

VARIABLES
  story,      \* none, live, expired (24 hours later) or gone
  author,     \* its author_id
  audience,   \* its visibility; other for any text but the three
  friend,     \* accepted friendships, as pairs
  close,      \* close_friends: <<user_id, friend_id>>
  views, reactions,  \* <<story, user>>
  replies,           \* <<story, user>> of the messages that answer a story
  told_author,       \* <<story, user, kind>> of the events its author got
  visit,      \* what each task is doing
  \* History, no state of the code:
  permitted,  \* <<story, user>> ever allowed by the visibility of the story
  broken_off  \* <<story, user>> of which a request was dropped, or lost its view

storyRows == <<story, author, audience, friend, close, views, reactions, replies>>
storyVars == <<storyRows, told_author, visit, permitted, broken_off>>

NoVisit == [op |-> "none", at |-> "none", user |-> None, story |-> None]

StoryInit ==
  /\ story = [s \in Stories |-> "none"]
  /\ author = [s \in Stories |-> None] /\ audience = [s \in Stories |-> "none"]
  /\ friend = {} /\ close = {} /\ views = {} /\ reactions = {} /\ replies = {} /\ told_author = {}
  /\ visit = [t \in Tasks |-> NoVisit]
  /\ permitted = {} /\ broken_off = {}

Stored(s) == story[s] \in {"live", "expired"}

\* Who may see it, besides its author: the queries of the lists, and get_story.
Allowed(s, u) ==
  \/ audience[s] = "public"
  \/ audience[s] = "friends" /\ {author[s], u} \in friend
  \/ audience[s] = "close_friends" /\ <<author[s], u>> \in close

\* Who may mark it as viewed, or react: a visibility that is none of the three, which
\* create_story does not refuse, is asked for nothing.
Passes(s, u) == Allowed(s, u) \/ audience[s] = "other"

Visit(t, state) == visit' = [visit EXCEPT ![t] = state]
GoOn(t, at) == Visit(t, [visit[t] EXCEPT !.at = at])
Leave(t) == Visit(t, NoVisit)
Mine(t) == author[visit[t].story] = visit[t].user
Its(t) == <<visit[t].story, visit[t].user>>

----------------------------------------------------------------------------
(* One statement each.                                                     *)

CreateStory(u, s, who) ==
  /\ story[s] = "none"
  /\ story' = [story EXCEPT ![s] = "live"]
  /\ author' = [author EXCEPT ![s] = u] /\ audience' = [audience EXCEPT ![s] = who]
  /\ UNCHANGED <<friend, close, views, reactions, replies, told_author, visit, broken_off>>

\* expires_at has come; no row changes.
Expire(s) ==
  /\ story[s] = "live"
  /\ story' = [story EXCEPT ![s] = "expired"]
  /\ UNCHANGED <<author, audience, friend, close, views, reactions, replies, told_author, visit, broken_off>>

\* Views and reactions go with their story.
DeleteStory(s) ==
  /\ Stored(s)
  /\ story' = [story EXCEPT ![s] = "gone"]
  /\ views' = {x \in views : x[1] # s} /\ reactions' = {x \in reactions : x[1] # s}
  /\ UNCHANGED <<author, audience, friend, close, replies, told_author, visit, broken_off>>

\* Any user but oneself, a friend or not.
AddClose(u, v) ==
  /\ u # v
  /\ close' = close \cup {<<u, v>>}
  /\ UNCHANGED <<story, author, audience, friend, views, reactions, replies, told_author, visit, broken_off>>

\* A friendship that ends leaves the list as it is.
RemoveClose(u, v) ==
  /\ close' = close \ {<<u, v>>}
  /\ UNCHANGED <<story, author, audience, friend, views, reactions, replies, told_author, visit, broken_off>>

\* A request is accepted; one of the two removes the other.
Befriend(u, v) ==
  /\ u # v
  /\ friend' = friend \cup {{u, v}}
  /\ UNCHANGED <<story, author, audience, close, views, reactions, replies, told_author, visit, broken_off>>

Unfriend(u, v) ==
  /\ friend' = friend \ {{u, v}}
  /\ UNCHANGED <<story, author, audience, close, views, reactions, replies, told_author, visit, broken_off>>

RemoveReaction(s, u) ==
  /\ reactions' = reactions \ {<<s, u>>}
  /\ UNCHANGED <<story, author, audience, friend, close, views, replies, told_author, visit, broken_off>>

----------------------------------------------------------------------------
(* Seeing a story and reacting to it.                                      *)

\* find_story_by_id, whether it has expired or not; to answer it, get_story, which has
\* only those of the last 24 hours.  The author needs no permission and is no viewer.
FindStory(t, op, u, s) ==
  /\ visit[t] = NoVisit /\ Stored(s)
  /\ op \in {"view", "reply"} => u # author[s]
  /\ op = "reply" => story[s] = "live"
  /\ Visit(t, [op |-> op, at |-> IF u = author[s] THEN "react" ELSE "permit", user |-> u, story |-> s])
  /\ UNCHANGED <<storyRows, told_author, broken_off>>

\* Friends are let through for close_friends.
WrongPermit(t) == LET s == visit[t].story u == visit[t].user IN
  /\ visit[t].at = "permit"
  /\ IF Passes(s, u) \/ {author[s], u} \in friend THEN GoOn(t, visit[t].op) ELSE Leave(t)
  /\ UNCHANGED <<storyRows, told_author, broken_off>>

\* is_friend and is_close_friend
Permit(t) ==
  /\ visit[t].at = "permit"
  /\ IF /\ Passes(visit[t].story, visit[t].user)
        /\ visit[t].op = "reply" => Allowed(visit[t].story, visit[t].user)
     THEN GoOn(t, visit[t].op) ELSE Leave(t)
  /\ UNCHANGED <<storyRows, told_author, broken_off>>

\* One for each user and story; a story that is gone is an error.
InsertReaction(t) ==
  /\ visit[t].at = "react"
  /\ IF Stored(visit[t].story)
     THEN reactions' = reactions \cup {Its(t)} /\ GoOn(t, IF Mine(t) THEN "look" ELSE "view")
     ELSE UNCHANGED reactions /\ Leave(t)
  /\ UNCHANGED <<story, author, audience, friend, close, views, replies, told_author, broken_off>>

Viewed(t) == IF visit[t].op = "view" THEN Leave(t) ELSE GoOn(t, "look")

\* record_view.  On any error nothing is written, that of a story that is gone and those
\* of the database: a request to view says so, a reaction goes on.
RecordView(t) ==
  /\ visit[t].at = "view" /\ Viewed(t)
  /\ \/ /\ Stored(visit[t].story)
        /\ views' = views \cup {Its(t)} /\ UNCHANGED broken_off
     \/ broken_off' = broken_off \cup {Its(t)} /\ UNCHANGED views
  /\ UNCHANGED <<story, author, audience, friend, close, reactions, replies, told_author>>

\* The user is read for the answer, and the story once more (get_story) to tell its
\* author; an error of either ends it here.
LookAgain(t) ==
  /\ visit[t].at = "look"
  /\ \/ story[visit[t].story] = "live" /\ ~Mine(t) /\ GoOn(t, "permit_again")
     \/ Leave(t)
  /\ UNCHANGED <<storyRows, told_author, broken_off>>

TellAuthor(t) ==
  /\ visit[t].at = "permit_again"
  /\ told_author' = IF Allowed(visit[t].story, visit[t].user) 
                    THEN told_author \cup {<<visit[t].story, visit[t].user, "reaction">>}
                    ELSE told_author
  /\ Leave(t)
  /\ UNCHANGED <<storyRows, broken_off>>

\* create_private_chat and send_message (Chat has their steps): the story and the
\* friendship are not asked for again.
SendReply(t) ==
  /\ visit[t].at = "reply"
  /\ replies' = replies \cup {Its(t)}
  /\ GoOn(t, "tell_reply")
  /\ UNCHANGED <<story, author, audience, friend, close, views, reactions, told_author, broken_off>>

\* By a task of its own, once the sender's name has been read.
TellReply(t) ==
  /\ visit[t].at = "tell_reply"
  /\ told_author' = told_author \cup {<<visit[t].story, visit[t].user, "reply">>}
  /\ Leave(t)
  /\ UNCHANGED <<storyRows, broken_off>>

DropVisit(t) ==
  /\ visit[t] # NoVisit
  /\ broken_off' = IF Mine(t) THEN broken_off ELSE broken_off \cup {Its(t)}
  /\ Leave(t)
  /\ UNCHANGED <<storyRows, told_author>>

----------------------------------------------------------------------------
StoryRequest ==
  \/ \E s \in Stories, u \in Users :
       \/ \E who \in {"public", "friends", "close_friends", "other"} : CreateStory(u, s, who)
       \/ RemoveReaction(s, u)
       \/ \E t \in Tasks, op \in {"view", "react", "reply"} : FindStory(t, op, u, s)
  \/ \E s \in Stories : Expire(s) \/ DeleteStory(s)
  \/ \E u, v \in Users : AddClose(u, v) \/ RemoveClose(u, v) \/ Befriend(u, v) \/ Unfriend(u, v)

StoryStep(t) ==
  \/ Permit(t) \/ InsertReaction(t) \/ RecordView(t)
  \/ LookAgain(t) \/ TellAuthor(t) \/ SendReply(t) \/ TellReply(t) \/ DropVisit(t)

StoryNext ==
  /\ StoryRequest \/ \E t \in Tasks : StoryStep(t)
  /\ permitted' = permitted \cup {x \in Stories \X Users : Allowed(x[1], x[2])'}

StorySpec == StoryInit /\ [][StoryNext]_storyVars

----------------------------------------------------------------------------
(* Properties.                                                             *)

StoryTypeOK ==
  /\ story \in [Stories -> {"none", "live", "expired", "gone"}]
  /\ author \in [Stories -> Users \cup {None}]
  /\ audience \in [Stories -> {"none", "public", "friends", "close_friends", "other"}]
  /\ friend \subseteq {{x[1], x[2]} : x \in Users \X Users}
  /\ close \subseteq Users \X Users
  /\ {views, reactions, replies, permitted, broken_off} \subseteq SUBSET (Stories \X Users)
  /\ told_author \subseteq Stories \X Users \X {"reaction", "reply"}
  /\ visit \in [Tasks -> [op : {"none", "view", "react", "reply"},
                          at : {"none", "permit", "view", "react", "look", "permit_again", "reply", "tell_reply"},
                          user : Users \cup {None}, story : Stories \cup {None}]]

\* Whoever is counted among the viewers of a story, or has reacted to it, is its author
\* or was allowed to see it at some time, and the story is still there: the permission,
\* the friendship and the story may go while the request is under way.  A story whose
\* visibility the lists do not know is viewed by anybody who has its id, but not answered.
\* Once his requests are through, somebody else than the author who reacted is counted
\* among the viewers, and an answer has been told as an answer, unless one of them was
\* dropped or the statement that writes his view failed, an error nobody hears of.
AudienceIsRight ==
  /\ \A x \in views \cup reactions :
       /\ Stored(x[1])
       /\ \/ x \in permitted \/ audience[x[1]] = "other"
          \/ x[2] = author[x[1]] /\ x \notin views
  /\ \A x \in replies : x \in permitted /\ x[2] # author[x[1]]
  /\ \A x \in Stories \X Users : x \in broken_off \/ (\E t \in Tasks : Its(t) = x) \/
       /\ x \in reactions /\ x[2] # author[x[1]] => x \in views
       /\ x \in replies => <<x[1], x[2], "reply">> \in told_author
=============================================================================
