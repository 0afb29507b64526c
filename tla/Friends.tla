------------------------------ MODULE Friends ------------------------------
(***************************************************************************)
(* Friend requests (services/users/src/lib.rs).  Every request looks the   *)
(* pair up in one statement and writes in another; the table keeps the     *)
(* direction of a request, the lookups and the writes do not.              *)
(***************************************************************************)
EXTENDS Service

VARIABLES
  friendship,  \* friendships: none, pending or accepted for <<user_id, friend_id>>
  errand,      \* what each task is doing
  \* History, no state of the code:
  doubled,     \* pairs of which two creations overlapped
  friends,     \* pairs that were accepted and not removed since
  upset        \* pairs of which two answers overlapped

friendRows == <<friendship>>
friendPast == <<doubled, friends, upset>>
friendVars == <<friendship, errand, friendPast>>

NoErrand == [op |-> "none", user |-> None, other |-> None]

FriendInit ==
  /\ friendship = [d \in Users \X Users |-> "none"]
  /\ errand = [t \in Tasks |-> NoErrand]
  /\ doubled = {} /\ friends = {} /\ upset = {}

Directions(u, v) == {<<u, v>>, <<v, u>>}
Rows(u, v) == {d \in Directions(u, v) : friendship[d] # "none"}
AreFriends(u, v) == \E d \in Directions(u, v) : friendship[d] = "accepted"

\* The UPDATE and the DELETE take both directions.
WriteBoth(u, v, status) ==
  friendship' = [d \in Users \X Users |->
    IF d \in Rows(u, v) THEN status ELSE friendship[d]]

\* A request starts while another task is at one of these for the same two.
Mind(set, ops, u, v) ==
  IF \E t \in Tasks : errand[t].op \in ops /\ {errand[t].user, errand[t].other} = {u, v}
  THEN set \cup {{u, v}} ELSE set

Take(t, op, u, v) ==
  /\ errand[t] = NoErrand /\ u # v
  /\ errand' = [errand EXCEPT ![t] = [op |-> op, user |-> u, other |-> v]]

Finished(t) == errand' = [errand EXCEPT ![t] = NoErrand]

----------------------------------------------------------------------------
\* A lookup in the direction of the request alone.
WrongAskFriend(t, u, v) ==
  /\ friendship[<<u, v>>] = "none"
  /\ Take(t, "ask", u, v)
  /\ doubled' = Mind(doubled, {"ask"}, u, v)
  /\ UNCHANGED <<friendship, friends, upset>>

\* send_friend_request: nothing between the two of them yet.
AskFriend(t, u, v) ==
  /\ Rows(u, v) = {}
  /\ Take(t, "ask", u, v)
  /\ doubled' = Mind(doubled, {"ask"}, u, v)
  /\ UNCHANGED <<friendship, friends, upset>>

\* UNIQUE(user_id, friend_id): the INSERT fails if this direction is there.
InsertRequest(t) == LET d == <<errand[t].user, errand[t].other>> IN
  /\ errand[t].op = "ask"
  /\ friendship' = [friendship EXCEPT ![d] = IF @ = "none" THEN "pending" ELSE @]
  /\ Finished(t)
  /\ UNCHANGED friendPast

\* A rejection that takes whatever there is.
WrongFindPending(t, op, u, v) ==
  /\ Rows(u, v) # {}
  /\ Take(t, op, u, v)
  /\ upset' = Mind(upset, {"accept", "reject"}, u, v)
  /\ UNCHANGED <<friendship, doubled, friends>>

\* accept_friend_request and reject_friend_request: one of the rows, which is pending;
\* it does not matter who asked.
FindPending(t, op, u, v) ==
  /\ \E d \in Rows(u, v) : friendship[d] = "pending"
  /\ Take(t, op, u, v)
  /\ upset' = Mind(upset, {"accept", "reject"}, u, v)
  /\ UNCHANGED <<friendship, doubled, friends>>

AcceptRows(t) == LET u == errand[t].user v == errand[t].other IN
  /\ errand[t].op = "accept"
  /\ WriteBoth(u, v, "accepted")
  /\ friends' = IF Rows(u, v) # {} THEN friends \cup {{u, v}} ELSE friends
  /\ Finished(t)
  /\ UNCHANGED <<doubled, upset>>

RejectRows(t) ==
  /\ errand[t].op = "reject"
  /\ WriteBoth(errand[t].user, errand[t].other, "none")
  /\ Finished(t)
  /\ UNCHANGED friendPast

\* delete_friend: whatever there is, a request as well.
FindFriend(t, u, v) ==
  /\ Rows(u, v) # {}
  /\ Take(t, "remove", u, v)
  /\ UNCHANGED <<friendship, friendPast>>

RemoveRows(t) == LET u == errand[t].user v == errand[t].other IN
  /\ errand[t].op = "remove"
  /\ WriteBoth(u, v, "none")
  /\ friends' = friends \ {{u, v}}
  /\ Finished(t)
  /\ UNCHANGED <<doubled, upset>>

DropErrand(t) ==
  /\ errand[t] # NoErrand
  /\ Finished(t)
  /\ UNCHANGED <<friendship, friendPast>>

----------------------------------------------------------------------------
FriendRequest(t, u, v) ==
  \/ AskFriend(t, u, v)
  \/ \E op \in {"accept", "reject"} : FindPending(t, op, u, v)
  \/ FindFriend(t, u, v)

FriendStep(t) ==
  \/ InsertRequest(t) \/ AcceptRows(t) \/ RejectRows(t) \/ RemoveRows(t) \/ DropErrand(t)

FriendNext == \E t \in Tasks : FriendStep(t) \/ \E u, v \in Users : FriendRequest(t, u, v)

FriendSpec == FriendInit /\ [][FriendNext]_friendVars

----------------------------------------------------------------------------
(* Properties.                                                             *)

Pairs == {{d[1], d[2]} : d \in Users \X Users}

FriendTypeOK ==
  /\ friendship \in [Users \X Users -> {"none", "pending", "accepted"}]
  /\ errand \in [Tasks -> [op : {"none", "ask", "accept", "reject", "remove"},
                           user : Users \cup {None}, other : Users \cup {None}]]
  /\ {doubled, friends, upset} \subseteq SUBSET Pairs

\* Two users have one row at most, whoever asked, although the unique key is on the
\* direction: unless both asked, and each lookup came before the other's row.
OneRowPerPair ==
  \A u, v \in Users : {u, v} \notin doubled =>
    ~(friendship[<<u, v>>] # "none" /\ friendship[<<v, u>>] # "none") /\ friendship[<<u, u>>] = "none"

\* Who was accepted stays a friend until one of the two removes the other: a rejection
\* takes requests only, unless it found one before the other accepted it.
FriendsStay ==
  \A u, v \in Users : {u, v} \in friends \ (upset \cup doubled) => AreFriends(u, v)
=============================================================================
