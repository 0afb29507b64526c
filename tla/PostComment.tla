---------------------------- MODULE PostComment ----------------------------
(***************************************************************************)
(* The reactions to one comment and its edits (services/feed/src/lib.rs),  *)
(* and what the handlers tell the author of the post of it.                *)
(* FeedPost has the life of comments; here the statements that count the   *)
(* reactions are taken apart: a recount reads its own snapshot before it   *)
(* has the row, and writes what it read when it gets it.                   *)
(***************************************************************************)
EXTENDS Service, Naturals, FiniteSets

CONSTANTS Wordings  \* contents of the comment

ASSUME CommentAssumption == IsFiniteSet(Users)

VARIABLES
  comment,     \* the row of post_comments: none, there or gone
  commenter,   \* its user_id
  content, like_count,
  liked,       \* users with a row in comment_reactions
  row_lock,    \* the transaction that has written the comment's row
  work,        \* what each task is doing
  shown,       \* content of the last comment:created or comment:updated event
  \* History, no state of the code:
  mixed        \* kinds of which requests overlapped, and none on its own came after

commentRow == <<comment, commenter, content, like_count, liked>>
commentVars == <<commentRow, row_lock, work, shown, mixed>>

\* change: what the transaction has written to comment_reactions, not yet committed;
\* alone: nobody of its kind has overlapped it (history).
NoWork == [op |-> "none", at |-> "none", user |-> None, change |-> "none", count |-> 0, says |-> None,
           alone |-> FALSE]

CommentInit ==
  /\ comment = "none" /\ commenter = None /\ content = None /\ shown = None
  /\ like_count = 0 /\ liked = {}
  /\ row_lock = None
  /\ work = [t \in Tasks |-> NoWork]
  /\ mixed = {}

Continue(t, at) == work' = [work EXCEPT ![t].at = at]
EndWork(t) == work' = [work EXCEPT ![t] = NoWork]

Kind(op) == IF op \in {"add", "edit"} THEN "edits" ELSE "likes"
OfKind(k) == {t \in Tasks : work[t].op # "none" /\ Kind(work[t].op) = k}

----------------------------------------------------------------------------
\* add_comment has committed (FeedPost has the statements; a reply to the comment changes
\* nothing here); the handler goes on to the post and the name of the commenter.
AddComment(t, u, x) ==
  /\ work[t] = NoWork /\ comment = "none"
  /\ comment' = "there" /\ commenter' = u /\ content' = x
  /\ work' = [work EXCEPT ![t] = [NoWork EXCEPT !.op = "add", !.user = u, !.at = "tell", !.says = x, !.alone = TRUE]]
  /\ UNCHANGED <<like_count, liked, row_lock, shown, mixed>>

\* find_comment_by_id.  Only its writer edits a comment; whether the visibility of the
\* post lets somebody react is looked up here as well, and never changes.
FindComment(t, op, u, x) ==
  /\ work[t] = NoWork /\ comment = "there"
  /\ op = "edit" => u = commenter
  /\ work' = [t2 \in Tasks |->
       IF t2 \in OfKind(Kind(op)) THEN [work[t2] EXCEPT !.alone = FALSE]
       ELSE IF t2 # t THEN work[t2]
       ELSE [NoWork EXCEPT !.op = op, !.user = u, !.says = x, !.alone = (OfKind(Kind(op)) = {}),
               !.at = CASE op = "like" -> "insert" [] op = "unlike" -> "delete" [] op = "edit" -> "update"]]
  /\ UNCHANGED <<commentRow, row_lock, shown, mixed>>

\* Another transaction has the row of u in comment_reactions.
Taken(t, u) == \E t2 \in Tasks \ {t} : work[t2].user = u /\ work[t2].change # "none"

\* ON CONFLICT DO UPDATE; the foreign key refuses a reaction to a comment that is gone.
InsertLike(t) ==
  /\ work[t].at = "insert" /\ ~Taken(t, work[t].user)
  /\ work' = [work EXCEPT ![t] = IF comment = "gone" THEN NoWork ELSE [@ EXCEPT !.at = "count", !.change = "add"]]
  /\ UNCHANGED <<commentRow, row_lock, shown, mixed>>

\* A row that is not committed yet is not seen, and not waited for.
DeleteLike(t) == LET u == work[t].user IN
  /\ work[t].at = "delete"
  /\ u \in liked => ~Taken(t, u)
  /\ work' = [work EXCEPT ![t].at = "count", ![t].change = IF u \in liked THEN "drop" ELSE "none"]
  /\ UNCHANGED <<commentRow, row_lock, shown, mixed>>

\* comment_reactions as the transaction sees it.
Seen(t) == CASE work[t].change = "add" -> liked \cup {work[t].user}
             [] work[t].change = "drop" -> liked \ {work[t].user}
             [] OTHER -> liked

\* A count that misses what the transaction itself has written.
WrongCountLikes(t) ==
  /\ work[t].at = "count"
  /\ work' = [work EXCEPT ![t].at = "update", ![t].count = Cardinality(liked)]
  /\ UNCHANGED <<commentRow, row_lock, shown, mixed>>

\* The subselect of the UPDATE: the snapshot of the statement, before the row is locked.
CountLikes(t) ==
  /\ work[t].at = "count"
  /\ work' = [work EXCEPT ![t].at = "update", ![t].count = Cardinality(Seen(t))]
  /\ UNCHANGED <<commentRow, row_lock, shown, mixed>>

\* The UPDATE has the row, or finds none: an edit fails then.
UpdateComment(t) ==
  /\ work[t].at = "update" /\ row_lock = None
  /\ IF comment = "there" THEN row_lock' = t /\ Continue(t, "commit")
     ELSE /\ UNCHANGED row_lock
          /\ IF work[t].op = "edit" THEN EndWork(t) ELSE Continue(t, "commit")
  /\ UNCHANGED <<commentRow, shown, mixed>>

CommitComment(t) == LET k == Kind(work[t].op) IN
  /\ work[t].at = "commit"
  /\ liked' = Seen(t)
  /\ like_count' = IF k = "likes" /\ row_lock = t THEN work[t].count ELSE like_count
  /\ content' = IF k = "edits" THEN work[t].says ELSE content
  /\ row_lock' = IF row_lock = t THEN None ELSE row_lock
  /\ mixed' = IF work[t].alone THEN mixed \ {k} ELSE mixed \cup {k}
  /\ work' = [work EXCEPT ![t] =
       IF k = "likes" THEN NoWork ELSE [@ EXCEPT !.at = "tell", !.change = "none"]]
  /\ UNCHANGED <<comment, commenter, shown>>

\* comment:created or comment:updated, by a task of its own, which the handler spawns once
\* it has asked for the post to know whom to tell.
TellPostAuthor(t) ==
  /\ work[t].at = "tell"
  /\ shown' = work[t].says
  /\ EndWork(t)
  /\ UNCHANGED <<commentRow, row_lock, mixed>>

\* A statement fails, the preview panics or the client goes away: the transaction is
\* rolled back, or nobody is told of what it has committed.
AbortComment(t) ==
  /\ work[t] # NoWork
  /\ row_lock' = IF row_lock = t THEN None ELSE row_lock
  /\ mixed' = IF work[t].at = "tell" THEN mixed \cup {"edits"} ELSE mixed
  /\ EndWork(t)
  /\ UNCHANGED <<commentRow, shown>>

\* Its DELETE, or that of its parent, waits for the row and for those of the reactions.
RemoveComment ==
  /\ comment = "there" /\ row_lock = None
  /\ \A t \in Tasks : work[t].change = "none"
  /\ comment' = "gone" /\ liked' = {}
  /\ UNCHANGED <<commenter, content, like_count, row_lock, work, shown, mixed>>

----------------------------------------------------------------------------
CommentRequest(t) == \E u \in Users :
  \/ \E op \in {"like", "unlike"} : FindComment(t, op, u, None)
  \/ \E x \in Wordings : AddComment(t, u, x) \/ FindComment(t, "edit", u, x)

CommentStep(t) ==
  \/ InsertLike(t) \/ DeleteLike(t) \/ CountLikes(t)
  \/ UpdateComment(t) \/ CommitComment(t) \/ TellPostAuthor(t) \/ AbortComment(t)

CommentNext ==
  \/ RemoveComment
  \/ \E t \in Tasks : CommentRequest(t) \/ CommentStep(t)

CommentSpec == CommentInit /\ [][CommentNext]_commentVars

----------------------------------------------------------------------------
(* Properties.                                                             *)

CommentTypeOK ==
  /\ comment \in {"none", "there", "gone"} /\ commenter \in Users \cup {None}
  /\ {content, shown} \subseteq Wordings \cup {None}
  /\ like_count \in 0..Cardinality(Users)
  /\ liked \subseteq Users
  /\ row_lock \in Tasks \cup {None}
  /\ mixed \subseteq {"likes", "edits"}
  /\ work \in [Tasks -> [op : {"none", "like", "unlike", "add", "edit"},
                         at : {"none", "insert", "delete", "count", "update", "commit", "tell"},
                         user : Users \cup {None}, change : {"none", "add", "drop"},
                         count : 0..Cardinality(Users), says : Wordings \cup {None},
                         alone : BOOLEAN]]

\* Requests that overlapped may leave a wrong number of likes, or the author of the post
\* with an older version of the comment, as one that is broken off before its event does,
\* or with none; the next one that runs alone mends it.
CommentSettles == comment = "there" =>
  /\ "likes" \in mixed \/ like_count = Cardinality(liked)
  /\ "edits" \in mixed \/ OfKind("edits") # {} \/ shown = content
=============================================================================
