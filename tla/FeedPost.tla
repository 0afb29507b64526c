------------------------------ MODULE FeedPost ------------------------------
(***************************************************************************)
(* The rows of one post in Postgres: its reactions, its comments in two    *)
(* tiers, the pinned ones and the counters kept beside them, and the       *)
(* transactions that change them (services/feed/src/lib.rs).               *)
(*                                                                         *)
(* As in LiveStream, a statement is an action (one per row where it locks  *)
(* several), reads what is committed, keeps the rows it writes locked and  *)
(* is published by COMMIT; a transaction may be rolled back at any point.  *)
(* Writing a row and deleting it exclude every other writer; a reply that  *)
(* is inserted shares the key of its parent with other writers, and keeps  *)
(* it from being deleted.                                                  *)
(***************************************************************************)
EXTENDS Integers, FiniteSets

CONSTANTS
  Users, Comments,
  Tasks,    \* requests that may be in progress at once
  Post,     \* the row of the post
  None      \* no parent

ASSUME PostAssumption ==
  /\ IsFiniteSet(Users) /\ IsFiniteSet(Comments)
  /\ Users \cap Comments = {}
  /\ Post \notin Users \cup Comments
  /\ None \notin Users \cup Comments \cup {Post}

VARIABLES
  reactions, like_count,      \* users with a row in post_reactions; posts.like_count
  comments, comment_count,    \* rows of post_comments; posts.comment_count
  parent, reply_count,        \* post_comments.parent_comment_id and reply_count
  pinned,                     \* comments with is_pinned
  gone,                       \* ids of deleted comments, which are never given again
  tx                          \* the transaction of each task

likes == <<reactions, like_count>>
threads == <<comments, comment_count, parent, reply_count, gone>>
vars == <<likes, threads, pinned, tx>>

Rows == Users \cup Comments \cup {Post}

\* subject: the user or comment of the request; root: the parent of the comment;
\* todo, held: rows the statement has yet to lock, rows the transaction has written;
\* shared: the row whose key it relies on; count, seen: what it has read.
Idle == [op |-> "idle", at |-> "idle", subject |-> None, root |-> None,
         todo |-> {}, held |-> {}, shared |-> {}, count |-> 0, seen |-> 0]

TxState == [op : {"idle", "like", "unlike", "comment", "delete", "pin"},
            at : {"idle", "first", "rows", "post", "last", "commit"},
            subject : Users \cup Comments \cup {None}, root : Comments \cup {None},
            todo : SUBSET Comments, held : SUBSET Rows, shared : SUBSET Comments,
            count : Nat, seen : Nat]

Become(t, state) == tx' = [tx EXCEPT ![t] = state]

Replies(c) == {r \in comments : parent[r] = c}

\* The counter taken down without GREATEST.
WrongNotNegative(n) == n

\* GREATEST(0, n)
NotNegative(n) == IF n < 0 THEN 0 ELSE n

Init ==
  /\ reactions = {} /\ like_count = 0
  /\ comments = {} /\ comment_count = 0 /\ gone = {}
  /\ parent = [c \in Comments |-> None] /\ reply_count = [c \in Comments |-> 0]
  /\ pinned = {}
  /\ tx = [t \in Tasks |-> Idle]

----------------------------------------------------------------------------
(* Requests: what the service checks, and the first read of the            *)
(* transaction.  A reaction the user has already only changes its kind.    *)

Begin(t, op, at, subject, root, todo) ==
  /\ tx[t] = Idle
  /\ Become(t, [Idle EXCEPT !.op = op, !.at = at, !.subject = subject, !.root = root, !.todo = todo])
  /\ UNCHANGED <<likes, threads, pinned>>

Like(t, u) == u \notin reactions /\ Begin(t, "like", "first", u, None, {})

Unlike(t, u) == u \in reactions /\ Begin(t, "unlike", "first", u, None, {})

\* A new id for every comment.
Fresh(c) == c \notin comments \cup gone /\ \A t \in Tasks : tx[t].subject # c

\* A reply to a reply is attached under the root of its thread.
RootOf(p) == IF p = None \/ parent[p] = None THEN p ELSE parent[p]

Comment(t, c, p) ==
  /\ Fresh(c)
  /\ p \in comments \cup {None}
  /\ Begin(t, "comment", "first", c, RootOf(p), {})

Delete(t, c) == c \in comments /\ Begin(t, "delete", "first", c, parent[c], {})

\* The first statement takes the pin from those that have it.
Pin(t, c) ==
  /\ c \in comments
  /\ parent[c] = None
  /\ Begin(t, "pin", "rows", c, None, pinned)

----------------------------------------------------------------------------
(* Statements.                                                             *)

NotWritten(t, r) == \A t2 \in Tasks \ {t} : r \notin tx[t2].held
NotShared(t, r) == \A t2 \in Tasks \ {t} : r \notin tx[t2].shared

\* A comment that another transaction deletes is in its rows and not its parent.
NotDeleted(t, c) ==
  \A t2 \in Tasks \ {t} : ~(tx[t2].op = "delete" /\ c \in tx[t2].held /\ tx[t2].root # c)

\* The insert of the reaction trusts the SELECT before it: there is no unique key.
WrongInsertReaction(t) ==
  /\ tx[t].op = "like" /\ tx[t].at = "first"
  /\ Become(t, [tx[t] EXCEPT !.at = "post", !.held = {tx[t].subject}])
  /\ UNCHANGED <<likes, threads, pinned>>

\* It waits for another insert or delete of the user's reaction; if there is one by
\* now, the unique key refuses it and the transaction is rolled back.
InsertReaction(t) ==
  /\ tx[t].op = "like" /\ tx[t].at = "first"
  /\ NotWritten(t, tx[t].subject)
  /\ tx[t].subject \notin reactions
  /\ Become(t, [tx[t] EXCEPT !.at = "post", !.held = {tx[t].subject}])
  /\ UNCHANGED <<likes, threads, pinned>>

\* The post is updated only if a row was deleted.
DeleteReaction(t) ==
  /\ tx[t].op = "unlike" /\ tx[t].at = "first"
  /\ NotWritten(t, tx[t].subject)
  /\ Become(t, IF tx[t].subject \in reactions
               THEN [tx[t] EXCEPT !.at = "post", !.held = {tx[t].subject}] ELSE Idle)
  /\ UNCHANGED <<likes, threads, pinned>>

\* The parent is not looked at again.
WrongInsertComment(t) ==
  /\ tx[t].op = "comment" /\ tx[t].at = "first"
  /\ Become(t, [tx[t] EXCEPT !.at = "post"])
  /\ UNCHANGED <<likes, threads, pinned>>

\* The foreign key waits for a transaction that deletes the parent, and fails if it is gone.
InsertComment(t) ==
  /\ tx[t].op = "comment" /\ tx[t].at = "first"
  /\ tx[t].root # None => tx[t].root \in comments /\ NotDeleted(t, tx[t].root)
  /\ Become(t, [tx[t] EXCEPT !.at = "post", !.shared = {tx[t].root} \ {None}])
  /\ UNCHANGED <<likes, threads, pinned>>

\* The comment and its replies, as many as are committed now.
CountThread(t) ==
  /\ tx[t].op = "delete" /\ tx[t].at = "first"
  /\ LET c == tx[t].subject
         thread == comments \cap ({c} \cup IF c \in comments THEN Replies(c) ELSE {})
     IN  Become(t, [tx[t] EXCEPT !.at = "rows", !.count = Cardinality(thread), !.todo = {c}])
  /\ UNCHANGED <<likes, threads, pinned>>

\* A row the statement meets: it goes on without one that is gone.  Deleting a comment
\* deletes its replies (ON DELETE CASCADE).
LockComment(t, c) ==
  /\ tx[t].at = "rows"
  /\ c \in tx[t].todo
  /\ NotWritten(t, c)
  /\ tx[t].op = "delete" => NotShared(t, c)
  /\ Become(t, [tx[t] EXCEPT
       !.todo = (@ \ {c}) \cup IF tx[t].op = "delete" /\ c \in comments THEN Replies(c) ELSE {},
       !.held = @ \cup ({c} \cap comments)])
  /\ UNCHANGED <<likes, threads, pinned>>

\* A statement that locks several rows is through with them.
RowsDone(t, op) == tx[t].op = op /\ tx[t].at = "rows" /\ tx[t].todo = {}

AtPost(t) == tx[t].at = "post" \/ RowsDone(t, "delete")

\* UPDATE posts: computed from the latest version of the row.
UpdatePost(t) ==
  /\ AtPost(t)
  /\ NotWritten(t, Post)
  /\ Become(t, [tx[t] EXCEPT
       !.at = IF tx[t].root = None THEN "commit" ELSE "last",
       !.held = @ \cup {Post},
       !.seen = IF tx[t].op \in {"like", "unlike"} THEN like_count ELSE comment_count])
  /\ UNCHANGED <<likes, threads, pinned>>

\* The last UPDATE: the parent of a comment, or the comment to pin.
LastRow(t) == IF tx[t].op = "pin" THEN tx[t].subject ELSE tx[t].root

AtLast(t) == tx[t].at = "last" \/ RowsDone(t, "pin")

\* A pin that also touches the post, after its comments.
WrongUpdateLast(t) ==
  /\ AtLast(t)
  /\ NotWritten(t, LastRow(t))
  /\ Become(t, [tx[t] EXCEPT !.at = IF tx[t].op = "pin" THEN "post" ELSE "commit",
                            !.held = @ \cup ({LastRow(t)} \cap comments)])
  /\ UNCHANGED <<likes, threads, pinned>>

UpdateLast(t) ==
  /\ AtLast(t)
  /\ NotWritten(t, LastRow(t))
  /\ Become(t, [tx[t] EXCEPT !.at = "commit", !.held = @ \cup ({LastRow(t)} \cap comments)])
  /\ UNCHANGED <<likes, threads, pinned>>

Finishes(t, op) == tx[t].op = op /\ tx[t].at = "commit" /\ Become(t, Idle)

CommitLike(t) ==
  /\ Finishes(t, "like")
  /\ reactions' = reactions \cup {tx[t].subject}
  /\ like_count' = tx[t].seen + 1
  /\ UNCHANGED <<threads, pinned>>

CommitUnlike(t) ==
  /\ Finishes(t, "unlike")
  /\ reactions' = reactions \ {tx[t].subject}
  /\ like_count' = NotNegative(tx[t].seen - 1)
  /\ UNCHANGED <<threads, pinned>>

CommitComment(t) ==
  /\ Finishes(t, "comment")
  /\ comments' = comments \cup {tx[t].subject}
  /\ parent' = [parent EXCEPT ![tx[t].subject] = tx[t].root]
  /\ comment_count' = tx[t].seen + 1
  /\ reply_count' = [c \in Comments |-> reply_count[c] + IF c = tx[t].root THEN 1 ELSE 0]
  /\ UNCHANGED <<likes, pinned, gone>>

\* The rows a delete removes: none, if another was faster.
Doomed(state) == (state.held \cap Comments) \ {state.root}

\* The parent of the deleted comment keeps its number of replies.
WrongCommitDelete(t) ==
  /\ Finishes(t, "delete")
  /\ comments' = comments \ Doomed(tx[t])
  /\ gone' = gone \cup Doomed(tx[t])
  /\ pinned' = pinned \ Doomed(tx[t])
  /\ comment_count' = NotNegative(tx[t].seen - tx[t].count)
  /\ UNCHANGED <<likes, parent, reply_count>>

CommitDelete(t) ==
  /\ Finishes(t, "delete")
  /\ comments' = comments \ Doomed(tx[t])
  /\ gone' = gone \cup Doomed(tx[t])
  /\ pinned' = pinned \ Doomed(tx[t])
  /\ comment_count' = NotNegative(tx[t].seen - tx[t].count)
  /\ reply_count' = [c \in Comments |->
       NotNegative(reply_count[c] - IF c = tx[t].root THEN 1 ELSE 0)]
  /\ UNCHANGED <<likes, parent>>

CommitPin(t) ==
  /\ Finishes(t, "pin")
  /\ pinned' = (pinned \ tx[t].held) \cup ({tx[t].subject} \cap tx[t].held)
  /\ UNCHANGED <<likes, threads>>

\* One statement.
Unpin(c) ==
  /\ \A t \in Tasks : c \notin tx[t].held
  /\ pinned' = pinned \ {c}
  /\ UNCHANGED <<likes, threads, tx>>

Rollback(t) ==
  /\ tx[t] # Idle
  /\ Become(t, Idle)
  /\ UNCHANGED <<likes, threads, pinned>>

----------------------------------------------------------------------------
Request(t) ==
  \/ \E u \in Users : Like(t, u) \/ Unlike(t, u)
  \/ \E c \in Comments : Delete(t, c) \/ Pin(t, c)
  \/ \E c \in Comments, p \in Comments \cup {None} : Comment(t, c, p)

Statement(t) ==
  \/ InsertReaction(t) \/ DeleteReaction(t) \/ InsertComment(t) \/ CountThread(t)
  \/ \E c \in Comments : LockComment(t, c)
  \/ UpdatePost(t) \/ UpdateLast(t)
  \/ CommitLike(t) \/ CommitUnlike(t) \/ CommitComment(t) \/ CommitDelete(t) \/ CommitPin(t)

Next ==
  \/ \E t \in Tasks : Request(t) \/ Statement(t) \/ Rollback(t)
  \/ \E c \in Comments : Unpin(c)

Spec == Init /\ [][Next]_vars

----------------------------------------------------------------------------
(* Properties.                                                             *)

TypeOK ==
  /\ reactions \in SUBSET Users /\ like_count \in Nat
  /\ comments \in SUBSET Comments /\ comment_count \in Nat
  /\ parent \in [Comments -> Comments \cup {None}]
  /\ reply_count \in [Comments -> Nat]
  /\ pinned \in SUBSET comments
  /\ gone \in SUBSET (Comments \ comments)
  /\ tx \in [Tasks -> TxState]

\* like_count is the number of reactions, although it is only ever added to: a user's
\* requests may overlap, and a reaction that was there or gone is not counted again
\* (add_or_update_reaction, remove_reaction).
LikesExact == like_count = Cardinality(reactions)

\* Every reply is under a comment of the post that is no reply itself, whatever is
\* deleted between the service's look at the parent and the insert (add_comment).
TwoTiers ==
  \A c \in comments : parent[c] # None => parent[c] \in comments /\ parent[parent[c]] = None

Known == comments \cup gone

\* A reaction that was inserted or deleted is still the user's own to write, and the
\* counter is as it was read.
ReactionConsistent(s) ==
  s.op \in {"like", "unlike"} =>
    /\ s.subject \in Users /\ s.root = None
    /\ s.at \in {"first", "post", "commit"}
    /\ s.at # "first" => s.subject \in s.held /\ (s.subject \in reactions <=> s.op = "unlike")
    /\ s.at = "commit" => Post \in s.held /\ s.seen = like_count

\* A comment is new until it commits, and its parent stays while the insert needs it.
CommentConsistent(s) ==
  s.op = "comment" =>
    /\ s.subject \in Comments \ Known
    /\ s.at # "first" /\ s.root # None => s.root \in s.shared \cap comments

\* A delete that has its comment has, or is about to lock, every reply to it.
DeleteConsistent(s) ==
  s.op = "delete" =>
    /\ s.subject \in Known /\ s.root = parent[s.subject]
    /\ s.at # "rows" => s.todo = {}
    /\ s.todo \cup Doomed(s) \subseteq {s.subject} \cup {c \in Known : parent[c] = s.subject}
    /\ \/ s.todo \subseteq {s.subject} /\ Doomed(s) = {}
       \/ s.subject \in Doomed(s) /\ Replies(s.subject) \subseteq s.todo \cup Doomed(s)

\* What a transaction has read and locked, against what is committed.
Consistent(s) ==
  /\ s.held \cap Comments \subseteq comments
  /\ s.root # None => s.root \in Known /\ parent[s.root] = None
  /\ s.op = "pin" => s.subject \in Comments
  /\ ReactionConsistent(s) /\ CommentConsistent(s) /\ DeleteConsistent(s)

\* Writers exclude each other, nothing on whose key another relies is deleted, and no
\* id is given twice.
Exclusive(s1, s2) ==
  /\ s1.held \cap s2.held = {}
  /\ s2.op = "delete" => s1.shared \cap Doomed(s2) = {}
  /\ s1.op = "comment" /\ s2.op = "comment" => s1.subject # s2.subject

\* The inductive invariant behind LikesExact and TwoTiers.
IInv ==
  /\ TypeOK /\ LikesExact /\ TwoTiers
  /\ \A t \in Tasks : Consistent(tx[t])
  /\ \A t1, t2 \in Tasks : t1 # t2 => Exclusive(tx[t1], tx[t2])

\* reply_count never promises a reply that does not exist (create_comment, delete_comment).
RepliesExist == \A c \in comments : reply_count[c] <= Cardinality(Replies(c))

\* The statements, locks and rollbacks of comments and deletes implement the forest of
\* PostThreads, each request at its commit: a reply whose thread is deleted meanwhile is
\* deleted with it or fails, and none is left behind (create_comment, delete_comment).
Threads == INSTANCE PostThreads

RefinesPostThreads == Threads!Spec

\* A transaction that need not wait for a row.
CanGoOn(t) ==
  /\ \A c \in tx[t].todo : NotWritten(t, c) /\ (tx[t].op = "delete" => NotShared(t, c))
  /\ tx[t].at = "first" =>
       /\ tx[t].op \in {"like", "unlike"} => NotWritten(t, tx[t].subject)
       /\ tx[t].op = "comment" => NotDeleted(t, tx[t].root)
  /\ AtPost(t) => NotWritten(t, Post)
  /\ AtLast(t) => NotWritten(t, LastRow(t))

\* Without a delete, and with one pin at a time, no transactions wait for each other in
\* a circle: reactions, then the post, then its comments (the UPDATEs of the service).
OnlyDeletesBlock ==
  (\E t \in Tasks : tx[t] # Idle)
    /\ (\A t \in Tasks : tx[t].op # "delete")
    /\ (\A t1, t2 \in Tasks : tx[t1].op = "pin" /\ tx[t2].op = "pin" => t1 = t2)
  => \E t \in Tasks : tx[t] # Idle /\ CanGoOn(t)

\* "Post authors can pin up to 1 top-level comment."
AtMostOnePinned == \A c1, c2 \in pinned : c1 = c2

\* comment_count is the number of comments and replies ("Deleting a parent comment ...
\* atomically decrements both comment_count and parent reply_count").
CommentsCounted == comment_count = Cardinality(comments)
=============================================================================
