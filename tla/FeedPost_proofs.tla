--------------------------- MODULE FeedPost_proofs ---------------------------
(***************************************************************************)
(* Proofs about the transactions on one post, for every number of users,   *)
(* comments and requests in progress: the number of likes is exact, and    *)
(* replies stay under the top of a thread that exists.                     *)
(***************************************************************************)
EXTENDS FeedPost, FiniteSetTheorems, TLAPS

USE PostAssumption

----------------------------------------------------------------------------
(* Transactions.                                                           *)

\* What is known of a transaction.
LEMMA Facts ==
  ASSUME IInv, NEW t \in Tasks
  PROVE  /\ tx[t] \in TxState
         /\ Consistent(tx[t])
         /\ \A t2 \in Tasks \ {t} : /\ Exclusive(tx[t], tx[t2]) /\ Exclusive(tx[t2], tx[t])
                                    /\ Consistent(tx[t2]) /\ tx[t2] \in TxState
  BY DEF IInv, TypeOK

\* No transaction.
LEMMA IdleFacts ==
  /\ Idle \in TxState
  /\ Idle.op = "idle" /\ Idle.at = "idle" /\ Idle.subject = None /\ Idle.root = None
  /\ Idle.held = {} /\ Idle.shared = {} /\ Idle.todo = {}
  BY DEF Idle, TxState

\* It is consistent and excludes nobody.
LEMMA IdleConsistent ==
  /\ Consistent(Idle)
  /\ Consistent(Idle)'
  /\ \A s \in TxState : Exclusive(Idle, s) /\ Exclusive(s, Idle)
<1>1. Consistent(Idle) /\ Consistent(Idle)'
  BY IdleFacts DEF Consistent, ReactionConsistent, CommentConsistent, DeleteConsistent
<1>2. ASSUME NEW s \in TxState PROVE Exclusive(Idle, s) /\ Exclusive(s, Idle)
  BY IdleFacts DEF Exclusive, Doomed
<1>3. QED BY <1>1, <1>2

\* A step that changes only its own transaction keeps the invariant, if what it makes
\* of it is consistent and excludes the others.
LEMMA OnlyTx ==
  ASSUME IInv, NEW t \in Tasks, NEW state \in TxState, Become(t, state),
         UNCHANGED <<likes, threads, pinned>>,
         Consistent(state),
         \A t2 \in Tasks \ {t} : Exclusive(state, tx[t2]) /\ Exclusive(tx[t2], state)
  PROVE  IInv'
<1>1. /\ tx' \in [Tasks -> TxState]
      /\ tx'[t] = state
      /\ \A t2 \in Tasks \ {t} : tx'[t2] = tx[t2]
  BY DEF Become, IInv, TypeOK
<1>2. TypeOK' /\ LikesExact' /\ TwoTiers'
  BY <1>1 DEF IInv, TypeOK, LikesExact, TwoTiers, likes, threads
<1>3. ASSUME NEW t2 \in Tasks PROVE Consistent(tx[t2])'
  <2>1. Consistent(tx'[t2])
    BY <1>1, Facts
  <2>2. QED
    BY <2>1 DEF Consistent, ReactionConsistent, CommentConsistent, DeleteConsistent, Known,
       Replies, Doomed, likes, threads
<1>4. ASSUME NEW t1 \in Tasks, NEW t2 \in Tasks, t1 # t2 PROVE Exclusive(tx[t1], tx[t2])'
  <2>1. Exclusive(tx'[t1], tx'[t2])
    BY <1>1, <1>4, Facts
  <2>2. QED BY <2>1 DEF Exclusive, Doomed
<1>5. QED BY <1>2, <1>3, <1>4 DEF IInv

----------------------------------------------------------------------------
(* Requests.                                                               *)

\* A request begins with no row, and knows its comment or its parent.
LEMMA BeginKeeps ==
  ASSUME IInv, NEW t \in Tasks, NEW op \in {"like", "unlike", "comment", "delete", "pin"},
         NEW at \in {"first", "rows"}, NEW subject \in Users \cup Comments,
         NEW root \in Comments \cup {None}, NEW todo \in SUBSET Comments,
         Begin(t, op, at, subject, root, todo),
         op \in {"like", "unlike"} => subject \in Users /\ root = None /\ at = "first",
         op = "comment" => Fresh(subject) /\ subject \in Comments /\ at = "first",
         op = "delete" => subject \in comments /\ root = parent[subject] /\ todo = {},
         op = "pin" => subject \in Comments,
         root # None => root \in comments /\ parent[root] = None
  PROVE  IInv'
<1> DEFINE state == [Idle EXCEPT !.op = op, !.at = at, !.subject = subject, !.root = root, !.todo = todo]
<1>1. /\ state \in TxState
      /\ state.op = op /\ state.at = at /\ state.subject = subject /\ state.root = root
      /\ state.todo = todo /\ state.held = {} /\ state.shared = {}
  BY DEF Idle, TxState
<1>2. Become(t, state) /\ UNCHANGED <<likes, threads, pinned>>
  BY DEF Begin
<1> HIDE DEF state
<1>3. Doomed(state) = {}
  BY <1>1 DEF Doomed
<1>4. Consistent(state)
  <2>1. ReactionConsistent(state)
    BY <1>1 DEF ReactionConsistent
  <2>2. CommentConsistent(state)
    BY <1>1 DEF CommentConsistent, Fresh, Known
  <2>3. DeleteConsistent(state)
    BY <1>1, <1>3 DEF DeleteConsistent, Known
  <2>4. QED BY <1>1, <2>1, <2>2, <2>3 DEF Consistent, Known
<1>5. ASSUME NEW t2 \in Tasks \ {t} PROVE Exclusive(state, tx[t2]) /\ Exclusive(tx[t2], state)
  BY <1>1, <1>3 DEF Exclusive, Fresh
<1>6. QED BY <1>1, <1>2, <1>4, <1>5, OnlyTx

\* Every request of the service.
LEMMA RequestKeeps ==
  ASSUME IInv, NEW t \in Tasks, Request(t)
  PROVE  IInv'
<1>0. /\ comments \subseteq Comments /\ pinned \subseteq Comments
      /\ parent \in [Comments -> Comments \cup {None}]
  BY DEF IInv, TypeOK
<1>1. ASSUME NEW u \in Users, Like(t, u) \/ Unlike(t, u) PROVE IInv'
  <2>1. Begin(t, "like", "first", u, None, {}) \/ Begin(t, "unlike", "first", u, None, {})
    BY <1>1 DEF Like, Unlike
  <2>2. QED BY <2>1, BeginKeeps
<1>2. ASSUME NEW c \in Comments, Delete(t, c) PROVE IInv'
  <2>1. /\ c \in comments /\ Begin(t, "delete", "first", c, parent[c], {})
        /\ parent[c] \in Comments \cup {None}
        /\ parent[c] # None => parent[c] \in comments /\ parent[parent[c]] = None
    BY <1>0, <1>2 DEF Delete, IInv, TwoTiers
  <2>2. QED BY <2>1, BeginKeeps
<1>3. ASSUME NEW c \in Comments, Pin(t, c) PROVE IInv'
  <2>1. Begin(t, "pin", "rows", c, None, pinned)
    BY <1>3 DEF Pin
  <2>2. QED BY <1>0, <2>1, BeginKeeps
<1>4. ASSUME NEW c \in Comments, NEW p \in Comments \cup {None}, Comment(t, c, p) PROVE IInv'
  <2>1. /\ Fresh(c) /\ Begin(t, "comment", "first", c, RootOf(p), {})
        /\ p # None => p \in comments
    BY <1>4 DEF Comment
  <2>2. /\ RootOf(p) \in Comments \cup {None}
        /\ RootOf(p) # None => RootOf(p) \in comments /\ parent[RootOf(p)] = None
    BY <1>0, <2>1 DEF RootOf, IInv, TwoTiers
  <2>3. QED BY <2>1, <2>2, BeginKeeps
<1>5. QED BY <1>1, <1>2, <1>3, <1>4 DEF Request

----------------------------------------------------------------------------
(* Statements.                                                             *)

\* The row of a reaction, inserted or deleted.
LEMMA ReactionKeeps ==
  ASSUME IInv, NEW t \in Tasks, InsertReaction(t) \/ DeleteReaction(t)
  PROVE  IInv'
<1> DEFINE state == [tx[t] EXCEPT !.at = "post", !.held = {tx[t].subject}]
<1>1. /\ tx[t] \in TxState /\ Consistent(tx[t])
      /\ tx[t].op \in {"like", "unlike"} /\ tx[t].subject \in Users /\ tx[t].root = None
      /\ NotWritten(t, tx[t].subject) /\ UNCHANGED <<likes, threads, pinned>>
  BY Facts DEF InsertReaction, DeleteReaction, Consistent, ReactionConsistent
<1>2. \/ Become(t, Idle)
      \/ Become(t, state) /\ (tx[t].subject \in reactions <=> tx[t].op = "unlike")
  BY DEF InsertReaction, DeleteReaction
<1>3. /\ state \in TxState
      /\ state.op = tx[t].op /\ state.at = "post" /\ state.subject = tx[t].subject
      /\ state.root = None /\ state.held = {tx[t].subject}
  BY <1>1 DEF TxState, Rows
<1> HIDE DEF state
<1>4. CASE Become(t, Idle)
  BY <1>1, <1>4, IdleFacts, IdleConsistent, Facts, OnlyTx
<1>5. CASE Become(t, state) /\ (tx[t].subject \in reactions <=> tx[t].op = "unlike")
  <2>1. Consistent(state)
    BY <1>1, <1>3, <1>5 DEF Consistent, ReactionConsistent, CommentConsistent, DeleteConsistent
  <2>2. ASSUME NEW t2 \in Tasks \ {t} PROVE Exclusive(state, tx[t2]) /\ Exclusive(tx[t2], state)
    <3>1. state.shared = tx[t].shared
      BY DEF state
    <3>2. QED BY <1>1, <1>3, <3>1, Facts DEF Exclusive, NotWritten
  <2>3. QED BY <1>1, <1>3, <1>5, <2>1, <2>2, OnlyTx
<1>6. QED BY <1>2, <1>4, <1>5

\* A comment that is inserted shares the key of its parent.
LEMMA InsertCommentKeeps ==
  ASSUME IInv, NEW t \in Tasks, InsertComment(t)
  PROVE  IInv'
<1> DEFINE state == [tx[t] EXCEPT !.at = "post", !.shared = {tx[t].root} \ {None}]
<1>1. /\ tx[t] \in TxState /\ Consistent(tx[t])
      /\ tx[t].op = "comment"
      /\ tx[t].root # None => tx[t].root \in comments /\ NotDeleted(t, tx[t].root)
      /\ Become(t, state) /\ UNCHANGED <<likes, threads, pinned>>
  BY Facts DEF InsertComment
<1>2. /\ state \in TxState
      /\ state.op = "comment" /\ state.at = "post" /\ state.subject = tx[t].subject
      /\ state.root = tx[t].root /\ state.held = tx[t].held
      /\ state.shared = {tx[t].root} \ {None}
  BY <1>1 DEF TxState
<1> HIDE DEF state
<1>3. Consistent(state)
  BY <1>1, <1>2 DEF Consistent, ReactionConsistent, CommentConsistent, DeleteConsistent
<1>4. ASSUME NEW t2 \in Tasks \ {t} PROVE Exclusive(state, tx[t2]) /\ Exclusive(tx[t2], state)
  BY <1>1, <1>2, Facts DEF Exclusive, NotDeleted, Doomed
<1>5. QED BY <1>1, <1>2, <1>3, <1>4, OnlyTx

\* Counting a thread locks nothing.
LEMMA CountThreadKeeps ==
  ASSUME IInv, NEW t \in Tasks, CountThread(t)
  PROVE  IInv'
<1> DEFINE c == tx[t].subject
           thread == comments \cap ({c} \cup IF c \in comments THEN Replies(c) ELSE {})
           n == Cardinality(thread)
           state == [tx[t] EXCEPT !.at = "rows", !.count = n, !.todo = {c}]
<1>1. /\ tx[t] \in TxState /\ Consistent(tx[t])
      /\ tx[t].op = "delete" /\ tx[t].at = "first"
      /\ Become(t, state) /\ UNCHANGED <<likes, threads, pinned>>
  BY Facts DEF CountThread
<1>2. n \in Nat
  <2>1. thread \subseteq Comments
    BY DEF IInv, TypeOK
  <2>2. IsFiniteSet(thread)
    BY <2>1, FS_Subset
  <2>3. QED BY <2>2, FS_CardinalityType
<1> HIDE DEF n, thread
<1>3. tx[t].subject \in Comments /\ tx[t].todo = {}
  BY <1>1 DEF Consistent, DeleteConsistent, Known, IInv, TypeOK
<1>4. /\ state \in TxState
      /\ state.op = "delete" /\ state.at = "rows" /\ state.subject = tx[t].subject
      /\ state.root = tx[t].root /\ state.held = tx[t].held /\ state.shared = tx[t].shared
      /\ state.todo = {tx[t].subject}
  BY <1>1, <1>2, <1>3 DEF TxState
<1> HIDE DEF state
<1>5. Doomed(state) = Doomed(tx[t])
  BY <1>4 DEF Doomed
<1>6. DeleteConsistent(state)
  BY <1>1, <1>3, <1>4, <1>5 DEF Consistent, DeleteConsistent
<1>7. Consistent(state)
  BY <1>1, <1>4, <1>6 DEF Consistent, ReactionConsistent, CommentConsistent
<1>8. ASSUME NEW t2 \in Tasks \ {t} PROVE Exclusive(state, tx[t2]) /\ Exclusive(tx[t2], state)
  BY <1>1, <1>4, <1>5, Facts DEF Exclusive
<1>9. QED BY <1>1, <1>4, <1>7, <1>8, OnlyTx

\* What a delete locks is its comment or a reply to it, and never its own parent.
LEMMA DeleteLocks ==
  ASSUME IInv, NEW t \in Tasks, tx[t].op = "delete", NEW c \in tx[t].todo
  PROVE  /\ tx[t].subject \in Comments /\ c \in Comments
         /\ c # tx[t].root
         /\ c = tx[t].subject \/ parent[c] = tx[t].subject
         /\ c # tx[t].subject /\ c \in comments => Replies(c) = {}
<1>1. /\ tx[t] \in TxState /\ Consistent(tx[t]) /\ DeleteConsistent(tx[t])
      /\ comments \subseteq Comments /\ Known \subseteq Comments
  BY Facts DEF Consistent, IInv, TypeOK, Known
<1>2. tx[t].subject \in Known /\ tx[t].root = parent[tx[t].subject]
  BY <1>1 DEF DeleteConsistent
<1>3. c = tx[t].subject \/ parent[c] = tx[t].subject
  BY <1>1 DEF DeleteConsistent
<1>4. c \in Comments
  BY <1>1 DEF TxState
<1>5. tx[t].root # None => parent[tx[t].root] = None
  BY <1>1 DEF Consistent
<1>6. c # tx[t].root
  BY <1>1, <1>2, <1>3, <1>4, <1>5
<1>7. ASSUME c # tx[t].subject, c \in comments, NEW r \in Replies(c) PROVE FALSE
  BY <1>1, <1>2, <1>3, <1>7 DEF Replies, IInv, TwoTiers
<1>8. QED BY <1>1, <1>2, <1>3, <1>4, <1>6, <1>7

\* A row that a pin or a delete locks.
LEMMA LockCommentKeeps ==
  ASSUME IInv, NEW t \in Tasks, NEW c \in Comments, LockComment(t, c)
  PROVE  IInv'
<1> DEFINE more == IF tx[t].op = "delete" /\ c \in comments THEN Replies(c) ELSE {}
           state == [tx[t] EXCEPT !.todo = (@ \ {c}) \cup more, !.held = @ \cup ({c} \cap comments)]
<1>1. /\ tx[t] \in TxState /\ Consistent(tx[t])
      /\ tx[t].at = "rows" /\ c \in tx[t].todo /\ NotWritten(t, c)
      /\ tx[t].op = "delete" => NotShared(t, c)
      /\ Become(t, state) /\ UNCHANGED <<likes, threads, pinned>>
  BY Facts DEF LockComment
<1>2. more \subseteq comments /\ comments \subseteq Comments
  BY DEF Replies, IInv, TypeOK
<1>3. /\ state \in TxState
      /\ state.op = tx[t].op /\ state.at = "rows" /\ state.subject = tx[t].subject
      /\ state.root = tx[t].root /\ state.shared = tx[t].shared
      /\ state.todo = (tx[t].todo \ {c}) \cup more
      /\ state.held = tx[t].held \cup ({c} \cap comments)
  BY <1>1, <1>2 DEF TxState, Rows
<1> HIDE DEF state
<1>4. ReactionConsistent(state) /\ CommentConsistent(state)
  BY <1>1, <1>3 DEF Consistent, ReactionConsistent, CommentConsistent
<1>5. DeleteConsistent(state)
  <2> SUFFICES ASSUME tx[t].op = "delete" PROVE DeleteConsistent(state)
    BY <1>3 DEF DeleteConsistent
  <2>1. DeleteConsistent(tx[t]) /\ tx[t].subject \in Known /\ tx[t].root = parent[tx[t].subject]
    BY <1>1 DEF Consistent, DeleteConsistent
  <2>2. /\ c # tx[t].root /\ (c = tx[t].subject \/ parent[c] = tx[t].subject)
        /\ c # tx[t].subject /\ c \in comments => Replies(c) = {}
    BY <1>1, DeleteLocks
  <2>3. Doomed(state) = Doomed(tx[t]) \cup ({c} \cap comments)
    BY <1>2, <1>3, <2>2 DEF Doomed
  <2>4. more \subseteq {r \in Known : parent[r] = tx[t].subject}
    BY <2>2 DEF Replies, Known
  <2>5. state.todo \cup Doomed(state) \subseteq {tx[t].subject} \cup {r \in Known : parent[r] = tx[t].subject}
    <3>1. tx[t].todo \cup Doomed(tx[t]) \subseteq {tx[t].subject} \cup {r \in Known : parent[r] = tx[t].subject}
      BY <2>1 DEF DeleteConsistent
    <3>2. state.todo \cup Doomed(state) \subseteq tx[t].todo \cup Doomed(tx[t]) \cup more
      BY <1>1, <1>3, <2>3
    <3>3. QED BY <2>4, <3>1, <3>2
  <2>6. \/ state.todo \subseteq {tx[t].subject} /\ Doomed(state) = {}
        \/ tx[t].subject \in Doomed(state) /\ Replies(tx[t].subject) \subseteq state.todo \cup Doomed(state)
    <3>1. CASE tx[t].todo \subseteq {tx[t].subject} /\ Doomed(tx[t]) = {}
      BY <1>1, <1>3, <2>3, <3>1
    <3>2. CASE /\ tx[t].subject \in Doomed(tx[t])
               /\ Replies(tx[t].subject) \subseteq tx[t].todo \cup Doomed(tx[t])
      BY <1>3, <2>3, <3>2 DEF Replies
    <3>3. QED BY <2>1, <3>1, <3>2 DEF DeleteConsistent
  <2>7. QED BY <1>3, <2>1, <2>5, <2>6 DEF DeleteConsistent
<1>6. Consistent(state)
  BY <1>1, <1>2, <1>3, <1>4, <1>5 DEF Consistent
<1>7. ASSUME NEW t2 \in Tasks \ {t} PROVE Exclusive(state, tx[t2]) /\ Exclusive(tx[t2], state)
  BY <1>1, <1>3, Facts DEF Exclusive, NotWritten, NotShared, Doomed
<1>8. QED BY <1>1, <1>3, <1>6, <1>7, OnlyTx

\* The row of the post.
LEMMA UpdatePostKeeps ==
  ASSUME IInv, NEW t \in Tasks, UpdatePost(t)
  PROVE  IInv'
<1> DEFINE at == IF tx[t].root = None THEN "commit" ELSE "last"
           seen == IF tx[t].op \in {"like", "unlike"} THEN like_count ELSE comment_count
           state == [tx[t] EXCEPT !.at = at, !.held = @ \cup {Post}, !.seen = seen]
<1>1. /\ tx[t] \in TxState /\ Consistent(tx[t])
      /\ tx[t].at = "post" \/ (tx[t].op = "delete" /\ tx[t].todo = {})
      /\ NotWritten(t, Post)
      /\ Become(t, state) /\ UNCHANGED <<likes, threads, pinned>>
  BY Facts DEF UpdatePost, AtPost, RowsDone
<1>2. /\ state \in TxState
      /\ state.op = tx[t].op /\ state.at = at /\ state.subject = tx[t].subject
      /\ state.root = tx[t].root /\ state.shared = tx[t].shared /\ state.todo = tx[t].todo
      /\ state.held = tx[t].held \cup {Post} /\ state.seen = seen
  BY <1>1 DEF TxState, Rows, IInv, TypeOK
<1> HIDE DEF state
<1>3. Doomed(state) = Doomed(tx[t])
  BY <1>2 DEF Doomed
<1>4. ReactionConsistent(state)
  BY <1>1, <1>2 DEF Consistent, ReactionConsistent
<1>5. CommentConsistent(state)
  BY <1>1, <1>2 DEF Consistent, CommentConsistent
<1>6. DeleteConsistent(state)
  BY <1>1, <1>2, <1>3 DEF Consistent, DeleteConsistent
<1>7. Consistent(state)
  BY <1>1, <1>2, <1>4, <1>5, <1>6 DEF Consistent
<1>8. ASSUME NEW t2 \in Tasks \ {t} PROVE Exclusive(state, tx[t2]) /\ Exclusive(tx[t2], state)
  BY <1>1, <1>2, <1>3, Facts DEF Exclusive, NotWritten
<1>9. QED BY <1>1, <1>2, <1>7, <1>8, OnlyTx

\* The parent of a comment, which a delete does not remove, or the comment to pin.
LEMMA UpdateLastKeeps ==
  ASSUME IInv, NEW t \in Tasks, UpdateLast(t)
  PROVE  IInv'
<1> DEFINE row == LastRow(t)
           state == [tx[t] EXCEPT !.at = "commit", !.held = @ \cup ({row} \cap comments)]
<1>1. /\ tx[t] \in TxState /\ Consistent(tx[t])
      /\ tx[t].at = "last" \/ (tx[t].op = "pin" /\ tx[t].at = "rows" /\ tx[t].todo = {})
      /\ NotWritten(t, row) /\ comments \subseteq Comments
      /\ Become(t, state) /\ UNCHANGED <<likes, threads, pinned>>
      /\ tx[t].op # "pin" => row = tx[t].root
  BY Facts DEF UpdateLast, AtLast, RowsDone, LastRow, IInv, TypeOK
<1> HIDE DEF row
<1>2. /\ state \in TxState
      /\ state.op = tx[t].op /\ state.at = "commit" /\ state.subject = tx[t].subject
      /\ state.root = tx[t].root /\ state.shared = tx[t].shared /\ state.todo = tx[t].todo
      /\ state.held = tx[t].held \cup ({row} \cap comments) /\ state.seen = tx[t].seen
  BY <1>1 DEF TxState, Rows
<1> HIDE DEF state
<1>3. tx[t].op = "delete" => Doomed(state) = Doomed(tx[t])
  BY <1>1, <1>2 DEF Doomed
<1>4. ReactionConsistent(state) /\ CommentConsistent(state)
  BY <1>1, <1>2 DEF Consistent, ReactionConsistent, CommentConsistent
<1>5. DeleteConsistent(state)
  BY <1>1, <1>2, <1>3 DEF Consistent, DeleteConsistent
<1>6. Consistent(state)
  BY <1>1, <1>2, <1>4, <1>5 DEF Consistent
<1>7. ASSUME NEW t2 \in Tasks \ {t} PROVE Exclusive(state, tx[t2]) /\ Exclusive(tx[t2], state)
  BY <1>1, <1>2, <1>3, Facts DEF Exclusive, NotWritten
<1>8. QED BY <1>1, <1>2, <1>6, <1>7, OnlyTx

\* A rollback leaves nothing behind.
LEMMA RollbackKeeps ==
  ASSUME IInv, NEW t \in Tasks, Rollback(t)
  PROVE  IInv'
BY IdleFacts, IdleConsistent, Facts, OnlyTx DEF Rollback

----------------------------------------------------------------------------
(* Commits.                                                                *)

\* A transaction that has ended leaves the others as they are.
LEMMA Ended ==
  ASSUME IInv, NEW t \in Tasks, Become(t, Idle)
  PROVE  /\ tx' \in [Tasks -> TxState] /\ tx'[t] = Idle
         /\ \A t2 \in Tasks \ {t} : tx'[t2] = tx[t2]
         /\ \A t1, t2 \in Tasks : t1 # t2 => Exclusive(tx[t1], tx[t2])'
<1>1. /\ tx' \in [Tasks -> TxState] /\ tx'[t] = Idle
      /\ \A t2 \in Tasks \ {t} : tx'[t2] = tx[t2]
  BY IdleFacts DEF Become, IInv, TypeOK
<1>2. ASSUME NEW t1 \in Tasks, NEW t2 \in Tasks, t1 # t2 PROVE Exclusive(tx[t1], tx[t2])'
  <2>1. Exclusive(tx'[t1], tx'[t2])
    BY <1>1, <1>2, IdleConsistent, Facts
  <2>2. QED BY <2>1 DEF Exclusive, Doomed
<1>3. QED BY <1>1, <1>2

\* The ended transaction is consistent; the invariant needs it only of the others.
LEMMA CommitFrame ==
  ASSUME IInv, NEW t \in Tasks, Become(t, Idle),
         \A t2 \in Tasks \ {t} : Consistent(tx[t2])'
  PROVE  \A t2 \in Tasks : Consistent(tx[t2])'
<1>1. Consistent(tx[t])'
  <2>1. tx'[t] = Idle
    BY Ended
  <2>2. QED
    BY <2>1, IdleFacts DEF Consistent, ReactionConsistent, CommentConsistent, DeleteConsistent
<1>2. QED BY <1>1

\* One more reaction, one more like.
LEMMA CommitLikeKeeps ==
  ASSUME IInv, NEW t \in Tasks, CommitLike(t)
  PROVE  IInv'
<1> DEFINE u == tx[t].subject
<1>1. /\ tx[t] \in TxState /\ ReactionConsistent(tx[t])
      /\ tx[t].op = "like" /\ tx[t].at = "commit" /\ Become(t, Idle)
      /\ reactions' = reactions \cup {u} /\ like_count' = tx[t].seen + 1
      /\ UNCHANGED <<threads, pinned>>
  BY Facts DEF CommitLike, Finishes, Consistent
<1>2. /\ u \in Users \ reactions /\ {u, Post} \subseteq tx[t].held /\ tx[t].seen = like_count
  BY <1>1 DEF ReactionConsistent
<1>3. TypeOK'
  BY <1>1, <1>2, Ended DEF IInv, TypeOK, threads
<1>4. LikesExact'
  <2>1. IsFiniteSet(reactions)
    BY FS_Subset DEF IInv, TypeOK
  <2>2. Cardinality(reactions \cup {u}) = Cardinality(reactions) + 1
    BY <1>2, <2>1, FS_AddElement
  <2>3. QED BY <1>1, <1>2, <2>2 DEF IInv, LikesExact
<1>5. TwoTiers'
  BY <1>1 DEF IInv, TwoTiers, threads
<1>6. ASSUME NEW t2 \in Tasks \ {t} PROVE Consistent(tx[t2])'
  <2>1. /\ tx'[t2] = tx[t2] /\ Consistent(tx[t2]) /\ u \notin tx[t2].held /\ Post \notin tx[t2].held
    BY <1>1, <1>2, Ended, Facts DEF Exclusive
  <2>2. ReactionConsistent(tx[t2])'
    BY <1>1, <2>1 DEF Consistent, ReactionConsistent
  <2>3. QED
    BY <1>1, <2>1, <2>2 DEF Consistent, CommentConsistent, DeleteConsistent, Known, Replies,
       Doomed, threads
<1>7. QED BY <1>1, <1>3, <1>4, <1>5, <1>6, Ended, CommitFrame DEF IInv

\* One reaction less, one like less.
LEMMA CommitUnlikeKeeps ==
  ASSUME IInv, NEW t \in Tasks, CommitUnlike(t)
  PROVE  IInv'
<1> DEFINE u == tx[t].subject
<1>1. /\ tx[t] \in TxState /\ ReactionConsistent(tx[t])
      /\ tx[t].op = "unlike" /\ tx[t].at = "commit" /\ Become(t, Idle)
      /\ reactions' = reactions \ {u} /\ like_count' = NotNegative(tx[t].seen - 1)
      /\ UNCHANGED <<threads, pinned>>
  BY Facts DEF CommitUnlike, Finishes, Consistent
<1>2. /\ u \in reactions /\ {u, Post} \subseteq tx[t].held /\ tx[t].seen = like_count
  BY <1>1 DEF ReactionConsistent
<1>3. TypeOK'
  BY <1>1, <1>2, Ended DEF IInv, TypeOK, threads, NotNegative
<1>4. LikesExact'
  <2>1. IsFiniteSet(reactions)
    BY FS_Subset DEF IInv, TypeOK
  <2>2. Cardinality(reactions \ {u}) = Cardinality(reactions) - 1
    BY <1>2, <2>1, FS_RemoveElement
  <2>3. Cardinality(reactions \ {u}) \in Nat /\ Cardinality(reactions) \in Nat
    <3>1. IsFiniteSet(reactions \ {u})
      BY <2>1, FS_Subset
    <3>2. QED BY <2>1, <3>1, FS_CardinalityType
  <2>4. QED BY <1>1, <1>2, <2>2, <2>3 DEF IInv, LikesExact, NotNegative
<1>5. TwoTiers'
  BY <1>1 DEF IInv, TwoTiers, threads
<1>6. ASSUME NEW t2 \in Tasks \ {t} PROVE Consistent(tx[t2])'
  <2>1. /\ tx'[t2] = tx[t2] /\ Consistent(tx[t2]) /\ u \notin tx[t2].held /\ Post \notin tx[t2].held
    BY <1>1, <1>2, Ended, Facts DEF Exclusive
  <2>2. ReactionConsistent(tx[t2])'
    BY <1>1, <2>1 DEF Consistent, ReactionConsistent
  <2>3. QED
    BY <1>1, <2>1, <2>2 DEF Consistent, CommentConsistent, DeleteConsistent, Known, Replies,
       Doomed, threads
<1>7. QED BY <1>1, <1>3, <1>4, <1>5, <1>6, Ended, CommitFrame DEF IInv

\* A comment appears under a root that nobody is deleting.
LEMMA CommitCommentKeeps ==
  ASSUME IInv, NEW t \in Tasks, CommitComment(t)
  PROVE  IInv'
<1> DEFINE c == tx[t].subject
           root == tx[t].root
<1>1. /\ tx[t] \in TxState /\ Consistent(tx[t]) /\ CommentConsistent(tx[t])
      /\ tx[t].op = "comment" /\ tx[t].at = "commit" /\ Become(t, Idle)
      /\ comments' = comments \cup {c} /\ parent' = [parent EXCEPT ![c] = root]
      /\ comment_count' = tx[t].seen + 1 /\ UNCHANGED <<likes, pinned, gone>>
      /\ reply_count' = [d \in Comments |-> reply_count[d] + IF d = root THEN 1 ELSE 0]
  BY Facts DEF CommitComment, Finishes, Consistent
<1>2. /\ c \in Comments \ Known /\ root \in Comments \cup {None}
      /\ root # None => root \in tx[t].shared \cap comments /\ parent[root] = None
  BY <1>1 DEF Consistent, CommentConsistent, TxState
<1>3. /\ parent \in [Comments -> Comments \cup {None}] /\ comments \subseteq Comments
      /\ gone \subseteq Comments
  BY DEF IInv, TypeOK
<1>4. parent'[c] = root /\ (\A d \in Known : parent'[d] = parent[d] /\ d # c)
      /\ Known' = Known \cup {c}
  BY <1>1, <1>2, <1>3 DEF Known
<1>5. TypeOK'
  <2>1. parent' \in [Comments -> Comments \cup {None}]
    BY <1>1, <1>2, <1>3
  <2>2. reply_count' \in [Comments -> Nat]
    BY <1>1 DEF IInv, TypeOK
  <2>3. comment_count' \in Nat
    BY <1>1 DEF TxState
  <2>4. QED BY <1>1, <1>2, <2>1, <2>2, <2>3, Ended DEF IInv, TypeOK, likes, Known
<1>6. TwoTiers'
  BY <1>1, <1>2, <1>4 DEF IInv, TwoTiers, Known
<1>7. LikesExact'
  BY <1>1 DEF IInv, LikesExact, likes
<1>8. ASSUME NEW t2 \in Tasks \ {t} PROVE Consistent(tx[t2])'
  <2>1. /\ tx'[t2] = tx[t2] /\ Consistent(tx[t2]) /\ tx[t2] \in TxState
        /\ Exclusive(tx[t], tx[t2]) /\ Exclusive(tx[t2], tx[t])
    BY <1>1, Ended, Facts
  <2>2. ReactionConsistent(tx[t2])'
    BY <1>1, <2>1 DEF Consistent, ReactionConsistent, likes
  <2>3. CommentConsistent(tx[t2])'
    BY <1>1, <1>4, <2>1 DEF Consistent, CommentConsistent, Exclusive
  <2>4. DeleteConsistent(tx[t2])'
    <3> SUFFICES ASSUME tx[t2].op = "delete" PROVE DeleteConsistent(tx[t2])'
      BY <2>1 DEF DeleteConsistent
    <3>1. DeleteConsistent(tx[t2]) /\ tx[t2].subject \in Known
      BY <2>1 DEF Consistent, DeleteConsistent
    <3>2. Doomed(tx[t2])' = Doomed(tx[t2])
      BY <2>1 DEF Doomed
    <3>3. tx[t2].subject \in Doomed(tx[t2]) => Replies(tx[t2].subject)' = Replies(tx[t2].subject)
      <4>1. tx[t2].subject \in Doomed(tx[t2]) => root # tx[t2].subject
        BY <1>2, <1>3, <2>1, <3>1 DEF Exclusive, Known
      <4>2. QED BY <1>1, <1>4, <2>1, <4>1 DEF Replies, Known
    <3>4. {d \in Known : parent[d] = tx[t2].subject} \subseteq {d \in Known : parent[d] = tx[t2].subject}'
      BY <1>4, <2>1
    <3>5. QED BY <1>4, <2>1, <3>1, <3>2, <3>3, <3>4 DEF DeleteConsistent
  <2>5. QED BY <1>1, <1>4, <2>1, <2>2, <2>3, <2>4 DEF Consistent
<1>9. QED BY <1>1, <1>5, <1>6, <1>7, <1>8, Ended, CommitFrame DEF IInv

\* A delete takes a comment with all its replies, or nothing.
LEMMA CommitDeleteKeeps ==
  ASSUME IInv, NEW t \in Tasks, CommitDelete(t)
  PROVE  IInv'
<1> DEFINE c == tx[t].subject
           rows == Doomed(tx[t])
<1>1. /\ tx[t] \in TxState /\ Consistent(tx[t]) /\ DeleteConsistent(tx[t])
      /\ tx[t].op = "delete" /\ tx[t].at = "commit" /\ Become(t, Idle)
      /\ comments' = comments \ rows /\ gone' = gone \cup rows /\ pinned' = pinned \ rows
      /\ comment_count' = NotNegative(tx[t].seen - tx[t].count)
      /\ reply_count' = [d \in Comments |-> NotNegative(reply_count[d] - IF d = tx[t].root THEN 1 ELSE 0)]
      /\ UNCHANGED <<likes, parent>>
  BY Facts DEF CommitDelete, Finishes, Consistent
<1>2. /\ rows \subseteq tx[t].held /\ rows \subseteq comments
      /\ rows \subseteq {c} \cup {d \in Known : parent[d] = c}
      /\ c \in Comments
      /\ rows = {} \/ (c \in rows /\ Replies(c) \subseteq rows)
  <2>1. c \in Known
    BY <1>1 DEF DeleteConsistent
  <2>2. rows \subseteq tx[t].held /\ rows \subseteq comments
    BY <1>1 DEF Doomed, Consistent
  <2>3. tx[t].todo = {}
    BY <1>1 DEF DeleteConsistent
  <2>4. QED BY <1>1, <2>1, <2>2, <2>3 DEF DeleteConsistent, Known, IInv, TypeOK
<1> HIDE DEF rows
<1>3. Known' = Known
  BY <1>1, <1>2 DEF Known
<1>4. TypeOK'
  <2>1. reply_count' \in [Comments -> Nat]
    BY <1>1 DEF IInv, TypeOK, NotNegative
  <2>2. comment_count' \in Nat
    BY <1>1 DEF TxState, NotNegative
  <2>3. QED BY <1>1, <1>2, <2>1, <2>2, Ended DEF IInv, TypeOK, likes
<1>5. TwoTiers'
  <2> SUFFICES ASSUME NEW d \in comments \ rows, parent[d] # None
               PROVE  parent[d] \in comments \ rows /\ parent[parent[d]] = None
    BY <1>1 DEF TwoTiers
  <2>1. parent[d] \in comments /\ parent[parent[d]] = None
    BY DEF IInv, TwoTiers
  <2>2. ASSUME parent[d] \in rows PROVE FALSE
    <3>1. parent[d] = c
      BY <1>2, <2>1, <2>2
    <3>2. d \in Replies(c)
      BY <3>1 DEF Replies
    <3>3. QED BY <1>2, <2>2, <3>2
  <2>3. QED BY <2>1, <2>2
<1>6. LikesExact'
  BY <1>1 DEF IInv, LikesExact, likes
<1>7. ASSUME NEW t2 \in Tasks \ {t} PROVE Consistent(tx[t2])'
  <2>1. /\ tx'[t2] = tx[t2] /\ Consistent(tx[t2])
        /\ tx[t2].held \cap rows = {} /\ tx[t2].shared \cap rows = {}
    BY <1>1, <1>2, Ended, Facts DEF Exclusive, rows
  <2>2. ReactionConsistent(tx[t2])'
    BY <1>1, <2>1 DEF Consistent, ReactionConsistent, likes
  <2>3. CommentConsistent(tx[t2])'
    BY <1>1, <1>3, <2>1 DEF Consistent, CommentConsistent
  <2>4. DeleteConsistent(tx[t2])'
    <3>1. Doomed(tx[t2])' = Doomed(tx[t2])
      BY <2>1 DEF Doomed
    <3>2. Replies(tx[t2].subject)' \subseteq Replies(tx[t2].subject)
      BY <1>1, <2>1 DEF Replies
    <3>3. DeleteConsistent(tx[t2])
      BY <2>1 DEF Consistent
    <3>4. QED BY <1>1, <1>3, <2>1, <3>1, <3>2, <3>3 DEF DeleteConsistent
  <2>5. QED BY <1>1, <1>3, <2>1, <2>2, <2>3, <2>4 DEF Consistent
<1>8. QED BY <1>1, <1>4, <1>5, <1>6, <1>7, Ended, CommitFrame DEF IInv

\* Pins and unpins leave threads and reactions alone.
LEMMA PinsKeep ==
  ASSUME IInv, UNCHANGED <<likes, threads>>, pinned' \subseteq comments,
         \/ tx' = tx
         \/ \E t \in Tasks : Become(t, Idle)
  PROVE  IInv'
<1>1. CASE tx' = tx
  BY <1>1 DEF IInv, TypeOK, LikesExact, TwoTiers, Consistent, ReactionConsistent,
     CommentConsistent, DeleteConsistent, Exclusive, Known, Replies, Doomed, likes, threads
<1>2. ASSUME NEW t \in Tasks, Become(t, Idle) PROVE IInv'
  <2>1. TypeOK' /\ LikesExact' /\ TwoTiers'
    BY <1>2, Ended DEF IInv, TypeOK, LikesExact, TwoTiers, likes, threads
  <2>2. ASSUME NEW t2 \in Tasks \ {t} PROVE Consistent(tx[t2])'
    <3>1. tx'[t2] = tx[t2] /\ Consistent(tx[t2])
      BY <1>2, Ended, Facts
    <3>2. QED
      BY <3>1 DEF Consistent, ReactionConsistent, CommentConsistent, DeleteConsistent, Known,
         Replies, Doomed, likes, threads
  <2>3. QED BY <1>2, <2>1, <2>2, Ended, CommitFrame DEF IInv
<1>3. QED BY <1>1, <1>2

\* The pin and the comments it takes the pin from are comments that exist.
LEMMA CommitPinKeeps ==
  ASSUME IInv, NEW t \in Tasks, CommitPin(t)
  PROVE  IInv'
<1>1. /\ Become(t, Idle) /\ tx[t].op = "pin" /\ Consistent(tx[t])
      /\ pinned' = (pinned \ tx[t].held) \cup ({tx[t].subject} \cap tx[t].held)
      /\ UNCHANGED <<likes, threads>>
  BY Facts DEF CommitPin, Finishes
<1>2. tx[t].subject \in tx[t].held => tx[t].subject \in comments
  BY <1>1 DEF Consistent
<1>3. pinned' \subseteq comments
  BY <1>1, <1>2 DEF IInv, TypeOK
<1>4. QED BY <1>1, <1>3, PinsKeep

----------------------------------------------------------------------------
(* The replies that are counted.                                           *)

\* RepliesExist of every comment that is not deleted, those to come included: they
\* have no reply and none is counted.
RepliesCounted == \A c \in Comments \ gone : reply_count[c] <= Cardinality(Replies(c))

\* Replies are comments, a finite number of them.
LEMMA SomeReplies ==
  ASSUME IInv, NEW c \in Comments
  PROVE  IsFiniteSet(Replies(c)) /\ Cardinality(Replies(c)) \in Nat
<1>1. Replies(c) \subseteq Comments
  BY DEF Replies, IInv, TypeOK
<1>2. QED BY <1>1, FS_Subset, FS_CardinalityType

\* A comment that commits is one more reply to its root, and none to another.
LEMMA CommentCounted ==
  ASSUME IInv, RepliesCounted, NEW t \in Tasks, CommitComment(t)
  PROVE  RepliesCounted'
<1> DEFINE c == tx[t].subject
           root == tx[t].root
<1>1. /\ tx[t] \in TxState /\ CommentConsistent(tx[t]) /\ tx[t].op = "comment"
      /\ comments' = comments \cup {c} /\ parent' = [parent EXCEPT ![c] = root] /\ gone' = gone
      /\ reply_count' = [d \in Comments |-> reply_count[d] + IF d = root THEN 1 ELSE 0]
  BY Facts DEF CommitComment, Finishes, Consistent
<1>2. /\ c \in Comments \ comments /\ comments \subseteq Comments
      /\ parent \in [Comments -> Comments \cup {None}] /\ reply_count \in [Comments -> Nat]
  BY <1>1 DEF CommentConsistent, Known, IInv, TypeOK
<1> HIDE DEF c, root
<1>3. ASSUME NEW d \in Comments \ gone PROVE reply_count'[d] <= Cardinality(Replies(d)')
  <2>1. Replies(d)' = IF d = root THEN Replies(d) \cup {c} ELSE Replies(d)
    BY <1>1, <1>2 DEF Replies
  <2>2. /\ IsFiniteSet(Replies(d)) /\ Cardinality(Replies(d)) \in Nat
        /\ reply_count[d] <= Cardinality(Replies(d)) /\ reply_count[d] \in Nat
    BY <1>2, SomeReplies DEF RepliesCounted
  <2>3. c \notin Replies(d)
    BY <1>2 DEF Replies
  <2>4. Cardinality(Replies(d) \cup {c}) = Cardinality(Replies(d)) + 1
    BY <2>2, <2>3, FS_AddElement
  <2>5. reply_count'[d] = reply_count[d] + IF d = root THEN 1 ELSE 0
    BY <1>1
  <2>6. CASE d = root
    BY <2>1, <2>2, <2>4, <2>5, <2>6
  <2>7. CASE d # root
    BY <2>1, <2>2, <2>5, <2>7
  <2>8. QED BY <2>6, <2>7
<1>4. QED BY <1>1, <1>3 DEF RepliesCounted

\* A deleted comment was one reply to its root, and its replies were replies to a
\* comment that is deleted.
LEMMA DeleteCounted ==
  ASSUME IInv, RepliesCounted, NEW t \in Tasks, CommitDelete(t)
  PROVE  RepliesCounted'
<1> DEFINE c == tx[t].subject
           root == tx[t].root
           rows == Doomed(tx[t])
<1>1. /\ tx[t] \in TxState /\ DeleteConsistent(tx[t]) /\ tx[t].op = "delete" /\ tx[t].at = "commit"
      /\ comments' = comments \ rows /\ parent' = parent /\ gone' = gone \cup rows
      /\ reply_count' = [d \in Comments |-> NotNegative(reply_count[d] - IF d = root THEN 1 ELSE 0)]
  BY Facts DEF CommitDelete, Finishes, Consistent
<1>2. /\ comments \subseteq Comments /\ reply_count \in [Comments -> Nat]
      /\ root = parent[c] /\ rows \subseteq {c} \cup {d \in Known : parent[d] = c}
      /\ rows = {} \/ c \in rows
  BY <1>1 DEF DeleteConsistent, IInv, TypeOK
<1> HIDE DEF c, root, rows
<1>3. ASSUME NEW d \in Comments \ (gone \cup rows)
      PROVE  reply_count'[d] <= Cardinality(Replies(d)')
  <2>1. /\ IsFiniteSet(Replies(d)) /\ Cardinality(Replies(d)) \in Nat
        /\ reply_count[d] <= Cardinality(Replies(d)) /\ reply_count[d] \in Nat
    BY <1>2, SomeReplies DEF RepliesCounted
  <2>2. reply_count'[d] = NotNegative(reply_count[d] - IF d = root THEN 1 ELSE 0)
    BY <1>1
  <2>3. Replies(d)' = Replies(d) \ rows
    BY <1>1 DEF Replies
  <2>4. \A r \in Replies(d) \cap rows : r = c /\ d = root
    BY <1>2, <1>3 DEF Replies
  <2>5. CASE d = root /\ c \in Replies(d) \cap rows
    <3>1. Replies(d)' = Replies(d) \ {c}
      BY <2>3, <2>4, <2>5
    <3>2. Cardinality(Replies(d) \ {c}) = Cardinality(Replies(d)) - 1
      BY <2>1, <2>5, FS_RemoveElement
    <3>3. Cardinality(Replies(d)) # 0
      BY <2>1, <2>5, FS_EmptySet
    <3>4. QED BY <2>1, <2>2, <2>5, <3>1, <3>2, <3>3 DEF NotNegative
  <2>6. CASE ~(d = root /\ c \in Replies(d) \cap rows)
    <3>1. Replies(d)' = Replies(d)
      BY <2>3, <2>4, <2>6
    <3>2. QED BY <2>1, <2>2, <3>1 DEF NotNegative
  <2>7. QED BY <2>5, <2>6
<1>4. QED BY <1>1, <1>3 DEF RepliesCounted

\* Comments and deletes change threads when they commit; no other step does.
LEMMA ThreadSteps ==
  ASSUME [Next]_vars
  PROVE  UNCHANGED threads \/ \E t \in Tasks : CommitComment(t) \/ CommitDelete(t)
<1>1. ASSUME NEW t \in Tasks, Request(t) PROVE UNCHANGED threads
  BY <1>1 DEF Request, Like, Unlike, Comment, Delete, Pin, Begin
<1>2. ASSUME NEW t \in Tasks, Statement(t)
      PROVE  UNCHANGED threads \/ CommitComment(t) \/ CommitDelete(t)
  BY <1>2 DEF Statement, InsertReaction, DeleteReaction, InsertComment, CountThread, LockComment,
     UpdatePost, UpdateLast, CommitLike, CommitUnlike, CommitPin
<1>3. ASSUME NEW t \in Tasks, Rollback(t) PROVE UNCHANGED threads
  BY <1>3 DEF Rollback
<1>4. QED BY <1>1, <1>2, <1>3 DEF Next, Unpin, vars

\* So does every step.
LEMMA StepCounted ==
  ASSUME IInv, RepliesCounted, [Next]_vars
  PROVE  RepliesCounted'
<1>1. ASSUME UNCHANGED threads PROVE RepliesCounted'
  BY <1>1 DEF RepliesCounted, Replies, threads
<1>2. QED BY <1>1, ThreadSteps, CommentCounted, DeleteCounted

----------------------------------------------------------------------------
(* The order of the locks.                                                 *)

\* A reaction holds the user's row, then the post's; a comment the post's, then its
\* root's; a pin nothing but comments.
RowsOrdered(s) ==
  /\ s.op = "idle" => s = Idle
  /\ s.at # "rows" => s.todo = {}
  /\ s.op \in {"like", "unlike"} =>
       /\ s.at \in {"first", "post", "commit"}
       /\ s.held \cap Comments = {}
       /\ s.at = "first" => s.held = {}
       /\ s.at = "post" => Post \notin s.held
  /\ s.op = "comment" =>
       /\ s.at \in {"first", "post", "last", "commit"}
       /\ s.at \in {"first", "post"} => s.held = {}
       /\ s.at = "last" => s.held = {Post}
  /\ s.op = "pin" => s.at \in {"rows", "commit"} /\ s.held \subseteq Comments

RowsInOrder == \A t \in Tasks : RowsOrdered(tx[t])

\* No transaction.
LEMMA IdleOrdered == RowsOrdered(Idle)
BY DEF RowsOrdered, Idle

\* A step keeps the order if what it makes of its own transaction does.
LEMMA OneOrdered ==
  ASSUME IInv, RowsInOrder, NEW t \in Tasks, NEW state, Become(t, state), RowsOrdered(state)
  PROVE  RowsInOrder'
BY DEF Become, RowsInOrder, IInv, TypeOK

\* A transaction that begins holds nothing.
LEMMA BeginOrdered ==
  ASSUME IInv, RowsInOrder, NEW t \in Tasks,
         NEW op \in {"like", "unlike", "comment", "delete", "pin"},
         NEW at \in {"first", "rows"}, NEW subject, NEW root, NEW todo,
         Begin(t, op, at, subject, root, todo),
         op = "pin" => at = "rows",
         op # "pin" => at = "first" /\ todo = {}
  PROVE  RowsInOrder'
<1> DEFINE state == [Idle EXCEPT !.op = op, !.at = at, !.subject = subject, !.root = root, !.todo = todo]
<1>1. /\ state.op = op /\ state.at = at /\ state.todo = todo /\ state.held = {}
      /\ Become(t, state)
  BY DEF Idle, Begin
<1> HIDE DEF state
<1>2. RowsOrdered(state)
  BY <1>1 DEF RowsOrdered
<1>3. QED BY <1>1, <1>2, OneOrdered

\* Every statement locks what is next in the order.
LEMMA StatementOrdered ==
  ASSUME IInv, RowsInOrder, NEW t \in Tasks, Statement(t) \/ Rollback(t)
  PROVE  RowsInOrder'
<1>1. tx[t] \in TxState /\ RowsOrdered(tx[t]) /\ Consistent(tx[t])
  BY Facts DEF RowsInOrder
<1>2. ASSUME Become(t, Idle) PROVE RowsInOrder'
  BY <1>2, IdleOrdered, OneOrdered
<1>3. ASSUME InsertReaction(t) \/ DeleteReaction(t) PROVE RowsInOrder'
  <2> DEFINE state == [tx[t] EXCEPT !.at = "post", !.held = {tx[t].subject}]
  <2>1. /\ state.op = tx[t].op /\ state.at = "post" /\ state.held = {tx[t].subject}
        /\ state.todo = tx[t].todo /\ tx[t].op \in {"like", "unlike"} /\ tx[t].at = "first"
        /\ Become(t, state) \/ Become(t, Idle)
    BY <1>1, <1>3 DEF TxState, InsertReaction, DeleteReaction
  <2> HIDE DEF state
  <2>2. tx[t].subject \in Users
    BY <1>1, <2>1 DEF Consistent, ReactionConsistent
  <2>3. RowsOrdered(state)
    BY <1>1, <2>1, <2>2 DEF RowsOrdered
  <2>4. QED BY <1>2, <2>1, <2>3, OneOrdered
<1>4. ASSUME InsertComment(t) PROVE RowsInOrder'
  <2> DEFINE state == [tx[t] EXCEPT !.at = "post", !.shared = {tx[t].root} \ {None}]
  <2>1. /\ state.op = "comment" /\ state.at = "post" /\ state.held = tx[t].held
        /\ state.todo = tx[t].todo /\ tx[t].op = "comment" /\ tx[t].at = "first"
        /\ Become(t, state)
    BY <1>1, <1>4 DEF TxState, InsertComment
  <2> HIDE DEF state
  <2>2. RowsOrdered(state)
    BY <1>1, <2>1 DEF RowsOrdered
  <2>3. QED BY <2>1, <2>2, OneOrdered
<1>5. ASSUME CountThread(t) PROVE RowsInOrder'
  <2>1. PICK n : Become(t, [tx[t] EXCEPT !.at = "rows", !.count = n, !.todo = {tx[t].subject}])
    BY <1>5 DEF CountThread
  <2> DEFINE state == [tx[t] EXCEPT !.at = "rows", !.count = n, !.todo = {tx[t].subject}]
  <2>2. state.op = "delete" /\ state.at = "rows"
    BY <1>1, <1>5 DEF TxState, CountThread
  <2> HIDE DEF state
  <2>3. RowsOrdered(state)
    BY <2>2 DEF RowsOrdered
  <2>4. QED BY <2>1, <2>3, OneOrdered DEF state
<1>6. ASSUME NEW c \in Comments, LockComment(t, c) PROVE RowsInOrder'
  <2> DEFINE todo == (tx[t].todo \ {c})
                       \cup IF tx[t].op = "delete" /\ c \in comments THEN Replies(c) ELSE {}
             held == tx[t].held \cup ({c} \cap comments)
             state == [tx[t] EXCEPT !.todo = todo, !.held = held]
  <2>1. /\ state.op = tx[t].op /\ state.at = "rows" /\ state.held = held /\ tx[t].at = "rows"
        /\ Become(t, state)
    BY <1>1, <1>6 DEF TxState, LockComment
  <2>2. tx[t].op \in {"delete", "pin"}
    BY <1>1, <2>1 DEF RowsOrdered, TxState, Idle
  <2> HIDE DEF state, todo
  <2>3. RowsOrdered(state)
    BY <1>1, <2>1, <2>2 DEF RowsOrdered
  <2>4. QED BY <2>1, <2>3, OneOrdered
<1>7. ASSUME UpdatePost(t) PROVE RowsInOrder'
  <2> DEFINE seen == IF tx[t].op \in {"like", "unlike"} THEN like_count ELSE comment_count
             at == IF tx[t].root = None THEN "commit" ELSE "last"
             state == [tx[t] EXCEPT !.at = at, !.held = tx[t].held \cup {Post}, !.seen = seen]
  <2>1. /\ state.op = tx[t].op /\ state.at = at /\ state.held = tx[t].held \cup {Post}
        /\ state.todo = tx[t].todo /\ AtPost(t) /\ Become(t, state)
    BY <1>1, <1>7 DEF TxState, UpdatePost
  <2> HIDE DEF state, seen
  <2>2. /\ tx[t].todo = {} /\ tx[t].op \in {"like", "unlike", "comment", "delete"}
        /\ tx[t].op \in {"like", "unlike"} => at = "commit"
        /\ tx[t].op = "comment" => tx[t].held = {}
    BY <1>1, <2>1 DEF RowsOrdered, TxState, Idle, AtPost, RowsDone, Consistent, ReactionConsistent
  <2>3. RowsOrdered(state)
    BY <1>1, <2>1, <2>2 DEF RowsOrdered
  <2>4. QED BY <2>1, <2>3, OneOrdered
<1>8. ASSUME UpdateLast(t) PROVE RowsInOrder'
  <2> DEFINE held == tx[t].held \cup ({LastRow(t)} \cap comments)
             state == [tx[t] EXCEPT !.at = "commit", !.held = held]
  <2>1. /\ state.op = tx[t].op /\ state.at = "commit" /\ state.held = held
        /\ state.todo = tx[t].todo /\ AtLast(t) /\ Become(t, state)
    BY <1>1, <1>8 DEF TxState, UpdateLast
  <2> HIDE DEF state
  <2>2. tx[t].todo = {} /\ tx[t].op \in {"comment", "delete", "pin"}
    BY <1>1, <2>1 DEF RowsOrdered, TxState, Idle, AtLast, RowsDone
  <2>3. comments \subseteq Comments
    BY DEF IInv, TypeOK
  <2>4. RowsOrdered(state)
    BY <1>1, <2>1, <2>2, <2>3 DEF RowsOrdered
  <2>5. QED BY <2>1, <2>4, OneOrdered
<1>9. QED
  BY <1>2, <1>3, <1>4, <1>5, <1>6, <1>7, <1>8 DEF Statement, Rollback, CommitLike, CommitUnlike,
     CommitComment, CommitDelete, CommitPin, Finishes

\* Every step keeps the order.
LEMMA StepOrdered ==
  ASSUME IInv, RowsInOrder, [Next]_vars
  PROVE  RowsInOrder'
<1>1. ASSUME NEW t \in Tasks, Request(t) PROVE RowsInOrder'
  <2>1. ASSUME NEW u \in Users, Like(t, u) \/ Unlike(t, u) PROVE RowsInOrder'
    BY <2>1, BeginOrdered DEF Like, Unlike
  <2>2. ASSUME NEW c \in Comments, Delete(t, c) \/ Pin(t, c) PROVE RowsInOrder'
    BY <2>2, BeginOrdered DEF Delete, Pin
  <2>3. ASSUME NEW c \in Comments, NEW p \in Comments \cup {None}, Comment(t, c, p)
        PROVE  RowsInOrder'
    BY <2>3, BeginOrdered DEF Comment
  <2>4. QED BY <1>1, <2>1, <2>2, <2>3 DEF Request
<1>2. ASSUME NEW t \in Tasks, Statement(t) \/ Rollback(t) PROVE RowsInOrder'
  BY <1>2, StatementOrdered
<1>3. CASE tx' = tx
  BY <1>3 DEF RowsInOrder
<1>4. QED BY <1>1, <1>2, <1>3 DEF Next, Unpin, vars

\* Without deletes, the transaction that is furthest in the order goes on: one that
\* commits, else the one pin, else a comment at its root, else any at the post, else any.
LEMMA FurthestGoesOn ==
  ASSUME IInv, RowsInOrder
  PROVE  OnlyDeletesBlock
<1> SUFFICES ASSUME NEW t0 \in Tasks, tx[t0] # Idle,
                    \A t \in Tasks : tx[t].op # "delete",
                    \A t1, t2 \in Tasks : tx[t1].op = "pin" /\ tx[t2].op = "pin" => t1 = t2
             PROVE  \E t \in Tasks : tx[t] # Idle /\ CanGoOn(t)
  BY DEF OnlyDeletesBlock
<1>1. \A t \in Tasks : /\ tx[t] \in TxState /\ Consistent(tx[t]) /\ RowsOrdered(tx[t])
                       /\ tx[t].op # "delete"
  BY Facts DEF RowsInOrder
<1>2. \A t \in Tasks : NotDeleted(t, tx[t].root)
  BY <1>1 DEF NotDeleted
<1>3. CASE \E t \in Tasks : tx[t].at = "commit"
  <2>1. PICK t \in Tasks : tx[t].at = "commit"
    BY <1>3
  <2>2. tx[t].todo = {} /\ tx[t] # Idle
    BY <1>1, <2>1, IdleFacts DEF RowsOrdered
  <2>3. QED BY <2>1, <2>2 DEF CanGoOn, AtPost, AtLast, RowsDone
<1>4. CASE \A t \in Tasks : tx[t].at # "commit"
  <2>1. \A t \in Tasks : tx[t].op # "pin" => tx[t].held \cap Comments = {}
    BY <1>1, <1>4, IdleFacts DEF RowsOrdered, TxState
  <2>2. CASE \E t \in Tasks : tx[t].op = "pin"
    <3>1. PICK t \in Tasks : tx[t].op = "pin"
      BY <2>2
    <3>2. tx[t] # Idle /\ tx[t].at = "rows" /\ tx[t].todo \subseteq Comments /\ LastRow(t) \in Comments
      BY <1>1, <1>4, <3>1, IdleFacts DEF RowsOrdered, TxState, LastRow, Consistent
    <3>3. \A t2 \in Tasks \ {t} : tx[t2].held \cap Comments = {}
      BY <2>1, <3>1
    <3>4. QED BY <3>1, <3>2, <3>3 DEF CanGoOn, AtPost, RowsDone, NotWritten
  <2>3. CASE \A t \in Tasks : tx[t].op # "pin"
    <3>1. \A t \in Tasks : tx[t].op \in {"idle", "like", "unlike", "comment"} /\ tx[t].todo = {}
      BY <1>1, <2>3, IdleFacts DEF RowsOrdered, TxState
    <3>2. CASE \E t \in Tasks : tx[t].at = "last"
      <4>1. PICK t \in Tasks : tx[t].at = "last"
        BY <3>2
      <4>2. /\ tx[t] # Idle /\ tx[t].op = "comment" /\ LastRow(t) = tx[t].root
        BY <1>1, <3>1, <4>1, IdleFacts DEF RowsOrdered, LastRow
      <4>3. \A t2 \in Tasks : tx[t2].held \subseteq Rows
        BY <1>1 DEF TxState
      <4>4. ASSUME NEW t2 \in Tasks PROVE tx[t].root \notin tx[t2].held
        <5>1. tx[t].root \in Comments \cup {None}
          BY <1>1 DEF TxState
        <5>2. tx[t2].held \cap Comments = {} /\ None \notin tx[t2].held
          BY <2>1, <2>3, <4>3 DEF Rows
        <5>3. QED BY <5>1, <5>2
      <4>5. QED BY <3>1, <4>1, <4>2, <4>4 DEF CanGoOn, AtPost, AtLast, RowsDone, NotWritten
    <3>3. CASE \A t \in Tasks : tx[t].at # "last"
      <4>1. ASSUME NEW t \in Tasks PROVE Post \notin tx[t].held
        BY <1>1, <1>4, <3>1, <3>3, IdleFacts DEF RowsOrdered
      <4>2. CASE \E t \in Tasks : tx[t].at = "post"
        <5>1. PICK t \in Tasks : tx[t].at = "post"
          BY <4>2
        <5>2. tx[t] # Idle
          BY <5>1, IdleFacts
        <5>3. QED BY <3>1, <4>1, <5>1, <5>2 DEF CanGoOn, AtLast, RowsDone, NotWritten
      <4>3. CASE \A t \in Tasks : tx[t].at # "post"
        <5>1. \A t \in Tasks : tx[t].held = {}
          BY <1>1, <1>4, <3>1, <3>3, <4>3, IdleFacts DEF RowsOrdered
        <5>2. tx[t0].at = "first"
          BY <1>1, <1>4, <3>1, <3>3, <4>3 DEF RowsOrdered
        <5>3. QED BY <1>2, <3>1, <5>1, <5>2 DEF CanGoOn, AtPost, AtLast, RowsDone, NotWritten
      <4>4. QED BY <4>2, <4>3
    <3>4. QED BY <3>2, <3>3
  <2>4. QED BY <2>2, <2>3
<1>5. QED BY <1>3, <1>4

----------------------------------------------------------------------------
(* The results.                                                            *)

\* The invariant holds in every reachable state.
THEOREM Invariant == Spec => []IInv
<1>1. Init => IInv
  <2> SUFFICES ASSUME Init PROVE IInv
    OBVIOUS
  <2>1. TypeOK /\ TwoTiers
    BY IdleFacts DEF Init, TypeOK, TwoTiers
  <2>2. LikesExact
    BY FS_EmptySet DEF Init, LikesExact
  <2>3. ASSUME NEW t \in Tasks PROVE Consistent(tx[t])
    BY IdleConsistent DEF Init
  <2>4. ASSUME NEW t1 \in Tasks, NEW t2 \in Tasks PROVE Exclusive(tx[t1], tx[t2])
    BY IdleFacts, IdleConsistent DEF Init
  <2>5. QED BY <2>1, <2>2, <2>3, <2>4 DEF IInv
<1>2. IInv /\ [Next]_vars => IInv'
  <2> SUFFICES ASSUME IInv, [Next]_vars PROVE IInv'
    OBVIOUS
  <2>1. ASSUME NEW t \in Tasks, Request(t) PROVE IInv'
    BY <2>1, RequestKeeps
  <2>2. ASSUME NEW t \in Tasks, Statement(t) PROVE IInv'
    BY <2>2, ReactionKeeps, InsertCommentKeeps, CountThreadKeeps, LockCommentKeeps,
       UpdatePostKeeps, UpdateLastKeeps, CommitLikeKeeps, CommitUnlikeKeeps, CommitCommentKeeps,
       CommitDeleteKeeps, CommitPinKeeps DEF Statement
  <2>3. ASSUME NEW t \in Tasks, Rollback(t) PROVE IInv'
    BY <2>3, RollbackKeeps
  <2>4. ASSUME NEW c \in Comments, Unpin(c) PROVE IInv'
    <3>1. UNCHANGED <<likes, threads>> /\ tx' = tx /\ pinned' \subseteq comments
      BY <2>4 DEF Unpin, IInv, TypeOK
    <3>2. QED BY <3>1, PinsKeep
  <2>5. CASE UNCHANGED vars
    <3>1. UNCHANGED <<likes, threads>> /\ tx' = tx /\ pinned' \subseteq comments
      BY <2>5 DEF vars, IInv, TypeOK
    <3>2. QED BY <3>1, PinsKeep
  <2>6. QED BY <2>1, <2>2, <2>3, <2>4, <2>5 DEF Next
<1>3. QED BY <1>1, <1>2, PTL DEF Spec

\* Every reachable state is well typed; no counter is negative.
THEOREM TypeCorrect == Spec => []TypeOK
BY Invariant, PTL DEF IInv

\* No overlap, repetition or rollback of reactions loses or invents a like.
THEOREM LikesAreExact == Spec => []LikesExact
BY Invariant, PTL DEF IInv

\* No reply is ever without its thread, whatever is deleted meanwhile.
THEOREM ThreadsTwoTiered == Spec => []TwoTiers
BY Invariant, PTL DEF IInv

\* No comment counts more replies than it has, whatever comments and deletes overlap:
\* the numbers are only ever added to and taken from (create_comment, delete_comment).
THEOREM RepliesDoExist == Spec => []RepliesExist
<1>1. Init => RepliesCounted
  <2> SUFFICES ASSUME Init, NEW c \in Comments PROVE reply_count[c] <= Cardinality(Replies(c))
    BY DEF RepliesCounted
  <2>1. Replies(c) = {} /\ reply_count[c] = 0
    BY DEF Init, Replies
  <2>2. QED BY <2>1, FS_EmptySet
<1>2. IInv /\ RepliesCounted /\ [Next]_vars => RepliesCounted'
  BY StepCounted
<1>3. IInv /\ RepliesCounted => RepliesExist
  BY DEF IInv, TypeOK, RepliesCounted, RepliesExist
<1>4. QED BY <1>1, <1>2, <1>3, Invariant, PTL DEF Spec

\* Reactions, comments and one pin at a time never all wait for each other: they lock
\* rows in one order, which only deletes and a second pin break.
THEOREM OnlyDeletesDoBlock == Spec => []OnlyDeletesBlock
<1>1. Init => RowsInOrder
  BY IdleOrdered DEF Init, RowsInOrder
<1>2. IInv /\ RowsInOrder /\ [Next]_vars => RowsInOrder'
  BY StepOrdered
<1>3. IInv /\ RowsInOrder => OnlyDeletesBlock
  BY FurthestGoesOn
<1>4. QED BY <1>1, <1>2, <1>3, Invariant, PTL DEF Spec

\* A comment that commits appears in one step, at the top or under a root that exists.
LEMMA CommentAppears ==
  ASSUME IInv, NEW t \in Tasks, CommitComment(t)
  PROVE  Threads!Next
<1>1. /\ tx[t] \in TxState /\ Consistent(tx[t]) /\ CommentConsistent(tx[t])
      /\ tx[t].op = "comment" /\ tx[t].at = "commit"
      /\ comments' = comments \cup {tx[t].subject}
      /\ parent' = [parent EXCEPT ![tx[t].subject] = tx[t].root] /\ UNCHANGED gone
  BY Facts DEF CommitComment, Finishes, Consistent
<1>2. /\ tx[t].subject \in Comments \ (comments \cup gone)
      /\ tx[t].root \in Comments \cup {None}
      /\ tx[t].root = None \/ (tx[t].root \in comments /\ parent[tx[t].root] = None)
  BY <1>1 DEF Consistent, CommentConsistent, Known, TxState
<1>3. Threads!Comment(tx[t].subject, tx[t].root)
  BY <1>1, <1>2 DEF Threads!Comment, Threads!Top
<1>4. QED BY <1>2, <1>3 DEF Threads!Next

\* A delete that found its comment takes exactly the thread it has at the commit.
LEMMA ThreadDisappears ==
  ASSUME IInv, NEW t \in Tasks, CommitDelete(t)
  PROVE  Threads!Next \/ UNCHANGED Threads!thread
<1> DEFINE c == tx[t].subject
           rows == Doomed(tx[t])
<1>1. /\ Consistent(tx[t]) /\ DeleteConsistent(tx[t]) /\ tx[t].op = "delete" /\ tx[t].at = "commit"
      /\ comments' = comments \ rows /\ gone' = gone \cup rows /\ UNCHANGED parent
  BY Facts DEF CommitDelete, Finishes, Consistent
<1>2. /\ rows \subseteq comments /\ rows \subseteq {c} \cup {d \in Known : parent[d] = c}
      /\ rows = {} \/ (c \in rows /\ Replies(c) \subseteq rows)
  <2>1. rows \subseteq comments
    BY <1>1 DEF Doomed, Consistent
  <2>2. QED BY <1>1, <2>1 DEF DeleteConsistent
<1> HIDE DEF rows
<1>3. CASE rows = {}
  BY <1>1, <1>3 DEF Threads!thread
<1>4. CASE c \in rows /\ Replies(c) \subseteq rows
  <2>1. rows = Threads!Thread(c) /\ c \in comments /\ c \in Comments
    BY <1>2, <1>4 DEF Threads!Thread, Replies, IInv, TypeOK
  <2>2. Threads!Delete(c)
    BY <1>1, <2>1 DEF Threads!Delete
  <2>3. QED BY <2>1, <2>2 DEF Threads!Next
<1>5. QED BY <1>2, <1>3, <1>4

\* Comments and deletes of several statements, with rollbacks at any point, implement the
\* forest of PostThreads, in which each of them is one step.
THEOREM ThreadsAreAtomic == Spec => RefinesPostThreads
<1>1. Init => Threads!Init
  BY DEF Init, Threads!Init
<1>2. IInv /\ [Next]_vars => [Threads!Next]_Threads!thread
  <2> SUFFICES ASSUME IInv, [Next]_vars PROVE Threads!Next \/ UNCHANGED Threads!thread
    OBVIOUS
  <2>1. ASSUME UNCHANGED threads PROVE UNCHANGED Threads!thread
    BY <2>1 DEF threads, Threads!thread
  <2>2. QED BY <2>1, ThreadSteps, CommentAppears, ThreadDisappears
<1>3. QED BY <1>1, <1>2, Invariant, PTL DEF Spec, RefinesPostThreads, Threads!Spec
=============================================================================
