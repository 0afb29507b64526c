-------------------------- MODULE LiveStream_proofs --------------------------
(***************************************************************************)
(* Proofs about the transactions on one live stream, for every number of   *)
(* users, comments, joins and requests in progress.                        *)
(***************************************************************************)
EXTENDS LiveStream, FiniteSetTheorems, TLAPS

USE StreamAssumption

----------------------------------------------------------------------------
(* Counting users.                                                         *)

\* Sets of users are finite, and their sizes grow with them.
LEMMA Sizes ==
  ASSUME NEW S \in SUBSET Users, NEW T \in SUBSET S
  PROVE  /\ Cardinality(S) \in Nat
         /\ Cardinality(T) \in Nat
         /\ Cardinality(T) <= Cardinality(S)
<1>1. IsFiniteSet(S)
  BY FS_Subset
<1>2. IsFiniteSet(T) /\ Cardinality(T) <= Cardinality(S)
  BY <1>1, FS_Subset
<1>3. QED BY <1>1, <1>2, FS_CardinalityType

\* One more user makes a set larger by one at the most.
LEMMA OneMore ==
  ASSUME NEW S \in SUBSET Users, NEW u \in Users
  PROVE  Cardinality(S \cup {u}) <= Cardinality(S) + 1
<1>1. IsFiniteSet(S)
  BY FS_Subset
<1>2. Cardinality(S) \in Nat
  BY <1>1, FS_CardinalityType
<1>3. Cardinality(S \cup {u}) = IF u \in S THEN Cardinality(S) ELSE Cardinality(S) + 1
  BY <1>1, FS_AddElement
<1>4. QED BY <1>2, <1>3

----------------------------------------------------------------------------
(* Transactions.                                                           *)

\* The fields of a transaction.
LEMMA Fields ==
  ASSUME IInv, NEW t \in Tasks
  PROVE  /\ tx[t] \in TxState
         /\ tx[t].count \in Nat /\ tx[t].views \in Nat /\ tx[t].peak \in Nat
         /\ tx[t].held \in SUBSET (Users \cup Comments)
         /\ tx[t].todo \in SUBSET (Users \cup Comments)
         /\ Consistent(t)
  BY DEF IInv, TypeOK, TxState

\* No transaction.
LEMMA IdleFacts ==
  /\ Idle \in TxState
  /\ Idle.op = "idle" /\ Idle.at = "idle"
  BY DEF Idle, TxState

\* A step of one transaction leaves the others as consistent as they were: the
\* viewers and comments only grow, and the counters change only under the row's lock.
LEMMA Frame ==
  ASSUME IInv, NEW t \in Tasks, NEW state \in TxState, Become(t, state),
         viewers \subseteq viewers', viewers' \subseteq Users, comments \subseteq comments',
         tx[t].at = "commit" \/ (total_views' = total_views /\ peak_viewers' = peak_viewers)
  PROVE  /\ tx' \in [Tasks -> TxState]
         /\ tx'[t] = state
         /\ \A t2 \in Tasks \ {t} : tx'[t2] = tx[t2] /\ Consistent(t2)'
<1>1. /\ tx' \in [Tasks -> TxState]
      /\ tx'[t] = state
      /\ \A t2 \in Tasks \ {t} : tx'[t2] = tx[t2]
  BY DEF Become, IInv, TypeOK
<1>2. ASSUME NEW t2 \in Tasks \ {t} PROVE Consistent(t2)'
  <2>1. tx'[t2] = tx[t2] /\ Consistent(t2) /\ tx[t2].count \in Nat
    BY <1>1, Fields
  <2>2. tx[t2].at = "commit" => total_views' = total_views /\ peak_viewers' = peak_viewers
    BY DEF IInv, StreamExclusive
  <2>3. Cardinality(viewers) <= Cardinality(viewers')
        /\ Cardinality(viewers) \in Nat /\ Cardinality(viewers') \in Nat
    BY Sizes DEF IInv, TypeOK
  <2>4. ASSUME NEW u \in Users
        PROVE  /\ Cardinality(viewers \cup {u}) <= Cardinality(viewers' \cup {u})
               /\ Cardinality(viewers \cup {u}) \in Nat /\ Cardinality(viewers' \cup {u}) \in Nat
    <3>1. viewers' \cup {u} \in SUBSET Users /\ viewers \cup {u} \in SUBSET (viewers' \cup {u})
      OBVIOUS
    <3>2. QED BY <3>1, Sizes
  <2>5. ASSUME tx[t2].op = "join"
        PROVE  tx[t2].count <= Cardinality(viewers' \cup {tx[t2].subject})
    <3>1. PICK u \in Users : u = tx[t2].subject
      BY <2>1, <2>5 DEF Consistent
    <3>2. tx[t2].count <= Cardinality(viewers \cup {u})
      BY <2>1, <2>5, <3>1 DEF Consistent
    <3>3. /\ Cardinality(viewers \cup {u}) <= Cardinality(viewers' \cup {u})
          /\ Cardinality(viewers \cup {u}) \in Nat /\ Cardinality(viewers' \cup {u}) \in Nat
      BY <2>4
    <3>4. tx[t2].count <= Cardinality(viewers' \cup {u})
      BY <2>1, <3>2, <3>3
    <3>5. QED BY <3>1, <3>4
  <2>6. tx[t2].op = "leave" => tx[t2].count <= Cardinality(viewers')
    BY <2>1, <2>3 DEF Consistent
  <2>7. tx[t2].op = "pin" => tx[t2].subject \in Comments
    BY <2>1 DEF Consistent
  <2>8. QED
    BY <2>1, <2>2, <2>5, <2>6, <2>7, Zenon DEF Consistent
<1>3. QED BY <1>1, <1>2

\* A step that changes only its own transaction, and does not take the row of the
\* stream from another, keeps the invariant.
LEMMA OnlyTx ==
  ASSUME IInv, NEW t \in Tasks, NEW state \in TxState, Become(t, state),
         UNCHANGED <<status, counters, viewers, active, comments, pins>>,
         state.at = "commit" => StreamFree(t),
         Consistent(t)'
  PROVE  IInv'
<1>1. /\ tx' \in [Tasks -> TxState]
      /\ tx'[t] = state
      /\ \A t2 \in Tasks \ {t} : tx'[t2] = tx[t2] /\ Consistent(t2)'
  BY Frame DEF counters, IInv, TypeOK
<1>2. TypeOK'
  BY <1>1 DEF IInv, TypeOK, counters, pins
<1>3. StreamExclusive'
  BY <1>1 DEF IInv, StreamExclusive, StreamFree
<1>4. ViewsCounted' /\ CountsWithinAudience' /\ PinsAgree' /\ FirstComments \subseteq comments'
  BY DEF IInv, ViewsCounted, CountsWithinAudience, PinsAgree, counters, pins
<1>5. QED BY <1>1, <1>2, <1>3, <1>4 DEF IInv

\* A request begins consistently.
LEMMA BeginKeeps ==
  ASSUME IInv, NEW t \in Tasks, NEW op \in Ops, NEW subject \in Users \cup Comments \cup {None},
         NEW rows \in SUBSET (Users \cup Comments), Begin(t, op, subject, rows),
         op = "join" => subject \in Users /\ rows = {subject},
         op \in {"pin", "unpin"} => rows = comments,
         op = "pin" => subject \in Comments
  PROVE  IInv'
<1> DEFINE state == [Idle EXCEPT !.op = op, !.at = "rows", !.subject = subject, !.todo = rows]
<1>1. /\ state \in TxState
      /\ state.op = op /\ state.at = "rows" /\ state.subject = subject /\ state.todo = rows
      /\ state.held = {} /\ state.count = 0
  BY DEF Idle, TxState
<1>2. Become(t, state) /\ UNCHANGED <<status, counters, viewers, active, comments, pins>>
  BY DEF Begin
<1> HIDE DEF state
<1>3. tx'[t] = state
  BY <1>2 DEF Become, IInv, TypeOK
<1>4. op = "join" => 0 <= Cardinality(viewers' \cup {subject})
  <2>1. viewers' \in SUBSET Users
    BY <1>2 DEF IInv, TypeOK
  <2>2. \A u \in Users : viewers' \cup {u} \in SUBSET Users
    BY <2>1
  <2>3. QED BY <2>2, Sizes
<1>5. 0 <= Cardinality(viewers')
  BY <1>2, Sizes DEF IInv, TypeOK
<1>6. Consistent(t)'
  BY <1>1, <1>2, <1>3, <1>4, <1>5 DEF Consistent, IInv
<1>7. QED BY <1>1, <1>2, <1>6, OnlyTx

\* A row that is locked, in any order.
LEMMA LockRowKeeps ==
  ASSUME IInv, NEW t \in Tasks, NEW r \in Users \cup Comments, LockRow(t, r)
  PROVE  IInv'
<1> DEFINE state == [tx[t] EXCEPT !.todo = @ \ {r}, !.held = @ \cup {r}]
<1>1. /\ state \in TxState
      /\ state.op = tx[t].op /\ state.at = "rows" /\ state.subject = tx[t].subject
      /\ state.todo = tx[t].todo \ {r} /\ state.held = tx[t].held \cup {r}
      /\ state.count = tx[t].count
  BY Fields DEF LockRow, TxState
<1>2. /\ Become(t, state) /\ UNCHANGED <<status, counters, viewers, active, comments, pins>>
      /\ r \in tx[t].todo
  BY DEF LockRow
<1> HIDE DEF state
<1>3. tx'[t] = state
  BY <1>2 DEF Become, IInv, TypeOK
<1>4. Consistent(t)'
  BY <1>1, <1>2, <1>3, Fields DEF Consistent
<1>5. QED BY <1>1, <1>2, <1>4, OnlyTx

\* A count that does not exceed the viewers the commit will leave keeps the invariant.
LEMMA CountedKeeps ==
  ASSUME IInv, NEW t \in Tasks, NEW n \in Nat,
         Become(t, [tx[t] EXCEPT !.at = "stream", !.count = n]),
         UNCHANGED <<status, counters, viewers, active, comments, pins>>,
         tx[t].todo = {},
         tx[t].op = "join" => n <= Cardinality(viewers \cup {tx[t].subject}),
         tx[t].op = "leave" => n <= Cardinality(viewers)
  PROVE  IInv'
<1> DEFINE state == [tx[t] EXCEPT !.at = "stream", !.count = n]
<1>1. /\ state \in TxState
      /\ state.op = tx[t].op /\ state.at = "stream" /\ state.subject = tx[t].subject
      /\ state.todo = tx[t].todo /\ state.held = tx[t].held /\ state.count = n
  BY Fields DEF TxState
<1> HIDE DEF state
<1>2. tx'[t] = state
  BY DEF Become, IInv, TypeOK, state
<1>3. Consistent(t)'
  BY <1>1, <1>2, Fields DEF Consistent
<1>4. Become(t, state)
  BY DEF state
<1>5. QED BY <1>1, <1>3, <1>4, OnlyTx

\* The count of a join includes its own row, that of a leave leaves it out.
LEMMA CountKeeps ==
  ASSUME IInv, NEW t \in Tasks, Count(t)
  PROVE  IInv'
<1> DEFINE counted == IF tx[t].op = "join" THEN active \cup tx[t].held ELSE active \ tx[t].held
           n == Cardinality(counted)
<1>1. /\ active \subseteq viewers /\ viewers \subseteq Users /\ Consistent(t)
      /\ tx[t].op \in {"join", "leave"} /\ tx[t].todo = {}
  BY Fields DEF IInv, TypeOK, Count
<1>2. /\ Become(t, [tx[t] EXCEPT !.at = "stream", !.count = n])
      /\ UNCHANGED <<status, counters, viewers, active, comments, pins>>
  BY DEF Count
<1>3. CASE tx[t].op = "join"
  <2>1. PICK u \in Users : u = tx[t].subject
    BY <1>1, <1>3 DEF Consistent
  <2>2. viewers \cup {u} \in SUBSET Users /\ counted \in SUBSET (viewers \cup {u})
    BY <1>1, <1>3, <2>1 DEF Consistent
  <2>3. n \in Nat /\ n <= Cardinality(viewers \cup {u})
    BY <2>2, Sizes
  <2>4. QED
    <3> HIDE DEF n
    <3>1. n \in Nat /\ (tx[t].op = "join" => n <= Cardinality(viewers \cup {tx[t].subject}))
      BY <2>1, <2>3
    <3>2. QED BY <1>1, <1>3, <1>2, <3>1, CountedKeeps
<1>4. CASE tx[t].op = "leave"
  <2>1. counted \in SUBSET viewers
    BY <1>1, <1>4
  <2>2. n \in Nat /\ n <= Cardinality(viewers)
    BY <1>1, <2>1, Sizes
  <2> HIDE DEF n
  <2>3. QED BY <1>1, <1>4, <1>2, <2>2, CountedKeeps
<1>5. QED BY <1>1, <1>3, <1>4

\* The row of the stream is read when its lock is taken.
LEMMA UpdateStreamKeeps ==
  ASSUME IInv, NEW t \in Tasks, UpdateStream(t)
  PROVE  IInv'
<1> DEFINE state == [tx[t] EXCEPT !.at = "commit", !.views = total_views, !.peak = peak_viewers]
<1>0. total_views \in Nat /\ peak_viewers \in Nat
  BY DEF IInv, TypeOK
<1>1. /\ state \in TxState
      /\ state.op = tx[t].op /\ state.at = "commit" /\ state.subject = tx[t].subject
      /\ state.todo = tx[t].todo /\ state.held = tx[t].held /\ state.count = tx[t].count
      /\ state.views = total_views /\ state.peak = peak_viewers
  BY <1>0, Fields DEF TxState
<1>2. /\ Become(t, state) /\ UNCHANGED <<status, counters, viewers, active, comments, pins>>
      /\ StreamFree(t)
      /\ tx[t].at = "stream" \/ tx[t].todo = {}
  BY DEF UpdateStream
<1> HIDE DEF state
<1>3. tx'[t] = state
  BY <1>2 DEF Become, IInv, TypeOK
<1>4. Consistent(t)'
  BY <1>1, <1>2, <1>3, Fields DEF Consistent, counters
<1>5. QED BY <1>1, <1>2, <1>4, OnlyTx

\* A transaction that is rolled back leaves nothing.
LEMMA RollbackKeeps ==
  ASSUME IInv, NEW t \in Tasks, Rollback(t)
  PROVE  IInv'
<1>1. Become(t, Idle) /\ UNCHANGED <<status, counters, viewers, active, comments, pins>>
  BY DEF Rollback
<1>2. tx'[t] = Idle
  BY <1>1 DEF Become, IInv, TypeOK
<1>3. Consistent(t)'
  BY <1>2, IdleFacts DEF Consistent
<1>4. QED BY <1>1, <1>3, IdleFacts, OnlyTx

\* A comment more.
LEMMA AddCommentKeeps ==
  ASSUME IInv, NEW c \in Comments, AddComment(c)
  PROVE  IInv'
<1> USE DEF AddComment, IInv, counters, pins
<1>1. TypeOK' /\ StreamExclusive' /\ FirstComments \subseteq comments'
  BY DEF TypeOK, StreamExclusive
<1>2. ASSUME NEW t \in Tasks PROVE Consistent(t)'
  BY DEF Consistent
<1>3. ViewsCounted' /\ CountsWithinAudience' /\ PinsAgree'
  BY DEF ViewsCounted, CountsWithinAudience, PinsAgree
<1>4. QED BY <1>1, <1>2, <1>3

----------------------------------------------------------------------------
(* Commits.                                                                *)

\* What every commit does to the transactions.
LEMMA CommitFrame ==
  ASSUME IInv, NEW t \in Tasks, NEW op \in Ops, Finishes(t, op),
         viewers \subseteq viewers', viewers' \subseteq Users, comments' = comments
  PROVE  /\ tx' \in [Tasks -> TxState]
         /\ StreamExclusive'
         /\ \A t2 \in Tasks : Consistent(t2)'
         /\ FirstComments \subseteq comments'
<1>1. Become(t, Idle) /\ tx[t].at = "commit"
  BY DEF Finishes
<1>2. /\ tx' \in [Tasks -> TxState]
      /\ tx'[t] = Idle
      /\ \A t2 \in Tasks \ {t} : tx'[t2] = tx[t2] /\ Consistent(t2)'
  BY <1>1, IdleFacts, Frame
<1>3. Consistent(t)'
  BY <1>2, IdleFacts DEF Consistent
<1>4. StreamExclusive'
  BY <1>2, IdleFacts DEF IInv, StreamExclusive
<1>5. QED BY <1>2, <1>3, <1>4 DEF IInv

\* A join counts one view and at most one viewer more.
LEMMA CommitJoinKeeps ==
  ASSUME IInv, NEW t \in Tasks, CommitJoin(t)
  PROVE  IInv'
<1>1. PICK u \in Users : u = tx[t].subject
  BY Fields DEF CommitJoin, Finishes, Consistent
<1>2. /\ viewers' = viewers \cup {u} /\ active' = active \cup {u}
      /\ viewer_count' = tx[t].count /\ total_views' = total_views + 1 /\ joins' = joins + 1
      /\ peak_viewers' = (IF peak_viewers > tx[t].count THEN peak_viewers ELSE tx[t].count)
      /\ UNCHANGED <<status, comments, flagged, pinned>>
      /\ tx[t].count <= Cardinality(viewers')
  BY <1>1, Fields DEF CommitJoin, Finishes, Consistent, Peak, pins
<1>3. viewers \subseteq viewers' /\ viewers' \subseteq Users
  BY <1>2 DEF IInv, TypeOK
<1>4. /\ tx' \in [Tasks -> TxState] /\ StreamExclusive'
      /\ \A t2 \in Tasks : Consistent(t2)'
      /\ FirstComments \subseteq comments'
  BY <1>2, <1>3, CommitFrame DEF CommitJoin, Ops
<1>5. TypeOK'
  BY <1>2, <1>3, <1>4, Fields DEF IInv, TypeOK
<1>6. /\ Cardinality(viewers) \in Nat /\ Cardinality(viewers') \in Nat
      /\ Cardinality(viewers) <= Cardinality(viewers')
      /\ Cardinality(viewers') <= Cardinality(viewers) + 1
  BY <1>2, <1>3, Sizes, OneMore DEF IInv, TypeOK
<1>7. CountsWithinAudience'
  BY <1>2, <1>5, <1>6, Fields DEF IInv, TypeOK, CountsWithinAudience
<1>8. ViewsCounted' /\ PinsAgree'
  BY <1>2 DEF IInv, ViewsCounted, PinsAgree
<1>9. QED BY <1>4, <1>5, <1>7, <1>8 DEF IInv

\* Leaving, ending and starting publish a count and leave the viewers alone.
LEMMA OtherCommitsKeep ==
  ASSUME IInv, NEW t \in Tasks, CommitLeave(t) \/ CommitEnd(t) \/ CommitStart(t)
  PROVE  IInv'
<1>1. /\ UNCHANGED <<viewers, comments, flagged, pinned, peak_viewers, total_views, joins>>
      /\ status' \in {"created", "live", "ended"}
      /\ active' \subseteq active
  BY DEF CommitLeave, CommitEnd, CommitStart, pins, counters, IInv, TypeOK
<1>2. viewer_count' \in Nat /\ viewer_count' <= Cardinality(viewers)
  <2>1. Cardinality(viewers) \in Nat /\ viewer_count \in Nat /\ viewer_count <= Cardinality(viewers)
    BY Sizes DEF IInv, TypeOK, CountsWithinAudience
  <2>2. CASE CommitLeave(t)
    BY <2>2, Fields DEF CommitLeave, Finishes, Consistent
  <2>3. CASE CommitEnd(t)
    BY <2>1, <2>3 DEF CommitEnd
  <2>4. CASE CommitStart(t)
    BY <2>1, <2>4 DEF CommitStart, counters
  <2>5. QED BY <2>2, <2>3, <2>4
<1>3. viewers' \subseteq Users
  BY <1>1 DEF IInv, TypeOK
<1>4. /\ tx' \in [Tasks -> TxState] /\ StreamExclusive'
      /\ \A t2 \in Tasks : Consistent(t2)'
      /\ FirstComments \subseteq comments'
  BY <1>1, <1>3, CommitFrame DEF CommitLeave, CommitEnd, CommitStart, Ops
<1>5. TypeOK'
  BY <1>1, <1>2, <1>4 DEF IInv, TypeOK
<1>6. ViewsCounted' /\ CountsWithinAudience' /\ PinsAgree'
  BY <1>1, <1>2 DEF IInv, ViewsCounted, CountsWithinAudience, PinsAgree
<1>7. QED BY <1>4, <1>5, <1>6 DEF IInv

\* A pin and an unpin have written the flag of every older comment.
LEMMA PinCommitsKeep ==
  ASSUME IInv, NEW t \in Tasks, CommitPin(t) \/ CommitUnpin(t)
  PROVE  IInv'
<1>1. /\ UNCHANGED <<status, viewers, active, comments, viewer_count, peak_viewers, total_views, joins>>
      /\ FirstComments \subseteq tx[t].held
  BY Fields DEF CommitPin, CommitUnpin, Finishes, Consistent, counters
<1>2. /\ tx' \in [Tasks -> TxState] /\ StreamExclusive'
      /\ \A t2 \in Tasks : Consistent(t2)'
      /\ FirstComments \subseteq comments'
  BY <1>1, CommitFrame DEF CommitPin, CommitUnpin, Ops, IInv, TypeOK
<1>3. CASE CommitPin(t)
  <2>1. /\ tx[t].subject \in Comments
        /\ flagged' = (flagged \ tx[t].held) \cup ({tx[t].subject} \cap comments)
        /\ pinned' = tx[t].subject
    BY <1>3, Fields DEF CommitPin, Finishes, Consistent
  <2>2. TypeOK' /\ PinsAgree'
    BY <1>1, <1>2, <2>1 DEF IInv, TypeOK, PinsAgree
  <2>3. QED BY <1>1, <1>2, <2>2 DEF IInv, ViewsCounted, CountsWithinAudience
<1>4. CASE CommitUnpin(t)
  <2>1. flagged' = flagged \ tx[t].held /\ pinned' = None
    BY <1>4 DEF CommitUnpin
  <2>2. TypeOK' /\ PinsAgree'
    BY <1>1, <1>2, <2>1 DEF IInv, TypeOK, PinsAgree
  <2>3. QED BY <1>1, <1>2, <2>2 DEF IInv, ViewsCounted, CountsWithinAudience
<1>5. QED BY <1>3, <1>4

----------------------------------------------------------------------------
(* Waiting.                                                                *)

\* A join or a leave locks one row and waits for it with empty hands; a start locks
\* none before the stream's.
RowFirst(s) ==
  /\ s.op = "idle" => s = Idle
  /\ s.op = "start" => s.todo = {}
  /\ s.op \in {"join", "leave"} =>
       s.todo = {} \/ (s.todo = {s.subject} /\ s.held = {})

RowsFirst == \A t \in Tasks : RowFirst(tx[t])

\* A transaction that begins has locked nothing.
LEMMA BeginRowFirst ==
  ASSUME IInv, RowsFirst, NEW t \in Tasks, NEW op \in Ops,
         NEW subject \in Users \cup Comments \cup {None},
         NEW rows \in SUBSET (Users \cup Comments), Begin(t, op, subject, rows),
         op = "start" => rows = {},
         op \in {"join", "leave"} => rows \subseteq {subject}
  PROVE  RowsFirst'
<1> DEFINE state == [Idle EXCEPT !.op = op, !.at = "rows", !.subject = subject, !.todo = rows]
<1>1. state.op = op /\ state.subject = subject /\ state.todo = rows /\ state.held = {} /\ op # "idle"
  BY DEF Idle, Ops
<1>2. tx' = [tx EXCEPT ![t] = state]
  BY DEF Begin, Become
<1> HIDE DEF state
<1>3. RowFirst(state)
  BY <1>1 DEF RowFirst
<1>4. QED BY <1>2, <1>3 DEF RowsFirst, IInv, TypeOK

\* A step keeps the order if what it makes of its own transaction does.
LEMMA OneRowFirst ==
  ASSUME IInv, RowsFirst, NEW t \in Tasks, NEW state, Become(t, state), RowFirst(state)
  PROVE  RowsFirst'
BY DEF Become, RowsFirst, IInv, TypeOK

\* The statements lock rows first, one by one, and the stream's last.
LEMMA StatementRowFirst ==
  ASSUME IInv, RowsFirst, NEW t \in Tasks, Statement(t) \/ Rollback(t)
  PROVE  RowsFirst'
<1>1. tx[t] \in TxState /\ RowFirst(tx[t])
  BY Fields DEF RowsFirst
<1>2. RowFirst(Idle)
  BY DEF RowFirst, Idle
<1>3. ASSUME NEW r \in Users \cup Comments, LockRow(t, r) PROVE RowsFirst'
  <2> DEFINE state == [tx[t] EXCEPT !.todo = @ \ {r}, !.held = @ \cup {r}]
  <2>1. /\ state.op = tx[t].op /\ state.subject = tx[t].subject /\ state.todo = tx[t].todo \ {r}
        /\ Become(t, state) /\ r \in tx[t].todo
    BY <1>1, <1>3 DEF TxState, LockRow
  <2> HIDE DEF state
  <2>2. tx[t].op # "idle"
    BY <1>1, <2>1 DEF RowFirst, Idle
  <2>3. RowFirst(state)
    BY <1>1, <2>1, <2>2 DEF RowFirst
  <2>4. QED BY <2>1, <2>3, OneRowFirst
<1>4. ASSUME Count(t) PROVE RowsFirst'
  <2>1. PICK n : Become(t, [tx[t] EXCEPT !.at = "stream", !.count = n])
    BY <1>4 DEF Count
  <2> DEFINE state == [tx[t] EXCEPT !.at = "stream", !.count = n]
  <2>2. /\ state.op = tx[t].op /\ state.todo = tx[t].todo /\ tx[t].todo = {}
        /\ tx[t].op \in {"join", "leave"}
    BY <1>1, <1>4 DEF TxState, Count
  <2> HIDE DEF state
  <2>3. RowFirst(state)
    BY <2>2 DEF RowFirst
  <2>4. QED BY <2>1, <2>3, OneRowFirst DEF state
<1>5. ASSUME UpdateStream(t) PROVE RowsFirst'
  <2> DEFINE state == [tx[t] EXCEPT !.at = "commit", !.views = total_views, !.peak = peak_viewers]
  <2>1. /\ state.op = tx[t].op /\ state.subject = tx[t].subject /\ state.todo = tx[t].todo
        /\ state.held = tx[t].held /\ Become(t, state) /\ tx[t].at \in {"rows", "stream"}
    BY <1>1, <1>5 DEF TxState, UpdateStream
  <2> HIDE DEF state
  <2>2. tx[t].op # "idle"
    BY <1>1, <2>1 DEF RowFirst, Idle
  <2>3. RowFirst(state)
    BY <1>1, <2>1, <2>2 DEF RowFirst
  <2>4. QED BY <2>1, <2>3, OneRowFirst
<1>6. ASSUME Become(t, Idle) PROVE RowsFirst'
  BY <1>2, <1>6, OneRowFirst
<1>7. QED
  BY <1>3, <1>4, <1>5, <1>6 DEF Statement, Rollback, CommitStart, CommitEnd, CommitJoin,
     CommitLeave, CommitPin, CommitUnpin, Finishes

\* So does every step.
LEMMA StepRowFirst ==
  ASSUME IInv, RowsFirst, [Next]_vars
  PROVE  RowsFirst'
<1>1. ASSUME NEW t \in Tasks, Request(t) PROVE RowsFirst'
  <2>1. comments \subseteq Comments /\ active \subseteq Users /\ viewers \subseteq Users
    BY DEF IInv, TypeOK
  <2>2. CASE Start(t) \/ End(t) \/ Unpin(t)
    BY <2>1, <2>2, BeginRowFirst DEF Start, End, Unpin, Ops
  <2>3. ASSUME NEW u \in Users, Join(t, u) \/ Leave(t, u) PROVE RowsFirst'
    BY <2>3, BeginRowFirst DEF Join, Leave, Ops
  <2>4. ASSUME NEW c \in Comments, Pin(t, c) PROVE RowsFirst'
    BY <2>1, <2>4, BeginRowFirst DEF Pin, Ops
  <2>5. QED BY <1>1, <2>2, <2>3, <2>4 DEF Request
<1>2. ASSUME NEW t \in Tasks, Statement(t) \/ Rollback(t) PROVE RowsFirst'
  BY <1>2, StatementRowFirst
<1>3. CASE tx' = tx
  BY <1>3 DEF RowsFirst
<1>4. QED BY <1>1, <1>2, <1>3 DEF Next, AddComment, vars

\* Who holds the row of the stream commits; if nobody does, the one statement that
\* locks several rows finds them free, and without it everybody's row is free.
LEMMA SomebodyGoesOn ==
  ASSUME IInv, RowsFirst
  PROVE  WaitsResolve
<1> SUFFICES ASSUME NEW t0 \in Tasks, tx[t0] # Idle,
                    \A t1, t2 \in Tasks : LocksSeveral(t1) /\ LocksSeveral(t2) => t1 = t2
             PROVE  \E t \in Tasks : tx[t] # Idle /\ CanGoOn(t)
  BY DEF WaitsResolve
<1>1. \A t \in Tasks : tx[t] \in TxState /\ Consistent(t) /\ RowFirst(tx[t])
  BY Fields DEF RowsFirst
<1>2. CASE \E t \in Tasks : tx[t].at = "commit"
  <2>1. PICK t \in Tasks : tx[t].at = "commit"
    BY <1>2
  <2>2. tx[t].todo = {} /\ tx[t] # Idle
    BY <1>1, <2>1, IdleFacts DEF Consistent
  <2>3. StreamFree(t)
    BY <2>1 DEF IInv, StreamExclusive, StreamFree
  <2>4. QED BY <2>2, <2>3 DEF CanGoOn
<1>3. CASE \A t \in Tasks : tx[t].at # "commit"
  <2>1. \A t \in Tasks : StreamFree(t)
    BY <1>3 DEF StreamFree
  <2>2. CASE \E t \in Tasks : tx[t] # Idle /\ tx[t].todo = {}
    BY <2>1, <2>2 DEF CanGoOn
  <2>3. CASE \A t \in Tasks : tx[t] # Idle => tx[t].todo # {}
    <3>1. ASSUME NEW t \in Tasks, ~LocksSeveral(t) PROVE tx[t].held = {}
      <4>1. CASE tx[t] = Idle
        BY <4>1 DEF Idle
      <4>2. CASE tx[t] # Idle
        BY <1>1, <2>3, <3>1, <4>2 DEF RowFirst, LocksSeveral, TxState, Ops
      <4>3. QED BY <4>1, <4>2
    <3>2. CASE \E t \in Tasks : LocksSeveral(t)
      <4>1. PICK t \in Tasks : LocksSeveral(t)
        BY <3>2
      <4>2. tx[t] # Idle
        BY <4>1 DEF LocksSeveral, Idle
      <4>3. \A t2 \in Tasks \ {t} : tx[t2].held = {}
        BY <3>1, <4>1
      <4>4. QED BY <2>1, <4>2, <4>3 DEF CanGoOn, RowFree
    <3>3. CASE \A t \in Tasks : ~LocksSeveral(t)
      BY <2>1, <3>1, <3>3 DEF CanGoOn, RowFree
    <3>4. QED BY <3>2, <3>3
  <2>4. QED BY <2>2, <2>3
<1>4. QED BY <1>2, <1>3

----------------------------------------------------------------------------
(* The results.                                                            *)

\* A request keeps the invariant.
LEMMA RequestKeeps ==
  ASSUME IInv, NEW t \in Tasks, Request(t)
  PROVE  IInv'
<1>0. active \subseteq Users /\ comments \subseteq Comments
  BY DEF IInv, TypeOK
<1>1. CASE Start(t)
  BY <1>1, BeginKeeps DEF Start, Ops
<1>2. CASE End(t)
  BY <1>0, <1>2, BeginKeeps DEF End, Ops
<1>3. CASE Unpin(t)
  BY <1>0, <1>3, BeginKeeps DEF Unpin, Ops
<1>4. ASSUME NEW u \in Users, Join(t, u) PROVE IInv'
  BY <1>4, BeginKeeps DEF Join, Ops
<1>5. ASSUME NEW u \in Users, Leave(t, u) PROVE IInv'
  BY <1>5, BeginKeeps DEF Leave, Ops
<1>6. ASSUME NEW c \in Comments, Pin(t, c) PROVE IInv'
  BY <1>0, <1>6, BeginKeeps DEF Pin, Ops
<1>7. QED BY <1>1, <1>2, <1>3, <1>4, <1>5, <1>6 DEF Request

\* The invariant holds in every reachable state.
THEOREM Invariant == Spec => []IInv
<1>1. Init => IInv
  <2> SUFFICES ASSUME Init PROVE IInv
    OBVIOUS
  <2>1. TypeOK /\ StreamExclusive /\ FirstComments \subseteq comments
    BY IdleFacts DEF Init, TypeOK, StreamExclusive
  <2>2. ASSUME NEW t \in Tasks PROVE Consistent(t)
    BY IdleFacts DEF Init, Consistent
  <2>3. ViewsCounted /\ CountsWithinAudience /\ PinsAgree
    BY FS_EmptySet DEF Init, ViewsCounted, CountsWithinAudience, PinsAgree
  <2>4. QED BY <2>1, <2>2, <2>3 DEF IInv
<1>2. IInv /\ [Next]_vars => IInv'
  <2> SUFFICES ASSUME IInv, [Next]_vars PROVE IInv'
    OBVIOUS
  <2>1. ASSUME NEW t \in Tasks, Request(t) PROVE IInv'
    BY <2>1, RequestKeeps
  <2>2. ASSUME NEW t \in Tasks, Statement(t) PROVE IInv'
    BY <2>2, LockRowKeeps, CountKeeps, UpdateStreamKeeps, CommitJoinKeeps, OtherCommitsKeep,
       PinCommitsKeep DEF Statement
  <2>3. ASSUME NEW t \in Tasks, Rollback(t) PROVE IInv'
    BY <2>3, RollbackKeeps
  <2>4. ASSUME NEW c \in Comments, AddComment(c) PROVE IInv'
    BY <2>4, AddCommentKeeps
  <2>5. CASE UNCHANGED vars
    <3>1. TypeOK' /\ StreamExclusive' /\ (\A t \in Tasks : Consistent(t)')
          /\ FirstComments \subseteq comments'
      BY <2>5 DEF vars, counters, pins, IInv, TypeOK, StreamExclusive, Consistent
    <3>2. ViewsCounted' /\ CountsWithinAudience' /\ PinsAgree'
      BY <2>5 DEF vars, counters, pins, IInv, ViewsCounted, CountsWithinAudience, PinsAgree
    <3>3. QED BY <3>1, <3>2 DEF IInv
  <2>6. QED BY <2>1, <2>2, <2>3, <2>4, <2>5 DEF Next
<1>3. QED BY <1>1, <1>2, PTL DEF Spec

\* Every reachable state is well typed.
THEOREM TypeCorrect == Spec => []TypeOK
BY Invariant, PTL DEF IInv

\* No overlap and no rollback of joins loses or invents a view.
THEOREM NoLostView == Spec => []ViewsCounted
BY Invariant, PTL DEF IInv

\* The counters never exceed the number of users who ever watched.
THEOREM AudienceBound == Spec => []CountsWithinAudience
BY Invariant, PTL DEF IInv

\* Flags and pinned_comment_id agree on comments older than the pins in progress.
THEOREM PinAgreement == Spec => []PinsAgree
BY Invariant, PTL DEF IInv

\* The row of the stream is locked last: without two statements that each lock several
\* rows, somebody can always go on (join_stream, leave_stream and the requests of the host).
THEOREM WaitsDoResolve == Spec => []WaitsResolve
<1>1. Init => RowsFirst
  BY DEF Init, RowsFirst, RowFirst, Idle
<1>2. IInv /\ RowsFirst /\ [Next]_vars => RowsFirst'
  BY StepRowFirst
<1>3. IInv /\ RowsFirst => WaitsResolve
  BY SomebodyGoesOn
<1>4. QED BY <1>1, <1>2, <1>3, Invariant, PTL DEF Spec
=============================================================================
