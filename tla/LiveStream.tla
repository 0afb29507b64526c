----------------------------- MODULE LiveStream -----------------------------
(***************************************************************************)
(* The rows of one live stream in Postgres and the transactions that       *)
(* change them (services/livestream/src/lib.rs).  No statement of the      *)
(* service touches the rows of two streams.                                *)
(*                                                                         *)
(* The pool's connections run at READ COMMITTED: a statement reads what    *)
(* was committed when it began and what its own transaction wrote; a row   *)
(* that is written stays locked until the transaction ends, and a writer   *)
(* that waited for it goes on from the row's new version.  A transaction   *)
(* is one action per statement (one per row where a statement locks        *)
(* several) and publishes its writes at COMMIT.  It may be rolled back at  *)
(* any point: an error, the deadlock detector, a client that went away.    *)
(***************************************************************************)
EXTENDS Integers, FiniteSets

CONSTANTS
  Users, Comments,
  FirstComments,  \* those the stream has from the start
  Tasks,          \* requests that may be in progress at once
  MaxJoins,       \* bound on the joins that commit
  None            \* no user, or no comment

ASSUME StreamAssumption ==
  /\ IsFiniteSet(Users)
  /\ Users \cap Comments = {}
  /\ FirstComments \subseteq Comments
  /\ None \notin Users \cup Comments
  /\ MaxJoins \in Nat

VARIABLES
  status,                                   \* live_streams.status
  viewer_count, peak_viewers, total_views,  \* counters of live_streams
  viewers,     \* users with a row in live_stream_viewers
  active,      \* those whose row has is_active
  comments,    \* rows of live_stream_comments
  flagged,     \* those with is_pinned
  pinned,      \* live_streams.pinned_comment_id
  joins,       \* how many joins have committed: no state of the code
  tx           \* the transaction of each task

counters == <<viewer_count, peak_viewers, total_views, joins>>
pins == <<flagged, pinned>>
vars == <<status, counters, viewers, active, comments, pins, tx>>

Ops == {"start", "end", "join", "leave", "pin", "unpin"}

\* subject: the user or comment of the request; todo and held: the rows a statement
\* has yet to lock and those the transaction holds; count, views and peak: what the
\* transaction read.
Idle == [op |-> "idle", at |-> "idle", subject |-> None, todo |-> {}, held |-> {},
         count |-> 0, views |-> 0, peak |-> 0]

TxState == [op : Ops \cup {"idle"}, at : {"idle", "rows", "stream", "commit"},
            subject : Users \cup Comments \cup {None},
            todo : SUBSET (Users \cup Comments), held : SUBSET (Users \cup Comments),
            count : Nat, views : Nat, peak : Nat]

Become(t, state) == tx' = [tx EXCEPT ![t] = state]

Init ==
  /\ status = "created"
  /\ viewer_count = 0 /\ peak_viewers = 0 /\ total_views = 0 /\ joins = 0
  /\ viewers = {} /\ active = {}
  /\ comments = FirstComments /\ flagged = {} /\ pinned = None
  /\ tx = [t \in Tasks |-> Idle]

----------------------------------------------------------------------------
(* Requests.  Those of the host that fail the host check change nothing.   *)

Begin(t, op, subject, rows) ==
  /\ tx[t] = Idle
  /\ Become(t, [Idle EXCEPT !.op = op, !.at = "rows", !.subject = subject, !.todo = rows])
  /\ UNCHANGED <<status, counters, viewers, active, comments, pins>>

\* start_stream reads the status first, and updates the row in a second statement.
Start(t) == status # "ended" /\ Begin(t, "start", None, {})

\* The rows that were active when the statement began.
End(t) == Begin(t, "end", None, active)

\* The upsert waits for whoever inserted or updated the user's row.
Join(t, u) ==
  /\ joins + Cardinality({t2 \in Tasks : tx[t2].op = "join"}) < MaxJoins
  /\ Begin(t, "join", u, {u})

\* The update sees the user's row only if it was committed.
Leave(t, u) == Begin(t, "leave", u, {u} \cap viewers)

\* The first statement narrowed to the comment that is pinned.
WrongPin(t, c) == Begin(t, "pin", c, flagged \cup ({c} \cap comments))

\* The first statement writes is_pinned of every comment of the stream.  Nobody
\* looks whether c is one of them.
Pin(t, c) == Begin(t, "pin", c, comments)

Unpin(t) == Begin(t, "unpin", None, comments)

\* One statement, and a row whose id nobody knows yet.
AddComment(c) ==
  /\ c \notin comments \cup {pinned}
  /\ \A t \in Tasks : tx[t].subject # c
  /\ comments' = comments \cup {c}
  /\ UNCHANGED <<status, counters, viewers, active, pins, tx>>

----------------------------------------------------------------------------
(* Statements.                                                             *)

RowFree(t, r) == \A t2 \in Tasks \ {t} : r \notin tx[t2].held

LockRow(t, r) ==
  /\ tx[t].at = "rows"
  /\ r \in tx[t].todo
  /\ RowFree(t, r)
  /\ Become(t, [tx[t] EXCEPT !.todo = @ \ {r}, !.held = @ \cup {r}])
  /\ UNCHANGED <<status, counters, viewers, active, comments, pins>>

\* A leave that takes one from the number instead of counting again.
WrongCount(t) ==
  /\ tx[t].at = "rows"
  /\ tx[t].todo = {}
  /\ tx[t].op \in {"join", "leave"}
  /\ Become(t, [tx[t] EXCEPT !.at = "stream", !.count =
       IF tx[t].op = "join" THEN Cardinality(active \cup tx[t].held) ELSE Cardinality(active) - 1])
  /\ UNCHANGED <<status, counters, viewers, active, comments, pins>>

\* SELECT COUNT(*): committed rows, and the transaction's own.
Count(t) ==
  /\ tx[t].at = "rows"
  /\ tx[t].todo = {}
  /\ tx[t].op \in {"join", "leave"}
  /\ Become(t, [tx[t] EXCEPT !.at = "stream", !.count =
       Cardinality(IF tx[t].op = "join" THEN active \cup tx[t].held ELSE active \ tx[t].held)])
  /\ UNCHANGED <<status, counters, viewers, active, comments, pins>>

\* total_views read without the row's lock, as the number of viewers is.
WrongStreamFree(t) == TRUE

\* A join that locks the stream FOR SHARE when it begins, and cannot pass another.
WrongSharedStreamFree(t) ==
  \A t2 \in Tasks \ {t} : tx[t2].at # "commit" /\ tx[t2].op # "join"

\* The key of the row does not change: the foreign key checks of a join do not wait for it.
StreamFree(t) == \A t2 \in Tasks \ {t} : tx[t2].at # "commit"

\* UPDATE live_streams: the row is locked, and computed from its latest version.
UpdateStream(t) ==
  /\ \/ tx[t].at = "stream"
     \/ tx[t].at = "rows" /\ tx[t].todo = {} /\ tx[t].op \notin {"join", "leave"}
  /\ StreamFree(t)
  /\ Become(t, [tx[t] EXCEPT !.at = "commit", !.views = total_views, !.peak = peak_viewers])
  /\ UNCHANGED <<status, counters, viewers, active, comments, pins>>

Finishes(t, op) == tx[t].op = op /\ tx[t].at = "commit" /\ Become(t, Idle)

CommitStart(t) ==
  /\ Finishes(t, "start")
  /\ status' = "live"
  /\ UNCHANGED <<counters, viewers, active, comments, pins>>

CommitEnd(t) ==
  /\ Finishes(t, "end")
  /\ status' = "ended"
  /\ active' = active \ tx[t].held
  /\ viewer_count' = 0
  /\ UNCHANGED <<peak_viewers, total_views, joins, viewers, comments, pins>>

\* The peak taken from the views, which count a user once for every join.
WrongPeak(t) == IF tx[t].peak > tx[t].views + 1 THEN tx[t].peak ELSE tx[t].views + 1

\* GREATEST(peak_viewers, $1)
Peak(t) == IF tx[t].peak > tx[t].count THEN tx[t].peak ELSE tx[t].count

CommitJoin(t) ==
  /\ Finishes(t, "join")
  /\ viewers' = viewers \cup {tx[t].subject}
  /\ active' = active \cup {tx[t].subject}
  /\ viewer_count' = tx[t].count
  /\ peak_viewers' = Peak(t)
  /\ total_views' = tx[t].views + 1
  /\ joins' = joins + 1
  /\ UNCHANGED <<status, comments, pins>>

CommitLeave(t) ==
  /\ Finishes(t, "leave")
  /\ active' = active \ tx[t].held
  /\ viewer_count' = tx[t].count
  /\ UNCHANGED <<status, peak_viewers, total_views, joins, viewers, comments, pins>>

\* The second statement finds the comment among those of the stream, or no row;
\* pinned_comment_id is written either way, and no foreign key stands behind it.
CommitPin(t) ==
  /\ Finishes(t, "pin")
  /\ flagged' = (flagged \ tx[t].held) \cup ({tx[t].subject} \cap comments)
  /\ pinned' = tx[t].subject
  /\ UNCHANGED <<status, counters, viewers, active, comments>>

CommitUnpin(t) ==
  /\ Finishes(t, "unpin")
  /\ flagged' = flagged \ tx[t].held
  /\ pinned' = None
  /\ UNCHANGED <<status, counters, viewers, active, comments>>

Rollback(t) ==
  /\ tx[t] # Idle
  /\ Become(t, Idle)
  /\ UNCHANGED <<status, counters, viewers, active, comments, pins>>

----------------------------------------------------------------------------
Request(t) ==
  \/ Start(t) \/ End(t) \/ Unpin(t)
  \/ \E u \in Users : Join(t, u) \/ Leave(t, u)
  \/ \E c \in Comments : Pin(t, c)

Statement(t) ==
  \/ \E r \in Users \cup Comments : LockRow(t, r)
  \/ Count(t) \/ UpdateStream(t)
  \/ CommitStart(t) \/ CommitEnd(t) \/ CommitJoin(t) \/ CommitLeave(t)
  \/ CommitPin(t) \/ CommitUnpin(t)

Next ==
  \/ \E t \in Tasks : Request(t) \/ Statement(t) \/ Rollback(t)
  \/ \E c \in Comments : AddComment(c)

Spec == Init /\ [][Next]_vars

----------------------------------------------------------------------------
(* Properties.                                                             *)

TypeOK ==
  /\ status \in {"created", "live", "ended"}
  /\ viewer_count \in Nat /\ peak_viewers \in Nat /\ total_views \in Nat /\ joins \in Nat
  /\ viewers \in SUBSET Users /\ active \in SUBSET viewers
  /\ comments \in SUBSET Comments /\ flagged \in SUBSET comments
  /\ pinned \in Comments \cup {None}
  /\ tx \in [Tasks -> TxState]

\* No view is lost: total_views is the number of joins that committed, although
\* joins overlap and some are rolled back between their statements (join_stream).
ViewsCounted == total_views = joins

\* What the counters may exaggerate: neither the current nor the peak audience
\* exceeds the number of users who ever watched, and that does not exceed the views.
CountsWithinAudience ==
  /\ viewer_count <= Cardinality(viewers)
  /\ peak_viewers <= Cardinality(viewers)
  /\ Cardinality(viewers) <= total_views

\* pinned_comment_id and the is_pinned flags agree: the comment the column names,
\* if the stream has it, is flagged, and of the comments that are older than every
\* pin and unpin no other is: these exclude each other because each writes every
\* comment it sees.  (A comment that is added and pinned while another pin is
\* between its snapshot and its locks keeps its flag; and the column may name what
\* is no comment of the stream, which leaves no flag.)
PinsAgree ==
  /\ pinned \in comments => pinned \in flagged
  /\ flagged \cap FirstComments \subseteq {pinned}

\* The row of the stream has one writer.
StreamExclusive ==
  \A t1, t2 \in Tasks : tx[t1].at = "commit" /\ tx[t2].at = "commit" => t1 = t2

\* What a transaction has read and locked, against what is committed.
Consistent(t) ==
  /\ tx[t].at = "commit" => tx[t].views = total_views /\ tx[t].peak = peak_viewers
  /\ tx[t].op = "join" =>
       /\ tx[t].subject \in Users
       /\ tx[t].held \cup tx[t].todo \subseteq {tx[t].subject}
       /\ tx[t].count <= Cardinality(viewers \cup {tx[t].subject})
  /\ tx[t].op = "leave" => tx[t].count <= Cardinality(viewers)
  /\ tx[t].op \in {"pin", "unpin"} => FirstComments \subseteq tx[t].held \cup tx[t].todo
  /\ tx[t].op = "pin" => tx[t].subject \in Comments
  /\ tx[t].at \in {"stream", "commit"} => tx[t].todo = {}

\* The inductive invariant behind the properties above.
IInv ==
  /\ TypeOK /\ StreamExclusive /\ FirstComments \subseteq comments
  /\ \A t \in Tasks : Consistent(t)
  /\ ViewsCounted /\ CountsWithinAudience /\ PinsAgree

\* A statement that locks several rows, in an order the plan chooses.
LocksSeveral(t) == tx[t].op \in {"end", "pin", "unpin"} /\ tx[t].todo # {}

CanGoOn(t) ==
  /\ \A r \in tx[t].todo : RowFree(t, r)
  /\ tx[t].at = "stream" \/ tx[t].todo = {} => StreamFree(t)

\* Transactions lock rows of viewers and comments before the row of the stream, so
\* that only two statements that both lock several rows can wait for each other.
WaitsResolve ==
  (\E t \in Tasks : tx[t] # Idle)
    /\ (\A t1, t2 \in Tasks : LocksSeveral(t1) /\ LocksSeveral(t2) => t1 = t2)
  => \E t \in Tasks : tx[t] # Idle /\ CanGoOn(t)

\* A stream that has ended stays ended ("Cannot restart an ended live stream").
EndedIsFinal == [][status = "ended" => status' = "ended"]_vars
=============================================================================
