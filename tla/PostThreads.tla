---------------------------- MODULE PostThreads ----------------------------
(***************************************************************************)
(* What the feed promises of the comments on a post: a forest of two tiers *)
(* that each comment and each delete changes in one step.  A comment       *)
(* appears at the top or under a comment that is at the top then; a delete *)
(* takes a comment with every reply it has then, and nothing else; nothing *)
(* that was deleted comes back.  FeedPost needs several statements for     *)
(* each, and is shown to implement this specification.                     *)
(***************************************************************************)
CONSTANTS Comments, None

VARIABLES
  comments,  \* those that exist
  parent,    \* of each comment; None at the top
  gone       \* those that were deleted

thread == <<comments, parent, gone>>

Init ==
  /\ comments = {} /\ gone = {}
  /\ parent = [c \in Comments |-> None]

Top(c) == c \in comments /\ parent[c] = None

Thread(c) == {c} \cup {r \in comments : parent[r] = c}

Comment(c, root) ==
  /\ c \notin comments \cup gone
  /\ root = None \/ Top(root)
  /\ comments' = comments \cup {c}
  /\ parent' = [parent EXCEPT ![c] = root]
  /\ UNCHANGED gone

Delete(c) ==
  /\ c \in comments
  /\ comments' = comments \ Thread(c)
  /\ gone' = gone \cup Thread(c)
  /\ UNCHANGED parent

Next ==
  \/ \E c \in Comments, root \in Comments \cup {None} : Comment(c, root)
  \/ \E c \in Comments : Delete(c)

Spec == Init /\ [][Next]_thread
=============================================================================
