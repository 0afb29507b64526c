---------------------------- MODULE MCMessaging ----------------------------
(***************************************************************************)
(* Conversations, calls, devices and the reactions to a comment, one       *)
(* beside the other.  No statement of one writes a table that another of   *)
(* these modules models, so that nothing is lost by exploring the          *)
(* interleavings of one at a time: part names the one whose requests       *)
(* arrive.                                                                 *)
(***************************************************************************)
EXTENDS Chat, Calls, Devices, PostComment, TLC

VARIABLE part

vars == <<part, chatVars, callVars, deviceVars, commentVars>>

Init ==
  /\ part \in {"chat", "calls", "devices", "comments"}
  /\ ChatInit /\ CallInit /\ DeviceInit /\ CommentInit

Only(name, others) == part = name /\ UNCHANGED <<part, others>>

Next ==
  \/ ChatNext /\ Only("chat", <<callVars, deviceVars, commentVars>>)
  \/ CallNext /\ Only("calls", <<chatVars, deviceVars, commentVars>>)
  \/ DeviceNext /\ Only("devices", <<chatVars, callVars, commentVars>>)
  \/ CommentNext /\ Only("comments", <<chatVars, callVars, deviceVars>>)

Spec == Init /\ [][Next]_vars

\* The rows of the four parts, and what their requests keep, are well typed.
MessagingTypeOK == ChatTypeOK /\ CallTypeOK /\ DeviceTypeOK /\ CommentTypeOK

Symmetry == Permutations(Users) \cup Permutations(Tasks) \cup Permutations(Handles)
=============================================================================
