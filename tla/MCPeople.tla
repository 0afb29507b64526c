------------------------------ MODULE MCPeople ------------------------------
(***************************************************************************)
(* Sessions, friend requests, stories and the host's side of a live        *)
(* stream, one beside the other.  As in MCMessaging, part names the one    *)
(* whose requests arrive.  (Story has the accepted friendships of its own  *)
(* as a variable, which is free to change at any time.)                    *)
(***************************************************************************)
EXTENDS AuthTokens, Friends, Story, LiveHost, TLC

VARIABLE part

vars == <<part, authVars, friendVars, storyVars, hostVars>>

Init ==
  /\ part \in {"tokens", "friends", "story", "live"}
  /\ AuthInit /\ FriendInit /\ StoryInit /\ LiveHostInit

Only(name, others) == part = name /\ UNCHANGED <<part, others>>

Next ==
  \/ AuthNext /\ Only("tokens", <<friendVars, storyVars, hostVars>>)
  \/ FriendNext /\ Only("friends", <<authVars, storyVars, hostVars>>)
  \/ StoryNext /\ Only("story", <<authVars, friendVars, hostVars>>)
  \/ LiveHostNext /\ Only("live", <<authVars, friendVars, storyVars>>)

Spec == Init /\ [][Next]_vars

\* The rows of the four services, and what their requests keep, are well typed.
PeopleTypeOK == AuthTypeOK /\ FriendTypeOK /\ StoryTypeOK /\ LiveHostTypeOK

Symmetry == Permutations(Users) \cup Permutations(Tasks)
=============================================================================
