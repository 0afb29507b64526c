---------------------------- MODULE MCFeedPost ----------------------------
EXTENDS FeedPost, TLC

\* Users, comments and tasks are interchangeable: no definition names one of them.
Symmetric == Permutations(Users) \cup Permutations(Comments) \cup Permutations(Tasks)
=============================================================================
