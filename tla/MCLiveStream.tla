---------------------------- MODULE MCLiveStream ----------------------------
EXTENDS LiveStream, TLC

CONSTANTS hello

\* Users and tasks are interchangeable: no definition names one of them.
Symmetric == Permutations(Users) \cup Permutations(Tasks)
=============================================================================
