----------------------------- MODULE MCLiveRoom -----------------------------
EXTENDS LiveRoom, TLC

CONSTANTS host, guest, h1, g1, g2

\* The guest has two sockets.
OwnerOf == h1 :> host @@ g1 :> guest @@ g2 :> guest

\* The tasks are interchangeable, and so are the two sockets of the guest.
Symmetric == Permutations(Tasks) \cup Permutations({g1, g2})
=============================================================================
