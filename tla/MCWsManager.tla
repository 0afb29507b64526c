---------------------------- MODULE MCWsManager ----------------------------
EXTENDS WsManager, TLC

CONSTANTS alice, bob, phone, laptop

\* alice has two devices, so that one can go while the other stays; bob is a
\* viewer who joins and leaves by HTTP.
MCOwner == (phone :> alice) @@ (laptop :> alice)

\* One user with one device, whose last connection is therefore every connection.
MCOneOwner == phone :> alice

\* Streams and tasks are interchangeable: no definition names one of them.
Symmetric == Permutations(Streams) \cup Permutations(Tasks)
=============================================================================
