---------------------------- MODULE MCWsSession ----------------------------
EXTENDS WsSession, TLC

CONSTANTS alice, bob, phone, laptop, tablet

\* alice has two devices, and reconnects with the one after the other is gone.
MCOwner == (phone :> alice) @@ (laptop :> alice) @@ (tablet :> bob)

MCFriends == (alice :> {bob}) @@ (bob :> {alice})
=============================================================================
