-------------------------- MODULE MCEngagementWindow --------------------------
(* Four messages: one invokes the assistant, one is the owner's, the       *)
(* other two are plain messages of the peer.                               *)
EXTENDS EngagementWindow, TLC

CONSTANTS m1, m2, m3, m4
MCMessages == {m1, m2, m3, m4}
MCInvoking == {m1}
MCOwner == {m2}
MCTwo == {m1, m2}
MCPeer == {"peer"}
PlainMessages == Permutations({m3, m4})
=============================================================================
