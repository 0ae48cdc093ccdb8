--------------------------- MODULE MCAgentRuntime ---------------------------
(* The runtime with one message of the peer and two run ids.               *)
EXTENDS AgentRuntime, TLC

CONSTANTS e1, r1, r2

MCEventIds == {e1}
MCRoleOf == (e1 :> "peer")
MCRuns == {r1, r2}
=============================================================================
