------------------------ MODULE MCConversationJournal ------------------------
(* A small instance of the journal: three messages of the peer, one forced  *)
(* reply, two runs.  The role of an event only enables claim_injection,     *)
(* whose effect does not depend on it, so that messages of one role reach   *)
(* every state that a mix of messages and deletions reaches.                *)
EXTENDS ConversationJournal, TLC

CONSTANTS e1, e2, e3

MCEventIds == {e1, e2, e3}
MCRoleOf == [e \in EventIds |-> "peer"]
Symmetric == Permutations(Runs) \cup Permutations(EventIds)
=============================================================================
