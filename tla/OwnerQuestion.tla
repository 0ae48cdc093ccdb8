---------------------------- MODULE OwnerQuestion ----------------------------
(***************************************************************************)
(* What an escalation promises the owner and the chat, without requests,   *)
(* checkpoints or tasks: a question is put once, it leaves the inbox by    *)
(* one verdict, and, when a run is suspended on it, only after that run    *)
(* went on with an answer, to its end or to its next pause; while it is    *)
(* open no turn of the chat is taken.                                      *)
(***************************************************************************)
CONSTANT Turns         \* turns of the chat that may have to wait

VARIABLES question,    \* "unput", "open" or the verdict
          suspends,    \* a run is suspended on it
          answered,    \* that run went on with an answer
          taken        \* the turns a task took

inbox == <<question, suspends, answered, taken>>

Verdicts == {"resolved", "dismissed"}

Init ==
  /\ suspends \in BOOLEAN /\ question = IF suspends THEN "unput" ELSE "open"
  /\ answered = FALSE /\ taken = {}

Put ==
  /\ question = "unput" /\ question' = "open"
  /\ UNCHANGED <<suspends, answered, taken>>
GoOn ==
  /\ question = "open" /\ suspends /\ answered' = TRUE
  /\ UNCHANGED <<question, suspends, taken>>
Close(verdict) ==
  /\ question = "open"
  /\ suspends => answered
  /\ question' = verdict
  /\ UNCHANGED <<suspends, answered, taken>>

(* Turns that wait are taken, any of them at once.                         *)
Take(some) ==
  /\ question # "open" /\ taken' = taken \cup some
  /\ UNCHANGED <<question, suspends, answered>>

Next ==
  \/ Put \/ GoOn
  \/ \E verdict \in Verdicts : Close(verdict)
  \/ \E some \in SUBSET Turns : Take(some)
Spec == Init /\ [][Next]_inbox
=============================================================================
