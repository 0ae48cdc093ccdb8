------------------------------- MODULE AgentGraph -------------------------------
(***************************************************************************)
(* The conversation graph of one run (build_agent) and its tools: which    *)
(* node follows which, what a node does outside of the graph, and what of  *)
(* it the checkpoint holds when the process dies or the run pauses.        *)
(*                                                                         *)
(* A checkpoint is written while the next node already runs, so a crash    *)
(* loses the effects of the current node on the state, or those of the     *)
(* node before as well.  What was sent or claimed stays.  The model may    *)
(* answer anything; its answers differ in whether they have text and in    *)
(* which calls they make.                                                  *)
(***************************************************************************)
EXTENDS Integers, FiniteSets

CONSTANTS Events,           \* input that may arrive while the run works
          Steer,            \* active_turn_timing = "inject_at_safe_points"
          Followups,        \* the tool wait_before_followup is offered
          ModelLimit, ToolLimit, RecursionLimit, WaitLimit,
          MaxCrashes

ASSUME GraphAssumption ==
  /\ {Steer, Followups} \subseteq BOOLEAN
  /\ {ModelLimit, ToolLimit, RecursionLimit, WaitLimit, MaxCrashes} \subseteq Nat

VARIABLES
  g,          \* DiskovodAgentState with the node to run next
  saved,      \* the checkpoint before the node that ran last
  claimed,    \* events claimed for the run
  applied,    \* events that completed work has made context
  delivered,  \* AI messages whose text Discord accepted
  noticed,    \* AI messages for which the localized fallback was sent
  reacted,    \* a reaction was accepted
  force,      \* the turn is a forced reply
  forced,     \* context.force_reply of this invocation
  resumed,    \* this invocation goes on after a pause
  phase,      \* "running", "paused", "cut" or "over"
  outcome,    \* how the run ended
  steps,      \* supersteps of this invocation
  answers,    \* history: calls of the model
  overlooked, \* history: words of the owner behind a malformed escalation
  crashes

effects == <<claimed, applied, delivered, noticed, reacted>>
invocation == <<force, forced, resumed>>
world == <<answers, overlooked, crashes>>
vars == <<g, saved, effects, invocation, phase, outcome, steps, world>>

Calls == {"none", "react", "reacts", "work", "wait", "escalate", "malformed", "mixed"}
Size == [c \in Calls |-> CASE c = "none" -> 0 [] c \in {"reacts", "mixed"} -> 2 [] OTHER -> 1]
Reactions == {"react", "reacts"}
NoReply == [id |-> 0, text |-> FALSE, calls |-> "none"]
Visible == delivered # {} \/ noticed # {} \/ reacted

Init ==
  /\ g = [next |-> "input", reply |-> NoReply, models |-> 0, tools |-> 0, waits |-> 0,
          continued |-> FALSE, asked |-> FALSE, said |-> {}, seen |-> {}, read |-> {}]
  /\ saved = g
  /\ claimed = {} /\ applied = {} /\ delivered = {} /\ noticed = {} /\ reacted = FALSE
  /\ force \in BOOLEAN /\ forced = force /\ resumed = FALSE
  /\ phase = "running" /\ outcome = "none" /\ steps = 0 /\ answers = 0 /\ overlooked = {}
  /\ crashes = 0

At(node) == phase = "running" /\ g.next = node /\ steps < RecursionLimit
Becomes(state) == g' = state /\ saved' = g /\ steps' = steps + 1 /\ UNCHANGED <<phase, outcome>>
To(node) == Becomes([g EXCEPT !.next = node])

(* journal.fail and journal.release: claims that are not context go back.  *)
Over(how) == phase' = "over" /\ outcome' = how
Returned == claimed' = applied
Raise ==
  /\ Over("failed") /\ Returned
  /\ UNCHANGED <<g, saved, steps, applied, delivered, noticed, reacted, invocation>>

-----------------------------------------------------------------------------
(* input_node, _inject_pending: new input is claimed, and input claimed    *)
(* earlier of which the state knows nothing is added again.                *)
NewlyClaimed(known, claims) == known \cup (claims \ claimed)
Recovered(known, claims) == known \cup claims
Input ==
  /\ At("input")
  /\ IF Steer \/ g.continued
     THEN \E new \in SUBSET (Events \ claimed) :
            /\ claimed' = claimed \cup new
            /\ Becomes([g EXCEPT !.next = "summarize", !.seen = Recovered(@, claimed \cup new)])
     ELSE To("summarize") /\ UNCHANGED claimed
  /\ UNCHANGED <<applied, delivered, noticed, reacted, invocation, world>>

Summarize ==
  /\ At("summarize") /\ To("model")
  /\ UNCHANGED <<effects, invocation, world>>

(* model_node: the counters are those of the logical request, whichever    *)
(* invocation of the graph it is in.  A call is given what the state has   *)
(* seen, earlier parts of it as their summary; read is what the last call  *)
(* was given.                                                              *)
CountedPerPass == IF resumed /\ steps < 4 THEN 0 ELSE g.models
Counted == g.models
CallAndSend ==
  /\ At("model") /\ Counted < ModelLimit
  /\ answers' = answers + 1 /\ delivered' = delivered \cup {answers'}
  /\ Becomes([g EXCEPT !.next = "end", !.models = @ + 1, !.said = @ \cup {answers'}])
  /\ UNCHANGED <<claimed, applied, noticed, reacted, invocation, overlooked, crashes>>
CallModel ==
  /\ At("model")
  /\ IF Counted >= ModelLimit THEN Raise /\ UNCHANGED answers
     ELSE /\ answers' = answers + 1
          /\ \E text \in BOOLEAN, calls \in Calls :
               /\ calls = "wait" => Followups
               /\ Becomes([g EXCEPT !.next = "validate", !.models = Counted + 1,
                                    !.reply = [id |-> answers', text |-> text, calls |-> calls],
                                    !.said = @ \cup {answers'}, !.read = g.seen])
          /\ UNCHANGED <<effects, invocation>>
  /\ UNCHANGED <<overlooked, crashes>>

(* validate_node: a pause or an escalation comes alone, and a forced reply *)
(* has text unless a tool other than a reaction leads on.                  *)
Silent == ~g.reply.text /\ g.reply.calls = "none"
SilentReply == ~g.reply.text /\ g.reply.calls \in {"none"} \cup Reactions
Refused(silent) == g.tools + Size[g.reply.calls] > ToolLimit \/ g.reply.calls = "mixed"
                   \/ (forced /\ silent)
Validate ==
  /\ At("validate")
  /\ IF Refused(SilentReply) THEN Raise
     ELSE /\ Becomes([g EXCEPT !.tools = @ + Size[g.reply.calls],
                               !.next = IF g.reply.calls = "malformed" THEN "malformed" ELSE "publish"])
          /\ UNCHANGED <<effects, invocation>>
  /\ UNCHANGED world

(* publish_node: a delivery that is not accepted ends the run.  A message  *)
(* is sent under its id, so that a second pass through the node finds the  *)
(* action of the first.                                                    *)
AfterPublication == IF g.reply.calls = "none" THEN "end" ELSE "tools"
Publish ==
  /\ At("publish")
  /\ \/ /\ To(AfterPublication)
        /\ delivered' = IF g.reply.text THEN delivered \cup {g.reply.id} ELSE delivered
        /\ UNCHANGED <<claimed, applied, noticed, reacted, invocation>>
     \/ g.reply.text /\ g.reply.id \notin delivered /\ Raise
  /\ UNCHANGED world

-----------------------------------------------------------------------------
(* The tools.  interrupt() saves the state and ends the invocation, whose  *)
(* work is then complete; when the graph is resumed it returns the answer. *)
Interrupt ==
  /\ g' = [g EXCEPT !.asked = TRUE] /\ saved' = g' /\ steps' = steps
  /\ phase' = "paused" /\ applied' = claimed
  /\ UNCHANGED <<claimed, delivered, reacted, invocation, outcome>>

UseTools ==
  /\ At("tools") /\ g.reply.calls \in {"work", "reacts"}
  /\ To("input")
  /\ reacted' = (reacted \/ g.reply.calls = "reacts")
  /\ UNCHANGED <<claimed, applied, delivered, noticed, invocation, world>>

(* A reaction that was accepted and stands alone ends the graph.           *)
React ==
  /\ At("tools") /\ g.reply.calls = "react"
  /\ \/ To("end") /\ reacted' = TRUE
     \/ To("input") /\ UNCHANGED reacted
  /\ UNCHANGED <<claimed, applied, delivered, noticed, invocation, world>>

Wait ==
  /\ At("tools") /\ g.reply.calls = "wait" /\ ~g.asked
  /\ IF g.waits >= WaitLimit
     THEN To("input") /\ UNCHANGED <<effects, invocation>>
     ELSE Interrupt /\ UNCHANGED noticed
  /\ UNCHANGED world

(* Without text of its own an escalation is announced by the fallback.     *)
EscalateUnannounced ==
  /\ At("tools") /\ g.reply.calls = "escalate" /\ ~g.asked
  /\ Interrupt /\ UNCHANGED <<noticed, world>>
Escalate ==
  /\ At("tools") /\ g.reply.calls = "escalate" /\ ~g.asked
  /\ \/ /\ noticed' = IF g.reply.text THEN noticed ELSE noticed \cup {g.reply.id}
        /\ Interrupt
     \/ /\ ~g.reply.text /\ To("input")
        /\ UNCHANGED <<effects, invocation>>
  /\ UNCHANGED world

(* malformed_escalation_node, which leads to the end.                      *)
Malformed ==
  /\ At("malformed") /\ ~g.asked
  /\ \/ noticed' = noticed \cup {g.reply.id} /\ Interrupt
     \/ g.reply.id \notin noticed /\ Raise
  /\ UNCHANGED world

Answered ==
  /\ phase = "running" /\ g.asked /\ steps < RecursionLimit
  /\ Becomes([g EXCEPT !.asked = FALSE,
                       !.waits = IF g.reply.calls = "wait" THEN @ + 1 ELSE @,
                       !.continued = @ \/ g.reply.calls = "wait",
                       !.next = IF @ = "malformed" THEN "end" ELSE "input"])
  /\ UNCHANGED <<effects, invocation, world>>

-----------------------------------------------------------------------------
(* Around the graph: it ends, a node raises or is cancelled, the recursion *)
(* limit is met; the run is resumed by its timer or by the owner, whose    *)
(* words are claimed and written into the state (resume_escalation).       *)
End ==
  /\ phase = "running" /\ g.next = "end"
  /\ Over("completed") /\ applied' = claimed /\ saved' = g
  /\ UNCHANGED <<g, steps, claimed, delivered, noticed, reacted, invocation, world>>
Stop ==
  /\ phase = "running" /\ g.next # "end"
  /\ Raise /\ UNCHANGED world

ResumeWait ==
  /\ phase = "paused" /\ g.reply.calls = "wait"
  /\ phase' = "running" /\ steps' = 0 /\ forced' = FALSE /\ resumed' = TRUE
  /\ UNCHANGED <<g, saved, effects, force, outcome, world>>
ResumeEscalation ==
  /\ phase = "paused" /\ g.reply.calls # "wait"
  /\ phase' = "running" /\ steps' = 0 /\ forced' = FALSE /\ resumed' = TRUE
  /\ \E words \in SUBSET (Events \ claimed) :
       /\ claimed' = claimed \cup words
       /\ g' = [g EXCEPT !.seen = @ \cup words]
       /\ overlooked' = IF g.next = "malformed" THEN overlooked \cup words ELSE overlooked
  /\ saved' = g'
  /\ UNCHANGED <<applied, delivered, noticed, reacted, force, outcome, answers, crashes>>

(* A crash: the next start settles a first pass by what it has shown; a    *)
(* resumed one goes on from the checkpoint.                                *)
Crash ==
  /\ phase = "running" /\ crashes < MaxCrashes /\ crashes' = crashes + 1
  /\ \E state \in {g, saved} : g' = state /\ saved' = state
  /\ IF resumed THEN phase' = "cut" /\ UNCHANGED <<outcome, claimed, applied>>
     ELSE IF Visible THEN Over("reconciled") /\ applied' = claimed /\ UNCHANGED claimed
     ELSE Over("requeued") /\ Returned /\ UNCHANGED applied
  /\ UNCHANGED <<delivered, noticed, reacted, invocation, steps, answers, overlooked>>
Continue ==
  /\ phase = "cut" /\ phase' = "running" /\ steps' = 0
  /\ UNCHANGED <<g, saved, effects, invocation, outcome, world>>

Node == \/ Input \/ Summarize \/ CallModel \/ Validate \/ Publish \/ UseTools \/ React \/ Wait
        \/ Escalate \/ Malformed \/ Answered
Next == Node \/ End \/ Stop \/ ResumeWait \/ ResumeEscalation \/ Crash \/ Continue
Spec == Init /\ [][Next]_vars

-----------------------------------------------------------------------------
Nodes == {"input", "summarize", "model", "validate", "publish", "tools", "malformed", "end"}
States == [next : Nodes, reply : [id : Nat, text : BOOLEAN, calls : Calls], models : 0..ModelLimit,
           tools : 0..ToolLimit, waits : 0..WaitLimit, continued : BOOLEAN, asked : BOOLEAN,
           said : SUBSET Nat, seen : SUBSET Events, read : SUBSET Events]
Flags == reacted \in BOOLEAN /\ force \in BOOLEAN /\ forced \in BOOLEAN /\ resumed \in BOOLEAN
TypeOK ==
  /\ Flags
  /\ g \in States /\ saved \in States
  /\ claimed \subseteq Events /\ applied \subseteq Events
  /\ delivered \subseteq Nat /\ noticed \subseteq Nat
  /\ phase \in {"running", "paused", "cut", "over"}
  /\ outcome \in {"none", "completed", "failed", "reconciled", "requeued"}
  /\ steps \in 0..RecursionLimit /\ answers \in Nat /\ crashes \in 0..MaxCrashes
  /\ overlooked \subseteq Events

(* One logical request keeps its budget of answers through pauses, resumes *)
(* and restarts.                                                           *)
AnswersBounded == Cardinality(g.said) <= ModelLimit

(* What the assistant has said in the chat is in every checkpoint a crash  *)
(* may fall back to: it never denies its own message or sends another one  *)
(* in its place.                                                           *)
SpokenIsRemembered == delivered \cup noticed \subseteq saved.said

(* A run that waits for the owner has told the chat so.                    *)
OwnerIsAnnounced ==
  phase = "paused" /\ g.reply.calls \in {"escalate", "malformed"} =>
    g.reply.id \in delivered \cup noticed

(* Input that completed work makes context was given to a call of the      *)
(* model that the run still knows: nothing claimed in a node that a crash  *)
(* undid, and nothing that arrived behind the last call, is taken for      *)
(* read.  The words with which the owner answers a malformed escalation    *)
(* are: the graph ends there without another call.                         *)
ContextWasSeen == outcome # "reconciled" => applied \subseteq g.read \cup overlooked
=============================================================================
