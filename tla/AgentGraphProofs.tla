---------------------------- MODULE AgentGraphProofs ----------------------------
(***************************************************************************)
(* What the graph of a run promises about its messages, the owner, the     *)
(* budget of answers and the input it reads, for any limits, events and    *)
(* number of crashes.  A crash goes back to the checkpoint, so what holds  *)
(* of the state must hold of the checkpoint behind it as well.             *)
(***************************************************************************)
EXTENDS AgentGraph, FiniteSetTheorems, TLAPS

Chosen == {"validate", "publish", "tools", "malformed"}    \* nodes between two answers

(* A state the graph may go on from: its last answer is among those it     *)
(* knows while it is being carried out, and its text was sent before the   *)
(* tools run.                                                              *)
Sane(s) ==
  /\ s \in States
  /\ IsFiniteSet(s.said) /\ Cardinality(s.said) <= s.models
  /\ s.next \in Chosen => s.reply.id \in s.said
  /\ s.asked => s.next \in {"tools", "malformed"} /\ s.reply.calls \in {"wait", "escalate", "malformed"}
  /\ s.next = "malformed" => s.reply.calls = "malformed"
  /\ s.asked /\ s.reply.calls = "wait" => s.waits < WaitLimit
  /\ s.next = "tools" /\ s.reply.text => s.reply.id \in delivered

(* Claimed input is in the state, or the node that adds it comes next; and *)
(* from an answer of the model to the next input there is nothing in the   *)
(* state that the answer was not given, but for the overlooked words.      *)
UpToDate(s) == s.next \in Chosen \cup {"end"} /\ ~(s.asked /\ s.next = "tools")
Reads(s) ==
  /\ applied \subseteq s.read \cup overlooked /\ s.read \subseteq s.seen
  /\ UpToDate(s) => s.seen \subseteq s.read \cup overlooked
  /\ claimed \subseteq s.seen \/ (s.next = "input" /\ (Steer \/ s.continued))

(* A node leaves the state so: the answer it comes with was given all, or  *)
(* is the one before.                                                      *)
Informed ==
  /\ g'.read \in {g.read, g.seen}
  /\ UpToDate(g)' => g'.seen = g.seen /\ (g'.read = g.seen \/ UpToDate(g))

Forward == saved.said \subseteq g.said

Reading == IF phase = "over" THEN ContextWasSeen
           ELSE /\ outcome = "none" /\ Reads(g) /\ Reads(saved)
                /\ phase = "paused" => g.asked

Inv ==
  /\ TypeOK /\ Sane(g) /\ Sane(saved) /\ Forward
  /\ SpokenIsRemembered /\ OwnerIsAnnounced /\ Reading

LEMMA Initially == Init => Inv
<1> SUFFICES ASSUME Init PROVE Inv
  OBVIOUS
<1> USE GraphAssumption DEF Init
<1>1. Flags
  BY Zenon DEF Flags
<1>2. g \in States /\ saved = g
  BY DEF States, NoReply, Nodes, Calls
<1>3. TypeOK
  BY <1>1, <1>2 DEF TypeOK
<1>4. Sane(g)
  BY <1>2, FS_EmptySet DEF Sane, Chosen
<1>5. Forward /\ SpokenIsRemembered /\ OwnerIsAnnounced /\ Reading
  BY <1>2 DEF Forward, SpokenIsRemembered, OwnerIsAnnounced, Reading, Reads
<1> QED BY <1>2, <1>3, <1>4, <1>5 DEF Inv

LEMMA FlagsKept == Flags /\ [Next]_vars => Flags'
<1> SUFFICES ASSUME Flags, [Next]_vars PROVE Flags'
  OBVIOUS
<1> USE Zenon DEF Flags, effects, invocation, Raise, Interrupt
<1>1. CASE Input \/ Summarize \/ CallModel \/ Validate \/ Publish
  BY <1>1 DEF Input, Summarize, CallModel, Validate, Publish
<1>2. CASE UseTools
  BY <1>2 DEF UseTools
<1>3. CASE React \/ Wait \/ Escalate \/ Malformed \/ Answered
  BY <1>3 DEF React, Wait, Escalate, Malformed, Answered
<1>4. CASE End \/ Stop \/ Crash \/ Continue
  BY <1>4 DEF End, Stop, Crash, Continue
<1>5. CASE ResumeWait \/ ResumeEscalation
  BY <1>5 DEF ResumeWait, ResumeEscalation
<1>6. CASE UNCHANGED vars
  BY <1>6 DEF vars
<1> QED BY <1>1, <1>2, <1>3, <1>4, <1>5, <1>6 DEF Next, Node

(* A node that is carried out: the state goes on, the checkpoint follows.  *)
LEMMA Advance ==
  ASSUME Inv, phase = "running", phase' = phase, outcome' = outcome, saved' = g,
         TypeOK', Sane(g)',
         g.said \subseteq g'.said, g.seen \subseteq g'.seen, overlooked' = overlooked,
         Informed,
                  delivered \subseteq delivered', delivered' \cup noticed' \subseteq g.said,
         applied' = applied, claimed \subseteq claimed',
         claimed' # claimed => g.next = "input" /\ (Steer \/ g.continued),
         claimed' \subseteq g'.seen
           \/ (claimed' = claimed /\ ~(g.next = "input" /\ (Steer \/ g.continued)))
  PROVE  Inv'
<1> USE DEF Inv
<1>1. Sane(saved)'
  BY DEF Sane
<1>2. Forward' /\ SpokenIsRemembered' /\ OwnerIsAnnounced'
  BY DEF Forward, SpokenIsRemembered, OwnerIsAnnounced
<1>3. Reading'
  <2>1. outcome = "none" /\ Reads(g)
    BY DEF Reading
  <2>2. Reads(saved)'
    BY <2>1 DEF Reads
  <2>3. Reads(g)'
    <3>1. g'.read \in {g.read, g.seen}
      BY DEF Informed
    <3>2. UpToDate(g)' => g'.seen \subseteq g'.read \cup overlooked'
      BY <2>1 DEF Reads, Informed
    <3> QED BY <2>1, <3>1, <3>2 DEF Reads
  <2> QED BY <2>1, <2>2, <2>3 DEF Reading
<1> QED BY <1>1, <1>2, <1>3

(* The run ends: nothing goes on from its state.                           *)
LEMMA Ended ==
  ASSUME Inv, phase # "over", phase' = "over", TypeOK', UNCHANGED <<delivered, noticed>>, g' = g,
         saved' \in {g, saved},
         overlooked' = overlooked,
         applied' = applied \/ (applied' = claimed /\ claimed \subseteq g.read \cup overlooked)
  PROVE  Inv'
<1> USE DEF Inv
<1>1. Sane(g)' /\ Sane(saved)'
  BY DEF Sane
<1>2. Forward' /\ SpokenIsRemembered' /\ OwnerIsAnnounced'
  BY DEF Forward, SpokenIsRemembered, OwnerIsAnnounced
<1>3. Reading'
  BY DEF Reading, Reads, ContextWasSeen
<1> QED BY <1>1, <1>2, <1>3

(* A tool interrupts: what it told the chat is known, and the run pauses.  *)
LEMMA Paused ==
  ASSUME Inv, phase = "running", phase' = "paused", outcome' = outcome, TypeOK', saved' = g',
         Sane(g)', g'.said = g.said, g'.seen = g.seen, g'.read = g.read, g'.next = g.next, g'.asked,
         overlooked' = overlooked, UpToDate(g),
         delivered' = delivered, noticed' \subseteq noticed \cup {g.reply.id}, g.next \in Chosen,
         applied' = claimed, claimed' = claimed, OwnerIsAnnounced'
  PROVE  Inv'
<1> USE DEF Inv
<1>1. Sane(saved)'
  BY DEF Sane
<1>2. Forward' /\ SpokenIsRemembered'
  BY DEF Forward, SpokenIsRemembered, Sane
<1>3. Reads(g) /\ g.next # "input" /\ claimed \subseteq g.seen
  BY DEF Reading, Reads, Chosen
<1>4. claimed \subseteq g.read \cup overlooked
  BY <1>3 DEF Reads
<1>5. Reads(g)'
  BY <1>3, <1>4 DEF Reads, UpToDate
<1> QED BY <1>1, <1>2, <1>5 DEF Reading, Reads, UpToDate

(* A state that forgets its last answer and knows no less is sane.         *)
LEMMA InputKept == Inv /\ Flags' /\ Input => Inv'
<1> SUFFICES ASSUME Inv, Flags', Input PROVE Inv'
  OBVIOUS
<1> USE GraphAssumption DEF Inv, effects, invocation, world
<1>0. g \in States /\ g.next = "input" /\ steps < RecursionLimit /\ phase = "running"
  BY DEF Sane, Input, At
<1>1. CASE ~(Steer \/ g.continued)
  <2>1. g' = [g EXCEPT !.next = "summarize"] /\ saved' = g /\ UNCHANGED <<claimed, phase, outcome>>
    BY <1>1 DEF Input, To, Becomes
  <2>2. g' \in States /\ Sane(g)' /\ g'.said = g.said /\ g'.seen = g.seen /\ g'.read = g.read
    BY <1>0, <2>1 DEF Sane, States, Nodes, Chosen, Input
  <2>3. TypeOK'
    BY <1>0, <1>1, <2>2 DEF TypeOK, Input, To, Becomes
  <2> QED
    BY <1>0, <1>1, <2>1, <2>2, <2>3, Advance
      DEF Input, Informed, UpToDate, Chosen, SpokenIsRemembered, Forward
<1>2. CASE Steer \/ g.continued
  <2>1. PICK new \in SUBSET (Events \ claimed) :
          /\ claimed' = claimed \cup new
          /\ g' = [g EXCEPT !.next = "summarize", !.seen = @ \cup (claimed \cup new)]
          /\ saved' = g /\ steps' = steps + 1 /\ UNCHANGED <<phase, outcome>>
    BY <1>2 DEF Input, Becomes, Recovered
  <2> DEFINE seen == g.seen \cup (claimed \cup new)
  <2>2. seen \in SUBSET Events /\ claimed' \subseteq Events
    BY <1>0, <2>1 DEF TypeOK, States
  <2>3. g' = [g EXCEPT !.next = "summarize", !.seen = seen]
    BY <2>1
  <2> HIDE DEF seen
  <2>4. /\ g' \in States /\ g'.next = "summarize" /\ g'.said = g.said /\ g'.seen = seen
        /\ g'.models = g.models /\ g'.asked = g.asked /\ g'.read = g.read
    BY <1>0, <2>2, <2>3 DEF States, Nodes
  <2>5. Sane(g)'
    BY <1>0, <2>4 DEF Sane, Chosen
  <2>6. TypeOK'
    <3>1. steps' \in 0..RecursionLimit
      BY <1>0, <2>1 DEF TypeOK
    <3> QED BY <1>0, <2>1, <2>2, <2>4, <3>1 DEF TypeOK, Input
  <2>7. g.seen \subseteq g'.seen /\ claimed' \subseteq g'.seen
    BY <2>1, <2>4 DEF seen
  <2>8. UNCHANGED <<delivered, noticed, applied, overlooked>> /\ claimed \subseteq claimed'
    BY <2>1 DEF Input
  <2>9. delivered' \cup noticed' \subseteq g.said
    BY <2>8 DEF SpokenIsRemembered, Forward
  <2> QED
    BY <1>0, <1>2, <2>1, <2>4, <2>5, <2>6, <2>7, <2>8, <2>9, Advance
       DEF Informed, UpToDate, Chosen
<1> QED BY <1>1, <1>2

LEMMA SummarizeKept == Inv /\ Flags' /\ Summarize => Inv'
<1> SUFFICES ASSUME Inv, Flags', Summarize PROVE Inv'
  OBVIOUS
<1> USE GraphAssumption DEF Inv, effects, invocation, world, To, Becomes
<1>0. g \in States /\ g.next = "summarize" /\ steps < RecursionLimit /\ phase = "running"
  BY DEF Sane, Summarize, At
<1>1. g' \in States /\ Sane(g)' /\ g'.said = g.said /\ g'.seen = g.seen /\ g'.read = g.read
  BY <1>0 DEF Sane, States, Nodes, Chosen, Summarize
<1>2. TypeOK'
  BY <1>0, <1>1 DEF TypeOK, Summarize
<1> QED BY <1>0, <1>1, <1>2, Advance
    DEF Summarize, Informed, UpToDate, Chosen, SpokenIsRemembered, Forward

(* A node that raises leaves the state as it is.                           *)
LEMMA RaiseKept == Inv /\ Flags' /\ phase = "running" /\ Raise /\ UNCHANGED world => Inv'
<1> SUFFICES ASSUME Inv, Flags', phase = "running", Raise, UNCHANGED world PROVE Inv'
  OBVIOUS
<1> USE DEF Inv, Raise, Over, Returned, invocation, world
<1>1. TypeOK'
  BY DEF TypeOK
<1> QED BY <1>1, Ended

LEMMA CallModelKept == Inv /\ Flags' /\ CallModel => Inv'
<1> SUFFICES ASSUME Inv, Flags', CallModel PROVE Inv'
  OBVIOUS
<1> USE GraphAssumption DEF Inv
<1>0. g \in States /\ g.next = "model" /\ steps < RecursionLimit /\ phase = "running"
  BY DEF Sane, CallModel, At
<1>1. CASE g.models >= ModelLimit
  BY <1>0, <1>1, RaiseKept DEF CallModel, Counted, world
<1>2. CASE ~(g.models >= ModelLimit)
  <2>1. PICK text \in BOOLEAN, calls \in Calls :
          /\ answers' = answers + 1
          /\ g' = [g EXCEPT !.next = "validate", !.models = g.models + 1,
                            !.reply = [id |-> answers', text |-> text, calls |-> calls],
                            !.said = @ \cup {answers'}, !.read = g.seen]
          /\ saved' = g /\ steps' = steps + 1
          /\ UNCHANGED <<effects, invocation, overlooked, crashes, phase, outcome>>
    BY <1>2 DEF CallModel, Counted, Becomes
  <2>2. answers' \in Nat /\ g.models \in Nat /\ g.models < ModelLimit
    BY <1>0, <1>2, <2>1 DEF TypeOK, States
  <2> DEFINE reply == [id |-> answers', text |-> text, calls |-> calls]
             said == g.said \cup {answers'}
  <2>31. reply \in [id : Nat, text : BOOLEAN, calls : Calls] /\ reply.id = answers'
    BY <2>2
  <2>32. said \in SUBSET Nat
    BY <1>0, <2>2 DEF States
  <2> DEFINE models == g.models + 1
  <2>30. models \in 0..ModelLimit /\ "validate" \in Nodes
    BY <2>2 DEF Nodes
  <2>33. g' = [g EXCEPT !.next = "validate", !.models = models, !.reply = reply, !.said = said,
                                !.read = g.seen]
    BY <2>1
  <2> HIDE DEF reply, said
  <2>34. g' \in States
    <3> HIDE DEF models
    <3> QED BY <1>0, <2>30, <2>31, <2>32, <2>33 DEF States
  <2>3. /\ g'.next = "validate" /\ g'.models = g.models + 1 /\ g'.said = said
        /\ g'.reply = reply /\ g'.seen = g.seen /\ g'.asked = g.asked /\ g'.read = g.seen
    BY <1>0, <2>33 DEF States
  <2>4. IsFiniteSet(said) /\ Cardinality(said) <= g.models + 1
    <3>1. IsFiniteSet(g.said) /\ Cardinality(g.said) <= g.models
      BY DEF Sane
    <3>2. /\ IsFiniteSet(said)
          /\ Cardinality(said) = Cardinality(g.said) \/ Cardinality(said) = Cardinality(g.said) + 1
      BY <3>1, FS_AddElement DEF said
    <3> QED BY <2>2, <3>1, <3>2, FS_CardinalityType
  <2>5. Sane(g)'
    BY <1>0, <2>3, <2>31, <2>34, <2>4 DEF Sane, Chosen, said
  <2>6. TypeOK'
    BY <1>0, <2>1, <2>2, <2>34 DEF TypeOK, effects, invocation
  <2> QED
    BY <1>0, <2>1, <2>3, <2>5, <2>6, Advance
       DEF Informed, UpToDate, Chosen, world, SpokenIsRemembered, Forward, effects, said
<1> QED BY <1>1, <1>2

LEMMA ValidateKept == Inv /\ Flags' /\ Validate => Inv'
<1> SUFFICES ASSUME Inv, Flags', Validate PROVE Inv'
  OBVIOUS
<1> USE GraphAssumption DEF Inv
<1>0. g \in States /\ g.next = "validate" /\ steps < RecursionLimit /\ phase = "running"
  BY DEF Sane, Validate, At
<1>1. CASE Refused(SilentReply)
  BY <1>0, <1>1, RaiseKept DEF Validate
<1>2. CASE ~Refused(SilentReply)
  <2> DEFINE tools == g.tools + Size[g.reply.calls]
             next == IF g.reply.calls = "malformed" THEN "malformed" ELSE "publish"
  <2>1. /\ g' = [g EXCEPT !.tools = tools, !.next = next]
        /\ saved' = g /\ steps' = steps + 1
        /\ UNCHANGED <<effects, invocation, world, phase, outcome>>
    BY <1>2 DEF Validate, Becomes
  <2>2. tools \in 0..ToolLimit /\ next \in Nodes
    <3>1. Size[g.reply.calls] \in Nat
      BY <1>0 DEF Size, States, Calls
    <3>2. tools <= ToolLimit
      BY <1>0, <1>2, <3>1 DEF Refused, States
    <3> QED BY <1>0, <3>1, <3>2 DEF States, Nodes
  <2> HIDE DEF tools
  <2>3. /\ g' \in States /\ g'.next = next /\ g'.said = g.said /\ g'.seen = g.seen /\ g'.read = g.read
        /\ g'.models = g.models /\ g'.asked = g.asked /\ g'.reply = g.reply
    BY <1>0, <2>1, <2>2 DEF States
  <2>4. Sane(g)'
    BY <1>0, <2>3 DEF Sane, Chosen
  <2>5. TypeOK'
    BY <1>0, <2>1, <2>3 DEF TypeOK, effects, invocation, world
  <2> QED
    BY <1>0, <2>1, <2>3, <2>4, <2>5, Advance
       DEF Informed, UpToDate, Chosen, world, SpokenIsRemembered, Forward, effects
<1> QED BY <1>1, <1>2

(* What publish_node sends is known to the state that becomes the          *)
(* checkpoint, and it is sent before the tools of the message run.         *)
LEMMA PublishKept == Inv /\ Flags' /\ Publish => Inv'
<1> SUFFICES ASSUME Inv, Flags', Publish PROVE Inv'
  OBVIOUS
<1> USE GraphAssumption DEF Inv
<1>0. g \in States /\ g.next = "publish" /\ steps < RecursionLimit /\ phase = "running"
  BY DEF Sane, Publish, At
<1>1. CASE Raise
  BY <1>0, <1>1, RaiseKept DEF Publish
<1>2. CASE ~Raise
  <2>1. /\ g' = [g EXCEPT !.next = AfterPublication]
        /\ saved' = g /\ steps' = steps + 1
        /\ delivered' = IF g.reply.text THEN delivered \cup {g.reply.id} ELSE delivered
        /\ UNCHANGED <<claimed, applied, noticed, reacted, invocation, world, phase, outcome>>
    BY <1>2 DEF Publish, To, Becomes
  <2>2. AfterPublication \in {"end", "tools"}
    BY DEF AfterPublication
  <2>3. /\ g' \in States /\ g'.next = AfterPublication /\ g'.said = g.said /\ g'.seen = g.seen
        /\ g'.read = g.read
        /\ g'.models = g.models /\ g'.asked = g.asked /\ g'.reply = g.reply
    BY <1>0, <2>1, <2>2 DEF States, Nodes
  <2>4. g.reply.id \in Nat /\ g.reply.id \in g.said /\ ~g.asked
    BY <1>0 DEF States, Sane, Chosen
  <2>5. Sane(g)'
    BY <1>0, <2>1, <2>2, <2>3, <2>4 DEF Sane, Chosen
  <2>6. TypeOK'
    BY <1>0, <2>1, <2>3, <2>4 DEF TypeOK, invocation, world
  <2>7. delivered \subseteq delivered' /\ delivered' \cup noticed' \subseteq g.said
    BY <2>1, <2>4 DEF SpokenIsRemembered, Forward
  <2> QED
    BY <1>0, <2>1, <2>3, <2>5, <2>6, <2>7, Advance
    DEF Informed, UpToDate, Chosen, world
<1> QED BY <1>1, <1>2

(* A tool that does not interrupt leads back to the input, or ends.        *)
LEMMA ToolsGoOn ==
  ASSUME Inv, Flags', phase = "running", steps < RecursionLimit, g.next = "tools", ~g.asked,
         NEW node \in {"input", "end"}, To(node), UNCHANGED <<claimed, applied, delivered, noticed>>,
         UNCHANGED <<invocation, world>>
  PROVE  Inv'
<1> USE GraphAssumption DEF Inv
<1>0. g \in States
  BY DEF Sane
<1>1. g' = [g EXCEPT !.next = node] /\ saved' = g /\ steps' = steps + 1 /\ UNCHANGED <<phase, outcome>>
  BY DEF To, Becomes
<1>2. /\ g' \in States /\ g'.next = node /\ g'.said = g.said /\ g'.seen = g.seen /\ g'.read = g.read
      /\ g'.models = g.models /\ g'.asked = g.asked
  BY <1>0, <1>1 DEF States, Nodes
<1>3. Sane(g)'
  BY <1>0, <1>2 DEF Sane, Chosen
<1>4. TypeOK'
  BY <1>1, <1>2 DEF TypeOK, invocation, world
<1> QED BY <1>1, <1>2, <1>3, <1>4, Advance
       DEF Informed, UpToDate, Chosen, world, SpokenIsRemembered, Forward

LEMMA ToolsKept == Inv /\ Flags' /\ (UseTools \/ React) => Inv'
<1> SUFFICES ASSUME Inv, Flags', UseTools \/ React PROVE Inv'
  OBVIOUS
<1>1. /\ phase = "running" /\ steps < RecursionLimit /\ g.next = "tools" /\ ~g.asked
      /\ UNCHANGED <<claimed, applied, delivered, noticed, invocation, world>>
  BY DEF UseTools, React, At, Reactions, Inv, Sane
<1>2. To("input") \/ To("end")
  BY DEF UseTools, React
<1> QED BY <1>1, <1>2, ToolsGoOn

(* A tool that interrupts: the state only remembers that it asked.         *)
LEMMA InterruptKept ==
  ASSUME Inv, Flags', phase = "running", g.next \in {"tools", "malformed"}, ~g.asked,
         Interrupt, UNCHANGED world,
         g.reply.calls \in {"wait", "escalate", "malformed"},
         g.reply.calls = "wait" => g.waits < WaitLimit,
         noticed' \in {noticed, noticed \cup {g.reply.id}},
         g.reply.calls # "wait" => g.reply.id \in delivered \cup noticed'
  PROVE  Inv'
<1> USE GraphAssumption DEF Inv
<1>0. g \in States
  BY DEF Sane
<1>1. /\ g' = [g EXCEPT !.asked = TRUE] /\ saved' = g' /\ steps' = steps
      /\ phase' = "paused" /\ applied' = claimed
      /\ UNCHANGED <<claimed, delivered, reacted, invocation, outcome>>
  BY DEF Interrupt
<1>2. /\ g' \in States /\ g'.next = g.next /\ g'.said = g.said /\ g'.seen = g.seen /\ g'.waits = g.waits
      /\ g'.asked
      /\ g'.read = g.read
      /\ g'.models = g.models /\ g'.reply = g.reply
  BY <1>0, <1>1 DEF States
<1>3. Sane(g)'
  BY <1>1, <1>2 DEF Sane, Chosen
<1>4. g.reply.id \in Nat
  BY <1>0 DEF States
<1>5. TypeOK'
  BY <1>1, <1>2, <1>4 DEF TypeOK, invocation, world
<1>6. OwnerIsAnnounced'
  BY <1>1, <1>2 DEF OwnerIsAnnounced
<1> QED BY <1>1, <1>2, <1>3, <1>5, <1>6, Paused DEF Chosen, UpToDate, world

LEMMA AskKept == Inv /\ Flags' /\ (Wait \/ Escalate \/ Malformed) => Inv'
<1> SUFFICES ASSUME Inv, Flags', Wait \/ Escalate \/ Malformed PROVE Inv'
  OBVIOUS
<1>0. phase = "running" /\ steps < RecursionLimit /\ ~g.asked /\ UNCHANGED world
  BY DEF Wait, Escalate, Malformed, At
<1>1. CASE Wait
  <2>1. g.next = "tools" /\ g.reply.calls = "wait"
    BY <1>1 DEF Wait, At
  <2>2. CASE g.waits >= WaitLimit
    BY <1>0, <1>1, <2>1, <2>2, ToolsGoOn DEF Wait, effects
  <2>3. CASE ~(g.waits >= WaitLimit)
    <3>1. g.waits < WaitLimit
      BY <2>3, GraphAssumption DEF Inv, Sane, States
    <3> QED BY <1>0, <1>1, <2>1, <2>3, <3>1, InterruptKept DEF Wait
  <2> QED BY <2>2, <2>3
<1>2. CASE Escalate
  <2>1. g.next = "tools" /\ g.reply.calls = "escalate"
    BY <1>2 DEF Escalate, At
  <2>2. CASE To("input") /\ UNCHANGED <<effects, invocation>>
    BY <1>0, <2>1, <2>2, ToolsGoOn DEF effects
  <2>3. CASE /\ noticed' = IF g.reply.text THEN noticed ELSE noticed \cup {g.reply.id}
             /\ Interrupt
    <3>1. g.reply.id \in delivered \cup noticed'
      BY <2>1, <2>3 DEF Inv, Sane
    <3> QED BY <1>0, <2>1, <2>3, <3>1, InterruptKept
  <2> QED BY <1>2, <2>2, <2>3 DEF Escalate
<1>3. CASE Malformed
  <2>1. g.next = "malformed" /\ g.reply.calls = "malformed"
    BY <1>3 DEF Malformed, At, Inv, Sane
  <2>2. CASE noticed' = noticed \cup {g.reply.id} /\ Interrupt
    BY <1>0, <2>1, <2>2, InterruptKept
  <2>3. CASE Raise
    BY <1>0, <2>3, RaiseKept
  <2> QED BY <1>3, <2>2, <2>3 DEF Malformed
<1> QED BY <1>1, <1>2, <1>3

LEMMA AnsweredKept == Inv /\ Flags' /\ Answered => Inv'
<1> SUFFICES ASSUME Inv, Flags', Answered PROVE Inv'
  OBVIOUS
<1> USE GraphAssumption DEF Inv
<1>0. g \in States /\ g.asked /\ steps < RecursionLimit /\ phase = "running"
  BY DEF Sane, Answered
<1> DEFINE waits == IF g.reply.calls = "wait" THEN g.waits + 1 ELSE g.waits
           next == IF g.next = "malformed" THEN "end" ELSE "input"
<1>1. PICK continued \in BOOLEAN :
        g' = [g EXCEPT !.asked = FALSE, !.waits = waits, !.continued = continued, !.next = next]
  <2>1. (g.continued \/ g.reply.calls = "wait") \in BOOLEAN
    OBVIOUS
  <2> QED BY <2>1 DEF Answered, Becomes
<1>2. saved' = g /\ steps' = steps + 1 /\ UNCHANGED <<effects, invocation, world, phase, outcome>>
  BY DEF Answered, Becomes
<1>3. waits \in 0..WaitLimit /\ next \in Nodes
  BY <1>0 DEF Sane, States, Nodes
<1> HIDE DEF waits
<1>4. /\ g' \in States /\ g'.next = next /\ g'.said = g.said /\ g'.seen = g.seen /\ g'.read = g.read
      /\ g'.models = g.models /\ g'.asked = FALSE
  BY <1>0, <1>1, <1>3 DEF States
<1>5. Sane(g)'
  BY <1>4 DEF Sane, Chosen
<1>6. TypeOK'
  BY <1>0, <1>2, <1>4 DEF TypeOK, effects, invocation, world
<1>7. g.next # "input"
  BY <1>0 DEF Sane
<1> QED BY <1>0, <1>2, <1>4, <1>5, <1>6, <1>7, Advance
       DEF Informed, UpToDate, Chosen, world, SpokenIsRemembered, Forward, effects

LEMMA EndKept == Inv /\ Flags' /\ (End \/ Stop) => Inv'
<1> SUFFICES ASSUME Inv, Flags', End \/ Stop PROVE Inv'
  OBVIOUS
<1> USE DEF Inv
<1>1. CASE End
  <2>1. claimed \subseteq g.read \cup overlooked
    BY <1>1 DEF End, Reading, Reads, UpToDate, Sane
  <2>2. TypeOK'
    BY <1>1 DEF End, Over, TypeOK, invocation, world
  <2> QED BY <1>1, <2>1, <2>2, Ended DEF End, Over, world
<1>2. CASE Stop
  BY <1>2, RaiseKept DEF Stop
<1> QED BY <1>1, <1>2

(* A run that goes on after a pause has what it paused with; the words of  *)
(* the owner are claimed and written into the state together.              *)
LEMMA ResumeKept == Inv /\ Flags' /\ (ResumeWait \/ ResumeEscalation \/ Continue) => Inv'
<1> SUFFICES ASSUME Inv, Flags', ResumeWait \/ ResumeEscalation \/ Continue PROVE Inv'
  OBVIOUS
<1> USE GraphAssumption DEF Inv
<1>1. CASE ResumeWait \/ Continue
  <2>1. TypeOK'
    <3>1. CASE ResumeWait
      BY <3>1 DEF ResumeWait, TypeOK, effects, world
    <3>2. CASE Continue
      BY <3>2 DEF Continue, TypeOK, effects, invocation, world
    <3> QED BY <1>1, <3>1, <3>2
  <2>2. Sane(g)' /\ Sane(saved)' /\ Forward' /\ SpokenIsRemembered' /\ OwnerIsAnnounced'
    BY <1>1 DEF ResumeWait, Continue, Sane, Forward, SpokenIsRemembered, OwnerIsAnnounced, effects
  <2>3. Reading'
    BY <1>1 DEF ResumeWait, Continue, Reading, Reads, UpToDate, effects, world
  <2> QED BY <2>1, <2>2, <2>3
<1>2. CASE ResumeEscalation
  <2>1. PICK words \in SUBSET (Events \ claimed) :
          /\ claimed' = claimed \cup words /\ g' = [g EXCEPT !.seen = @ \cup words]
          /\ overlooked' = IF g.next = "malformed" THEN overlooked \cup words ELSE overlooked
    BY <1>2 DEF ResumeEscalation
  <2> DEFINE seen == g.seen \cup words
  <2>2. g \in States /\ seen \in SUBSET Events /\ claimed' \subseteq Events
    BY <2>1 DEF Sane, States, TypeOK
  <2>3. g' = [g EXCEPT !.seen = seen]
    BY <2>1
  <2> HIDE DEF seen
  <2>4. /\ g' \in States /\ g'.next = g.next /\ g'.said = g.said /\ g'.seen = seen /\ g'.asked = g.asked
        /\ g'.models = g.models /\ g'.reply = g.reply /\ g'.waits = g.waits
        /\ g'.continued = g.continued /\ g'.read = g.read
    BY <2>2, <2>3 DEF States
  <2>5. /\ phase = "paused" /\ phase' = "running" /\ saved' = g' /\ steps' = 0
        /\ UNCHANGED <<applied, delivered, noticed, reacted, force, outcome, answers, crashes>>
    BY <1>2 DEF ResumeEscalation
  <2>6. TypeOK'
    BY <2>1, <2>2, <2>4, <2>5 DEF TypeOK
  <2>7. Sane(g)' /\ Sane(saved)'
    BY <2>4, <2>5 DEF Sane
  <2>8. Forward' /\ SpokenIsRemembered' /\ OwnerIsAnnounced'
    BY <2>4, <2>5 DEF Forward, SpokenIsRemembered, OwnerIsAnnounced
  <2>9. Reads(g)'
    <3>1. Reads(g) /\ g.asked /\ g.next \in {"tools", "malformed"}
      BY <2>5 DEF Reading, Sane
    <3>2. UpToDate(g)' => g'.seen \subseteq g'.read \cup overlooked'
      BY <2>1, <2>4, <3>1 DEF Reads, UpToDate, Chosen, seen
    <3>3. applied' \subseteq g'.read \cup overlooked' /\ g'.read \subseteq g'.seen
      BY <2>1, <2>4, <2>5, <3>1 DEF Reads, seen
    <3>4. claimed' \subseteq g'.seen
      BY <2>1, <2>4, <3>1 DEF Reads, seen
    <3> QED BY <3>2, <3>3, <3>4 DEF Reads
  <2> QED BY <2>5, <2>6, <2>7, <2>8, <2>9 DEF Reading, Reads, UpToDate
<1> QED BY <1>1, <1>2

(* A crash loses a node or two, never what the chat was told or what       *)
(* completed work has made context.                                        *)
LEMMA CrashKept == Inv /\ Flags' /\ Crash => Inv'
<1> SUFFICES ASSUME Inv, Flags', Crash PROVE Inv'
  OBVIOUS
<1> USE GraphAssumption DEF Inv
<1>1. PICK state \in {g, saved} : g' = state /\ saved' = state
  BY DEF Crash
<1>2. /\ phase = "running" /\ phase' \in {"cut", "over"}
      /\ crashes < MaxCrashes /\ crashes' = crashes + 1
      /\ UNCHANGED <<delivered, noticed, reacted, invocation, steps, answers, overlooked>>
  BY DEF Crash, Over
<1>3. /\ claimed' \subseteq claimed \cup applied /\ applied' \subseteq applied \cup claimed
      /\ phase' = "cut" => UNCHANGED <<outcome, claimed, applied>>
      /\ phase' = "over" => outcome' = "reconciled" \/ applied' = applied
      /\ outcome' \in {outcome, "reconciled", "requeued"}
  BY DEF Crash, Over, Returned
<1>4. TypeOK'
  BY <1>1, <1>2, <1>3 DEF TypeOK, invocation
<1>5. Sane(g)' /\ Sane(saved)'
  BY <1>1, <1>2 DEF Sane
<1>6. Forward' /\ SpokenIsRemembered' /\ OwnerIsAnnounced'
  BY <1>1, <1>2 DEF Forward, SpokenIsRemembered, OwnerIsAnnounced
<1>7. Reading'
  BY <1>1, <1>2, <1>3 DEF Reading, Reads, ContextWasSeen
<1> QED BY <1>4, <1>5, <1>6, <1>7

LEMMA Invariance == Spec => []Inv
<1>1. Inv /\ [Next]_vars => Inv'
  <2> SUFFICES ASSUME Inv, [Next]_vars PROVE Inv'
    OBVIOUS
  <2>0. Flags'
    BY FlagsKept DEF Inv, TypeOK
  <2>1. CASE Node
    BY <2>0, <2>1, InputKept, SummarizeKept, CallModelKept, ValidateKept, PublishKept, ToolsKept,
       AskKept, AnsweredKept DEF Node
  <2>2. CASE ~Node /\ Next
    BY <2>0, <2>2, EndKept, ResumeKept, CrashKept DEF Next
  <2>3. CASE UNCHANGED vars
    BY <2>3 DEF Inv, vars, effects, invocation, world, TypeOK, Flags, Sane, Forward, Reading, Reads,
                ContextWasSeen, SpokenIsRemembered, OwnerIsAnnounced
  <2> QED BY <2>1, <2>2, <2>3
<1> QED BY Initially, <1>1, PTL DEF Spec

(* Every variable keeps its type: the counters of a logical request stay   *)
(* within their limits through pauses and restarts.                        *)
THEOREM GraphTypes == Spec => []TypeOK
<1>1. Inv => TypeOK
  BY DEF Inv
<1> QED BY <1>1, Invariance, PTL

(* The answers one logical request pays for stay within the model limit,   *)
(* through pauses, resumes and crashes.                                    *)
THEOREM AnswersStayBounded == Spec => []AnswersBounded
<1>1. Inv => AnswersBounded
  BY GraphAssumption, FS_CardinalityType DEF Inv, Sane, States, AnswersBounded
<1> QED BY <1>1, Invariance, PTL

(* Every checkpoint a crash may fall back to knows what was said.          *)
THEOREM SpokenStaysRemembered == Spec => []SpokenIsRemembered
<1>1. Inv => SpokenIsRemembered
  BY DEF Inv
<1> QED BY <1>1, Invariance, PTL

(* A run never waits for the owner silently.                               *)
THEOREM OwnerStaysAnnounced == Spec => []OwnerIsAnnounced
<1>1. Inv => OwnerIsAnnounced
  BY DEF Inv
<1> QED BY <1>1, Invariance, PTL

(* Nothing becomes context that no call of the model was given, except by  *)
(* the reconciliation of a first pass that had answered, and the owner's   *)
(* words behind a malformed escalation.                                    *)
THEOREM ContextStaysSeen == Spec => []ContextWasSeen
<1>1. Inv => ContextWasSeen
  BY DEF Inv, Reading, Reads, ContextWasSeen
<1> QED BY <1>1, Invariance, PTL
=============================================================================
