----------------------------- MODULE Escalations -----------------------------
(***************************************************************************)
(* One escalation of one run to the owner: the tool escalate_to_owner      *)
(* records it and interrupts the graph, the owner claims it, and closes it *)
(* from the inbox, by /resume or by writing in the chat; the same run then *)
(* goes on (resume_escalation).  Another turn of the chat waits meanwhile. *)
(*                                                                         *)
(* A request of the owner is a coroutine of its own, and nothing keeps two *)
(* apart.  Each works on the checkpoint it loaded, and saves its progress  *)
(* over that of the others.  The run that goes on may pause again, by a    *)
(* wait or a second escalation of a later tool call: the first is closed   *)
(* all the same, and what follows the second pause is not this module's.   *)
(***************************************************************************)
EXTENDS Integers

CONSTANTS Requests,     \* requests of the owner that may overlap
          MaxAsks,      \* requests in all
          MaxStarts     \* process starts

ASSUME EscalationAssumption == MaxAsks \in Nat /\ MaxStarts \in Nat \ {0}

VARIABLES
  strategy,   \* payload.resume_strategy: "graph", or "journal" after a migration
  inter,      \* escalation_interrupts.state
  saved,      \* where the checkpoint of the run stands
  turn,       \* agent_work.state of the turn that escalated
  row,        \* agent_runs.status
  shown,      \* the run has outbound actions
  task,       \* the first pass of the run
  req,        \* where each request stands
  ask,        \* the action each request asks for
  at,         \* the checkpoint each request works on
  note,       \* the message the owner wrote in the chat
  later,      \* another turn of the chat
  drive,      \* a task of the chat was started for it
  paused,     \* a wait or an escalation of a later tool call of the run is active
  replied,    \* history: the run went on with an answer, to its end or its next pause
  process, asks, starts

escalation == <<strategy, inter>>
run == <<turn, row, shown>>
requests == <<req, ask, at>>
chat == <<later, drive, paused>>
world == <<process, asks, starts>>
vars == <<escalation, saved, run, task, requests, note, chat, replied, world>>

Open == {"pending", "claimed"}
Closed == {"resolved", "dismissed"}
Actions == {"resolved", "dismissed", "owner_reply"}
Busy(r) == req[r] # "idle"

(* What completion and release of the run make of the words it holds.      *)
Given == IF note = "held" THEN "applied" ELSE note
Returned == IF note = "held" THEN "unapplied" ELSE note

Init ==
  /\ strategy \in {"graph", "journal"}
  /\ inter = IF strategy = "graph" THEN "absent" ELSE "pending"
  /\ saved = "before" /\ shown = FALSE /\ note = "none"
  /\ turn = IF strategy = "graph" THEN "claimed" ELSE "completed"
  /\ row = IF strategy = "graph" THEN "running" ELSE "completed"
  /\ task = IF strategy = "graph" THEN "graph" ELSE "none"
  /\ req = [r \in Requests |-> "idle"] /\ ask = [r \in Requests |-> "none"]
  /\ at = [r \in Requests |-> "before"]
  /\ later = "none" /\ drive = FALSE /\ paused = FALSE
  /\ replied = FALSE
  /\ process = "up" /\ asks = 0 /\ starts = 1

-----------------------------------------------------------------------------
(* The first pass: the acknowledgement is published, the escalation is     *)
(* recorded under the id of the tool call, and the graph is suspended.     *)
Acknowledge ==
  /\ task = "graph" /\ ~shown /\ shown' = TRUE
  /\ UNCHANGED <<escalation, saved, turn, row, task, requests, note, chat, replied, world>>
Record ==
  /\ task = "graph" /\ saved' = "tool" /\ task' = "recorded"
  /\ inter' = IF inter = "absent" THEN "pending" ELSE inter
  /\ UNCHANGED <<strategy, run, requests, note, chat, replied, world>>
Suspend ==
  /\ task = "recorded" /\ task' = "returned"
  /\ UNCHANGED <<escalation, saved, run, requests, note, chat, replied, world>>
CompleteFirst ==
  /\ task = "returned" /\ task' = "finishing"
  /\ turn' = IF turn = "claimed" THEN "completed" ELSE turn
  /\ note' = Given
  /\ UNCHANGED <<escalation, saved, row, shown, requests, chat, replied, world>>
FinishFirst ==
  /\ task = "finishing" /\ task' = "none" /\ row' = "interrupted"
  /\ UNCHANGED <<escalation, saved, turn, shown, requests, note, chat, replied, world>>

(* /resume cancels the task; its work waits again.                         *)
UnwindFirst ==
  /\ task = "cancelled" /\ task' = "unwound"
  /\ turn' = IF turn = "claimed" THEN "pending" ELSE turn
  /\ note' = Returned
  /\ UNCHANGED <<escalation, saved, row, shown, requests, chat, replied, world>>
MarkFirst ==
  /\ task = "unwound" /\ task' = "none" /\ row' = "cancelled"
  /\ UNCHANGED <<escalation, saved, turn, shown, requests, note, chat, replied, world>>

-----------------------------------------------------------------------------
Claim ==
  /\ process = "up" /\ inter = "pending" /\ inter' = "claimed"
  /\ UNCHANGED <<strategy, saved, run, task, requests, note, chat, replied, world>>

Step(r, from, to) == req[r] = from /\ req' = [req EXCEPT ![r] = to]

(* resume_escalation looks whether the escalation is open and relies on it *)
(* from here on; /resume, which asks for "resolved", cancels a running     *)
(* task first.                                                             *)
Ask(r, action, resume) ==
  /\ process = "up" /\ ~Busy(r) /\ asks < MaxAsks /\ inter \in Open
  /\ resume => action = "resolved"
  /\ action = "owner_reply" => note = "none"
  /\ req' = [req EXCEPT ![r] = IF strategy = "journal" THEN "closing" ELSE "read"]
  /\ ask' = [ask EXCEPT ![r] = action]
  /\ asks' = asks + 1
  /\ IF resume /\ task # "none"
     THEN task' \in {"cancelled", task}
     ELSE UNCHANGED task
  /\ UNCHANGED <<escalation, saved, run, at, note, chat, replied, process, starts>>

(* The owner's own words are admitted as context and claimed for the run.  *)
Note(r) ==
  /\ ask[r] = "owner_reply" /\ Step(r, "read", "noted")
  /\ note' = IF note = "none" THEN "unapplied" ELSE note
  /\ UNCHANGED <<escalation, saved, run, task, ask, at, chat, replied, world>>
Inject(r) ==
  /\ Step(r, "noted", "invoking")
  /\ note' = IF note = "unapplied" THEN "held" ELSE note
  /\ UNCHANGED <<escalation, saved, run, task, ask, at, chat, replied, world>>

Load(r) ==
  /\ IF ask[r] = "owner_reply" THEN Step(r, "invoking", "graph") ELSE Step(r, "read", "graph")
  /\ at' = [at EXCEPT ![r] = saved]
  /\ UNCHANGED <<escalation, saved, run, task, ask, note, chat, replied, world>>

(* The tool the graph is suspended in returns the owner's answer; for a    *)
(* request that loaded a run paused again that is the later tool, whose    *)
(* wait or escalation stays active.  Then the model goes on: the graph     *)
(* ends or is interrupted again, or something raises.                      *)
Answer(r) ==
  /\ req[r] = "graph" /\ at[r] \in {"tool", "again"}
  /\ saved' = "model" /\ at' = [at EXCEPT ![r] = "model"]
  /\ UNCHANGED <<escalation, run, task, req, ask, note, chat, replied, world>>
GoOn(r) ==
  /\ at[r] = "model" /\ Step(r, "graph", "graph")
  /\ saved' = "end" /\ at' = [at EXCEPT ![r] = "end"] /\ replied' = TRUE
  /\ UNCHANGED <<escalation, run, task, ask, note, chat, world>>
Return(r) ==
  /\ at[r] = "end" /\ Step(r, "graph", "completing")
  /\ UNCHANGED <<escalation, saved, run, task, ask, at, note, chat, replied, world>>
PauseAgain(r) ==
  /\ at[r] = "model" /\ Step(r, "graph", "completing")
  /\ saved' = "again" /\ at' = [at EXCEPT ![r] = "again"] /\ paused' = TRUE /\ replied' = TRUE
  /\ UNCHANGED <<escalation, run, task, ask, note, later, drive, world>>
Raise(r) ==
  /\ at[r] # "end" /\ Step(r, "graph", "failing")
  /\ UNCHANGED <<escalation, saved, run, task, ask, at, note, chat, replied, world>>

CompleteRun(r) ==
  /\ Step(r, "completing", "closing")
  /\ turn' = IF turn = "claimed" THEN "completed" ELSE turn
  /\ note' = Given
  /\ UNCHANGED <<escalation, saved, row, shown, task, ask, at, chat, replied, world>>

(* aset_interrupt_state changes only an open escalation.                   *)
SetStateRaw(state) == state
SetState(state) == IF inter \in Open THEN state ELSE inter
Verdict(r) == IF ask[r] = "dismissed" THEN "dismissed" ELSE "resolved"
Close(r) ==
  /\ Step(r, "closing", IF strategy = "graph" THEN "marking" ELSE "waking")
  /\ inter' = SetState(Verdict(r))
  /\ UNCHANGED <<strategy, saved, run, task, ask, at, note, chat, replied, world>>
Interrupted(r) == at[r] = "again"          \* the result holds __interrupt__
MarkRun(r) ==
  /\ Step(r, "marking", "waking")
  /\ row' = IF Interrupted(r) THEN "interrupted" ELSE "completed"
  /\ UNCHANGED <<escalation, saved, turn, shown, task, ask, at, note, chat, replied, world>>

(* Work that waits gets a task, unless the run was interrupted again; after *)
(* a migration only an owner's message does so, as a turn of its own.      *)
WaitingAgain == turn = "pending"
Waiting == later = "pending" \/ turn = "pending"
Wake(r) ==
  /\ Step(r, "waking", "resuming")
  /\ IF strategy = "graph"
     THEN /\ drive' = (drive \/ (Waiting /\ ~Interrupted(r))) /\ UNCHANGED <<later, paused>>
     ELSE IF ask[r] = "owner_reply"
     THEN /\ later' = IF later = "none" THEN "pending" ELSE later
          /\ drive' = TRUE /\ UNCHANGED paused
     ELSE UNCHANGED chat
  /\ UNCHANGED <<escalation, saved, run, task, ask, at, note, replied, world>>
Done(r) ==
  /\ Step(r, "resuming", "idle")
  /\ ask' = [ask EXCEPT ![r] = "none"] /\ at' = [at EXCEPT ![r] = "before"]
  /\ UNCHANGED <<escalation, saved, run, task, note, chat, replied, world>>

(* An exception: the run has failed, the escalation stays open.            *)
ClosesAnyway == SetState("resolved")
StaysOpen == inter
FailRun(r) ==
  /\ Step(r, "failing", "failed")
  /\ turn' = IF turn = "claimed" THEN "failed" ELSE turn
  /\ note' = Returned
  /\ inter' = StaysOpen
  /\ UNCHANGED <<strategy, saved, row, shown, task, ask, at, chat, replied, world>>
MarkFailed(r) ==
  /\ Step(r, "failed", "idle") /\ row' = "failed"
  /\ ask' = [ask EXCEPT ![r] = "none"] /\ at' = [at EXCEPT ![r] = "before"]
  /\ UNCHANGED <<escalation, saved, turn, shown, task, note, chat, replied, world>>

-----------------------------------------------------------------------------
(* Another message of the chat becomes a turn once the first pass is over, *)
(* and its task (_drive) takes a waiting turn unless an escalation is open *)
(* or a wait active.  A wait armed in a resumed run is never scheduled: it *)
(* stays "arming" until a start finds its interrupt.                       *)
AdmitLater ==
  /\ process = "up" /\ task = "none" /\ later = "none"
  /\ later' = "pending" /\ drive' = TRUE
  /\ UNCHANGED <<escalation, saved, run, task, requests, note, paused, replied, world>>
Drive ==
  /\ process = "up" /\ drive /\ task = "none" /\ drive' = FALSE
  /\ IF inter \in Open \/ paused THEN UNCHANGED <<later, turn>>
     ELSE /\ later' = IF later = "pending" THEN "taken" ELSE later
          /\ turn' = IF turn = "pending" THEN "retaken" ELSE turn
  /\ UNCHANGED <<escalation, saved, row, shown, task, requests, note, paused, replied, world>>

Crash ==
  /\ process = "up" /\ process' = "down" /\ task' = "none" /\ drive' = FALSE
  /\ req' = [r \in Requests |-> "idle"] /\ ask' = [r \in Requests |-> "none"]
  /\ at' = [r \in Requests |-> "before"]
  /\ UNCHANGED <<escalation, saved, run, note, later, paused, replied, asks, starts>>
Start ==
  /\ process = "down" /\ starts < MaxStarts
  /\ process' = "up" /\ starts' = starts + 1
  /\ IF row = "running" /\ turn = "claimed"
     THEN \E outcome \in IF shown THEN {"completed", "failed"} ELSE {"pending"} :
            /\ turn' = outcome
            /\ row' = IF outcome = "pending" THEN "cancelled" ELSE outcome
            /\ note' = IF outcome = "pending" THEN Returned ELSE Given
     ELSE UNCHANGED <<turn, row, note>>
  /\ drive' = (later = "pending" \/ turn' = "pending")
  /\ UNCHANGED <<escalation, saved, shown, task, requests, later, paused, replied, asks>>

FirstPass == Record \/ Suspend \/ CompleteFirst \/ FinishFirst \/ UnwindFirst \/ MarkFirst
Handle(r) ==
  \/ Note(r) \/ Inject(r) \/ Load(r) \/ Answer(r) \/ GoOn(r) \/ Return(r) \/ PauseAgain(r)
  \/ Raise(r) \/ CompleteRun(r) \/ Close(r) \/ MarkRun(r) \/ Wake(r) \/ Done(r) \/ FailRun(r) \/ MarkFailed(r)
Next ==
  \/ FirstPass \/ Acknowledge \/ Claim
  \/ \E r \in Requests : Handle(r) \/ \E a \in Actions, b \in BOOLEAN : Ask(r, a, b)
  \/ AdmitLater \/ Drive \/ Crash \/ Start
Spec == Init /\ [][Next]_vars
FairSpec == Spec /\ WF_vars(FirstPass) /\ WF_vars(Drive) /\ \A r \in Requests : WF_vars(Handle(r))

-----------------------------------------------------------------------------
Flags == shown \in BOOLEAN /\ drive \in BOOLEAN /\ paused \in BOOLEAN /\ replied \in BOOLEAN
TypeOK ==
  /\ Flags
  /\ strategy \in {"graph", "journal"} /\ inter \in {"absent"} \cup Open \cup Closed
  /\ saved \in {"before", "tool", "model", "again", "end"}
  /\ turn \in {"claimed", "pending", "completed", "failed", "retaken"}
  /\ row \in {"running", "interrupted", "completed", "failed", "cancelled"}
  /\ task \in {"none", "graph", "recorded", "returned", "finishing", "cancelled", "unwound"}
  /\ req \in [Requests -> {"idle", "read", "noted", "invoking", "graph", "completing", "closing",
                           "marking", "waking", "resuming", "failing", "failed"}]
  /\ ask \in [Requests -> Actions \cup {"none"}]
  /\ at \in [Requests -> {"before", "tool", "model", "again", "end"}]
  /\ note \in {"none", "unapplied", "held", "applied"}
  /\ later \in {"none", "pending", "taken"}
  /\ process \in {"up", "down"} /\ asks \in 0..MaxAsks /\ starts \in 0..MaxStarts

(* An escalation leaves the inbox only after the suspended run went on     *)
(* with an answer of the owner, to its end or to its next pause: no        *)
(* failure, crash or second request closes it unanswered.                  *)
ClosedIsAnswered == inter \in Closed /\ strategy = "graph" => replied

(* The first verdict on an escalation stands.                              *)
VerdictStands == [][(inter \in Closed) => (inter' = inter)]_vars

(* Rows, requests and tasks together are a question to the owner: it is    *)
(* put once, one verdict closes it, for a suspended run only after the run *)
(* went on, and neither the turn that escalated nor another turn of the    *)
(* chat is taken while it is open.                                         *)
TurnTaken(t) == (t = "own" /\ turn = "retaken") \/ (t = "later" /\ later = "taken")
Question == INSTANCE OwnerQuestion
              WITH Turns <- {"own", "later"},
                   question <- IF inter = "absent" THEN "unput" ELSE IF inter \in Open THEN "open" ELSE inter,
                   suspends <- strategy = "graph", answered <- replied,
                   taken <- {t \in {"own", "later"} : TurnTaken(t)}
ImplementsQuestion == Question!Spec

(* A turn that waited behind an escalation is taken after it closes, as    *)
(* long as the process lives, unless the resumed run paused again: then no *)
(* task is started, and one that is finds the wait or the escalation of    *)
(* the second pause in its way.                                            *)
TurnsGoOn ==
  (strategy = "graph" /\ later = "pending" /\ inter \in Closed)
    ~> (later = "taken" \/ process = "down" \/ paused)
=============================================================================
