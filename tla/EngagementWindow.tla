---------------------------- MODULE EngagementWindow ----------------------------
(***************************************************************************)
(* Who may start a turn of one chat: the engagement window that an         *)
(* answered invocation leaves open for a few follow-up turns, snooze and   *)
(* pause, and the handoff when the owner writes.                           *)
(*                                                                         *)
(* The handler of a message reads the policy, the window and the           *)
(* availability in transactions of their own and then admits the message   *)
(* with what it has read; a policy change, another handler or the end of   *)
(* a run may come between any two.  Automation is enabled and the schedule *)
(* allows turns; what the task does with journal and run rows is in        *)
(* AgentRuntime.                                                           *)
(***************************************************************************)
EXTENDS Integers

CONSTANTS Messages,      \* messages of the chat
          Invoking,      \* those that invoke the assistant
          FromOwner,     \* those the owner wrote
          Participants,  \* active_turn_input.participants
          Transition,    \* owner_handoff.availability_transition
          Bypass,        \* invocations bypass a snooze
          MaxTurns,      \* engagement_window.max_followup_turns
          MaxChanges,    \* policy changes
          MaxRequests,   \* pauses, snoozes and their ends
          NoTurn, NoWindow

ASSUME EngagementAssumption ==
  /\ MaxTurns \in Nat \ {0} /\ MaxChanges \in Nat /\ MaxRequests \in Nat
  /\ Transition \in {"none", "pause", "snooze"} /\ Bypass \in BOOLEAN

VARIABLES
  policy,    \* the version of the policy and whether it keeps windows
  window,    \* the row of conversation_engagements
  paused, snoozed,
  at,        \* where the handler of each message stands
  read,      \* what it has read and decided
  pending,   \* the turn that waits
  task,      \* where the task of the chat stands
  turn,      \* the turn the task has claimed
  owner,     \* where a pause from the dashboard stands
  granted,   \* history: follow-up turns since a window was last opened
  answered,  \* history: policies under which an invocation was answered
  requests

handlers == <<at, read>>
chat == <<paused, snoozed>>
work == <<pending, task, turn>>
history == <<granted, answered>>
vars == <<policy, window, chat, handlers, work, owner, history, requests>>

Unread == [version |-> 0, windowed |-> FALSE, active |-> FALSE, decision |-> "none", scheduled |-> FALSE]
Active == task # "none"                     \* _active_run
Role(m) == IF m \in FromOwner THEN "owner" ELSE "peer"
Turns == [decision : {"invoked", "window"}, version : 0..MaxChanges, windowed : BOOLEAN]
Windows == [version : 0..MaxChanges, left : 0..MaxTurns, live : BOOLEAN]

Init ==
  /\ policy = [version |-> 0, windowed |-> TRUE] /\ window = NoWindow
  /\ paused = FALSE /\ snoozed = FALSE
  /\ at = [m \in Messages |-> "unseen"] /\ read = [m \in Messages |-> Unread]
  /\ pending = NoTurn /\ task = "none" /\ turn = NoTurn
  /\ owner = "idle" /\ granted = 0 /\ answered = {} /\ requests = 0

Goes(m, from, to) == at[m] = from /\ at' = [at EXCEPT ![m] = to]

-----------------------------------------------------------------------------
(* submit_message: the policy is that of the chat, or of the active turn.  *)
Pinned == IF turn # NoTurn THEN turn ELSE IF pending # NoTurn THEN pending ELSE policy
ReadPolicy(m) ==
  /\ Goes(m, "unseen", "window")
  /\ LET p == IF Active THEN Pinned ELSE policy
     IN  read' = [read EXCEPT ![m] = [Unread EXCEPT !.version = p.version, !.windowed = p.windowed,
                                                    !.active = Active]]
  /\ UNCHANGED <<policy, window, chat, work, owner, history, requests>>

(* aengagement removes a window that is over.                              *)
Current == IF window # NoWindow /\ window.live /\ window.left > 0 THEN window ELSE NoWindow
Decision(m, seen) ==
  IF m \in Invoking THEN "invoked"
  ELSE IF seen # NoWindow /\ Role(m) \in Participants THEN "window" ELSE "none"
MatchAny(m) ==
  /\ Goes(m, "window", "availability")
  /\ window' = IF read[m].windowed THEN Current ELSE window
  /\ read' = [read EXCEPT ![m].decision = Decision(m, IF read[m].windowed THEN Current ELSE NoWindow)]
  /\ UNCHANGED <<policy, chat, work, owner, history, requests>>
Match(m) ==
  /\ window' = IF read[m].windowed THEN Current ELSE window
  /\ LET stale == read[m].windowed /\ Current # NoWindow /\ Current.version # read[m].version
         seen == IF read[m].windowed /\ ~stale THEN Current ELSE NoWindow
     IN  /\ Goes(m, "window", IF stale THEN "closing" ELSE "availability")
         /\ read' = [read EXCEPT ![m].decision = Decision(m, seen)]
  /\ UNCHANGED <<policy, chat, work, owner, history, requests>>

CloseStale(m) ==
  /\ Goes(m, "closing", "availability")
  /\ window' = NoWindow
  /\ UNCHANGED <<policy, chat, read, work, owner, history, requests>>

(* _can_schedule, and the rule that a message of an active turn is input.  *)
Allowed(decision) == ~paused /\ (snoozed => decision = "invoked" /\ Bypass)
CheckAvailability(m) ==
  /\ Goes(m, "availability", "admission")
  /\ read' = [read EXCEPT ![m].scheduled = read[m].decision # "none" /\ Allowed(read[m].decision)
                                           /\ ~read[m].active]
  /\ UNCHANGED <<policy, window, chat, work, owner, history, requests>>

(* journal.admit: a waiting turn takes the message in; a follow-up uses up *)
(* one turn of the window, if it is open now.                              *)
HandsOver(m) == m \in FromOwner /\ ~read[m].scheduled
                /\ ~(read[m].active /\ Role(m) \in Participants)
Admitted(m) == at' = [at EXCEPT ![m] = IF HandsOver(m) THEN "handoff"
                                       ELSE IF read[m].scheduled THEN "waking" ELSE "seen"]
New(m) == [decision |-> read[m].decision, version |-> read[m].version, windowed |-> read[m].windowed]
Usable == window # NoWindow /\ window.live /\ window.left > 0
Admit(m) ==
  /\ at[m] = "admission" /\ Admitted(m)
  /\ IF ~read[m].scheduled \/ pending # NoTurn
        \/ (read[m].decision = "window" /\ ~Usable)
     THEN UNCHANGED <<pending, window, granted>>
     ELSE /\ pending' = New(m)
          /\ IF read[m].decision = "window"
             THEN window' = [window EXCEPT !.left = @ - 1] /\ granted' = granted + 1
             ELSE UNCHANGED <<window, granted>>
  /\ UNCHANGED <<policy, chat, read, task, turn, owner, answered, requests>>

WakeTask(m) ==
  /\ Goes(m, "waking", "seen")
  /\ task' = IF Active THEN task ELSE "waiting"
  /\ UNCHANGED <<policy, window, chat, read, pending, turn, owner, history, requests>>

(* _apply_owner_handoff with active_run_action = "cancel".                 *)
SetTransition(m) ==
  /\ Goes(m, "handoff", IF Transition = "none" THEN "dropping" ELSE "closed")
  /\ paused' = (paused \/ Transition = "pause") /\ snoozed' = (snoozed \/ Transition = "snooze")
  /\ UNCHANGED <<policy, window, read, work, owner, history, requests>>
CloseForHandoff(m) ==
  /\ Goes(m, "closed", "dropping")
  /\ window' = NoWindow
  /\ UNCHANGED <<policy, chat, read, work, owner, history, requests>>
DropForHandoff(m) ==
  /\ Goes(m, "dropping", "cancelling")
  /\ pending' = NoTurn
  /\ UNCHANGED <<policy, window, chat, read, task, turn, owner, history, requests>>
CancelForHandoff(m) ==
  /\ Goes(m, "cancelling", "handed")
  /\ task' = "none" /\ turn' = NoTurn
  /\ UNCHANGED <<policy, window, chat, read, pending, owner, history, requests>>

-----------------------------------------------------------------------------
(* The task: after the debounce it takes the waiting turn unless the chat  *)
(* is paused; when an invocation was answered it opens the window, when a  *)
(* follow-up was, it prolongs it.                                          *)
Take ==
  /\ task = "waiting"
  /\ IF paused \/ pending = NoTurn
     THEN task' = "none" /\ UNCHANGED <<turn, pending>>
     ELSE task' = "running" /\ turn' = pending /\ pending' = NoTurn
  /\ UNCHANGED <<policy, window, chat, handlers, owner, history, requests>>

FinishRefilling ==
  /\ task = "running" /\ task' = "none" /\ turn' = NoTurn
  /\ \/ UNCHANGED <<window, history>>
     \/ /\ turn.windowed
        /\ window' = [version |-> turn.version, left |-> MaxTurns, live |-> TRUE]
        /\ answered' = answered \cup {turn.version}
        /\ granted' = IF turn.decision = "invoked" THEN 0 ELSE granted
  /\ UNCHANGED <<policy, chat, handlers, pending, owner, requests>>
Finish ==
  /\ task = "running"
  /\ turn' = NoTurn
  /\ \/ task' = "none" /\ UNCHANGED <<window, history>>       \* failed, interrupted or strict
     \/ /\ turn.windowed /\ turn.decision = "invoked" /\ task' = "none"
        /\ window' = [version |-> turn.version, left |-> MaxTurns, live |-> TRUE]
        /\ granted' = 0 /\ answered' = answered \cup {turn.version}
     \/ /\ turn.windowed /\ turn.decision = "window" /\ task' = "none"
        /\ window' = IF window # NoWindow /\ window.left > 0 THEN [window EXCEPT !.live = TRUE]
                     ELSE window
        /\ UNCHANGED history
  /\ UNCHANGED <<policy, chat, handlers, pending, owner, requests>>

(* _resume_pending after a task.                                           *)
Resume ==
  /\ task = "none" /\ pending # NoTurn /\ ~paused
  /\ task' = "waiting"
  /\ UNCHANGED <<policy, window, chat, handlers, pending, turn, owner, history, requests>>

-----------------------------------------------------------------------------
(* The dashboard: a policy is saved, the chat paused, snoozed or freed,    *)
(* the window closed.  Time ends windows and snoozes.                      *)
SavePolicy ==
  /\ policy.version < MaxChanges
  /\ \E windowed \in BOOLEAN : policy' = [version |-> policy.version + 1, windowed |-> windowed]
  /\ window' = NoWindow
  /\ UNCHANGED <<chat, handlers, work, owner, history, requests>>

Ask(to) == requests < MaxRequests /\ owner = "idle" /\ owner' = to /\ requests' = requests + 1
Pause ==
  /\ Ask("closing") /\ paused' = TRUE
  /\ UNCHANGED <<policy, window, snoozed, handlers, work, history>>
PauseOn ==
  /\ \/ owner = "closing" /\ owner' = "dropping" /\ window' = NoWindow /\ UNCHANGED work
     \/ owner = "dropping" /\ owner' = "cancelling" /\ pending' = NoTurn
        /\ UNCHANGED <<window, task, turn>>
     \/ owner = "cancelling" /\ owner' = "idle" /\ task' = "none" /\ turn' = NoTurn
        /\ UNCHANGED <<window, pending>>
  /\ UNCHANGED <<policy, chat, handlers, history, requests>>
Snooze ==
  /\ Ask("idle") /\ snoozed' = TRUE
  /\ UNCHANGED <<policy, window, paused, handlers, work, history>>
CloseWindow ==
  /\ Ask("idle") /\ window' = NoWindow
  /\ UNCHANGED <<policy, chat, handlers, work, history>>
Free ==
  /\ Ask("idle") /\ paused' = FALSE /\ snoozed' = FALSE
  /\ UNCHANGED <<policy, window, handlers, work, history>>

Expire ==
  /\ window # NoWindow /\ window.live /\ window' = [window EXCEPT !.live = FALSE]
  /\ UNCHANGED <<policy, chat, handlers, work, owner, history, requests>>
SnoozeEnds ==
  /\ snoozed /\ snoozed' = FALSE
  /\ UNCHANGED <<policy, window, paused, handlers, work, owner, history, requests>>

Handle(m) ==
  \/ ReadPolicy(m) \/ Match(m) \/ CloseStale(m) \/ CheckAvailability(m) \/ Admit(m) \/ WakeTask(m)
  \/ SetTransition(m) \/ CloseForHandoff(m) \/ DropForHandoff(m) \/ CancelForHandoff(m)
Next ==
  \/ \E m \in Messages : Handle(m)
  \/ Take \/ Finish \/ Resume
  \/ SavePolicy \/ Pause \/ PauseOn \/ Snooze \/ CloseWindow \/ Free \/ Expire \/ SnoozeEnds
Spec == Init /\ [][Next]_vars

-----------------------------------------------------------------------------
Stages == {"unseen", "window", "closing", "availability", "admission", "waking", "handoff", "closed",
           "dropping", "cancelling", "handed", "seen"}
Readings == [version : 0..MaxChanges, windowed : BOOLEAN, active : BOOLEAN,
             decision : {"none", "invoked", "window"}, scheduled : BOOLEAN]
Flags == paused \in BOOLEAN /\ snoozed \in BOOLEAN
TypeOK ==
  /\ Flags
  /\ policy \in [version : 0..MaxChanges, windowed : BOOLEAN]
  /\ window \in Windows \cup {NoWindow}
  /\ at \in [Messages -> Stages]
  /\ read \in [Messages -> Readings]
  /\ pending \in Turns \cup {NoTurn} /\ turn \in Turns \cup {NoTurn}
  /\ task \in {"none", "waiting", "running"}
  /\ owner \in {"idle", "closing", "dropping", "cancelling"}
  /\ granted \in Nat /\ answered \subseteq 0..MaxChanges /\ requests \in 0..MaxRequests

(* Between two answered invocations the assistant takes at most as many    *)
(* follow-up turns as the policy allows, whichever handlers read the same  *)
(* window at the same time and however often runs prolong it.              *)
FollowupsBounded == granted <= MaxTurns

(* A follow-up turn runs only under a policy under which an invocation was *)
(* answered: a window of an earlier policy, which a run may open after the *)
(* change, admits nobody.                                                  *)
FollowupsOfThePolicy ==
  \A t \in {pending, turn} : t # NoTurn /\ t.decision = "window" => t.version \in answered
=============================================================================
