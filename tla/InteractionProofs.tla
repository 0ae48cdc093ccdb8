---------------------------- MODULE InteractionProofs ----------------------------
(***************************************************************************)
(* Who may start a turn, and when.                                         *)
(*                                                                         *)
(* The follow-up turns of a chat stay within the policy, for any messages, *)
(* any policy changes and any bound.  The turns already granted and those  *)
(* the open window still has never exceed the bound together; a window, a  *)
(* reader and a turn name a policy under which an invocation was answered. *)
(*                                                                         *)
(* The schedule allows exactly its weekly hours, for any length of a day.  *)
(* A message addresses the assistant exactly when it begins with a name or *)
(* is a typo away from one, for texts and names of any length: the rows of *)
(* the edit distance count typos, as far as one.                           *)
(***************************************************************************)
EXTENDS EngagementWindow, TriggerRules, SequenceTheorems, FiniteSetTheorems,
        WellFoundedInduction, TLAPS

(* What a handler has decided by the stage it has reached; a task that     *)
(* runs has a turn.                                                        *)
Staged ==
  /\ task = "running" => turn # NoTurn
  /\ \A m \in Messages :
    /\ at[m] \in {"unseen", "window", "closing", "availability"} => ~read[m].scheduled
    /\ read[m].scheduled => read[m].decision # "none"

Budget == window # NoWindow => granted + window.left <= MaxTurns

Answered ==
  /\ window # NoWindow => window.version \in answered
  /\ \A m \in Messages : read[m].decision = "window" => read[m].version \in answered

Inv == TypeOK /\ Staged /\ Budget /\ FollowupsBounded /\ Answered /\ FollowupsOfThePolicy

LEMMA Initially == Init => Inv
<1> SUFFICES ASSUME Init PROVE Inv
  OBVIOUS
<1> USE EngagementAssumption DEF Init
<1>1. Unread \in Readings
  BY DEF Unread, Readings
<1>2. TypeOK
  <2>1. Flags
    BY Zenon DEF Flags
  <2>2. policy \in [version : 0..MaxChanges, windowed : BOOLEAN]
    BY SMT
  <2>3. at \in [Messages -> Stages] /\ read \in [Messages -> Readings]
    BY <1>1 DEF Stages
  <2> QED BY <2>1, <2>2, <2>3 DEF TypeOK
<1>3. Staged /\ Answered
  BY DEF Staged, Answered, Unread
<1>4. Budget /\ FollowupsBounded /\ FollowupsOfThePolicy
  BY DEF Budget, FollowupsBounded, FollowupsOfThePolicy
<1> QED BY <1>2, <1>3, <1>4 DEF Inv

LEMMA FlagsKept == Flags /\ [Next]_vars => Flags'
<1> SUFFICES ASSUME Flags, [Next]_vars PROVE Flags'
  OBVIOUS
<1> USE Zenon DEF Flags, chat
<1>1. ASSUME NEW m \in Messages, Handle(m) PROVE Flags'
  BY <1>1 DEF Handle, ReadPolicy, Match, CloseStale, CheckAvailability, Admit, WakeTask,
              SetTransition, CloseForHandoff, DropForHandoff, CancelForHandoff
<1>2. CASE Take \/ Finish \/ Resume \/ SavePolicy
  BY <1>2 DEF Take, Finish, Resume, SavePolicy
<1>3. CASE Pause \/ PauseOn \/ Snooze \/ CloseWindow
  BY <1>3 DEF Pause, PauseOn, Snooze, CloseWindow
<1>4. CASE Free \/ Expire \/ SnoozeEnds
  BY <1>4 DEF Free, Expire, SnoozeEnds
<1>5. CASE UNCHANGED vars
  BY <1>5 DEF vars
<1> QED BY <1>1, <1>2, <1>3, <1>4, <1>5 DEF Next

(* What a handler has read, or decided, is a reading.                      *)
LEMMA ReadingUpdated ==
  ASSUME NEW r \in Readings, NEW d \in {"none", "invoked", "window"}, NEW b \in BOOLEAN,
         NEW v \in 0..MaxChanges, NEW w \in BOOLEAN
  PROVE  /\ [r EXCEPT !.decision = d] \in Readings
         /\ [r EXCEPT !.scheduled = b] \in Readings
         /\ [Unread EXCEPT !.version = v, !.windowed = w, !.active = b] \in Readings
  BY DEF Readings, Unread

LEMMA WindowProlonged ==
  ASSUME NEW w \in Windows, NEW b \in BOOLEAN
  PROVE  [w EXCEPT !.live = b] \in Windows
  BY DEF Windows

LEMMA WindowUsed ==
  ASSUME NEW w \in Windows, w.left > 0
  PROVE  [w EXCEPT !.left = @ - 1] \in Windows
  BY EngagementAssumption DEF Windows

(* Whoever takes a turn up has decided on one.                             *)
LEMMA TurnMade ==
  ASSUME TypeOK, Staged, NEW m \in Messages, read[m].scheduled
  PROVE  New(m) \in Turns
<1>1. read[m] \in Readings
  BY DEF TypeOK
<1>2. read[m].decision \in {"invoked", "window"}
  BY <1>1, read[m].decision # "none" DEF Readings, Staged
<1> QED BY <1>1, <1>2 DEF Readings, New, Turns

LEMMA TypesKept == TypeOK /\ Staged /\ [Next]_vars => TypeOK'
<1> SUFFICES ASSUME TypeOK, Staged, [Next]_vars PROVE TypeOK'
  OBVIOUS
<1>0. Flags'
  BY FlagsKept DEF TypeOK
<1> USE <1>0, EngagementAssumption DEF TypeOK, handlers, chat, work, history
<1>1. ASSUME NEW m \in Messages, ReadPolicy(m) PROVE TypeOK'
  <2> DEFINE p == IF Active THEN Pinned ELSE policy
  <2>1. p.version \in 0..MaxChanges /\ p.windowed \in BOOLEAN
    BY DEF Pinned, Turns
  <2>2. read' = [read EXCEPT ![m] = [Unread EXCEPT !.version = p.version, !.windowed = p.windowed,
                                                   !.active = Active]]
    BY <1>1 DEF ReadPolicy
  <2>3. Active \in BOOLEAN
    BY Zenon DEF Active
  <2> HIDE DEF p
  <2>4. [Unread EXCEPT !.version = p.version, !.windowed = p.windowed, !.active = Active] \in Readings
    BY <2>1, <2>3, ReadingUpdated
  <2>5. read' \in [Messages -> Readings]
    BY <2>2, <2>4
  <2> QED BY <1>1, <2>5 DEF ReadPolicy, Goes, Stages
<1>2. ASSUME NEW m \in Messages, Match(m) PROVE TypeOK'
  <2>1. window' \in Windows \cup {NoWindow}
    BY <1>2 DEF Match, Current
  <2>2. PICK d \in {"none", "invoked", "window"} : read' = [read EXCEPT ![m] = [@ EXCEPT !.decision = d]]
    BY <1>2 DEF Match, Decision
  <2>3. read' \in [Messages -> Readings]
    BY <2>2, ReadingUpdated
  <2> QED BY <1>2, <2>1, <2>3 DEF Match, Goes, Stages
<1>3. ASSUME NEW m \in Messages, CloseStale(m) PROVE TypeOK'
  BY <1>3 DEF CloseStale, Goes, Stages
<1>4. ASSUME NEW m \in Messages, CheckAvailability(m) PROVE TypeOK'
  <2>1. PICK b \in BOOLEAN : read' = [read EXCEPT ![m] = [@ EXCEPT !.scheduled = b]]
    BY <1>4, Zenon DEF CheckAvailability
  <2>2. read' \in [Messages -> Readings]
    BY <2>1, ReadingUpdated
  <2> QED BY <1>4, <2>2 DEF CheckAvailability, Goes, Stages
<1>5. ASSUME NEW m \in Messages, Admit(m) PROVE TypeOK'
  <2>1. at' \in [Messages -> Stages]
    BY <1>5 DEF Admit, Admitted, Stages
  <2>2. pending' \in Turns \cup {NoTurn}
    BY <1>5, TurnMade DEF Admit
  <2>3. window' \in Windows \cup {NoWindow} /\ granted' \in Nat
    <3>1. CASE read[m].scheduled /\ read[m].decision = "window" /\ pending = NoTurn /\ Usable
      <4>1. window \in Windows /\ window.left > 0
        BY <3>1 DEF Usable
      <4>2. window' = [window EXCEPT !.left = @ - 1] /\ granted' = granted + 1
        BY <1>5, <3>1 DEF Admit
      <4>3. [window EXCEPT !.left = @ - 1] \in Windows
        BY <4>1, WindowUsed
      <4> QED BY <4>2, <4>3
    <3>2. CASE ~(read[m].scheduled /\ read[m].decision = "window" /\ pending = NoTurn /\ Usable)
      BY <1>5, <3>2 DEF Admit
    <3> QED BY <3>1, <3>2
  <2> QED BY <1>5, <2>1, <2>2, <2>3 DEF Admit
<1>6. ASSUME NEW m \in Messages, WakeTask(m) PROVE TypeOK'
  BY <1>6 DEF WakeTask, Goes, Stages
<1>7. ASSUME NEW m \in Messages,
             SetTransition(m) \/ CloseForHandoff(m) \/ DropForHandoff(m) \/ CancelForHandoff(m)
      PROVE TypeOK'
  BY <1>7 DEF SetTransition, CloseForHandoff, DropForHandoff, CancelForHandoff, Goes, Stages
<1>8. CASE Take \/ Resume
  BY <1>8 DEF Take, Resume
<1>9. CASE Finish
  <2>0. turn \in Turns
    BY <1>9 DEF Finish, Staged
  <2>1. window' \in Windows \cup {NoWindow}
    <3>1. CASE UNCHANGED <<window, history>>
      BY <3>1
    <3>2. CASE window' = [version |-> turn.version, left |-> MaxTurns, live |-> TRUE]
               /\ turn.windowed /\ turn.decision = "invoked"
      BY <2>0, <3>2 DEF Turns, Windows
    <3>3. CASE window' = IF window # NoWindow /\ window.left > 0 THEN [window EXCEPT !.live = TRUE]
                         ELSE window
      BY <3>3, WindowProlonged
    <3> QED BY <1>9, <3>1, <3>2, <3>3 DEF Finish
  <2>2. answered' \subseteq 0..MaxChanges /\ granted' \in Nat
    BY <1>9, <2>0 DEF Finish, Turns
  <2> QED BY <1>9, <2>1, <2>2 DEF Finish
<1>10. CASE SavePolicy
  BY <1>10 DEF SavePolicy
<1>11. CASE Pause
  BY <1>11 DEF Pause, Ask
<1>12. CASE PauseOn
  BY <1>12 DEF PauseOn
<1>13. CASE Snooze \/ CloseWindow \/ Free
  <2>1. CASE Snooze
    BY <2>1 DEF Snooze, Ask
  <2>2. CASE CloseWindow
    BY <2>2 DEF CloseWindow, Ask
  <2>3. CASE Free
    BY <2>3 DEF Free, Ask
  <2> QED BY <1>13, <2>1, <2>2, <2>3
<1>14. CASE Expire
  BY <1>14, WindowProlonged DEF Expire
<1>15. CASE SnoozeEnds \/ UNCHANGED vars
  BY <1>15 DEF SnoozeEnds, vars
<1> QED BY <1>1, <1>2, <1>3, <1>4, <1>5, <1>6, <1>7, <1>8, <1>9, <1>10, <1>11, <1>12, <1>13,
           <1>14, <1>15 DEF Next, Handle

(* What one handler's step leaves in its reading.                          *)
LEMMA ReadingKeeps ==
  ASSUME NEW r \in Readings, NEW d \in {"none", "invoked", "window"}, NEW b \in BOOLEAN
  PROVE  /\ LET s == [r EXCEPT !.decision = d]
            IN  s.decision = d /\ s.version = r.version /\ s.scheduled = r.scheduled
         /\ LET s == [r EXCEPT !.scheduled = b]
            IN  s.decision = r.decision /\ s.version = r.version /\ s.scheduled = b
  BY DEF Readings

(* The step of a handler, as far as the invariant looks at it: only the    *)
(* match makes a decision, on a window of the policy it read; only the     *)
(* check of availability schedules a turn, where one was decided.          *)
LEMMA ReadStep ==
  ASSUME TypeOK, NEW m \in Messages, Handle(m)
  PROVE  /\ \A n \in Messages \ {m} : read'[n] = read[n] /\ at'[n] = at[n]
         /\ \/ /\ at[m] = "unseen" /\ at'[m] = "window"
               /\ read'[m].decision = "none" /\ ~read'[m].scheduled
            \/ /\ at[m] = "window"
               /\ read'[m].version = read[m].version /\ read'[m].scheduled = read[m].scheduled
               /\ read'[m].decision = "window" => window # NoWindow /\ window.version = read[m].version
            \/ /\ at[m] = "availability" /\ at'[m] = "admission"
               /\ read'[m].version = read[m].version /\ read'[m].decision = read[m].decision
               /\ read'[m].scheduled => read[m].decision # "none"
            \/ read'[m] = read[m] /\ (at'[m] = "availability" => at[m] = "closing")
               /\ at'[m] \notin {"unseen", "window", "closing"}
<1>0. read[m] \in Readings /\ DOMAIN read = Messages /\ DOMAIN at = Messages
  BY DEF TypeOK
<1> USE DEF TypeOK, handlers, Goes
<1>1. CASE ReadPolicy(m)
  <2> DEFINE p == IF Active THEN Pinned ELSE policy
  <2>1. p.version \in 0..MaxChanges /\ p.windowed \in BOOLEAN
    BY DEF Pinned, Turns
  <2>2. read' = [read EXCEPT ![m] = [Unread EXCEPT !.version = p.version, !.windowed = p.windowed,
                                                   !.active = Active]]
    BY <1>1 DEF ReadPolicy
  <2>3. Active \in BOOLEAN
    BY Zenon DEF Active
  <2> HIDE DEF p
  <2> DEFINE s == [Unread EXCEPT !.version = p.version, !.windowed = p.windowed, !.active = Active]
  <2>4. s.decision = "none" /\ s.scheduled = FALSE
    BY DEF Unread
  <2>5. read' = [read EXCEPT ![m] = s]
    BY <2>2
  <2> HIDE DEF s
  <2> QED BY <1>0, <1>1, <2>4, <2>5 DEF ReadPolicy
<1>2. CASE Match(m)
  <2>1. PICK d \in {"none", "invoked", "window"} :
          /\ read' = [read EXCEPT ![m] = [@ EXCEPT !.decision = d]]
          /\ d = "window" => window # NoWindow /\ window.version = read[m].version
    BY <1>2 DEF Match, Decision, Current
  <2>2. /\ read'[m].decision = d /\ read'[m].version = read[m].version
        /\ read'[m].scheduled = read[m].scheduled
    BY <1>0, <2>1, ReadingKeeps
  <2> QED BY <1>0, <1>2, <2>1, <2>2 DEF Match
<1>3. CASE CheckAvailability(m)
  <2>1. PICK b \in BOOLEAN : /\ read' = [read EXCEPT ![m] = [@ EXCEPT !.scheduled = b]]
                             /\ b => read[m].decision # "none"
    BY <1>3, Zenon DEF CheckAvailability
  <2>2. /\ read'[m].decision = read[m].decision /\ read'[m].version = read[m].version
        /\ read'[m].scheduled = b
    BY <1>0, <2>1, ReadingKeeps
  <2> QED BY <1>0, <1>3, <2>1, <2>2 DEF CheckAvailability
<1>4. CASE CloseStale(m) \/ WakeTask(m)
  BY <1>0, <1>4 DEF CloseStale, WakeTask
<1>5. CASE Admit(m)
  BY <1>0, <1>5 DEF Admit, Admitted
<1>6. CASE SetTransition(m) \/ CloseForHandoff(m) \/ DropForHandoff(m) \/ CancelForHandoff(m)
  BY <1>0, <1>6 DEF SetTransition, CloseForHandoff, DropForHandoff, CancelForHandoff
<1> QED BY <1>1, <1>2, <1>3, <1>4, <1>5, <1>6 DEF Handle

LEMMA StagesKept == TypeOK /\ Staged /\ [Next]_vars => Staged'
<1> SUFFICES ASSUME TypeOK, Staged, [Next]_vars PROVE Staged'
  OBVIOUS
<1>1. ASSUME NEW m \in Messages, Handle(m) PROVE Staged'
  <2>1. (task = "running" => turn # NoTurn)'
    BY <1>1 DEF Staged, Handle, ReadPolicy, Match, CloseStale, CheckAvailability, Admit, WakeTask,
                SetTransition, CloseForHandoff, DropForHandoff, CancelForHandoff, work
  <2>2. ASSUME NEW n \in Messages
        PROVE  /\ at'[n] \in {"unseen", "window", "closing", "availability"} => ~read'[n].scheduled
               /\ read'[n].scheduled => read'[n].decision # "none"
    BY <1>1, ReadStep DEF Staged
  <2> QED BY <2>1, <2>2 DEF Staged
<1>2. CASE Take \/ Finish \/ Resume \/ SavePolicy
  BY <1>2 DEF Take, Finish, Resume, SavePolicy, Staged, handlers, work
<1>3. CASE Pause \/ PauseOn \/ Snooze \/ CloseWindow \/ Free \/ Expire \/ SnoozeEnds
  BY <1>3 DEF Pause, PauseOn, Snooze, CloseWindow, Free, Expire, SnoozeEnds, Staged, handlers, work
<1>4. CASE UNCHANGED vars
  BY <1>4 DEF vars, Staged, handlers, work
<1> QED BY <1>1, <1>2, <1>3, <1>4 DEF Next

(* A window is new and full when nothing was granted under it; a turn      *)
(* granted is a turn less in the window.                                   *)
LEMMA BudgetKept ==
  TypeOK /\ Staged /\ Budget /\ FollowupsBounded /\ [Next]_vars => Budget' /\ FollowupsBounded'
<1> SUFFICES ASSUME TypeOK, Staged, Budget, FollowupsBounded, [Next]_vars
             PROVE  Budget' /\ FollowupsBounded'
  OBVIOUS
<1>0. granted \in Nat /\ MaxTurns \in Nat /\ (window # NoWindow => window \in Windows)
  BY EngagementAssumption DEF TypeOK
<1>01. ASSUME NEW w \in Windows, NEW b \in BOOLEAN
       PROVE  [w EXCEPT !.live = b].left = w.left /\ w.left \in Nat
              /\ [w EXCEPT !.left = @ - 1].left = w.left - 1
  BY <1>0 DEF Windows
<1> USE DEF Budget, FollowupsBounded, history
<1>1. ASSUME NEW m \in Messages, Admit(m) PROVE Budget' /\ FollowupsBounded'
  <2>1. CASE UNCHANGED <<window, granted>>
    BY <2>1
  <2>2. CASE Usable /\ window' = [window EXCEPT !.left = @ - 1] /\ granted' = granted + 1
    <3>1. window \in Windows /\ window.left > 0
      BY <1>0, <2>2 DEF Usable
    <3>2. window'.left = window.left - 1 /\ window.left \in Nat
      BY <1>01, <2>2, <3>1
    <3>3. granted + window.left <= MaxTurns
      BY <2>2 DEF Usable
    <3> QED BY <1>0, <2>2, <3>1, <3>2, <3>3
  <2> QED BY <1>1, <2>1, <2>2 DEF Admit
<1>2. ASSUME NEW m \in Messages, Handle(m), ~Admit(m) PROVE Budget' /\ FollowupsBounded'
  BY <1>2 DEF Handle, ReadPolicy, Match, Current, CloseStale, CheckAvailability, WakeTask,
              SetTransition, CloseForHandoff, DropForHandoff, CancelForHandoff
<1>3. CASE Finish
  <2>1. CASE UNCHANGED <<window, history>>
    BY <2>1
  <2>2. CASE window' = [version |-> turn.version, left |-> MaxTurns, live |-> TRUE] /\ granted' = 0
    BY <1>0, <2>2
  <2>3. CASE /\ window' = IF window # NoWindow /\ window.left > 0 THEN [window EXCEPT !.live = TRUE]
                          ELSE window
             /\ UNCHANGED history
    BY <1>0, <1>01, <2>3
  <2> QED BY <1>3, <2>1, <2>2, <2>3 DEF Finish
<1>4. CASE Expire
  BY <1>0, <1>01, <1>4 DEF Expire
<1>5. CASE Take \/ Resume \/ SavePolicy \/ Snooze \/ CloseWindow \/ Free \/ SnoozeEnds
  BY <1>5 DEF Take, Resume, SavePolicy, Snooze, CloseWindow, Free, SnoozeEnds
<1>6. CASE Pause \/ PauseOn
  BY <1>6 DEF Pause, PauseOn
<1>7. CASE UNCHANGED vars
  BY <1>7 DEF vars
<1> QED BY <1>1, <1>2, <1>3, <1>4, <1>5, <1>6, <1>7 DEF Next

(* A run adds the policy of its invocation to the answered ones before its *)
(* window is there to be read; nobody admits on a window of another policy.*)
LEMMA AnsweredKept ==
  TypeOK /\ Staged /\ Answered /\ FollowupsOfThePolicy /\ [Next]_vars =>
    Answered' /\ FollowupsOfThePolicy'
<1> SUFFICES ASSUME TypeOK, Staged, Answered, FollowupsOfThePolicy, [Next]_vars
             PROVE  Answered' /\ FollowupsOfThePolicy'
  OBVIOUS
<1>0. /\ window # NoWindow => window \in Windows
      /\ \A n \in Messages : read[n] \in Readings
  BY DEF TypeOK
<1>01. ASSUME NEW w \in Windows, NEW b \in BOOLEAN
       PROVE  [w EXCEPT !.live = b].version = w.version /\ [w EXCEPT !.left = @ - 1].version = w.version
  BY DEF Windows
<1> USE DEF Answered, FollowupsOfThePolicy, history, work
<1>1. ASSUME NEW m \in Messages, Handle(m) PROVE Answered' /\ FollowupsOfThePolicy'
  <2>1. answered' = answered
    BY <1>1 DEF Handle, ReadPolicy, Match, CloseStale, CheckAvailability, Admit, WakeTask,
                SetTransition, CloseForHandoff, DropForHandoff, CancelForHandoff
  <2>2. \A n \in Messages : read'[n].decision = "window" => read'[n].version \in answered
    BY <1>1, ReadStep
  <2>3. window' # NoWindow => window # NoWindow /\ window'.version = window.version
    <3>1. CASE Admit(m)
      BY <1>0, <1>01, <3>1 DEF Admit, Usable
    <3>2. CASE ~Admit(m)
      BY <1>1, <3>2 DEF Handle, ReadPolicy, Match, Current, CloseStale, CheckAvailability, WakeTask,
                        SetTransition, CloseForHandoff, DropForHandoff, CancelForHandoff
    <3> QED BY <3>1, <3>2
  <2>4. turn' \in {turn, NoTurn} /\ (pending' \in {pending, NoTurn} \/ pending' = New(m))
    BY <1>1 DEF Handle, ReadPolicy, Match, CloseStale, CheckAvailability, Admit, WakeTask,
                SetTransition, CloseForHandoff, DropForHandoff, CancelForHandoff
  <2>5. New(m).decision = read[m].decision /\ New(m).version = read[m].version
    BY DEF New
  <2>6. Answered'
    BY <2>1, <2>2, <2>3
  <2>7. FollowupsOfThePolicy'
    BY <2>1, <2>4, <2>5
  <2> QED BY <2>6, <2>7
<1>2. CASE Finish
  <2>1. CASE UNCHANGED <<window, history>>
    BY <1>2, <2>1 DEF Finish, handlers
  <2>2. CASE /\ window' = [version |-> turn.version, left |-> MaxTurns, live |-> TRUE]
             /\ answered' = answered \cup {turn.version}
    BY <1>2, <2>2 DEF Finish, handlers
  <2>3. CASE /\ window' = IF window # NoWindow /\ window.left > 0 THEN [window EXCEPT !.live = TRUE]
                          ELSE window
             /\ UNCHANGED history
    BY <1>0, <1>01, <1>2, <2>3 DEF Finish, handlers
  <2> QED BY <1>2, <2>1, <2>2, <2>3 DEF Finish
<1>3. CASE Expire
  BY <1>0, <1>01, <1>3 DEF Expire, handlers
<1>4. CASE Take
  BY <1>4 DEF Take, handlers
<1>5. CASE Resume \/ SavePolicy \/ Snooze \/ CloseWindow \/ Free \/ SnoozeEnds
  BY <1>5 DEF Resume, SavePolicy, Snooze, CloseWindow, Free, SnoozeEnds, handlers
<1>6. CASE Pause \/ PauseOn
  BY <1>6 DEF Pause, PauseOn, handlers
<1>7. CASE UNCHANGED vars
  BY <1>7 DEF vars, handlers
<1> QED BY <1>1, <1>2, <1>3, <1>4, <1>5, <1>6, <1>7 DEF Next

LEMMA Invariance == Spec => []Inv
<1>1. Inv /\ [Next]_vars => Inv'
  BY TypesKept, StagesKept, BudgetKept, AnsweredKept DEF Inv
<1> QED BY Initially, <1>1, PTL DEF Spec

(* Every variable keeps its type: what a handler read stays a policy and a *)
(* decision, a window never has more or fewer turns than the policy gives. *)
THEOREM EngagementTypes == Spec => []TypeOK
<1>1. Inv => TypeOK
  BY DEF Inv
<1> QED BY <1>1, Invariance, PTL

(* The follow-up turns between two answered invocations never exceed       *)
(* max_followup_turns, for any number of handlers, windows and policies.   *)
THEOREM FollowupsStayBounded == Spec => []FollowupsBounded
<1>1. Inv => FollowupsBounded
  BY DEF Inv
<1> QED BY <1>1, Invariance, PTL

(* A follow-up turn belongs to a policy under which an invocation was      *)
(* answered, also when the policy changed while its message was handled.   *)
THEOREM FollowupsStayWithPolicy == Spec => []FollowupsOfThePolicy
<1>1. Inv => FollowupsOfThePolicy
  BY DEF Inv
<1> QED BY <1>1, Invariance, PTL

-----------------------------------------------------------------------------
(* The hours in which automation may answer, of TriggerRules.              *)

(* The remainder of a number below twice the modulus.                      *)
LEMMA Wrapped ==
  ASSUME NEW n \in Nat \ {0}, NEW x \in Nat, x < 2 * n
  PROVE  x % n = IF x < n THEN x ELSE x - n
<1> DEFINE q == x \div n
           r == x % n
<1>1. x = n * q + r /\ r \in 0..n - 1 /\ q \in Int
  OBVIOUS
<1> HIDE DEF q, r
<1>2. q = 0 \/ q = 1
  BY <1>1
<1> QED
  BY <1>1, <1>2 DEF r

(* A minute of the week belongs to one day.                                *)
LEMMA OneDay ==
  ASSUME NEW n \in Nat \ {0}, NEW d \in 0..6, NEW e \in 0..6,
         NEW x \in 0..n - 1, NEW y \in 0..n - 1, d * n + x = e * n + y
  PROVE  d = e /\ x = y
<1>1. ASSUME NEW i \in Int, NEW j \in Int, i < j PROVE i * n + n <= j * n
  <2>1. (j - i - 1) * n >= 0 /\ (j - i - 1) * n = j * n - i * n - n
    BY <1>1
  <2> QED
    BY <2>1
<1>2. ~(d < e) /\ ~(e < d)
  BY <1>1
<1> QED
  BY <1>2

(* A start on day d counts k minutes on to the same day or the next one.   *)
LEMMA MinuteOfHour ==
  ASSUME NEW n \in Nat \ {0}, NEW d \in 0..6, NEW start \in 0..n - 1, NEW k \in 0..n - 1
  PROVE  (d * n + start + k) % (7 * n) =
           IF start + k < n THEN d * n + (start + k)
           ELSE ((d + 1) % 7) * n + (start + k - n)
<1> DEFINE x == d * n + start + k
<1>1. d * n \in Nat /\ d * n <= 6 * n
  OBVIOUS
<1>2. x \in Nat /\ 7 * n \in Nat \ {0} /\ x < 2 * (7 * n)
  BY <1>1
<1>3. x % (7 * n) = IF x < 7 * n THEN x ELSE x - 7 * n
  BY <1>2, Wrapped
<1> HIDE DEF x
<1>4. CASE d = 6
  <2>1. x = 6 * n + (start + k) /\ (d + 1) % 7 = 0
    BY <1>4 DEF x
  <2>2. x < 7 * n <=> start + k < n
    BY <2>1
  <2>3. x - 7 * n = 0 * n + (start + k - n)
    BY <2>1
  <2> QED
    BY <1>3, <1>4, <2>1, <2>2, <2>3 DEF x
<1>5. CASE d \in 0..5
  <2>1. (d + 1) % 7 = d + 1 /\ (d + 1) * n = d * n + n /\ (d + 1) * n <= 6 * n
    BY <1>5
  <2>2. x = d * n + (start + k) /\ x < 7 * n
    BY <2>1 DEF x
  <2> QED
    BY <1>3, <2>1, <2>2 DEF x
<1> QED
  BY <1>4, <1>5

(* A minute of the week lies in an hour that began on a day of a schedule; *)
(* schedule_allows finds it by the day itself or by the day before.        *)
Begun(n, days, start, lasts, day, minute) ==
  \E d \in days, k \in 0..lasts - 1 : day * n + minute = (d * n + start + k) % (7 * n)
Found(days, start, end, day, minute) ==
  \/ start < end /\ day \in days /\ start <= minute /\ minute < end
  \/ start >= end /\ minute >= start /\ day \in days
  \/ start >= end /\ minute < start /\ (day - 1) % 7 \in days /\ minute < end

LEMMA FoundAreBegun ==
  ASSUME NEW n \in Nat \ {0}, NEW days \in SUBSET (0..6),
         NEW start \in 0..n - 1, NEW end \in 0..n - 1, start # end,
         NEW lasts, lasts = (IF start < end THEN end - start ELSE end + n - start),
         NEW day \in 0..6, NEW minute \in 0..n - 1
  PROVE  Begun(n, days, start, lasts, day, minute) <=> Found(days, start, end, day, minute)
<1>1. lasts \in 1..n - 1 /\ 0..lasts - 1 \subseteq 0..n - 1
  OBVIOUS
<1>2. \A e \in 0..6 : /\ (e + 1) % 7 \in 0..6 /\ (e - 1) % 7 \in 0..6
                      /\ (((e + 1) % 7) - 1) % 7 = e /\ (((e - 1) % 7) + 1) % 7 = e
  <2>1. \A e \in 0..6 : /\ (e + 1) % 7 = IF e = 6 THEN 0 ELSE e + 1
                        /\ (e - 1) % 7 = IF e = 0 THEN 6 ELSE e - 1
    OBVIOUS
  <2> QED
    BY <2>1
<1>3. ASSUME NEW d \in days, NEW k \in 0..lasts - 1,
             day * n + minute = (d * n + start + k) % (7 * n)
      PROVE  Found(days, start, end, day, minute)
  <2>1. d \in 0..6 /\ k \in 0..n - 1
    BY <1>1
  <2>2. CASE start + k < n
    <3>1. day * n + minute = d * n + (start + k) /\ start + k \in 0..n - 1
      BY <1>3, <2>1, <2>2, MinuteOfHour
    <3>2. day = d /\ minute = start + k
      BY <2>1, <3>1, OneDay
    <3> QED
      BY <1>1, <3>2 DEF Found
  <2>3. CASE start + k >= n
    <3>1. day * n + minute = ((d + 1) % 7) * n + (start + k - n) /\ start + k - n \in 0..n - 1
      BY <1>3, <2>1, <2>3, MinuteOfHour
    <3>2. day = (d + 1) % 7 /\ minute = start + k - n
      BY <1>2, <2>1, <3>1, OneDay
    <3>3. (day - 1) % 7 = d
      BY <1>2, <2>1, <3>2
    <3>4. start >= end /\ minute < end /\ minute < start
      BY <2>1, <2>3, <3>2
    <3> QED
      BY <3>3, <3>4 DEF Found
  <2> QED
    BY <2>1, <2>2, <2>3
<1>4. ASSUME day \in days, start <= minute, start < end => minute < end
      PROVE  Begun(n, days, start, lasts, day, minute)
  <2> DEFINE k == minute - start
  <2>1. k \in 0..lasts - 1 /\ k \in 0..n - 1 /\ start + k = minute
    BY <1>4
  <2> HIDE DEF k
  <2>2. (day * n + start + k) % (7 * n) = day * n + minute
    BY <2>1, MinuteOfHour
  <2> QED
    BY <1>4, <2>1, <2>2 DEF Begun
<1>5. ASSUME start >= end, minute < start, (day - 1) % 7 \in days, minute < end
      PROVE  Begun(n, days, start, lasts, day, minute)
  <2> DEFINE k == minute + n - start
             d == (day - 1) % 7
  <2>1. k \in 0..lasts - 1 /\ k \in 0..n - 1 /\ start + k - n = minute /\ start + k >= n
    BY <1>5
  <2>2. d \in 0..6 /\ (d + 1) % 7 = day /\ d \in days
    BY <1>2, <1>5
  <2> HIDE DEF k, d
  <2>3. (d * n + start + k) % (7 * n) = day * n + minute
    BY <2>1, <2>2, MinuteOfHour
  <2> QED
    BY <2>1, <2>2, <2>3 DEF Begun
<1>6. Begun(n, days, start, lasts, day, minute) => Found(days, start, end, day, minute)
  BY <1>3 DEF Begun
<1>7. Found(days, start, end, day, minute) => Begun(n, days, start, lasts, day, minute)
  <2>1. CASE start < end /\ day \in days /\ start <= minute /\ minute < end
    BY <1>4, <2>1
  <2>2. CASE start >= end /\ minute >= start /\ day \in days
    BY <1>4, <2>2
  <2>3. CASE start >= end /\ minute < start /\ (day - 1) % 7 \in days /\ minute < end
    BY <1>5, <2>3
  <2> QED
    BY <2>1, <2>2, <2>3 DEF Found
<1> QED
  BY <1>6, <1>7

(* Automation may answer at a minute exactly when it lies in one of the    *)
(* hours that begin on the schedule's days, also past midnight and from    *)
(* Sunday into Monday, for a day of any length and every schedule          *)
(* validate_policy lets the owner save (schedule_allows).                  *)
THEOREM HoursAreWeekly == TriggerSpec => []ScheduleIsWeekly
<1> DEFINE Saved == ValidSchedule(chatPolicy.schedule)
<1>1. TriggerInit => Saved
  BY DEF TriggerInit, Valid
<1>2. Saved /\ [TriggerNext]_triggerVars => Saved'
  BY DEF TriggerNext, triggerVars, Edit, Receive
<1>3. Saved => ScheduleIsWeekly
  <2> SUFFICES ASSUME Saved, chatPolicy.schedule.enabled,
                      NEW day \in 0..6, NEW minute \in 0..DayMinutes - 1
               PROVE  Allows(chatPolicy.schedule, day, minute)
                        <=> day * DayMinutes + minute \in Hours(chatPolicy.schedule)
    BY DEF ScheduleIsWeekly
  <2> DEFINE s == chatPolicy.schedule
             lasts == IF s.start < s.end THEN s.end - s.start ELSE s.end + DayMinutes - s.start
  <2>1. /\ s.days \in SUBSET (0..6) /\ s.start # s.end
        /\ s.start \in 0..DayMinutes - 1 /\ s.end \in 0..DayMinutes - 1
    BY DEF ValidSchedule
  <2>2. day * DayMinutes + minute \in Hours(s)
          <=> Begun(DayMinutes, s.days, s.start, lasts, day, minute)
    BY DEF Hours, Begun
  <2>3. Allows(s, day, minute) <=> Found(s.days, s.start, s.end, day, minute)
    BY DEF Allows, Found
  <2>4. Begun(DayMinutes, s.days, s.start, lasts, day, minute)
          <=> Found(s.days, s.start, s.end, day, minute)
    BY <2>1, FoundAreBegun, TriggerAssumption
  <2> QED
    BY <2>2, <2>3, <2>4
<1> QED
  BY <1>1, <1>2, <1>3, PTL DEF TriggerSpec

-----------------------------------------------------------------------------
(* Names: the edit distance, the words it is applied to, and the choice    *)
(* among the names.                                                        *)

LEMMA LeastOf ==
  ASSUME NEW T \in SUBSET Nat, T # {}
  PROVE  MinOf(T) \in T /\ \A n \in T : MinOf(T) <= n
<1>1. PICK x \in T : \A y \in T : ~(<<y, x>> \in OpToRel(<, Nat))
  BY NatLessThanWellFounded, WFMin
<1>2. ASSUME NEW y \in T PROVE x <= y
  <2>1. y \in Nat /\ x \in Nat
    OBVIOUS
  <2>2. y < x => <<y, x>> \in OpToRel(<, Nat)
    BY <2>1 DEF OpToRel
  <2>3. ~(y < x)
    BY <1>1, <2>2, Zenon
  <2> QED
    BY <2>1, <2>3
<1> QED
  BY <1>1, <1>2 DEF MinOf

(* Induction, for a set of naturals.                                       *)
LEMMA AllReached ==
  ASSUME NEW G, \A n \in Nat : (\A k \in 0..n - 1 : k \in G) => n \in G
  PROVE  \A n \in Nat : n \in G
<1> DEFINE Bad == {n \in Nat : n \notin G}
<1> SUFFICES ASSUME Bad # {} PROVE FALSE
  OBVIOUS
<1>1. MinOf(Bad) \in Bad /\ \A n \in Bad : MinOf(Bad) <= n
  BY LeastOf
<1>2. \A k \in 0..MinOf(Bad) - 1 : k \in G
  BY <1>1
<1> QED
  BY <1>1, <1>2

(* The recursion over the columns of a row has a solution.                 *)
LEMMA RowUnfolds ==
  ASSUME NEW left, NEW right, NEW i, NEW above, NEW twice, Len(right) \in Nat
  PROVE  Row(left, right, i, above, twice) =
           [j \in 0..Len(right) |->
              IF j = 0 THEN i
              ELSE Cell(left, right, i, j, Row(left, right, i, above, twice)[j - 1], above, twice)]
<1> DEFINE At(f, j) == IF j = 0 THEN i ELSE Cell(left, right, i, j, f[j - 1], above, twice)
           Upto(n, f) == f = [j \in 0..n |-> At(f, j)]
           Bad == {n \in Nat : ~\E f : Upto(n, f)}
<1>1. \E f : Upto(0, f)
  <2>1. Upto(0, [j \in 0..0 |-> i])
    OBVIOUS
  <2> QED BY <2>1
<1>2. ASSUME NEW n \in Nat, NEW f, Upto(n, f)
      PROVE  \E g : Upto(n + 1, g)
  <2> DEFINE last == Cell(left, right, i, n + 1, f[n], above, twice)
             g == [j \in 0..n + 1 |-> IF j <= n THEN f[j] ELSE last]
  <2>1. ASSUME NEW j \in 0..n + 1 PROVE g[j] = At(g, j)
    <3>1. CASE j = 0
      BY <1>2, <3>1
    <3>2. CASE j \in 1..n
      <4>1. g[j] = f[j] /\ g[j - 1] = f[j - 1] /\ f[j] = At(f, j)
        BY <1>2, <3>2
      <4> QED BY <3>2, <4>1
    <3>3. CASE j = n + 1
      <4>1. g[j] = last /\ g[j - 1] = f[n]
        BY <3>3
      <4> QED BY <3>3, <4>1
    <3> QED BY <3>1, <3>2, <3>3
  <2>2. g = [j \in 0..n + 1 |-> At(g, j)]
    BY <2>1
  <2> QED BY <2>2
<1> DEFINE Good == {n \in Nat : \E f : Upto(n, f)}
<1> HIDE DEF Upto
<1>3. ASSUME NEW n \in Nat, \A k \in 0..n - 1 : k \in Good
      PROVE  n \in Good
  <2>1. CASE n = 0
    BY <1>1, <2>1
  <2>2. CASE n # 0
    <3>1. n - 1 \in Nat /\ n - 1 \in 0..n - 1 /\ (n - 1) + 1 = n
      BY <2>2
    <3>2. PICK f : Upto(n - 1, f)
      BY <1>3, <3>1
    <3>3. \E g : Upto((n - 1) + 1, g)
      BY <3>1, <3>2, <1>2
    <3> QED BY <3>1, <3>3
  <2> QED BY <2>1, <2>2
<1> HIDE DEF Good
<1>4. Len(right) \in Good
  BY <1>3, AllReached
<1>5. \E f : f = [j \in 0..Len(right) |-> At(f, j)]
  BY <1>4 DEF Good, Upto
<1> QED
  BY <1>5 DEF Row

(* A cell is a natural number no larger than its ways to it, and is one of *)
(* them.                                                                   *)
LeastWay(c, x, y, z, same, swaps, w) ==
  /\ c <= x + 1 /\ c <= y + 1 /\ IF same THEN c <= z ELSE c <= z + 1
  /\ swaps => c <= w + 1
  /\ \/ c = x + 1 \/ c = y + 1 \/ IF same THEN c = z ELSE c = z + 1
     \/ swaps /\ c = w + 1

LEMMA CellIsLeast ==
  ASSUME NEW left, NEW right, NEW i \in Nat, NEW j \in Nat \ {0}, NEW n \in Nat, j <= n,
         NEW before \in Nat, NEW above \in [0..n -> Nat], NEW twice \in [0..n -> Nat]
  PROVE  /\ Cell(left, right, i, j, before, above, twice) \in Nat
         /\ LeastWay(Cell(left, right, i, j, before, above, twice), before, above[j], above[j - 1],
                     left[i] = right[j], Swaps(left, right, i, j), twice[j - 2])
<1> DEFINE change == above[j - 1] + (IF left[i] = right[j] THEN 0 ELSE 1)
           swaps == Swaps(left, right, i, j)
           T == {before + 1, above[j] + 1, change} \cup (IF swaps THEN {twice[j - 2] + 1} ELSE {})
<1>1. above[j] \in Nat /\ above[j - 1] \in Nat /\ change \in Nat
  <2>1. j \in 0..n /\ j - 1 \in 0..n
    OBVIOUS
  <2> QED BY <2>1
<1>2. swaps => twice[j - 2] \in Nat
  <2>1. swaps => j - 2 \in 0..n
    BY DEF Swaps
  <2> QED BY <2>1
<1>3. change = IF left[i] = right[j] THEN above[j - 1] ELSE above[j - 1] + 1
  BY <1>1
<1> HIDE DEF change, swaps
<1>4. T \in SUBSET Nat /\ T # {}
  <2>1. {before + 1, above[j] + 1, change} \in SUBSET Nat
    BY <1>1
  <2>2. (IF swaps THEN {twice[j - 2] + 1} ELSE {}) \in SUBSET Nat
    BY <1>2
  <2>3. before + 1 \in T
    OBVIOUS
  <2> QED BY <2>1, <2>2, <2>3
<1> HIDE DEF T
<1>5. MinOf(T) \in T /\ \A x \in T : MinOf(T) <= x
  BY <1>4, LeastOf
<1>6. Cell(left, right, i, j, before, above, twice) = MinOf(T)
  BY DEF Cell, change, swaps, T
<1> DEFINE c == MinOf(T)
           same == left[i] = right[j]
<1>7. /\ c \in Nat /\ c <= before + 1 /\ c <= above[j] + 1 /\ c <= change
      /\ swaps => c <= twice[j - 2] + 1
      /\ \/ c = before + 1 \/ c = above[j] + 1 \/ c = change
         \/ swaps /\ c = twice[j - 2] + 1
  BY <1>4, <1>5 DEF T
<1> HIDE DEF c, same
<1>8. LeastWay(c, before, above[j], above[j - 1], same, swaps, twice[j - 2])
  BY <1>3, <1>7 DEF LeastWay, same
<1> QED
  BY <1>6, <1>7, <1>8 DEF swaps, c, same

LEMMA RowTyped ==
  ASSUME NEW left, NEW right, NEW i \in Nat, NEW n \in Nat, Len(right) = n,
         NEW above \in [0..n -> Nat], NEW twice \in [0..n -> Nat]
  PROVE  Row(left, right, i, above, twice) \in [0..n -> Nat]
<1> DEFINE row == Row(left, right, i, above, twice)
           Good == {j \in Nat : j \in 0..n => row[j] \in Nat}
<1>1. row = [j \in 0..n |-> IF j = 0 THEN i ELSE Cell(left, right, i, j, row[j - 1], above, twice)]
  BY RowUnfolds
<1> HIDE DEF row
<1>2. ASSUME NEW j \in Nat, \A k \in 0..j - 1 : k \in Good
      PROVE  j \in Good
  <2> SUFFICES ASSUME j \in 0..n PROVE row[j] \in Nat
    OBVIOUS
  <2>1. CASE j = 0
    BY <1>1, <2>1
  <2>2. CASE j # 0
    <3>1. j - 1 \in Good /\ j - 1 \in 0..n /\ j \in Nat \ {0} /\ j <= n
      BY <1>2, <2>2
    <3>2. row[j - 1] \in Nat
      BY <3>1
    <3>3. Cell(left, right, i, j, row[j - 1], above, twice) \in Nat
      BY <3>1, <3>2, CellIsLeast
    <3> QED BY <1>1, <2>2, <3>3
  <2> QED BY <2>1, <2>2
<1> HIDE DEF Good
<1>3. \A j \in Nat : j \in Good
  BY <1>2, AllReached
<1>4. \A j \in 0..n : row[j] \in Nat
  BY <1>3 DEF Good
<1> QED
  BY <1>1, <1>4 DEF row

(* The recursion over the rows has a solution too.                         *)
LEMMA RowsUnfold ==
  ASSUME NEW left, NEW right, Len(left) \in Nat
  PROVE  Rows(left, right) =
           [i \in 0..Len(left) |->
              IF i = 0 THEN [j \in 0..Len(right) |-> j]
              ELSE Row(left, right, i, Rows(left, right)[i - 1],
                       IF i > 1 THEN Rows(left, right)[i - 2] ELSE Rows(left, right)[0])]
<1> DEFINE At(f, i) == IF i = 0 THEN [j \in 0..Len(right) |-> j]
                       ELSE Row(left, right, i, f[i - 1], IF i > 1 THEN f[i - 2] ELSE f[0])
           Upto(n, f) == f = [i \in 0..n |-> At(f, i)]
<1>1. \E f : Upto(0, f)
  <2>1. Upto(0, [i \in 0..0 |-> [j \in 0..Len(right) |-> j]])
    OBVIOUS
  <2> QED BY <2>1
<1>2. ASSUME NEW n \in Nat, NEW f, Upto(n, f)
      PROVE  \E g : Upto(n + 1, g)
  <2> DEFINE last == Row(left, right, n + 1, f[n], IF n + 1 > 1 THEN f[n - 1] ELSE f[0])
             g == [i \in 0..n + 1 |-> IF i <= n THEN f[i] ELSE last]
  <2>1. ASSUME NEW i \in 0..n + 1 PROVE g[i] = At(g, i)
    <3>1. CASE i = 0
      BY <1>2, <3>1
    <3>2. CASE i \in 1..n
      <4>0. f[i] = At(f, i)
        <5> HIDE DEF At
        <5>1. f = [k \in 0..n |-> At(f, k)]
          BY <1>2
        <5> QED BY <3>2, <5>1
      <4>1. g[i] = f[i] /\ g[i - 1] = f[i - 1] /\ g[0] = f[0]
        BY <3>2
      <4>2. i > 1 => g[i - 2] = f[i - 2]
        BY <1>2, <3>2
      <4> QED BY <3>2, <4>0, <4>1, <4>2
    <3>3. CASE i = n + 1
      <4>1. g[i] = last /\ g[i - 1] = f[n] /\ g[0] = f[0] /\ i # 0
        BY <3>3
      <4>2. i > 1 => g[i - 2] = f[n - 1]
        BY <3>3
      <4>3. (IF i > 1 THEN g[i - 2] ELSE g[0]) = (IF n + 1 > 1 THEN f[n - 1] ELSE f[0])
        BY <3>3, <4>1, <4>2
      <4>4. At(g, i) = Row(left, right, i, g[i - 1], IF i > 1 THEN g[i - 2] ELSE g[0])
        BY <4>1
      <4>5. last = Row(left, right, i, g[i - 1], IF i > 1 THEN g[i - 2] ELSE g[0])
        BY <3>3, <4>1, <4>3
      <4> QED BY <4>1, <4>4, <4>5
    <3> QED BY <3>1, <3>2, <3>3
  <2>2. g = [i \in 0..n + 1 |-> At(g, i)]
    BY <2>1
  <2> QED BY <2>2
<1> DEFINE Good == {n \in Nat : \E f : Upto(n, f)}
<1> HIDE DEF Upto
<1>3. ASSUME NEW n \in Nat, \A k \in 0..n - 1 : k \in Good
      PROVE  n \in Good
  <2>1. CASE n = 0
    BY <1>1, <2>1
  <2>2. CASE n # 0
    <3>1. n - 1 \in Nat /\ n - 1 \in 0..n - 1 /\ (n - 1) + 1 = n
      BY <2>2
    <3>2. PICK f : Upto(n - 1, f)
      BY <1>3, <3>1
    <3>3. \E g : Upto((n - 1) + 1, g)
      BY <3>1, <3>2, <1>2
    <3> QED BY <3>1, <3>3
  <2> QED BY <2>1, <2>2
<1> HIDE DEF Good
<1>4. Len(left) \in Good
  BY <1>3, AllReached
<1>5. \E f : f = [i \in 0..Len(left) |-> At(f, i)]
  BY <1>4 DEF Good, Upto
<1> QED
  BY <1>5 DEF Rows

LEMMA RowsTyped ==
  ASSUME NEW left, NEW right, Len(left) \in Nat, Len(right) \in Nat
  PROVE  Rows(left, right) \in [0..Len(left) -> [0..Len(right) -> Nat]]
<1> DEFINE m == Len(left)
           n == Len(right)
           rows == Rows(left, right)
           twice(i) == IF i > 1 THEN rows[i - 2] ELSE rows[0]
           Good == {i \in Nat : i \in 0..m => rows[i] \in [0..n -> Nat]}
<1>1. rows = [i \in 0..m |-> IF i = 0 THEN [j \in 0..n |-> j]
                            ELSE Row(left, right, i, rows[i - 1], twice(i))]
  BY RowsUnfold
<1> HIDE DEF rows
<1>2. ASSUME NEW i \in Nat, \A k \in 0..i - 1 : k \in Good
      PROVE  i \in Good
  <2> SUFFICES ASSUME i \in 0..m PROVE rows[i] \in [0..n -> Nat]
    OBVIOUS
  <2>1. CASE i = 0
    BY <1>1, <2>1
  <2>2. CASE i # 0
    <3>1. i - 1 \in Good /\ i - 1 \in 0..m /\ 0 \in Good /\ 0 \in 0..m
      BY <1>2, <2>2
    <3>2. i > 1 => i - 2 \in Good /\ i - 2 \in 0..m
      BY <1>2
    <3>3. rows[i - 1] \in [0..n -> Nat] /\ twice(i) \in [0..n -> Nat]
      BY <3>1, <3>2
    <3> HIDE DEF twice
    <3>4. Row(left, right, i, rows[i - 1], twice(i)) \in [0..n -> Nat]
      BY <3>3, RowTyped
    <3>5. rows[i] = Row(left, right, i, rows[i - 1], twice(i))
      BY <1>1, <2>2
    <3> QED BY <3>4, <3>5
  <2> QED BY <2>1, <2>2
<1> HIDE DEF Good
<1>3. \A i \in Nat : i \in Good
  BY <1>2, AllReached
<1>4. \A i \in 0..m : rows[i] \in [0..n -> Nat]
  BY <1>3 DEF Good
<1> QED
  BY <1>1, <1>4 DEF rows

(* How the first i graphemes of u and the first j of v may differ.         *)
Equal(u, v, i, j) == i = j /\ \A k \in 1..i : u[k] = v[k]
Lacks(u, v, i, j, p) ==
  /\ i = j + 1 /\ p \in 1..i
  /\ \A k \in 1..p - 1 : u[k] = v[k]
  /\ \A k \in p..j : u[k + 1] = v[k]
Changes(u, v, i, j, p) == i = j /\ p \in 1..i /\ \A k \in 1..i : k # p => u[k] = v[k]
Transposes(u, v, i, j, p) ==
  /\ i = j /\ p \in 1..i - 1 /\ u[p] = v[p + 1] /\ u[p + 1] = v[p]
  /\ \A k \in 1..i : k \notin {p, p + 1} => u[k] = v[k]
Typo(u, v, i, j) ==
  \E p \in Nat : \/ Lacks(u, v, i, j, p) \/ Lacks(v, u, j, i, p)
                 \/ Changes(u, v, i, j, p) \/ Transposes(u, v, i, j, p)
Near(u, v, i, j) == Equal(u, v, i, j) \/ Typo(u, v, i, j)

Ways(u, v, i, j) ==
  \/ Equal(u, v, i, j - 1) \/ Equal(u, v, i - 1, j) \/ Equal(u, v, i - 1, j - 1)
  \/ Near(u, v, i - 1, j - 1) /\ u[i] = v[j]
  \/ Swaps(u, v, i, j) /\ Equal(u, v, i - 2, j - 2)

LEMMA EqualGrows ==
  ASSUME NEW u, NEW v, NEW i \in Nat \ {0}, NEW j \in Nat \ {0}
  PROVE  Equal(u, v, i, j) <=> Equal(u, v, i - 1, j - 1) /\ u[i] = v[j]
BY DEF Equal

LEMMA WaysAreNear ==
  ASSUME NEW u, NEW v, NEW i \in Nat \ {0}, NEW j \in Nat \ {0}, Ways(u, v, i, j)
  PROVE  Near(u, v, i, j)
<1>1. CASE Equal(u, v, i, j - 1)
  <2>1. Lacks(v, u, j, i, j)
    BY <1>1 DEF Equal, Lacks
  <2> QED BY <2>1 DEF Near, Typo
<1>2. CASE Equal(u, v, i - 1, j)
  <2>1. Lacks(u, v, i, j, i)
    BY <1>2 DEF Equal, Lacks
  <2> QED BY <2>1 DEF Near, Typo
<1>3. CASE Equal(u, v, i - 1, j - 1)
  <2>1. Changes(u, v, i, j, i)
    BY <1>3 DEF Equal, Changes
  <2> QED BY <2>1 DEF Near, Typo
<1>4. CASE Near(u, v, i - 1, j - 1) /\ u[i] = v[j]
  <2>1. CASE Equal(u, v, i - 1, j - 1)
    BY <1>3, <2>1
  <2>2. ASSUME NEW p \in Nat, Lacks(u, v, i - 1, j - 1, p) PROVE Lacks(u, v, i, j, p)
    BY <1>4, <2>2 DEF Lacks
  <2>3. ASSUME NEW p \in Nat, Lacks(v, u, j - 1, i - 1, p) PROVE Lacks(v, u, j, i, p)
    BY <1>4, <2>3 DEF Lacks
  <2>4. ASSUME NEW p \in Nat, Changes(u, v, i - 1, j - 1, p) PROVE Changes(u, v, i, j, p)
    BY <1>4, <2>4 DEF Changes
  <2>5. ASSUME NEW p \in Nat, Transposes(u, v, i - 1, j - 1, p) PROVE Transposes(u, v, i, j, p)
    BY <1>4, <2>5 DEF Transposes
  <2> QED BY <1>4, <2>1, <2>2, <2>3, <2>4, <2>5 DEF Near, Typo
<1>5. CASE Swaps(u, v, i, j) /\ Equal(u, v, i - 2, j - 2)
  <2>1. Transposes(u, v, i, j, i - 1) /\ i - 1 \in Nat
    BY <1>5 DEF Equal, Transposes, Swaps
  <2> QED BY <2>1 DEF Near, Typo
<1> QED
  BY <1>1, <1>2, <1>3, <1>4, <1>5 DEF Ways

LEMMA NearIsWays ==
  ASSUME NEW u, NEW v, NEW i \in Nat \ {0}, NEW j \in Nat \ {0}, Near(u, v, i, j)
  PROVE  Ways(u, v, i, j)
<1>1. CASE Equal(u, v, i, j)
  BY <1>1, EqualGrows DEF Ways
<1>2. ASSUME NEW p \in Nat, Lacks(u, v, i, j, p) PROVE Ways(u, v, i, j)
  <2>1. CASE p = i
    <3>1. Equal(u, v, i - 1, j)
      BY <1>2, <2>1 DEF Equal, Lacks
    <3> QED BY <3>1 DEF Ways
  <2>2. CASE p # i
    <3>1. Lacks(u, v, i - 1, j - 1, p) /\ u[i] = v[j]
      BY <1>2, <2>2 DEF Lacks
    <3> QED BY <3>1 DEF Ways, Near, Typo
  <2> QED BY <2>1, <2>2
<1>3. ASSUME NEW p \in Nat, Lacks(v, u, j, i, p) PROVE Ways(u, v, i, j)
  <2>1. CASE p = j
    <3>1. Equal(u, v, i, j - 1)
      BY <1>3, <2>1 DEF Equal, Lacks
    <3> QED BY <3>1 DEF Ways
  <2>2. CASE p # j
    <3>1. Lacks(v, u, j - 1, i - 1, p) /\ u[i] = v[j]
      BY <1>3, <2>2 DEF Lacks
    <3> QED BY <3>1 DEF Ways, Near, Typo
  <2> QED BY <2>1, <2>2
<1>4. ASSUME NEW p \in Nat, Changes(u, v, i, j, p) PROVE Ways(u, v, i, j)
  <2>1. CASE p = i
    <3>1. Equal(u, v, i - 1, j - 1)
      BY <1>4, <2>1 DEF Equal, Changes
    <3> QED BY <3>1 DEF Ways
  <2>2. CASE p # i
    <3>1. Changes(u, v, i - 1, j - 1, p) /\ u[i] = v[j]
      BY <1>4, <2>2 DEF Changes
    <3> QED BY <3>1 DEF Ways, Near, Typo
  <2> QED BY <2>1, <2>2
<1>5. ASSUME NEW p \in Nat, Transposes(u, v, i, j, p) PROVE Ways(u, v, i, j)
  <2>1. CASE p = i - 1
    <3>1. Equal(u, v, i - 2, j - 2) /\ Swaps(u, v, i, j)
      BY <1>5, <2>1 DEF Equal, Transposes, Swaps
    <3> QED BY <3>1 DEF Ways
  <2>2. CASE p # i - 1
    <3>1. Transposes(u, v, i - 1, j - 1, p) /\ u[i] = v[j]
      BY <1>5, <2>2 DEF Transposes
    <3> QED BY <3>1 DEF Ways, Near, Typo
  <2> QED BY <2>1, <2>2
<1> QED
  BY <1>1, <1>2, <1>3, <1>4, <1>5 DEF Near, Typo

LEMMA TableSteps ==
  ASSUME NEW u, NEW v, NEW m \in Nat, NEW n \in Nat, Len(u) = m, Len(v) = n
  PROVE  LET rows == Rows(u, v)
         IN  /\ rows \in [0..m -> [0..n -> Nat]]
             /\ \A j \in 0..n : rows[0][j] = j
             /\ \A i \in 0..m : rows[i][0] = i
             /\ \A i \in 1..m, j \in 1..n :
                  rows[i][j] = Cell(u, v, i, j, rows[i][j - 1], rows[i - 1],
                                    IF i > 1 THEN rows[i - 2] ELSE rows[0])
<1> DEFINE rows == Rows(u, v)
           twice(i) == IF i > 1 THEN rows[i - 2] ELSE rows[0]
<1>1. rows \in [0..m -> [0..n -> Nat]]
  BY RowsTyped
<1>2. rows = [i \in 0..m |-> IF i = 0 THEN [j \in 0..n |-> j] ELSE Row(u, v, i, rows[i - 1], twice(i))]
  BY RowsUnfold
<1> HIDE DEF rows, twice
<1>3. \A j \in 0..n : rows[0][j] = j
  BY <1>2
<1>4. ASSUME NEW i \in 1..m
      PROVE  rows[i] = [j \in 0..n |-> IF j = 0 THEN i
                                      ELSE Cell(u, v, i, j, rows[i][j - 1], rows[i - 1], twice(i))]
  <2>1. rows[i] = Row(u, v, i, rows[i - 1], twice(i))
    BY <1>2
  <2> DEFINE row == Row(u, v, i, rows[i - 1], twice(i))
  <2>2. row = [j \in 0..n |-> IF j = 0 THEN i ELSE Cell(u, v, i, j, row[j - 1], rows[i - 1], twice(i))]
    <3>1. \A above, below : Row(u, v, i, above, below) =
             [j \in 0..n |-> IF j = 0 THEN i
                            ELSE Cell(u, v, i, j, Row(u, v, i, above, below)[j - 1], above, below)]
      BY RowUnfolds
    <3> QED BY <3>1
  <2> HIDE DEF row
  <2>3. rows[i] = row
    BY <2>1 DEF row
  <2> QED BY <2>2, <2>3
<1>5. \A i \in 0..m : rows[i][0] = i
  <2> TAKE i \in 0..m
  <2>1. CASE i = 0
    BY <1>3, <2>1
  <2>2. CASE i \in 1..m
    <3>1. rows[i] = [j \in 0..n |-> IF j = 0 THEN i
                                   ELSE Cell(u, v, i, j, rows[i][j - 1], rows[i - 1], twice(i))]
      BY <1>4, <2>2
    <3> QED BY <3>1
  <2> QED BY <2>1, <2>2
<1>6. \A i \in 1..m, j \in 1..n :
        rows[i][j] = Cell(u, v, i, j, rows[i][j - 1], rows[i - 1], twice(i))
  <2> TAKE i \in 1..m
  <2>1. rows[i] = [j \in 0..n |-> IF j = 0 THEN i
                                 ELSE Cell(u, v, i, j, rows[i][j - 1], rows[i - 1], twice(i))]
    BY <1>4
  <2> QED BY <2>1
<1> QED
  BY <1>1, <1>3, <1>5, <1>6 DEF rows, twice

(* What the smaller distances say of the next one.                         *)
LEMMA CellIsTypo ==
  ASSUME NEW u, NEW v, NEW i \in Nat \ {0}, NEW j \in Nat \ {0},
         NEW x \in Nat, NEW y \in Nat, NEW z \in Nat, NEW w, NEW c \in Nat,
         LeastWay(c, x, y, z, u[i] = v[j], Swaps(u, v, i, j), w),
         x = 0 <=> Equal(u, v, i, j - 1),
         y = 0 <=> Equal(u, v, i - 1, j),
         z = 0 <=> Equal(u, v, i - 1, j - 1), z <= 1 <=> Near(u, v, i - 1, j - 1),
         Swaps(u, v, i, j) => w \in Nat /\ (w = 0 <=> Equal(u, v, i - 2, j - 2))
  PROVE  (c = 0 <=> Equal(u, v, i, j)) /\ (c <= 1 <=> Near(u, v, i, j))
<1> DEFINE same == u[i] = v[j]
           swaps == Swaps(u, v, i, j)
<1>1. swaps => w \in Nat
  OBVIOUS
<1>2. LeastWay(c, x, y, z, same, swaps, w)
  OBVIOUS
<1> HIDE DEF same, swaps
<1>3. c = 0 <=> z = 0 /\ same
  BY <1>1, <1>2 DEF LeastWay
<1>4. c <= 1 <=> x = 0 \/ y = 0 \/ z = 0 \/ (z <= 1 /\ same) \/ (swaps /\ w = 0)
  BY <1>1, <1>2 DEF LeastWay
<1>5. Equal(u, v, i, j) <=> Equal(u, v, i - 1, j - 1) /\ u[i] = v[j]
  BY EqualGrows
<1>6. c <= 1 <=> Ways(u, v, i, j)
  BY <1>4 DEF Ways, same, swaps
<1>7. Ways(u, v, i, j) <=> Near(u, v, i, j)
  BY WaysAreNear, NearIsWays
<1> QED
  BY <1>3, <1>5, <1>6, <1>7 DEF same

(* The rows hold the numbers of typos, as far as one.                      *)
LEMMA RowsCountTypos ==
  ASSUME NEW u, NEW v, NEW m \in Nat, NEW n \in Nat, Len(u) = m, Len(v) = n
  PROVE  \A i \in 0..m, j \in 0..n :
           /\ Rows(u, v)[i][j] = 0 <=> Equal(u, v, i, j)
           /\ Rows(u, v)[i][j] <= 1 <=> Near(u, v, i, j)
<1> DEFINE rows == Rows(u, v)
           Counts(i, j) == /\ rows[i][j] = 0 <=> Equal(u, v, i, j)
                           /\ rows[i][j] <= 1 <=> Near(u, v, i, j)
           Good == {s \in Nat : \A i \in 0..m, j \in 0..n : i + j = s => Counts(i, j)}
<1>1. /\ rows \in [0..m -> [0..n -> Nat]]
      /\ \A j \in 0..n : rows[0][j] = j
      /\ \A i \in 0..m : rows[i][0] = i
      /\ \A i \in 1..m, j \in 1..n :
           rows[i][j] = Cell(u, v, i, j, rows[i][j - 1], rows[i - 1],
                             IF i > 1 THEN rows[i - 2] ELSE rows[0])
  BY TableSteps
<1> HIDE DEF rows
<1>2. ASSUME NEW s \in Nat, \A k \in 0..s - 1 : k \in Good
      PROVE  s \in Good
  <2> SUFFICES ASSUME NEW i \in 0..m, NEW j \in 0..n, i + j = s PROVE Counts(i, j)
    OBVIOUS
  <2>1. ASSUME NEW a \in 0..m, NEW b \in 0..n, a + b < s PROVE Counts(a, b)
    <3>1. a + b \in 0..s - 1
      BY <2>1
    <3> QED BY <1>2, <3>1
  <2>2. CASE i = 0
    <3>1. rows[i][j] = j
      BY <1>1, <2>2
    <3>2. Equal(u, v, i, j) <=> j = 0
      BY <2>2 DEF Equal
    <3>3. j = 1 => Lacks(v, u, j, i, 1)
      BY <2>2 DEF Lacks
    <3>4. Typo(u, v, i, j) => j = 1
      BY <2>2 DEF Typo, Lacks, Changes, Transposes
    <3> QED BY <3>1, <3>2, <3>3, <3>4 DEF Near, Typo
  <2>3. CASE i # 0 /\ j = 0
    <3>1. rows[i][j] = i
      BY <1>1, <2>3
    <3>2. ~Equal(u, v, i, j)
      BY <2>3 DEF Equal
    <3>3. i = 1 => Lacks(u, v, i, j, 1)
      BY <2>3 DEF Lacks
    <3>4. Typo(u, v, i, j) => i = 1
      BY <2>3 DEF Typo, Lacks, Changes, Transposes
    <3> QED BY <2>3, <3>1, <3>2, <3>3, <3>4 DEF Near, Typo
  <2>4. CASE i # 0 /\ j # 0
    <3>1. i \in 1..m /\ j \in 1..n /\ i - 1 \in 0..m /\ j - 1 \in 0..n
      BY <2>4
    <3>2. Counts(i, j - 1) /\ Counts(i - 1, j) /\ Counts(i - 1, j - 1)
      BY <2>1, <3>1
    <3>3. Swaps(u, v, i, j) => /\ i - 2 \in 0..m /\ j - 2 \in 0..n /\ i > 1
                               /\ Counts(i - 2, j - 2)
      BY <2>1, <3>1 DEF Swaps
    <3> DEFINE above == rows[i - 1]
               twice == IF i > 1 THEN rows[i - 2] ELSE rows[0]
               x == rows[i][j - 1]
               y == above[j]
               z == above[j - 1]
               w == twice[j - 2]
               c == rows[i][j]
    <3>4. rows[i] \in [0..n -> Nat] /\ above \in [0..n -> Nat] /\ twice \in [0..n -> Nat]
      BY <1>1, <3>1
    <3>5. x \in Nat /\ y \in Nat /\ z \in Nat /\ c \in Nat /\ (Swaps(u, v, i, j) => w \in Nat)
      BY <3>1, <3>3, <3>4
    <3>6. c = Cell(u, v, i, j, x, above, twice)
      BY <1>1, <3>1
    <3>7. /\ x = 0 <=> Equal(u, v, i, j - 1)
          /\ y = 0 <=> Equal(u, v, i - 1, j)
          /\ z = 0 <=> Equal(u, v, i - 1, j - 1)
          /\ z <= 1 <=> Near(u, v, i - 1, j - 1)
      BY <3>2
    <3>8. Swaps(u, v, i, j) => (w = 0 <=> Equal(u, v, i - 2, j - 2))
      BY <3>3
    <3>9. i \in Nat \ {0} /\ j \in Nat \ {0} /\ j <= n
      BY <3>1
    <3> HIDE DEF x, c, above, twice
    <3>10. LeastWay(c, x, y, z, u[i] = v[j], Swaps(u, v, i, j), w)
      BY <3>4, <3>5, <3>6, <3>9, CellIsLeast
    <3> HIDE DEF y, z, w
    <3>11. (c = 0 <=> Equal(u, v, i, j)) /\ (c <= 1 <=> Near(u, v, i, j))
      BY <3>5, <3>7, <3>8, <3>9, <3>10, CellIsTypo
    <3> QED BY <3>11 DEF c
  <2> QED BY <2>2, <2>3, <2>4
<1> HIDE DEF Good
<1>3. \A s \in Nat : s \in Good
  BY <1>2, AllReached
<1>4. ASSUME NEW i \in 0..m, NEW j \in 0..n PROVE Counts(i, j)
  <2>1. i + j \in Good
    BY <1>3
  <2> QED BY <2>1 DEF Good
<1> QED
  BY <1>4 DEF rows

(* A typo is passed row by row: no row is above one everywhere.            *)
LEMMA EveryRowIsNear ==
  ASSUME NEW u, NEW v, NEW m \in Nat, NEW n \in Nat, Near(u, v, m, n), NEW i \in 1..m
  PROVE  \E j \in 0..n : Near(u, v, i, j)
<1>1. CASE Equal(u, v, m, n)
  <2>1. Equal(u, v, i, i) /\ i \in 0..n
    BY <1>1 DEF Equal
  <2> QED BY <2>1 DEF Near
<1>2. ASSUME NEW p \in Nat, Lacks(u, v, m, n, p) PROVE \E j \in 0..n : Near(u, v, i, j)
  <2>1. CASE i < p
    <3>1. Equal(u, v, i, i) /\ i \in 0..n
      BY <1>2, <2>1 DEF Equal, Lacks
    <3> QED BY <3>1 DEF Near
  <2>2. CASE i >= p
    <3>1. Lacks(u, v, i, i - 1, p) /\ i - 1 \in 0..n
      BY <1>2, <2>2 DEF Lacks
    <3> QED BY <3>1 DEF Near, Typo
  <2> QED BY <2>1, <2>2
<1>3. ASSUME NEW p \in Nat, Lacks(v, u, n, m, p) PROVE \E j \in 0..n : Near(u, v, i, j)
  <2>1. CASE i < p
    <3>1. Equal(u, v, i, i) /\ i \in 0..n
      BY <1>3, <2>1 DEF Equal, Lacks
    <3> QED BY <3>1 DEF Near
  <2>2. CASE i >= p
    <3>1. Lacks(v, u, i + 1, i, p) /\ i + 1 \in 0..n
      BY <1>3, <2>2 DEF Lacks
    <3> QED BY <3>1 DEF Near, Typo
  <2> QED BY <2>1, <2>2
<1>4. ASSUME NEW p \in Nat, Changes(u, v, m, n, p) PROVE \E j \in 0..n : Near(u, v, i, j)
  <2>1. CASE i < p
    <3>1. Equal(u, v, i, i) /\ i \in 0..n
      BY <1>4, <2>1 DEF Equal, Changes
    <3> QED BY <3>1 DEF Near
  <2>2. CASE i >= p
    <3>1. Changes(u, v, i, i, p) /\ i \in 0..n
      BY <1>4, <2>2 DEF Changes
    <3> QED BY <3>1 DEF Near, Typo
  <2> QED BY <2>1, <2>2
<1>5. ASSUME NEW p \in Nat, Transposes(u, v, m, n, p) PROVE \E j \in 0..n : Near(u, v, i, j)
  <2>1. CASE i < p
    <3>1. Equal(u, v, i, i) /\ i \in 0..n
      BY <1>5, <2>1 DEF Equal, Transposes
    <3> QED BY <3>1 DEF Near
  <2>2. CASE i = p
    <3>1. Changes(u, v, i, i, p) /\ i \in 0..n
      BY <1>5, <2>2 DEF Changes, Transposes
    <3> QED BY <3>1 DEF Near, Typo
  <2>3. CASE i > p
    <3>1. Transposes(u, v, i, i, p) /\ i \in 0..n
      BY <1>5, <2>3 DEF Transposes
    <3> QED BY <3>1 DEF Near, Typo
  <2> QED BY <2>1, <2>2, <2>3
<1> QED
  BY <1>1, <1>2, <1>3, <1>4, <1>5 DEF Near, Typo

LEMMA DistanceIsTypo ==
  ASSUME NEW u, NEW v, NEW m \in Nat, NEW n \in Nat, Len(u) = m, Len(v) = n
  PROVE  Distance(u, v, 1) = IF Equal(u, v, m, n) THEN 0
                             ELSE IF Typo(u, v, m, n) THEN 1 ELSE TooFar
<1> DEFINE rows == Rows(u, v)
           d == rows[m][n]
           lost == \/ m - n \notin -1..1 \/ \E i \in 1..m : \A j \in 0..n : rows[i][j] > 1
                   \/ d > 1
<1>1. Distance(u, v, 1) = IF lost THEN TooFar ELSE d
  BY DEF Distance
<1>2. rows \in [0..m -> [0..n -> Nat]]
  BY TableSteps
<1>3. \A i \in 0..m, j \in 0..n : /\ rows[i][j] = 0 <=> Equal(u, v, i, j)
                                  /\ rows[i][j] <= 1 <=> Near(u, v, i, j)
  BY RowsCountTypos
<1> HIDE DEF rows
<1>4. m \in 0..m /\ n \in 0..n /\ d \in Nat
  BY <1>2
<1>5. (d = 0 <=> Equal(u, v, m, n)) /\ (d <= 1 <=> Near(u, v, m, n))
  BY <1>3, <1>4
<1>6. ASSUME Near(u, v, m, n) PROVE ~lost
  <2>1. m - n \in -1..1
    BY <1>6 DEF Near, Typo, Equal, Lacks, Changes, Transposes
  <2>2. ASSUME NEW i \in 1..m PROVE ~\A j \in 0..n : rows[i][j] > 1
    <3>1. PICK j \in 0..n : Near(u, v, i, j)
      BY <1>6, EveryRowIsNear
    <3>2. rows[i][j] <= 1 /\ rows[i][j] \in Nat
      BY <1>2, <1>3, <3>1
    <3> QED BY <3>2
  <2>3. ~(d > 1)
    BY <1>4, <1>5, <1>6
  <2> QED BY <2>1, <2>2, <2>3
<1>7. ~Near(u, v, m, n) => lost
  BY <1>4, <1>5
<1> HIDE DEF lost, d
<1>8. d # 0 /\ d <= 1 => d = 1
  BY <1>4 DEF d
<1> QED
  BY <1>1, <1>5, <1>6, <1>7, <1>8 DEF Near

(* A word without one of its graphemes.                                    *)
LEMMA WithoutIs ==
  ASSUME NEW S, NEW u \in Seq(S), NEW p \in 1..Len(u)
  PROVE  /\ Without(u, p) \in Seq(S)
         /\ Len(Without(u, p)) = Len(u) - 1
         /\ \A k \in 1..Len(u) - 1 : Without(u, p)[k] = IF k < p THEN u[k] ELSE u[k + 1]
<1> DEFINE m == Len(u)
           head == SubSeq(u, 1, p - 1)
           tail == SubSeq(u, p + 1, m)
<1>1. m \in Nat /\ \A k \in 1..m : u[k] \in S
  BY LenProperties, ElementOfSeq
<1>2. head \in Seq(S) /\ Len(head) = p - 1 /\ \A k \in 1..p - 1 : head[k] = u[k]
  <2>1. \A k \in 1..p - 1 : u[k] \in S
    BY <1>1
  <2>2. /\ head \in Seq(S) /\ Len(head) = (IF 1 <= p - 1 THEN p - 1 - 1 + 1 ELSE 0)
        /\ \A k \in 1..p - 1 - 1 + 1 : head[k] = u[1 + k - 1]
    BY <2>1, SubSeqProperties
  <2> QED BY <2>2
<1>3. tail \in Seq(S) /\ Len(tail) = m - p /\ \A k \in 1..m - p : tail[k] = u[k + p]
  <2>1. \A k \in p + 1..m : u[k] \in S
    BY <1>1
  <2>2. /\ tail \in Seq(S) /\ Len(tail) = (IF p + 1 <= m THEN m - (p + 1) + 1 ELSE 0)
        /\ \A k \in 1..m - (p + 1) + 1 : tail[k] = u[p + 1 + k - 1]
    BY <1>1, <2>1, SubSeqProperties
  <2> QED BY <1>1, <2>2
<1> HIDE DEF m, head, tail
<1> DEFINE w == head \o tail
<1>4. /\ w \in Seq(S) /\ Len(w) = Len(head) + Len(tail)
      /\ \A k \in 1..Len(head) + Len(tail) :
           w[k] = IF k <= Len(head) THEN head[k] ELSE tail[k - Len(head)]
  BY <1>2, <1>3, ConcatProperties
<1>5. Without(u, p) = w
  BY DEF Without, head, tail, m
<1> HIDE DEF w
<1>6. p \in 1..m /\ Len(w) = m - 1
  BY <1>1, <1>2, <1>3, <1>4 DEF m
<1>7. ASSUME NEW k \in 1..m - 1
      PROVE  w[k] = IF k < p THEN u[k] ELSE u[k + 1]
  <2>1. k \in 1..Len(head) + Len(tail)
    BY <1>1, <1>2, <1>3, <1>6
  <2>2. ASSUME k < p PROVE w[k] = u[k]
    BY <1>1, <1>2, <1>4, <1>6, <2>1, <2>2
  <2>3. ASSUME ~(k < p) PROVE w[k] = u[k + 1]
    <3>1. k - (p - 1) \in 1..m - p /\ (k - (p - 1)) + p = k + 1
      BY <1>1, <1>6, <2>3
    <3>2. w[k] = tail[k - (p - 1)]
      BY <1>1, <1>2, <1>4, <1>6, <2>1, <2>3
    <3>3. tail[k - (p - 1)] = u[(k - (p - 1)) + p]
      BY <1>3, <3>1
    <3> QED BY <3>1, <3>2, <3>3
  <2> QED BY <2>2, <2>3
<1> QED
  BY <1>4, <1>5, <1>6, <1>7 DEF m

LEMMA EqualIsEqual ==
  ASSUME NEW S, NEW u \in Seq(S), NEW v \in Seq(S)
  PROVE  Equal(u, v, Len(u), Len(v)) <=> u = v
<1>1. Len(u) \in Nat
  BY LenProperties
<1>2. Equal(u, v, Len(u), Len(v)) => u = v
  BY SeqEqual DEF Equal
<1> QED
  BY <1>1, <1>2 DEF Equal

LEMMA LacksIsWithout ==
  ASSUME NEW S, NEW u \in Seq(S), NEW v \in Seq(S), NEW p
  PROVE  Lacks(u, v, Len(u), Len(v), p) <=> p \in DOMAIN u /\ Without(u, p) = v
<1> DEFINE m == Len(u)
           n == Len(v)
<1>1. m \in Nat /\ n \in Nat /\ DOMAIN u = 1..m
  BY LenProperties
<1>2. p \in 1..m => /\ Without(u, p) \in Seq(S) /\ Len(Without(u, p)) = m - 1
                    /\ \A k \in 1..m - 1 : Without(u, p)[k] = IF k < p THEN u[k] ELSE u[k + 1]
  <2> SUFFICES ASSUME p \in 1..Len(u)
               PROVE  /\ Without(u, p) \in Seq(S) /\ Len(Without(u, p)) = Len(u) - 1
                      /\ \A k \in 1..Len(u) - 1 : Without(u, p)[k] = IF k < p THEN u[k] ELSE u[k + 1]
    OBVIOUS
  <2> QED BY WithoutIs
<1>3. ASSUME Lacks(u, v, m, n, p) PROVE p \in 1..m /\ Without(u, p) = v
  <2>1. p \in 1..m /\ m = n + 1
    BY <1>3 DEF Lacks
  <2>2. ASSUME NEW k \in 1..n PROVE Without(u, p)[k] = v[k]
    <3>1. Without(u, p)[k] = IF k < p THEN u[k] ELSE u[k + 1]
      BY <1>1, <1>2, <2>1
    <3>2. CASE k < p
      BY <1>1, <1>3, <2>1, <3>1, <3>2 DEF Lacks
    <3>3. CASE ~(k < p)
      BY <1>1, <1>3, <2>1, <3>1, <3>3 DEF Lacks
    <3> QED BY <3>2, <3>3
  <2>3. Len(Without(u, p)) = n
    BY <1>1, <1>2, <2>1
  <2> QED BY <1>2, <2>1, <2>2, <2>3, SeqEqual
<1>4. ASSUME p \in 1..m, Without(u, p) = v PROVE Lacks(u, v, m, n, p)
  <2>1. m = n + 1 /\ \A k \in 1..n : v[k] = IF k < p THEN u[k] ELSE u[k + 1]
    <3>1. Len(v) = m - 1 /\ \A k \in 1..m - 1 : v[k] = IF k < p THEN u[k] ELSE u[k + 1]
      BY <1>2, <1>4
    <3> QED BY <1>1, <3>1
  <2>2. \A k \in 1..p - 1 : u[k] = v[k]
    BY <1>1, <1>4, <2>1
  <2>3. \A k \in p..n : u[k + 1] = v[k]
    BY <1>1, <1>4, <2>1
  <2> QED BY <1>4, <2>1, <2>2, <2>3 DEF Lacks
<1> QED
  BY <1>1, <1>3, <1>4

(* A typo as it is found grapheme by grapheme is a typo.                   *)
LEMMA TypoIsOneTypo ==
  ASSUME NEW S, NEW u \in Seq(S), NEW v \in Seq(S)
  PROVE  OneTypo(u, v) <=> Typo(u, v, Len(u), Len(v)) /\ u # v
<1> DEFINE m == Len(u)
           n == Len(v)
           D == Differ(u, v)
<1>1. m \in Nat /\ n \in Nat /\ DOMAIN u = 1..m /\ DOMAIN v = 1..n
  BY LenProperties
<1>2. (\E p \in DOMAIN u : Without(u, p) = v) <=> \E p \in Nat : Lacks(u, v, m, n, p)
  BY <1>1, LacksIsWithout
<1>3. (\E p \in DOMAIN v : Without(v, p) = u) <=> \E p \in Nat : Lacks(v, u, n, m, p)
  BY <1>1, LacksIsWithout
<1>4. ASSUME NEW p \in Nat, Lacks(u, v, m, n, p) \/ Lacks(v, u, n, m, p) PROVE u # v
  <2>1. m # n
    <3> HIDE DEF m, n
    <3> QED BY <1>1, <1>4 DEF Lacks
  <2> QED BY <2>1
<1>5. IsFiniteSet(D) /\ D = {k \in 1..m : u[k] # v[k]}
  <2>1. D = {k \in 1..m : u[k] # v[k]}
    BY <1>1 DEF Differ
  <2>2. IsFiniteSet(1..m) /\ D \in SUBSET (1..m)
    BY <1>1, <2>1, FS_Interval
  <2> HIDE DEF D
  <2> QED BY <2>1, <2>2, FS_Subset
<1>6. m = n /\ u # v => D # {}
  BY <1>1, <1>5, SeqEqual
<1>7. ASSUME m = n PROVE Cardinality(D) = 1 <=> u # v /\ \E p \in Nat : Changes(u, v, m, n, p)
  <2>1. Cardinality(D) = 1 <=> \E p : D = {p}
    BY <1>5, FS_Singleton
  <2>2. ASSUME NEW p, D = {p} PROVE p \in Nat /\ Changes(u, v, m, n, p) /\ u # v
    BY <1>1, <1>5, <1>7, <2>2 DEF Changes
  <2>3. ASSUME NEW p \in Nat, Changes(u, v, m, n, p), u # v PROVE D = {p}
    BY <1>5, <1>6, <1>7, <2>3 DEF Changes
  <2> QED BY <2>1, <2>2, <2>3
<1>8. ASSUME m = n, NEW p \in DOMAIN u, D = {p, p + 1}, u[p] = v[p + 1], u[p + 1] = v[p]
      PROVE  p \in Nat /\ Transposes(u, v, m, n, p) /\ u # v
  BY <1>1, <1>5, <1>8 DEF Transposes
<1>9. ASSUME NEW p \in Nat, Transposes(u, v, m, n, p), u # v
      PROVE  p \in DOMAIN u /\ D = {p, p + 1} /\ u[p] = v[p + 1] /\ u[p + 1] = v[p]
  <2>1. p \in 1..m /\ p + 1 \in 1..m /\ m = n /\ u[p] = v[p + 1] /\ u[p + 1] = v[p]
        /\ \A k \in 1..m : k \notin {p, p + 1} => u[k] = v[k]
    BY <1>1, <1>9 DEF Transposes
  <2>2. D \subseteq {p, p + 1}
    BY <1>5, <2>1
  <2>3. u[p] = v[p] <=> u[p + 1] = v[p + 1]
    BY <2>1
  <2>4. p \in D /\ p + 1 \in D
    BY <1>5, <1>6, <1>9, <2>1, <2>2, <2>3
  <2> QED BY <1>1, <2>1, <2>2, <2>4
<1>10. ASSUME NEW p \in Nat, Changes(u, v, m, n, p) \/ Transposes(u, v, m, n, p) PROVE m = n
  BY <1>10 DEF Changes, Transposes
<1>11. OneTypo(u, v) <=>
         \/ \E p \in DOMAIN u : Without(u, p) = v
         \/ \E p \in DOMAIN v : Without(v, p) = u
         \/ m = n /\ Cardinality(D) = 1
         \/ m = n /\ \E p \in DOMAIN u : D = {p, p + 1} /\ u[p] = v[p + 1] /\ u[p + 1] = v[p]
  BY DEF OneTypo
<1> HIDE DEF m, n, D
<1>12. Typo(u, v, m, n) <=>
         \/ \E p \in Nat : Lacks(u, v, m, n, p)
         \/ \E p \in Nat : Lacks(v, u, n, m, p)
         \/ \E p \in Nat : Changes(u, v, m, n, p)
         \/ \E p \in Nat : Transposes(u, v, m, n, p)
  BY DEF Typo
<1>13. OneTypo(u, v) <=> Typo(u, v, m, n) /\ u # v
  BY <1>2, <1>3, <1>4, <1>7, <1>8, <1>9, <1>10, <1>11, <1>12
<1> QED
  BY <1>13 DEF m, n

(* _bounded_damerau_levenshtein computes what it is for.                   *)
LEMMA DistanceIsOneTypo ==
  ASSUME NEW S, NEW u \in Seq(S), NEW v \in Seq(S)
  PROVE  /\ Distance(u, v, 1) \in {0, 1, TooFar}
         /\ Distance(u, v, 1) = 0 <=> u = v
         /\ Distance(u, v, 1) = 1 <=> OneTypo(u, v)
<1>1. Len(u) \in Nat /\ Len(v) \in Nat
  BY LenProperties
<1>2. Distance(u, v, 1) = IF u = v THEN 0 ELSE IF Typo(u, v, Len(u), Len(v)) THEN 1 ELSE TooFar
  BY <1>1, DistanceIsTypo, EqualIsEqual
<1> QED
  BY <1>2, TypoIsOneTypo DEF TooFar

(* _skip_separators stays inside of the text.                              *)
LEMMA SkipIsInside ==
  ASSUME NEW t \in Texts, NEW start \in 0..Len(t)
  PROVE  Skip(t, start) \in start..Len(t)
<1> DEFINE n == Len(t)
           T == {i \in start..n : i < n => t[i + 1] # Separator}
           i == MinOf(T)
<1>1. n \in Nat
  BY LenProperties DEF Texts
<1>2. T \in SUBSET Nat /\ n \in T
  BY <1>1
<1> HIDE DEF T
<1>3. i \in T /\ \A k \in T : i <= k
  BY <1>2, LeastOf
<1> HIDE DEF i, n
<1>4. i \in start..n /\ (i < n => t[i + 1] # Separator)
  BY <1>3 DEF T
<1>5. ASSUME NEW j \in start + 1..i PROVE t[j] = Separator
  <2>1. j - 1 \in start..n /\ j - 1 < n /\ j - 1 < i /\ (j - 1) + 1 = j
    BY <1>1, <1>4 DEF n
  <2>2. j - 1 \notin T
    BY <1>1, <1>3, <1>4, <2>1 DEF n
  <2> QED BY <2>1, <2>2 DEF T
<1>6. \E k \in start..n : /\ \A j \in start + 1..k : t[j] = Separator
                          /\ k < n => t[k + 1] # Separator
  BY <1>4, <1>5
<1> QED
  BY <1>6 DEF Skip, n

(* A rule as the configuration holds it.                                   *)
TypedRule(rule) ==
  rule.aliases \in SUBSET Texts /\ rule.words \in SUBSET Texts /\ rule.minimum \in Nat \ {0}

LEMMA StartsAreInside ==
  ASSUME NEW t \in Texts, NEW rule, TypedRule(rule), NEW s \in Starts(t, rule)
  PROVE  s \in 0..Len(t)
<1>1. Len(t) \in Nat /\ SubSeq(t, 1, Len(t)) = t
  BY LenProperties, SubSeqFull DEF Texts
<1>2. ASSUME NEW w \in rule.words, StartsWith(t, 0, w), s = Skip(t, Len(w))
      PROVE  s \in 0..Len(t)
  <2>1. Len(w) \in Nat
    BY LenProperties DEF Texts, TypedRule
  <2>2. Len(w) <= Len(SubSeq(t, 0 + 1, Len(t)))
    BY <1>2 DEF StartsWith, IsPrefix
  <2>3. Len(w) \in 0..Len(t)
    BY <1>1, <2>1, <2>2
  <2>4. s \in Len(w)..Len(t)
    BY <1>2, <2>3, SkipIsInside
  <2> QED BY <1>1, <2>1, <2>4
<1> QED
  BY <1>1, <1>2 DEF Starts

LEMMA WordIs ==
  ASSUME NEW t \in Texts, NEW from \in 0..Len(t), NEW k \in 1..Len(t) - from
  PROVE  SubSeq(t, from + 1, from + k) \in Texts /\ Len(SubSeq(t, from + 1, from + k)) = k
<1>1. Len(t) \in Nat /\ \A i \in 1..Len(t) : t[i] \in Letters \cup {Separator}
  BY LenProperties, ElementOfSeq DEF Texts
<1>2. from + 1 \in Int /\ from + k \in Int /\ from \in Int /\ k \in Int
  BY <1>1
<1>3. \A i \in from + 1..from + k : t[i] \in Letters \cup {Separator}
  BY <1>1, <1>2
<1>4. /\ SubSeq(t, from + 1, from + k) \in Seq(Letters \cup {Separator})
      /\ Len(SubSeq(t, from + 1, from + k))
           = IF from + 1 <= from + k THEN from + k - (from + 1) + 1 ELSE 0
  BY <1>2, <1>3, SubSeqProperties
<1> QED
  BY <1>1, <1>2, <1>4 DEF Texts

(* Of the words that begin a text, _fuzzy_candidates passes over those     *)
(* only whose length is off by more than one.                              *)
LEMMA CandidatesAreBeginnings ==
  ASSUME NEW t \in Texts, NEW s \in 0..Len(t), NEW a \in Texts, Len(a) >= 1, NEW c
  PROVE  /\ c \in Beginnings(t, s, a) => c \in Texts /\ Len(c) \in 1..Len(t)
         /\ c \in Candidates(t, s, a) <=>
              c \in Beginnings(t, s, a) /\ Len(c) \in Len(a) - 1..Len(a) + 1
<1> DEFINE from == Skip(t, s)
           n == Len(t)
           l == Len(a)
           low == IF l > 1 THEN l - 1 ELSE 1
           word(k) == SubSeq(t, from + 1, from + k)
           Ends(k) == HasBoundary(t, from + k, a)
<1>1. n \in Nat /\ l \in Nat /\ l >= 1
  BY LenProperties DEF Texts
<1>2. from \in 0..n
  BY <1>1, SkipIsInside
<1>3. c \in Candidates(t, s, a) <=>
        \E k \in low..l + 1 : from + k <= n /\ Ends(k) /\ c = word(k)
  BY DEF Candidates
<1>4. c \in Beginnings(t, s, a) <=>
        \E m \in from + 1..n : HasBoundary(t, m, a) /\ c = SubSeq(t, from + 1, m)
  BY DEF Beginnings
<1>5. \A k \in 1..n - from : word(k) \in Texts /\ Len(word(k)) = k
  BY <1>2, WordIs
<1> HIDE DEF from, n, l
<1>6. c \in Beginnings(t, s, a) <=> \E k \in 1..n - from : Ends(k) /\ c = word(k)
  <2>1. ASSUME NEW m \in from + 1..n
        PROVE  m - from \in 1..n - from /\ from + (m - from) = m
    BY <1>1, <1>2
  <2>2. ASSUME NEW k \in 1..n - from PROVE from + k \in from + 1..n
    BY <1>1, <1>2
  <2> QED BY <1>4, <2>1, <2>2
<1> HIDE DEF word, Ends
<1>7. c \in Beginnings(t, s, a) => c \in Texts /\ Len(c) \in 1..n
  <2> SUFFICES ASSUME NEW k \in 1..n - from, c = word(k)
               PROVE  c \in Texts /\ Len(c) \in 1..n
    BY <1>6
  <2> QED BY <1>1, <1>2, <1>5
<1>8. ASSUME NEW k \in low..l + 1, from + k <= n, Ends(k), c = word(k)
      PROVE  c \in Beginnings(t, s, a) /\ Len(c) \in l - 1..l + 1
  <2>1. k \in 1..n - from /\ k \in l - 1..l + 1
    BY <1>1, <1>2, <1>8
  <2> QED BY <1>5, <1>6, <1>8, <2>1
<1>9. ASSUME NEW k \in 1..n - from, Ends(k), c = word(k), Len(c) \in l - 1..l + 1
      PROVE  c \in Candidates(t, s, a)
  <2>1. Len(c) = k
    BY <1>5, <1>9
  <2>2. k \in low..l + 1 /\ from + k <= n
    BY <1>1, <1>2, <1>9, <2>1
  <2> QED BY <1>3, <1>9, <2>2
<1> QED
  BY <1>3, <1>6, <1>7, <1>8, <1>9 DEF n, l

(* The names whose distance from a word of the text is d.                  *)
Fits(t, rule, d) ==
  {a \in rule.aliases : Len(a) >= rule.minimum
     /\ \E s \in Starts(t, rule) : \E c \in Candidates(t, s, a) : Distance(c, a, 1) = d}
MeantExactly(t, rule) ==
  {a \in rule.aliases : Len(a) >= rule.minimum
     /\ \E s \in Starts(t, rule) : \E w \in Beginnings(t, s, a) : w = a}
MeantNearly(t, rule) ==
  {a \in rule.aliases : Len(a) >= rule.minimum
     /\ \E s \in Starts(t, rule) : \E w \in Beginnings(t, s, a) : OneTypo(w, a)}

LEMMA TypoLength ==
  ASSUME NEW u \in Texts, NEW v \in Texts, OneTypo(u, v)
  PROVE  Len(u) \in Len(v) - 1..Len(v) + 1
<1>1. Len(u) \in Nat /\ Len(v) \in Nat
  BY LenProperties DEF Texts
<1>2. Typo(u, v, Len(u), Len(v))
  BY TypoIsOneTypo DEF Texts
<1> QED
  BY <1>1, <1>2 DEF Typo, Lacks, Changes, Transposes

LEMMA FitsAreMeant ==
  ASSUME NEW t \in Texts, NEW rule, TypedRule(rule)
  PROVE  Fits(t, rule, 0) = MeantExactly(t, rule) /\ Fits(t, rule, 1) = MeantNearly(t, rule)
<1>1. ASSUME NEW a \in rule.aliases, Len(a) >= rule.minimum, NEW s \in Starts(t, rule), NEW c
      PROVE  /\ c \in Candidates(t, s, a) /\ Distance(c, a, 1) = 0
                  <=> c \in Beginnings(t, s, a) /\ c = a
             /\ c \in Candidates(t, s, a) /\ Distance(c, a, 1) = 1
                  <=> c \in Beginnings(t, s, a) /\ OneTypo(c, a)
  <2>1. a \in Texts /\ Len(a) \in Nat /\ Len(a) >= 1
    <3>1. a \in Texts /\ rule.minimum \in Nat \ {0}
      BY DEF TypedRule
    <3>2. Len(a) \in Nat
      BY <3>1, LenProperties DEF Texts
    <3> QED BY <1>1, <3>1, <3>2
  <2>2. s \in 0..Len(t)
    BY StartsAreInside
  <2>3. /\ c \in Beginnings(t, s, a) => c \in Texts /\ Len(c) \in 1..Len(t)
        /\ c \in Candidates(t, s, a) <=>
             c \in Beginnings(t, s, a) /\ Len(c) \in Len(a) - 1..Len(a) + 1
    BY <2>1, <2>2, CandidatesAreBeginnings
  <2>4. c \in Texts => /\ Distance(c, a, 1) = 0 <=> c = a
                       /\ Distance(c, a, 1) = 1 <=> OneTypo(c, a)
    BY <2>1, DistanceIsOneTypo DEF Texts
  <2>5. c = a => Len(c) \in Len(a) - 1..Len(a) + 1
    BY <2>1
  <2>6. c \in Texts /\ OneTypo(c, a) => Len(c) \in Len(a) - 1..Len(a) + 1
    BY <2>1, TypoLength
  <2> QED BY <2>3, <2>4, <2>5, <2>6
<1> QED
  BY <1>1 DEF Fits, MeantExactly, MeantNearly

LEMMA FoundAre ==
  ASSUME NEW t \in Texts, NEW rule, TypedRule(rule), NEW x
  PROVE  x \in Scored(t, rule) /\ x[1] # TooFar <=>
           \E d \in {0, 1} : \E a \in Fits(t, rule, d) : x = <<d, a>>
<1>1. ASSUME NEW a \in rule.aliases, Len(a) >= rule.minimum, NEW s \in Starts(t, rule),
             NEW c \in Candidates(t, s, a)
      PROVE  Distance(c, a, 1) \in {0, 1, TooFar}
  <2>1. a \in Texts /\ rule.minimum \in Nat \ {0}
    BY DEF TypedRule
  <2>2. Len(a) \in Nat /\ Len(a) >= 1
    BY <1>1, <2>1, LenProperties DEF Texts
  <2>3. s \in 0..Len(t)
    BY StartsAreInside
  <2>4. c \in Texts
    BY <2>1, <2>2, <2>3, CandidatesAreBeginnings
  <2> QED BY <2>1, <2>4, DistanceIsOneTypo DEF Texts
<1>2. x \in Scored(t, rule) <=>
        \E a \in rule.aliases :
          /\ Len(a) >= rule.minimum
          /\ \E s \in Starts(t, rule) : \E c \in Candidates(t, s, a) : x = <<Distance(c, a, 1), a>>
  BY DEF Scored
<1>3. ASSUME NEW a \in rule.aliases, Len(a) >= rule.minimum, NEW s \in Starts(t, rule),
             NEW c \in Candidates(t, s, a), x = <<Distance(c, a, 1), a>>, x[1] # TooFar
      PROVE  \E d \in {0, 1} : \E b \in Fits(t, rule, d) : x = <<d, b>>
  <2> DEFINE d == Distance(c, a, 1)
  <2>1. d \in {0, 1}
    BY <1>1, <1>3
  <2>2. a \in Fits(t, rule, d)
    BY <1>3 DEF Fits
  <2> QED BY <1>3, <2>1, <2>2
<1>4. ASSUME NEW d \in {0, 1}, NEW a \in Fits(t, rule, d), x = <<d, a>>
      PROVE  x \in Scored(t, rule) /\ x[1] # TooFar
  BY <1>2, <1>4 DEF Fits, TooFar
<1> QED
  BY <1>2, <1>3, <1>4

(* The best names are the longest of those that fit exactly, if there are  *)
(* any, and else of those that nearly fit.                                 *)
LEMMA BestAreLongest ==
  ASSUME NEW t \in Texts, NEW rule, TypedRule(rule)
  PROVE  Best(t, rule) = IF Fits(t, rule, 0) # {} THEN Longest(Fits(t, rule, 0))
                         ELSE Longest(Fits(t, rule, 1))
<1> DEFINE found == {x \in Scored(t, rule) : x[1] # TooFar}
           F(d) == Fits(t, rule, d)
<1>1. \A x : x \in found <=> \E d \in {0, 1} : \E a \in F(d) : x = <<d, a>>
  BY FoundAre
<1>2. \A a : a \in Best(t, rule) <=>
        \E x \in found : a = x[2] /\ \A z \in found : Better(x, z)
  BY DEF Best
<1> HIDE DEF found, F
<1>3. \A a : \A d \in {0, 1} : a \in F(d) <=> <<d, a>> \in found
  BY <1>1
<1>4. \A a, b : \A d \in {0, 1}, e \in {0, 1} :
        Better(<<d, a>>, <<e, b>>) <=> d < e \/ (d = e /\ Len(a) >= Len(b))
  BY DEF Better
<1> DEFINE Tops(d, a) == \A e \in {0, 1} : \A b \in F(e) : d < e \/ (d = e /\ Len(a) >= Len(b))
<1>5. ASSUME NEW d \in {0, 1}, NEW a
      PROVE  (\A z \in found : Better(<<d, a>>, z)) <=> Tops(d, a)
  <2>1. (\A z \in found : Better(<<d, a>>, z))
          <=> \A e \in {0, 1} : \A b \in F(e) : Better(<<d, a>>, <<e, b>>)
    BY <1>1
  <2> QED BY <1>4, <2>1
<1>6. ASSUME NEW a
      PROVE  a \in Best(t, rule) <=> \E d \in {0, 1} : a \in F(d) /\ Tops(d, a)
  <2> HIDE DEF Tops
  <2>1. ASSUME NEW x \in found, a = x[2], \A z \in found : Better(x, z)
        PROVE  \E d \in {0, 1} : a \in F(d) /\ Tops(d, a)
    <3>1. PICK d \in {0, 1} : \E b \in F(d) : x = <<d, b>>
      BY <1>1
    <3>2. x = <<d, a>> /\ a \in F(d)
      BY <2>1, <3>1
    <3> QED BY <1>5, <2>1, <3>2
  <2>2. ASSUME NEW d \in {0, 1}, a \in F(d), Tops(d, a)
        PROVE  \E x \in found : a = x[2] /\ \A z \in found : Better(x, z)
    <3>1. <<d, a>> \in found /\ <<d, a>>[2] = a
      BY <1>3, <2>2
    <3>2. \A z \in found : Better(<<d, a>>, z)
      BY <1>5, <2>2
    <3> QED BY <3>1, <3>2
  <2> QED BY <1>2, <2>1, <2>2
<1>7. \A a : Tops(0, a) <=> \A b \in F(0) : Len(a) >= Len(b)
  OBVIOUS
<1>8. \A a : Tops(1, a) <=> F(0) = {} /\ \A b \in F(1) : Len(a) >= Len(b)
  OBVIOUS
<1> HIDE DEF Tops
<1>9. CASE F(0) # {}
  <2>1. \A a : a \in Best(t, rule) <=> a \in F(0) /\ \A b \in F(0) : Len(a) >= Len(b)
    BY <1>6, <1>7, <1>8, <1>9
  <2> QED BY <1>9, <2>1 DEF Longest, F
<1>10. CASE F(0) = {}
  <2>1. \A a : a \in Best(t, rule) <=> a \in F(1) /\ \A b \in F(1) : Len(a) >= Len(b)
    BY <1>6, <1>8, <1>10
  <2> QED BY <1>10, <2>1 DEF Longest, F
<1> QED
  BY <1>9, <1>10

LEMMA LongestExists ==
  ASSUME NEW T, T # {}, NEW n \in Nat, \A a \in T : Len(a) \in 0..n
  PROVE  Longest(T) # {}
<1> DEFINE R == {n - Len(a) : a \in T}
<1>1. R \in SUBSET Nat /\ R # {}
  OBVIOUS
<1> HIDE DEF R
<1>2. MinOf(R) \in R /\ \A r \in R : MinOf(R) <= r
  BY <1>1, LeastOf
<1>3. PICK a \in T : MinOf(R) = n - Len(a)
  BY <1>2 DEF R
<1>4. ASSUME NEW b \in T PROVE Len(a) >= Len(b)
  <2>1. n - Len(a) <= n - Len(b)
    BY <1>2, <1>3 DEF R
  <2> QED BY <2>1
<1> QED
  BY <1>4 DEF Longest

(* _match_direct_address finds whom the text addresses.                    *)
LEMMA AddressIsRecognised ==
  ASSUME NEW t \in Texts, NEW rule, TypedRule(rule)
  PROVE  DirectAddress(t, rule) = "matched" <=> Addressed(t, rule)
<1> DEFINE exactly == MeantExactly(t, rule)
           nearly == MeantNearly(t, rule)
           best == Best(t, rule)
<1>1. Addressed(t, rule) <=>
        \/ Exact(t, rule)
        \/ rule.fuzzy /\ Cardinality(IF Longest(exactly) # {} THEN Longest(exactly) ELSE Longest(nearly)) = 1
  BY DEF Addressed, Meant, MeantExactly, MeantNearly
<1>2. best = IF exactly # {} THEN Longest(exactly) ELSE Longest(nearly)
  BY BestAreLongest, FitsAreMeant
<1>3. \A a \in exactly : Len(a) \in 0..Len(t)
  <2> SUFFICES ASSUME NEW a \in rule.aliases, Len(a) >= rule.minimum, NEW s \in Starts(t, rule),
                      a \in Beginnings(t, s, a)
               PROVE  Len(a) \in 0..Len(t)
    BY DEF MeantExactly
  <2>1. a \in Texts /\ rule.minimum \in Nat \ {0}
    BY DEF TypedRule
  <2>2. Len(a) \in Nat /\ Len(a) >= 1
    BY <2>1, LenProperties DEF Texts
  <2>3. s \in 0..Len(t)
    BY StartsAreInside
  <2> QED BY <2>1, <2>2, <2>3, CandidatesAreBeginnings
<1>4. Len(t) \in Nat
  BY LenProperties DEF Texts
<1> HIDE DEF exactly, nearly
<1>5. exactly # {} <=> Longest(exactly) # {}
  <2>1. exactly # {} => Longest(exactly) # {}
    BY <1>3, <1>4, LongestExists
  <2>2. Longest(exactly) # {} => exactly # {}
    BY DEF Longest
  <2> QED BY <2>1, <2>2
<1>6. Addressed(t, rule) <=> Exact(t, rule) \/ (rule.fuzzy /\ Cardinality(best) = 1)
  BY <1>1, <1>2, <1>5
<1>7. best = {} => Cardinality(best) # 1
  BY FS_EmptySet
<1> QED
  BY <1>6, <1>7 DEF DirectAddress

(* What holds of the policy and the text of every version of a message.    *)
Evaluable == text \in Texts /\ chatPolicy \in Policies /\ Valid(chatPolicy)

LEMMA RulesAreTyped ==
  ASSUME Evaluable
  PROVE  /\ Len(chatPolicy.rules) \in Nat /\ DOMAIN chatPolicy.rules = 1..Len(chatPolicy.rules)
         /\ \A i \in DOMAIN chatPolicy.rules :
              chatPolicy.rules[i].kind = "direct_address" => TypedRule(chatPolicy.rules[i])
<1> DEFINE R == [kind : {"reaction_invocation", "every_message", "reply_to_assistant",
                         "literal_prefix", "direct_address"},
                 aliases : SUBSET Texts, words : SUBSET Texts, literal : Texts,
                 bare : BOOLEAN, fuzzy : BOOLEAN, minimum : Nat]
           rules == chatPolicy.rules
<1>1. rules \in Seq(R)
  BY PolicyAssumption DEF Evaluable
<1>2. Len(rules) \in Nat /\ DOMAIN rules = 1..Len(rules)
  BY <1>1, LenProperties
<1>3. ASSUME NEW i \in DOMAIN rules, rules[i].kind = "direct_address" PROVE TypedRule(rules[i])
  <2>1. rules[i] \in R
    BY <1>1, <1>2, ElementOfSeq
  <2>2. rules[i].minimum >= 1
    BY <1>3 DEF Evaluable, Valid, ValidRule
  <2> QED BY <2>1, <2>2 DEF TypedRule
<1> QED
  BY <1>2, <1>3

LEMMA AppliesToNames ==
  ASSUME NEW rule, rule.kind = "direct_address", kind # "reaction"
  PROVE  Applies(rule) <=> DirectAddress(text, rule) = "matched"
BY DEF Applies

(* The rule that decides is the first that applies.                        *)
LEMMA FirstRuleDecides ==
  ASSUME Evaluable, NEW i \in DOMAIN chatPolicy.rules
  PROVE  TriggerDecision = i <=> /\ participant \in chatPolicy.participants
                                 /\ Applies(chatPolicy.rules[i])
                                 /\ \A j \in 1..i - 1 : ~Applies(chatPolicy.rules[j])
<1> DEFINE n == Len(chatPolicy.rules)
           here == participant \in chatPolicy.participants
<1>1. n \in Nat /\ DOMAIN chatPolicy.rules = 1..n
  BY RulesAreTyped
<1> HIDE DEF n
<1>2. Deciding \in SUBSET Nat /\ \A j : j \in Deciding <=> j \in 1..n /\ Applies(chatPolicy.rules[j])
  BY <1>1 DEF Deciding
<1>3. i \in 1..n /\ i # 0
  BY <1>1
<1>4. TriggerDecision = i <=> here /\ Deciding # {} /\ MinOf(Deciding) = i
  BY <1>3 DEF TriggerDecision
<1>5. Deciding # {} => MinOf(Deciding) \in Deciding /\ \A j \in Deciding : MinOf(Deciding) <= j
  BY <1>2, LeastOf
<1>6. ASSUME Deciding # {}, MinOf(Deciding) = i
      PROVE  Applies(chatPolicy.rules[i]) /\ \A j \in 1..i - 1 : ~Applies(chatPolicy.rules[j])
  <2>1. i \in Deciding /\ \A j \in Deciding : i <= j
    BY <1>5, <1>6
  <2> QED BY <1>1, <1>2, <1>3, <2>1
<1>7. ASSUME Applies(chatPolicy.rules[i]), \A j \in 1..i - 1 : ~Applies(chatPolicy.rules[j])
      PROVE  Deciding # {} /\ MinOf(Deciding) = i
  <2>1. i \in Deciding
    BY <1>2, <1>3, <1>7
  <2>2. \A j \in Deciding : i <= j
    BY <1>1, <1>2, <1>3, <1>7
  <2> QED BY <1>1, <1>2, <1>3, <1>5, <2>1, <2>2
<1> QED
  BY <1>4, <1>6, <1>7

(* A message triggers by a name exactly when it begins with one, or with a *)
(* word one typo away from one name and from no other that fits as well,   *)
(* for texts, names and lists of rules of any length: the bounded edit     *)
(* distance, its early end and the lengths it looks at lose nothing        *)
(* (evaluate_trigger, _match_direct_address).                              *)
THEOREM NamesAreFound == TriggerSpec => []NamesAreRecognised
<1>1. TriggerInit => Evaluable
  BY EmptySeq DEF TriggerInit, Evaluable, Texts
<1>2. Evaluable /\ [TriggerNext]_triggerVars => Evaluable'
  <2> SUFFICES ASSUME Evaluable, [TriggerNext]_triggerVars PROVE Evaluable'
    OBVIOUS
  <2>1. ASSUME NEW l \in Letters \cup {Separator}, Receive(l) PROVE Evaluable'
    <3>1. Append(text, l) \in Texts
      BY AppendProperties DEF Evaluable, Texts
    <3> QED BY <2>1, <3>1 DEF Evaluable, Receive
  <2>2. CASE Edit
    <3>1. Tail(text) \in Texts
      BY <2>2, HeadTailProperties DEF Evaluable, Edit, Texts
    <3> QED BY <2>2, <3>1 DEF Evaluable, Edit
  <2>3. CASE UNCHANGED triggerVars
    BY <2>3 DEF Evaluable, triggerVars
  <2> QED BY <2>1, <2>2, <2>3 DEF TriggerNext
<1>3. Evaluable => NamesAreRecognised
  <2> SUFFICES ASSUME Evaluable, kind # "reaction", NEW i \in DOMAIN chatPolicy.rules,
                      chatPolicy.rules[i].kind = "direct_address"
               PROVE  TriggerDecision = i <=>
                        /\ participant \in chatPolicy.participants
                        /\ Addressed(text, chatPolicy.rules[i])
                        /\ \A j \in 1..i - 1 : ~Applies(chatPolicy.rules[j])
    BY DEF NamesAreRecognised
  <2>1. TypedRule(chatPolicy.rules[i]) /\ text \in Texts
    BY RulesAreTyped DEF Evaluable
  <2>2. Applies(chatPolicy.rules[i]) <=> Addressed(text, chatPolicy.rules[i])
    BY <2>1, AppliesToNames, AddressIsRecognised
  <2> QED BY <2>2, FirstRuleDecides
<1> QED
  BY <1>1, <1>2, <1>3, PTL DEF TriggerSpec
=============================================================================
