--------------------------- MODULE EscalationsProofs ---------------------------
(***************************************************************************)
(* An escalation that is closed has been answered, for any number of       *)
(* overlapping requests, failures and restarts.  What a request holds on   *)
(* its way to the verdict is the evidence: it closes only after it saw the *)
(* graph at its end or had it interrupted again.                           *)
(***************************************************************************)
EXTENDS Escalations, TLAPS

(* The end of the graph is reached in a checkpoint or in the hands of a    *)
(* request only after the run went on, and a request completes the run     *)
(* only after that, whether its graph ended or was interrupted again.      *)
Witnessed ==
  /\ saved = "end" => replied
  /\ \A r \in Requests : at[r] = "end" => replied
  /\ \A r \in Requests : strategy = "graph" /\ req[r] \in {"completing", "closing"} => replied

Inv == TypeOK /\ Witnessed /\ ClosedIsAnswered

LEMMA Initially == Init => Inv
<1> SUFFICES ASSUME Init PROVE Inv
  OBVIOUS
<1> USE EscalationAssumption DEF Init
<1>1. TypeOK
  <2>1. /\ strategy \in {"graph", "journal"} /\ inter \in {"absent"} \cup Open \cup Closed
        /\ turn \in {"claimed", "pending", "completed", "failed", "retaken"}
        /\ row \in {"running", "interrupted", "completed", "failed", "cancelled"}
        /\ task \in {"none", "graph", "recorded", "returned", "finishing", "cancelled", "unwound"}
    BY DEF Open, Closed
  <2>2. Flags
    BY Zenon DEF Flags
  <2> QED BY <2>1, <2>2 DEF TypeOK
<1>2. Witnessed /\ ClosedIsAnswered
  BY DEF Witnessed, ClosedIsAnswered, Closed
<1> QED BY <1>1, <1>2 DEF Inv

(* The Boolean variables.                                                  *)
LEMMA FlagsKept == Flags /\ [Next]_vars => Flags'
<1> SUFFICES ASSUME Flags, [Next]_vars PROVE Flags'
  OBVIOUS
<1> USE Zenon DEF Flags, run, chat
<1>1. CASE FirstPass
  BY <1>1 DEF FirstPass, Record, Suspend, CompleteFirst, FinishFirst, UnwindFirst, MarkFirst
<1>2. CASE Acknowledge \/ Claim \/ AdmitLater \/ Drive \/ Crash
  BY <1>2 DEF Acknowledge, Claim, AdmitLater, Drive, Crash
<1>3. CASE Start
  BY <1>3 DEF Start
<1>4. ASSUME NEW r \in Requests, Handle(r) PROVE Flags'
  <2>1. CASE Note(r) \/ Inject(r) \/ Load(r) \/ Answer(r) \/ GoOn(r) \/ Return(r) \/ PauseAgain(r) \/ Raise(r)
    BY <2>1 DEF Note, Inject, Load, Answer, GoOn, Return, PauseAgain, Raise
  <2>2. CASE CompleteRun(r) \/ Close(r) \/ MarkRun(r) \/ Done(r) \/ FailRun(r) \/ MarkFailed(r)
    BY <2>2 DEF CompleteRun, Close, MarkRun, Done, FailRun, MarkFailed
  <2>3. CASE Wake(r)
    BY <2>3 DEF Wake
  <2> QED BY <1>4, <2>1, <2>2, <2>3 DEF Handle
<1>5. ASSUME NEW r \in Requests, NEW a \in Actions, NEW b \in BOOLEAN, Ask(r, a, b) PROVE Flags'
  BY <1>5 DEF Ask
<1>6. CASE UNCHANGED vars
  BY <1>6 DEF vars
<1> QED BY <1>1, <1>2, <1>3, <1>4, <1>5, <1>6 DEF Next

(* One step of the first pass, a request, the chat or the process.         *)
LEMMA TypesKept == TypeOK /\ [Next]_vars => TypeOK'
<1> SUFFICES ASSUME TypeOK, [Next]_vars PROVE TypeOK'
  OBVIOUS
<1>0. Flags'
  BY FlagsKept DEF TypeOK
<1> USE <1>0, EscalationAssumption
    DEF TypeOK, Open, Closed, Actions, Busy, Step, escalation, run, requests, chat, world
<1>1. CASE Record
  BY <1>1 DEF Record
<1>2. CASE Suspend \/ FinishFirst \/ MarkFirst
  BY <1>2 DEF Suspend, FinishFirst, MarkFirst
<1>3. CASE CompleteFirst
  BY <1>3 DEF CompleteFirst, Given
<1>4. CASE UnwindFirst
  BY <1>4 DEF UnwindFirst, Returned
<1>5. CASE Acknowledge \/ Claim
  BY <1>5 DEF Acknowledge, Claim
<1>6. CASE AdmitLater
  BY <1>6 DEF AdmitLater
<1>7. CASE Drive
  BY <1>7 DEF Drive
<1>8. CASE Crash
  BY <1>8 DEF Crash
<1>9. CASE Start
  BY <1>9 DEF Start, Given, Returned
<1>10. ASSUME NEW r \in Requests, Handle(r) PROVE TypeOK'
  <2>1. CASE Note(r) \/ Inject(r) \/ Load(r)
    BY <2>1 DEF Note, Inject, Load
  <2>2. CASE Answer(r) \/ GoOn(r) \/ Return(r) \/ PauseAgain(r) \/ Raise(r)
    BY <2>2 DEF Answer, GoOn, Return, PauseAgain, Raise
  <2>3. CASE CompleteRun(r) \/ Close(r) \/ MarkRun(r)
    BY <2>3 DEF CompleteRun, Close, MarkRun, Given, SetState, Verdict
  <2>4. CASE Wake(r)
    BY <2>4 DEF Wake
  <2>5. CASE Done(r) \/ FailRun(r) \/ MarkFailed(r)
    BY <2>5 DEF Done, FailRun, MarkFailed, StaysOpen, Returned
  <2> QED BY <1>10, <2>1, <2>2, <2>3, <2>4, <2>5 DEF Handle
<1>11. ASSUME NEW r \in Requests, NEW a \in Actions, NEW b \in BOOLEAN, Ask(r, a, b) PROVE TypeOK'
  BY <1>11 DEF Ask
<1>12. CASE UNCHANGED vars
  BY <1>12 DEF vars
<1> QED BY <1>1, <1>2, <1>3, <1>4, <1>5, <1>6, <1>7, <1>8, <1>9, <1>10, <1>11, <1>12
        DEF Next, FirstPass

LEMMA EvidenceKept == TypeOK /\ Witnessed /\ [Next]_vars => Witnessed'
<1> SUFFICES ASSUME TypeOK, Witnessed, [Next]_vars PROVE Witnessed'
  OBVIOUS
<1> USE DEF TypeOK, Witnessed, Busy, Step
<1>1. CASE FirstPass
  BY <1>1 DEF FirstPass, Record, Suspend, CompleteFirst, FinishFirst, UnwindFirst, MarkFirst,
              escalation, run, requests, chat, world
<1>2. CASE Acknowledge \/ Claim \/ AdmitLater \/ Drive \/ Crash \/ Start
  BY <1>2 DEF Acknowledge, Claim, AdmitLater, Drive, Crash, Start,
              escalation, run, requests, chat, world
<1>3. ASSUME NEW r \in Requests, Handle(r) PROVE Witnessed'
  <2>1. CASE Note(r) \/ Inject(r) \/ Load(r) \/ Answer(r) \/ GoOn(r) \/ Return(r) \/ PauseAgain(r) \/ Raise(r)
    BY <2>1 DEF Note, Inject, Load, Answer, GoOn, Return, PauseAgain, Raise, escalation, run, requests, chat, world
  <2>2. CASE CompleteRun(r) \/ Close(r) \/ MarkRun(r)
    BY <2>2 DEF CompleteRun, Close, MarkRun, escalation, run, requests, chat, world
  <2>3. CASE Wake(r) \/ Done(r) \/ FailRun(r) \/ MarkFailed(r)
    BY <2>3 DEF Wake, Done, FailRun, MarkFailed, escalation, run, requests, chat, world
  <2> QED BY <1>3, <2>1, <2>2, <2>3 DEF Handle
<1>4. ASSUME NEW r \in Requests, NEW a \in Actions, NEW b \in BOOLEAN, Ask(r, a, b) PROVE Witnessed'
  BY <1>4 DEF Ask, escalation, run, requests, chat, world
<1>5. CASE UNCHANGED vars
  BY <1>5 DEF vars, escalation, run, requests, chat, world
<1> QED BY <1>1, <1>2, <1>3, <1>4, <1>5 DEF Next

(* Only a request at its verdict closes the escalation, and no step        *)
(* changes one that is closed.                                             *)
LEMMA VerdictStep ==
  TypeOK /\ [Next]_vars =>
    /\ inter \in Closed => inter' = inter
    /\ inter' \in Closed /\ inter' # inter => \E r \in Requests : req[r] = "closing"
    /\ strategy' = strategy /\ (replied => replied')
<1> SUFFICES ASSUME TypeOK, [Next]_vars
             PROVE /\ inter \in Closed => inter' = inter
                   /\ inter' \in Closed /\ inter' # inter => \E r \in Requests : req[r] = "closing"
                   /\ strategy' = strategy /\ (replied => replied')
  OBVIOUS
<1> USE DEF TypeOK, Open, Closed, Step
<1>1. CASE FirstPass
  BY <1>1 DEF FirstPass, Record, Suspend, CompleteFirst, FinishFirst, UnwindFirst, MarkFirst, escalation
<1>2. CASE Acknowledge \/ Claim \/ AdmitLater \/ Drive \/ Crash \/ Start
  BY <1>2 DEF Acknowledge, Claim, AdmitLater, Drive, Crash, Start, escalation
<1>3. ASSUME NEW r \in Requests, Handle(r)
      PROVE /\ inter \in Closed => inter' = inter
            /\ inter' # inter => req[r] = "closing"
            /\ strategy' = strategy /\ (replied => replied')
  <2>1. CASE Note(r) \/ Inject(r) \/ Load(r) \/ Answer(r) \/ GoOn(r) \/ Return(r) \/ PauseAgain(r) \/ Raise(r)
    BY <2>1 DEF Note, Inject, Load, Answer, GoOn, Return, PauseAgain, Raise, escalation
  <2>2. CASE CompleteRun(r) \/ Close(r) \/ MarkRun(r)
    BY <2>2 DEF CompleteRun, Close, MarkRun, SetState, Verdict, escalation
  <2>3. CASE Wake(r) \/ Done(r) \/ FailRun(r) \/ MarkFailed(r)
    BY <2>3 DEF Wake, Done, FailRun, MarkFailed, StaysOpen, escalation
  <2> QED BY <1>3, <2>1, <2>2, <2>3 DEF Handle
<1>4. ASSUME NEW r \in Requests, NEW a \in Actions, NEW b \in BOOLEAN, Ask(r, a, b)
      PROVE UNCHANGED <<inter, strategy, replied>>
  BY <1>4 DEF Ask, escalation
<1>5. CASE UNCHANGED vars
  BY <1>5 DEF vars, escalation
<1> QED BY <1>1, <1>2, <1>3, <1>4, <1>5 DEF Next

LEMMA Kept == Inv /\ [Next]_vars => Inv'
<1> SUFFICES ASSUME Inv, [Next]_vars PROVE Inv'
  OBVIOUS
<1>1. TypeOK' /\ Witnessed'
  BY TypesKept, EvidenceKept DEF Inv
<1>2. ClosedIsAnswered'
  <2> SUFFICES ASSUME inter' \in Closed, strategy' = "graph" PROVE replied'
    BY DEF ClosedIsAnswered
  <2>1. strategy = "graph" /\ (replied => replied')
    BY VerdictStep DEF Inv
  <2>2. CASE inter' = inter
    BY <2>1, <2>2 DEF Inv, ClosedIsAnswered
  <2>3. CASE inter' # inter
    <3>1. PICK r \in Requests : req[r] = "closing"
      BY <2>3, VerdictStep DEF Inv
    <3> QED BY <3>1, <2>1 DEF Inv, Witnessed
  <2> QED BY <2>2, <2>3
<1> QED BY <1>1, <1>2 DEF Inv

(* Rows, requests and the checkpoint keep their types, for any requests.   *)
THEOREM EscalationTypes == Spec => []TypeOK
<1>1. Inv => TypeOK
  BY DEF Inv
<1> QED BY Initially, Kept, <1>1, PTL DEF Spec

(* The inbox shows an escalation as closed only after the suspended run    *)
(* went on with an answer, to its end or to its next pause, whatever fails *)
(* on the way and whoever else asks.                                       *)
THEOREM ClosedEscalationsAreAnswered == Spec => []ClosedIsAnswered
<1>1. Inv => ClosedIsAnswered
  BY DEF Inv
<1> QED BY Initially, Kept, <1>1, PTL DEF Spec

(* The first verdict on an escalation is never overwritten.                *)
THEOREM VerdictsStand == Spec => VerdictStands
<1>1. Inv /\ [Next]_vars => [(inter \in Closed) => (inter' = inter)]_vars
  BY VerdictStep DEF Inv
<1> QED BY Initially, Kept, <1>1, PTL DEF Spec, VerdictStands

-----------------------------------------------------------------------------
(* The checkpoint is past the tool only if the escalation was recorded, by *)
(* a run that is suspended on it; one of before an upgrade has no run.     *)
Recorded ==
  /\ saved # "before" => inter # "absent" /\ strategy = "graph"
  /\ \A r \in Requests : at[r] # "before" => inter # "absent" /\ strategy = "graph"
  /\ strategy = "journal" => task = "none" /\ inter # "absent"

LEMMA RecordedInitially == Init => Recorded
  BY DEF Init, Recorded

LEMMA RecordStays ==
  ASSUME Recorded, UNCHANGED <<strategy, saved, at>>, inter' = "absent" => inter = "absent",
         task = "none" => task' = "none"
  PROVE  Recorded'
  BY DEF Recorded

LEMMA RecordedKept == TypeOK /\ Recorded /\ [Next]_vars => Recorded'
<1> SUFFICES ASSUME TypeOK, Recorded, [Next]_vars PROVE Recorded'
  OBVIOUS
<1> USE DEF TypeOK, Step, Open, Closed, escalation, run, requests, chat, world
<1>1. CASE Record
  BY <1>1 DEF Record, Recorded
<1>2. CASE Suspend \/ CompleteFirst \/ FinishFirst \/ UnwindFirst \/ MarkFirst \/ Acknowledge
  BY <1>2, RecordStays DEF Suspend, CompleteFirst, FinishFirst, UnwindFirst, MarkFirst, Acknowledge
<1>3. CASE Claim \/ AdmitLater \/ Drive \/ Start
  BY <1>3, RecordStays DEF Claim, AdmitLater, Drive, Start
<1>4. CASE Crash
  BY <1>4 DEF Crash, Recorded
<1>5. ASSUME NEW r \in Requests, Handle(r) PROVE Recorded'
  <2>1. CASE Note(r) \/ Inject(r) \/ Return(r) \/ Raise(r)
    BY <2>1, RecordStays DEF Note, Inject, Return, Raise
  <2>2. CASE Load(r) \/ Answer(r) \/ GoOn(r) \/ PauseAgain(r)
    BY <2>2 DEF Load, Answer, GoOn, PauseAgain, Recorded
  <2>3. CASE CompleteRun(r) \/ Close(r) \/ MarkRun(r) \/ Wake(r) \/ FailRun(r)
    BY <2>3, RecordStays DEF CompleteRun, Close, MarkRun, Wake, FailRun, SetState, StaysOpen, Verdict
  <2>4. CASE Done(r) \/ MarkFailed(r)
    BY <2>4 DEF Done, MarkFailed, Recorded
  <2> QED BY <1>5, <2>1, <2>2, <2>3, <2>4 DEF Handle
<1>6. ASSUME NEW r \in Requests, NEW a \in Actions, NEW b \in BOOLEAN, Ask(r, a, b) PROVE Recorded'
  BY <1>6, RecordStays DEF Ask
<1>7. CASE UNCHANGED vars
  BY <1>7, RecordStays DEF vars
<1> QED BY <1>1, <1>2, <1>3, <1>4, <1>5, <1>6, <1>7 DEF Next, FirstPass

(* What a step is to the question.                                         *)
QuestionStep == [Question!Next]_(Question!inbox)
Shown == IF inter = "absent" THEN "unput" ELSE IF inter \in Open THEN "open" ELSE inter
TakenTurns == {t \in {"own", "later"} : TurnTaken(t)}

LEMMA QuestionRests ==
  ASSUME UNCHANGED <<strategy, replied>>, Shown' = Shown, TakenTurns' = TakenTurns
  PROVE  QuestionStep
  BY DEF QuestionStep, Question!inbox, Shown, TakenTurns

LEMMA QuestionIsPut ==
  ASSUME UNCHANGED <<strategy, replied>>, Shown = "unput", Shown' = "open", TakenTurns' = TakenTurns
  PROVE  QuestionStep
<1>1. Question!Put
  BY DEF Question!Put, Shown, TakenTurns
<1> QED BY <1>1 DEF QuestionStep, Question!Next

LEMMA RunGoesOn ==
  ASSUME strategy = "graph", strategy' = strategy, Shown = "open", Shown' = Shown, replied' = TRUE,
         TakenTurns' = TakenTurns
  PROVE  QuestionStep
<1>1. Question!GoOn
  BY DEF Question!GoOn, Shown, TakenTurns
<1> QED BY <1>1 DEF QuestionStep, Question!Next

LEMMA QuestionIsClosed ==
  ASSUME UNCHANGED <<strategy, replied>>, NEW verdict \in Closed, Shown = "open", Shown' = verdict,
         strategy = "graph" => replied, TakenTurns' = TakenTurns
  PROVE  QuestionStep
<1>1. Question!Close(verdict)
  BY DEF Question!Close, Shown, TakenTurns
<1> QED BY <1>1 DEF QuestionStep, Question!Next, Question!Verdicts, Closed

LEMMA TurnsAreTaken ==
  ASSUME UNCHANGED <<strategy, replied>>, Shown # "open", Shown' = Shown, TakenTurns \subseteq TakenTurns'
  PROVE  QuestionStep
<1>1. TakenTurns' \in SUBSET {"own", "later"}
  BY DEF TakenTurns
<1>2. TakenTurns' = TakenTurns \cup TakenTurns'
  OBVIOUS
<1>3. Question!Take(TakenTurns')
  BY <1>2 DEF Question!Take, Shown, TakenTurns
<1> QED BY <1>1, <1>3 DEF QuestionStep, Question!Next

(* Only a task that looks for open escalations first takes a turn.         *)
LEMMA TakenStep ==
  TypeOK /\ [Next]_vars => TakenTurns' = TakenTurns \/ (Drive /\ TakenTurns \subseteq TakenTurns')
<1> SUFFICES ASSUME TypeOK, [Next]_vars
             PROVE  TakenTurns' = TakenTurns \/ (Drive /\ TakenTurns \subseteq TakenTurns')
  OBVIOUS
<1>0. ASSUME (turn' = "retaken") <=> (turn = "retaken"), (later' = "taken") <=> (later = "taken")
      PROVE  TakenTurns' = TakenTurns
  BY <1>0 DEF TakenTurns, TurnTaken
<1> USE DEF TypeOK, Step, escalation, run, requests, chat, world
<1>1. CASE FirstPass
  BY <1>0, <1>1 DEF FirstPass, Record, Suspend, CompleteFirst, FinishFirst, UnwindFirst, MarkFirst
<1>2. CASE Acknowledge \/ Claim \/ AdmitLater \/ Crash
  BY <1>0, <1>2 DEF Acknowledge, Claim, AdmitLater, Crash
<1>3. CASE Start
  BY <1>0, <1>3 DEF Start
<1>4. CASE Drive
  BY <1>4 DEF Drive, TakenTurns, TurnTaken
<1>5. ASSUME NEW r \in Requests, Handle(r) PROVE TakenTurns' = TakenTurns
  <2>1. CASE Note(r) \/ Inject(r) \/ Load(r) \/ Answer(r) \/ GoOn(r) \/ Return(r) \/ PauseAgain(r) \/ Raise(r)
    BY <1>0, <2>1 DEF Note, Inject, Load, Answer, GoOn, Return, PauseAgain, Raise
  <2>2. CASE CompleteRun(r) \/ Close(r) \/ MarkRun(r) \/ Wake(r)
    BY <1>0, <2>2 DEF CompleteRun, Close, MarkRun, Wake
  <2>3. CASE Done(r) \/ FailRun(r) \/ MarkFailed(r)
    BY <1>0, <2>3 DEF Done, FailRun, MarkFailed
  <2> QED BY <1>5, <2>1, <2>2, <2>3 DEF Handle
<1>6. ASSUME NEW r \in Requests, NEW a \in Actions, NEW b \in BOOLEAN, Ask(r, a, b)
      PROVE  TakenTurns' = TakenTurns
  BY <1>0, <1>6 DEF Ask
<1>7. CASE UNCHANGED vars
  BY <1>0, <1>7 DEF vars
<1> QED BY <1>1, <1>2, <1>3, <1>4, <1>5, <1>6, <1>7 DEF Next

(* Every step of the first pass, a request, a task or the process is a     *)
(* step of the question or leaves it alone.                                *)
LEMMA StepOfTheQuestion == Inv /\ Recorded /\ [Next]_vars => QuestionStep
<1> SUFFICES ASSUME Inv, Recorded, [Next]_vars PROVE QuestionStep
  OBVIOUS
<1>0. /\ strategy \in {"graph", "journal"} /\ inter \in {"absent"} \cup Open \cup Closed
      /\ TypeOK /\ Witnessed /\ ClosedIsAnswered
  BY DEF Inv, TypeOK
<1>01. TakenTurns' = TakenTurns \/ (Drive /\ TakenTurns \subseteq TakenTurns')
  BY <1>0, TakenStep
<1> USE <1>0 DEF Step, escalation, run, requests, chat, world, Open, Closed
<1>1. CASE Drive
  <2>1. inter' = inter /\ strategy' = strategy /\ replied' = replied /\ Shown' = Shown
    BY <1>1 DEF Drive, Shown
  <2>2. CASE inter \in Open
    <3>1. later' = later /\ turn' = turn
      BY <1>1, <2>2 DEF Drive
    <3>2. TakenTurns' = TakenTurns
      BY <3>1 DEF TakenTurns, TurnTaken
    <3> QED BY <2>1, <3>2, QuestionRests
  <2>3. CASE inter \notin Open
    <3>1. Shown # "open" /\ TakenTurns \subseteq TakenTurns'
      BY <1>01, <2>3 DEF Shown
    <3> QED BY <2>1, <3>1, TurnsAreTaken
  <2> QED BY <2>2, <2>3
<1>2. ASSUME ~Drive, UNCHANGED <<inter, strategy, replied>> PROVE QuestionStep
  BY <1>2, <1>01, QuestionRests DEF Shown
<1>3. CASE Record
  <2>1. UNCHANGED <<strategy, replied>> /\ inter' = IF inter = "absent" THEN "pending" ELSE inter
    BY <1>3 DEF Record
  <2>2. CASE inter = "absent"
    BY <1>1, <1>01, <2>1, <2>2, QuestionIsPut DEF Shown
  <2>3. CASE inter # "absent"
    BY <1>1, <1>01, <2>1, <2>3, QuestionRests DEF Shown
  <2> QED BY <2>2, <2>3
<1>4. CASE Claim
  <2>1. Shown' = Shown /\ UNCHANGED <<strategy, replied>>
    BY <1>4 DEF Claim, Shown
  <2> QED BY <1>1, <1>01, <2>1, QuestionRests
<1>5. ASSUME NEW r \in Requests, GoOn(r) \/ PauseAgain(r) PROVE QuestionStep
  <2>1. strategy = "graph" /\ inter # "absent" /\ replied' = TRUE /\ UNCHANGED <<inter, strategy>>
    BY <1>5 DEF GoOn, PauseAgain, Recorded
  <2>2. CASE inter \in Open
    BY <1>1, <1>01, <2>1, <2>2, RunGoesOn DEF Shown
  <2>3. CASE inter \in Closed
    <3>1. replied' = replied
      BY <2>1, <2>3 DEF ClosedIsAnswered, TypeOK, Flags
    <3> QED BY <1>1, <1>01, <2>1, <3>1, QuestionRests DEF Shown
  <2> QED BY <2>1, <2>2, <2>3
<1>6. ASSUME NEW r \in Requests, Close(r) PROVE QuestionStep
  <2>1. UNCHANGED <<strategy, replied>> /\ inter' = SetState(Verdict(r)) /\ req[r] = "closing"
    BY <1>6 DEF Close
  <2>2. strategy = "graph" => replied
    BY <2>1 DEF Witnessed
  <2>3. CASE inter \in Open
    <3>1. inter' = Verdict(r) /\ Verdict(r) \in Closed
      BY <2>1, <2>3 DEF SetState, Verdict
    <3>2. Shown = "open" /\ Shown' = Verdict(r)
      BY <2>3, <3>1 DEF Shown
    <3> QED BY <1>1, <1>01, <2>1, <2>2, <3>1, <3>2, QuestionIsClosed
  <2>4. CASE inter \notin Open
    <3>1. inter' = inter
      BY <2>1, <2>4 DEF SetState
    <3> QED BY <1>1, <1>01, <2>1, <3>1, QuestionRests DEF Shown
  <2> QED BY <2>3, <2>4
<1>7. CASE Suspend \/ CompleteFirst \/ FinishFirst \/ UnwindFirst \/ MarkFirst \/ Acknowledge
  BY <1>1, <1>2, <1>7 DEF Suspend, CompleteFirst, FinishFirst, UnwindFirst, MarkFirst, Acknowledge
<1>8. CASE AdmitLater \/ Crash \/ Start
  BY <1>1, <1>2, <1>8 DEF AdmitLater, Crash, Start
<1>9. ASSUME NEW r \in Requests, Handle(r) PROVE QuestionStep
  <2>1. CASE Note(r) \/ Inject(r) \/ Load(r) \/ Answer(r) \/ Return(r) \/ Raise(r)
    BY <1>1, <1>2, <2>1 DEF Note, Inject, Load, Answer, Return, Raise
  <2>2. CASE CompleteRun(r) \/ MarkRun(r) \/ Wake(r) \/ Done(r) \/ FailRun(r) \/ MarkFailed(r)
    BY <1>1, <1>2, <2>2 DEF CompleteRun, MarkRun, Wake, Done, FailRun, MarkFailed, StaysOpen
  <2> QED BY <1>5, <1>6, <1>9, <2>1, <2>2 DEF Handle
<1>10. ASSUME NEW r \in Requests, NEW a \in Actions, NEW b \in BOOLEAN, Ask(r, a, b) PROVE QuestionStep
  BY <1>1, <1>2, <1>10 DEF Ask
<1>11. CASE UNCHANGED vars
  BY <1>1, <1>2, <1>11 DEF vars
<1> QED BY <1>1, <1>3, <1>4, <1>7, <1>8, <1>9, <1>10, <1>11 DEF Next, FirstPass

(* An escalation implements a question to the owner: however requests      *)
(* overlap, fail or are cut off by a restart, it is put once, one verdict  *)
(* closes it after the suspended run went on with an answer, to its end or *)
(* to its next pause, and no turn of the chat is taken while it is open.   *)
THEOREM EscalationImplementsQuestion == Spec => ImplementsQuestion
<1>1. Init => Question!Init
  BY DEF Init, Question!Init, TurnTaken, Open
<1>2. Inv /\ Recorded /\ [Next]_vars => [Question!Next]_(Question!inbox)
  BY StepOfTheQuestion DEF QuestionStep
<1>3. Inv /\ Recorded /\ [Next]_vars => Recorded'
  BY RecordedKept DEF Inv
<1> QED
  BY <1>1, <1>2, <1>3, RecordedInitially, Initially, Kept, PTL
     DEF Spec, ImplementsQuestion, Question!Spec
=============================================================================
