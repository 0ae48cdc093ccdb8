---------------------------- MODULE FollowupWaits ----------------------------
(***************************************************************************)
(* The follow-up waits of one run (class ConversationWaits, the tool       *)
(* wait_before_followup, _resume_followup and cancel_followup): a run      *)
(* pauses inside a tool call, its graph is interrupted and saved, and      *)
(* later the same run is resumed by its timer or by new input.             *)
(*                                                                         *)
(* Three records must agree across crashes and cancellations: the wait,    *)
(* its wake work in agent_work, and the interrupt in the checkpoint of     *)
(* the graph.  A step is one transaction, one saved checkpoint, or code    *)
(* without an await.  The waits of the run are numbered in the order of    *)
(* the tool calls, which the checkpoint fixes.                             *)
(***************************************************************************)
EXTENDS Integers

CONSTANTS MaxWaits,      \* waits per request (2 in the tool)
          MaxStarts,     \* process starts
          MaxStops       \* cancellations from outside

ASSUME WaitAssumption == MaxWaits \in Nat \ {0} /\ MaxStarts \in Nat \ {0} /\ MaxStops \in Nat

Waits == 1..MaxWaits
NoWait == 0

VARIABLES
  wait,        \* conversation_waits.state
  wake,        \* agent_work.state of the wake work
  due,         \* resume_at has passed
  interrupt,   \* the wait whose __interrupt__ the checkpoint holds
  passed,      \* tool calls the checkpoint has behind it
  turn,        \* agent_work.state of the turn of the run
  row,         \* agent_runs.status of the run
  shown,       \* the run has outbound actions
  task,        \* where the task of the chat stands
  resumed,     \* the wait the task resumes, NoWait in the first pass
  answering,   \* the graph was given Command(resume)
  interrupted, \* what ainvoke returned
  cancelled,   \* the task was cancelled
  callback,    \* _after_finished of a cancelled task
  owner,       \* where the request of the owner stands
  target,      \* the wait cancel_followup looked up
  kind,        \* the request: "pause" or "cancel"
  discard,     \* channel in _discard_cancelled_work
  process, notifier, starts, stops

tables == <<wait, wake, due>>
graph == <<interrupt, passed>>
run == <<turn, row, shown>>
coroutine == <<task, resumed, answering, interrupted, cancelled>>
request == <<owner, target, kind, discard>>
world == <<process, notifier, starts, stops>>
vars == <<tables, graph, run, coroutine, callback, request, world>>

Active == {"arming", "scheduled", "resuming"}
Final == {"cancelled", "failed"}
ActiveWaits == {n \in Waits : wait[n] \in Active}
Incomplete == {n \in Waits : wait[n] = "completed" /\ wake[n] \in {"pending", "claimed"}
                             /\ row = "interrupted"}          \* incomplete_resume
InGraph == {"graph", "armed", "resolving", "passing"}
Alive == task # "none"

Init ==
  /\ wait = [n \in Waits |-> "absent"] /\ wake = [n \in Waits |-> "absent"]
  /\ due = [n \in Waits |-> FALSE]
  /\ interrupt = NoWait /\ passed = 0
  /\ turn = "claimed" /\ row = "running" /\ shown = FALSE
  /\ task = "graph" /\ resumed = NoWait /\ answering = FALSE /\ interrupted = FALSE
  /\ cancelled = FALSE /\ callback = "none"
  /\ owner = "idle" /\ target = NoWait /\ kind = "none" /\ discard = FALSE
  /\ process = "up" /\ notifier = TRUE /\ starts = 1 /\ stops = 0

At(pc) == task = pc /\ ~cancelled
Over == task' = "none" /\ resumed' = NoWait /\ answering' = FALSE /\ interrupted' = FALSE
Goes(pc) == task' = pc /\ UNCHANGED <<resumed, answering, interrupted, cancelled>>

-----------------------------------------------------------------------------
(* conversation_waits: each statement names the states it leaves.          *)
MovedAnyway(n, before, after) == [wait EXCEPT ![n] = after]
Moved(n, before, after) == [wait EXCEPT ![n] = IF @ \in before THEN after ELSE @]
Resolve(n) == wait' = Moved(n, {"resuming"}, "completed")

(* Work the run holds is closed or requeued with it (journal.complete,     *)
(* fail, release, cancel_claimed): the turn and the claimed wakes.         *)
ClosedUnclaimed(state) == [n \in Waits |-> IF wake[n] \in {"pending", "claimed"} THEN state ELSE wake[n]]
WakesClosed(state) == [n \in Waits |-> IF wake[n] = "claimed" THEN state ELSE wake[n]]
WorkBecomes(state) ==
  /\ turn' = IF turn = "claimed" THEN state ELSE turn
  /\ wake' = WakesClosed(state)
HoldsWork == turn = "claimed" \/ \E n \in Waits : wake[n] = "claimed"

-----------------------------------------------------------------------------
(* The graph.  The tool arms its wait by id: a row that exists is returned *)
(* whatever its state.                                                     *)
Arm ==
  /\ At("graph") /\ passed < MaxWaits
  /\ LET n == passed + 1
     IN  IF wait[n] = "absent"
         THEN wait' = [wait EXCEPT ![n] = "arming"] /\ wake' = [wake EXCEPT ![n] = "pending"]
         ELSE UNCHANGED <<wait, wake>>
  /\ Goes("armed")
  /\ UNCHANGED <<due, graph, run, callback, request, world>>

(* interrupt(): it returns the resume value, or is saved and ends ainvoke. *)
Interrupt ==
  /\ At("armed")
  /\ IF answering /\ resumed = passed + 1
     THEN Goes("resolving") /\ UNCHANGED interrupt
     ELSE /\ interrupt' = passed + 1
          /\ task' = "returned" /\ interrupted' = TRUE
          /\ UNCHANGED <<resumed, answering, cancelled>>
  /\ UNCHANGED <<tables, passed, run, callback, request, world>>

SkipResolve ==
  /\ At("resolving") /\ Goes("passing")
  /\ UNCHANGED <<tables, graph, run, callback, request, world>>
ResolveInTool ==
  /\ At("resolving") /\ Resolve(passed + 1) /\ Goes("passing")
  /\ UNCHANGED <<wake, due, graph, run, callback, request, world>>

(* The checkpoint after the tool holds no interrupt any more.              *)
Pass ==
  /\ At("passing")
  /\ passed' = passed + 1 /\ interrupt' = NoWait
  /\ Goes("graph")
  /\ UNCHANGED <<tables, run, callback, request, world>>

Publish ==
  /\ At("graph") /\ ~shown /\ shown' = TRUE
  /\ UNCHANGED <<tables, graph, turn, row, coroutine, callback, request, world>>

(* ainvoke ends without a further tool call, or raises.                    *)
EndGraph ==
  /\ At("graph") /\ \A n \in Waits : n = passed + 1 => wait[n] = "absent"
  /\ task' = "returned" /\ interrupted' = FALSE
  /\ UNCHANGED <<tables, graph, run, resumed, answering, cancelled, callback, request, world>>
RaiseGraph ==
  /\ At("graph") /\ Goes("failing")
  /\ UNCHANGED <<tables, graph, run, callback, request, world>>

-----------------------------------------------------------------------------
(* After ainvoke, in _run and in _resume_followup: a wait of the run that  *)
(* is still arming is scheduled, the resumed wait resolved, the work and   *)
(* the row of the run closed.                                              *)
Schedule ==
  /\ At("returned")
  /\ IF interrupted
     THEN wait' = [n \in Waits |-> IF n # resumed /\ wait[n] = "arming" THEN "scheduled" ELSE wait[n]]
     ELSE UNCHANGED wait
  /\ Goes(IF resumed = NoWait THEN "completing" ELSE "settling")
  /\ UNCHANGED <<wake, due, graph, run, callback, request, world>>

Settle ==
  /\ At("settling") /\ Resolve(resumed) /\ Goes("completing")
  /\ UNCHANGED <<wake, due, graph, run, callback, request, world>>

RowOf == IF interrupted THEN "interrupted" ELSE "completed"
Complete ==
  /\ At("completing") /\ WorkBecomes("completed") /\ Goes("finishing")
  /\ UNCHANGED <<wait, due, graph, row, shown, callback, request, world>>

Finish ==
  /\ At("finishing") /\ row' = RowOf /\ Over
  /\ UNCHANGED <<tables, graph, turn, shown, cancelled, callback, request, world>>

FailWait ==
  /\ At("failing")
  /\ wait' = IF resumed = NoWait THEN wait ELSE Moved(resumed, Active \cup {"completed"}, "failed")
  /\ Goes("failed")
  /\ UNCHANGED <<wake, due, graph, run, callback, request, world>>
FailWork ==
  /\ At("failed") /\ WorkBecomes("failed") /\ Goes("marking")
  /\ UNCHANGED <<wait, due, graph, row, shown, callback, request, world>>
FailRow ==
  /\ At("marking") /\ row' = "failed" /\ Over
  /\ UNCHANGED <<tables, graph, turn, shown, cancelled, callback, request, world>>

-----------------------------------------------------------------------------
(* CancelledError: the first pass gives its work back and marks its row if *)
(* it was inside ainvoke; then, as after a resume, the callback does so    *)
(* for whatever the run still holds.                                       *)
Unwind ==
  /\ cancelled /\ task \in InGraph /\ resumed = NoWait
  /\ WorkBecomes(IF discard THEN "cancelled" ELSE "pending")
  /\ discard' = FALSE /\ task' = "unwound"
  /\ UNCHANGED <<wait, due, graph, row, shown, resumed, answering, interrupted, cancelled, callback,
                 owner, target, kind, world>>
Unwound ==
  /\ task = "unwound" /\ row' = "cancelled" /\ task' = "dropped"
  /\ UNCHANGED <<tables, graph, turn, shown, resumed, answering, interrupted, cancelled, callback,
                 request, world>>
Drop ==
  /\ cancelled /\ Alive /\ task # "unwound"
  /\ task \in InGraph => resumed # NoWait
  /\ Over /\ cancelled' = FALSE
  /\ callback' = IF discard THEN "discarding" ELSE IF callback = "none" THEN "releasing" ELSE callback
  /\ discard' = FALSE
  /\ UNCHANGED <<tables, graph, run, owner, target, kind, world>>

Release ==
  /\ callback \in {"releasing", "discarding"}
  /\ IF HoldsWork
     THEN WorkBecomes(IF callback = "discarding" THEN "cancelled" ELSE "pending") /\ callback' = "marking"
     ELSE callback' = "none" /\ UNCHANGED <<turn, wake>>
  /\ UNCHANGED <<wait, due, graph, row, shown, coroutine, request, world>>
Mark ==
  /\ callback = "marking" /\ row' = "cancelled" /\ callback' = "none"
  /\ UNCHANGED <<tables, graph, turn, shown, coroutine, request, world>>

-----------------------------------------------------------------------------
(* Time passes; a new message wakes the scheduled wait (wake_for_input).   *)
Elapse(n) ==
  /\ wait[n] \in Active /\ ~due[n]
  /\ due' = [due EXCEPT ![n] = TRUE]
  /\ UNCHANGED <<wait, wake, graph, run, coroutine, callback, request, world>>

(* _drive of a new task: a due wait is claimed; a wait whose resume was    *)
(* cut short is resumed again, also after the tool has resolved it.        *)
DrivesScheduled(n) == wait[n] = "scheduled" /\ due[n] /\ wake[n] = "pending"
DrivesDueOnly(n) == DrivesScheduled(n)
Drives(n) == \/ DrivesScheduled(n)
             \/ wait[n] = "resuming"
             \/ ActiveWaits = {} /\ n \in Incomplete
Drive(n) ==
  /\ process = "up" /\ ~Alive /\ Drives(n)
  /\ wait' = Moved(n, {"scheduled"}, "resuming")
  /\ wake' = IF wait[n] = "scheduled" THEN [wake EXCEPT ![n] = "claimed"] ELSE wake
  /\ task' = "graph" /\ resumed' = n /\ answering' = (interrupt = n)
  /\ UNCHANGED <<due, graph, run, interrupted, cancelled, callback, request, world>>

(* The notifier polls every half second until its first exception; any     *)
(* event of the chat may start a task too.                                 *)
Poll == notifier /\ \E n \in Waits : Drive(n)
Poke == ~notifier /\ \E n \in Waits : Drive(n)
NotifierEnds ==
  /\ process = "up" /\ notifier /\ notifier' = FALSE
  /\ UNCHANGED <<tables, graph, run, coroutine, callback, request, process, starts, stops>>

-----------------------------------------------------------------------------
(* The owner.  /resume cancels the task and awaits nothing; a pause or the *)
(* cancel button goes through cancel_followup.                             *)
Stopping == cancelled' = (cancelled \/ Alive)
StopTask ==
  /\ process = "up" /\ owner = "idle" /\ Alive /\ ~cancelled /\ stops < MaxStops
  /\ Stopping /\ stops' = stops + 1
  /\ UNCHANGED <<tables, graph, run, task, resumed, answering, interrupted, callback, request,
                 process, notifier, starts>>

Ask(what) ==
  /\ process = "up" /\ owner = "idle" /\ kind # "pause" /\ stops < MaxStops
  /\ owner' = "looking" /\ kind' = what /\ stops' = stops + 1
  /\ UNCHANGED <<tables, graph, run, coroutine, callback, target, discard, process, notifier, starts>>

AfterCancel == IF kind = "pause" THEN "dropping" ELSE "idle"
LookUp ==
  /\ owner = "looking"
  /\ LET found == IF ActiveWaits # {} THEN ActiveWaits ELSE Incomplete
     IN  IF found = {}
         THEN owner' = AfterCancel /\ UNCHANGED <<target, cancelled>>
         ELSE /\ target' \in found
              /\ Stopping /\ owner' = "awaiting"
  /\ UNCHANGED <<tables, graph, run, task, resumed, answering, interrupted, callback, kind, discard,
                 world>>

(* The cancelled task has ended (gather); a new one may have started since *)
(* the map was cleared.                                                    *)
Cancellable(n) == wait[n] \in Active \/ n \in Incomplete
CancelWait ==
  /\ owner = "awaiting" /\ ~cancelled
  /\ IF Cancellable(target)
     THEN /\ wait' = [wait EXCEPT ![target] = "cancelled"]
          /\ wake' = [wake EXCEPT ![target] = IF @ \in {"pending", "claimed"} THEN "cancelled" ELSE @]
          /\ owner' = "releasing"
     ELSE owner' = AfterCancel /\ UNCHANGED <<wait, wake>>
  /\ UNCHANGED <<due, graph, run, coroutine, callback, target, kind, discard, world>>
ReleaseRun ==
  /\ owner = "releasing" /\ WorkBecomes("pending") /\ owner' = "marking"
  /\ UNCHANGED <<wait, due, graph, row, shown, coroutine, callback, target, kind, discard, world>>
MarkRun ==
  /\ owner = "marking" /\ row' = "cancelled" /\ owner' = AfterCancel
  /\ UNCHANGED <<tables, graph, turn, shown, coroutine, callback, target, kind, discard, world>>

DropTurns ==
  /\ owner = "dropping" /\ owner' = "ending"
  /\ turn' = IF turn = "pending" THEN "cancelled" ELSE turn
  /\ UNCHANGED <<tables, graph, row, shown, coroutine, callback, target, kind, discard, world>>
DropTask ==
  /\ owner = "ending" /\ owner' = "idle"
  /\ discard' = (discard \/ (Alive /\ ~cancelled)) /\ Stopping
  /\ UNCHANGED <<tables, graph, run, task, resumed, answering, interrupted, callback, target, kind,
                 world>>

-----------------------------------------------------------------------------
(* A crash; the next start resolves the claims of a run whose row says     *)
(* running by what it has shown, then waits that are still arming by what  *)
(* the checkpoint holds.                                                   *)
Crash ==
  /\ process = "up" /\ process' = "down"
  /\ Over /\ cancelled' = FALSE /\ callback' = "none"
  /\ owner' = "idle" /\ kind' = "none" /\ discard' = FALSE
  /\ UNCHANGED <<tables, graph, run, target, notifier, starts, stops>>

PersistedSomething(n) == TRUE
Persisted(n) == interrupt = n
Reconciled(n) == IF wait[n] # "arming" THEN wait[n]
                 ELSE IF Persisted(n) THEN "scheduled" ELSE "cancelled"
Start ==
  /\ process = "down" /\ starts < MaxStarts
  /\ process' = "up" /\ notifier' = TRUE /\ starts' = starts + 1
  /\ \E outcome \in IF shown THEN {"completed", "failed"} ELSE {"pending"} :
       LET work == IF row = "running" /\ HoldsWork THEN WakesClosed(outcome) ELSE wake
       IN  /\ wake' = [n \in Waits |-> IF Reconciled(n) = "cancelled" /\ wait[n] = "arming"
                                       THEN "cancelled" ELSE work[n]]
           /\ IF row = "running" /\ HoldsWork
              THEN /\ turn' = IF turn = "claimed" THEN outcome ELSE turn
                   /\ row' = IF outcome = "pending" THEN "cancelled" ELSE outcome
              ELSE UNCHANGED <<turn, row>>
  /\ wait' = [n \in Waits |-> Reconciled(n)]
  /\ UNCHANGED <<due, graph, shown, coroutine, callback, request, stops>>

-----------------------------------------------------------------------------
TaskStep ==
  \/ Arm \/ Interrupt \/ ResolveInTool \/ Pass \/ EndGraph \/ RaiseGraph
  \/ Schedule \/ Settle \/ Complete \/ Finish \/ FailWait \/ FailWork \/ FailRow
  \/ Unwind \/ Unwound \/ Drop \/ Release \/ Mark
OwnerStep == LookUp \/ CancelWait \/ ReleaseRun \/ MarkRun \/ DropTurns \/ DropTask
Next ==
  \/ TaskStep \/ Publish \/ OwnerStep
  \/ \E n \in Waits : Elapse(n)
  \/ Poll \/ Poke \/ NotifierEnds
  \/ StopTask \/ (\E what \in {"pause", "cancel"} : Ask(what))
  \/ Crash \/ Start

Spec == Init /\ [][Next]_vars

(* Coroutines are scheduled, clocks advance, and the notifier polls while  *)
(* it lives.  Nobody promises a restart.                                   *)
Fairness == /\ WF_vars(TaskStep) /\ WF_vars(Release \/ Mark) /\ WF_vars(OwnerStep) /\ WF_vars(Poll)
            /\ \A n \in Waits : WF_vars(Elapse(n))
FairSpec == Spec /\ Fairness

-----------------------------------------------------------------------------
WorkStates == {"pending", "claimed", "completed", "cancelled", "failed"}
Flags == /\ shown \in BOOLEAN /\ answering \in BOOLEAN /\ interrupted \in BOOLEAN
         /\ cancelled \in BOOLEAN /\ discard \in BOOLEAN /\ notifier \in BOOLEAN
TypeOK ==
  /\ Flags
  /\ wait \in [Waits -> {"absent", "completed"} \cup Active \cup Final]
  /\ wake \in [Waits -> {"absent"} \cup WorkStates]
  /\ due \in [Waits -> BOOLEAN]
  /\ interrupt \in 0..MaxWaits /\ passed \in 0..MaxWaits
  /\ turn \in WorkStates
  /\ row \in {"running", "interrupted", "completed", "failed", "cancelled"}
  /\ task \in InGraph \cup {"none", "returned", "settling", "completing", "finishing", "failing",
                            "failed", "marking", "unwound", "dropped"}
  /\ resumed \in 0..MaxWaits /\ target \in 0..MaxWaits
  /\ callback \in {"none", "releasing", "discarding", "marking"}
  /\ owner \in {"idle", "looking", "awaiting", "releasing", "marking", "dropping", "ending"}
  /\ kind \in {"none", "pause", "cancel"} /\ process \in {"up", "down"}
  /\ starts \in 0..MaxStarts /\ stops \in 0..MaxStops

(* The run never arms a second wait while one is active: the unique index  *)
(* over active waits of a chat is not hit, however resumes are cut short.  *)
OneActiveWait == \A m, n \in ActiveWaits : m = n

(* A scheduled wait can fall due: its wake work still waits, whatever the  *)
(* completion, failure or release of its run did to the work around it.    *)
ScheduledCanWake == \A n \in Waits : wait[n] = "scheduled" => wake[n] = "pending"

(* The interrupt of a scheduled or resuming wait is in the checkpoint, or  *)
(* the tool has already taken its answer: no resume ends in the air.       *)
ResumableIsSaved ==
  \A n \in Waits : wait[n] \in {"scheduled", "resuming"} => interrupt = n /\ passed = n - 1

(* A cancelled or failed wait stays so: a resume that overlaps the         *)
(* cancellation does not report it as completed.                           *)
ClosedWaitsStay ==
  [][\A n \in Waits : wait[n] \in Final => wait'[n] \in Final]_vars

(* The rows, the wake work and the checkpoint together are a timer: a wait *)
(* is resumed only after its time, the graph goes on only past a wait whose*)
(* time came and that is over, the next one is armed after that, and a     *)
(* resume that overlaps a cancellation or a failure does not report the    *)
(* wait as completed.                                                      *)
TimerOf(n) ==
  CASE wait[n] = "absent" -> "unset"
    [] wait[n] \in {"arming", "scheduled"} -> "set"
    [] wait[n] = "resuming" -> "ringing"
    [] wait[n] = "completed" -> "answered"
    [] wait[n] \in Final -> "off"
Timer == INSTANCE FollowupTimer
           WITH Last <- MaxWaits, timer <- [n \in Waits |-> TimerOf(n)], gone <- passed
ImplementsTimer == Timer!Spec

(* A scheduled or resuming wait ends while the process and its notifier    *)
(* live, also when resumes are cancelled from outside.  That a resume      *)
(* raises before it reaches the graph, and so on each of its retries, is   *)
(* not modelled.                                                           *)
WaitsEnd ==
  \A n \in Waits : (wait[n] \in {"scheduled", "resuming"})
                     ~> (wait[n] \notin Active \/ process = "down" \/ ~notifier)
=============================================================================
