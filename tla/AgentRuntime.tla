----------------------------- MODULE AgentRuntime -----------------------------
(***************************************************************************)
(* The runtime of one chat (class AgentService) over its journal: Discord  *)
(* handlers that admit messages, the chat's task, the callbacks of ended   *)
(* tasks, the owner's pause and resume, shutdown, crash and restart.       *)
(*                                                                         *)
(* A handler or a task runs alone between two awaits and stops at each of  *)
(* them, so one action is one transaction or one piece of code without an  *)
(* await.  A task is named by the run it would start; the name is free     *)
(* again when the task ends without having claimed.                        *)
(*                                                                         *)
(* Follow-up waits and escalations of the chat are in FollowupWaits and    *)
(* Escalations; here no wait and no interrupt is ever active.              *)
(***************************************************************************)
EXTENDS ConversationJournal

CONSTANTS MaxRequests,   \* the owner's forced replies, pauses and resumes
          MaxStarts      \* process starts

ASSUME RuntimeAssumption ==
  MaxRequests \in Nat /\ MaxStarts \in Nat

VARIABLES
  process,     \* "down", "up" or "closing" (AgentService._closing)
  ingest,      \* where the Discord handler of each message stands
  pc,          \* where the task of each run stands
  cancelled,   \* tasks that were cancelled
  forced,      \* tasks created with force=True
  slot,        \* AgentService.tasks[channel]
  discard,     \* channel in _discard_cancelled_work
  todo,        \* the runs the callback of an ended task has still to release
  discarding,  \* callbacks that took the discard mark
  marking,     \* the run a callback released and whose row it marks next
  paused,      \* conversations.availability = 'paused'
  kept,        \* history: runs a pausing handoff left at work
  owner,       \* where the owner's request stands
  row,         \* agent_runs.status
  evidence,    \* what outbound_actions show of each run
  answerers,   \* history: the runs that claimed each work
  disturbed,   \* history: runs cancelled, or released by another's callback
  ready,       \* ModelService.ready: a model is configured and can be built
  late,        \* events dated ahead of the host's clock, whose turns are not due
  counters     \* what the bounds limit

taskVars == <<pc, cancelled, forced, slot>>
callbackVars == <<discard, todo, discarding, marking>>
ownerVars == <<paused, kept, owner>>
runVars == <<row, evidence>>
historyVars == <<answerers, disturbed>>
environment == <<ready, late>>
processVars == <<process, counters, environment>>
rvars == <<vars, ingest, taskVars, callbackVars, ownerVars, runVars, historyVars, processVars>>

Before == {"driving", "checked"}
Graph == {"claimed", "running", "answered", "applied"}
Failing == {"failing", "failed"}
Unwinding == {"unwinding", "released"}
Callback == {"ended", "after", "releasing", "resuming"}
Phases == {"idle", "done"} \cup Before \cup Graph \cup Failing \cup Unwinding \cup Callback

Alive(r) == pc[r] \in Before \cup Graph \cup Failing \cup Unwinding
ActiveOnceClaimed == slot # None /\ pc[slot] \in Graph
ActiveRun == slot # None /\ Alive(slot)          \* in tasks and not done()
Working == {r \in {slot} \ {None} : Alive(r)}
Due == {w \in WorkIds \ late : work[w].state = "pending"}
WithClaims == {r \in Runs : ClaimedWork(r) # {}}    \* claimed_run_ids
At(r, phase) == process # "down" /\ pc[r] = phase
Proceeds(r, phase) == At(r, phase) /\ r \notin cancelled
Goes(r, phase) == pc' = [pc EXCEPT ![r] = phase]
Count(c) == counters' = [counters EXCEPT ![c] = @ + 1]

RuntimeInit ==
  /\ Init
  /\ process = "down" /\ owner = "idle" /\ slot = None
  /\ ingest = [e \in EventIds |-> "unseen"]
  /\ pc = [r \in Runs |-> "idle"]
  /\ todo = [r \in Runs |-> {}] /\ marking = [r \in Runs |-> None]
  /\ cancelled = {} /\ forced = {} /\ discarding = {} /\ disturbed = {}
  /\ discard = FALSE /\ paused \in BOOLEAN /\ kept = {}
  /\ row = [r \in Runs |-> "absent"]
  /\ evidence = [r \in Runs |-> "none"]
  /\ answerers = [w \in WorkIds |-> {}]
  /\ ready \in BOOLEAN /\ late \in SUBSET EventIds
  /\ counters = [requests |-> 0, starts |-> 0]

-----------------------------------------------------------------------------
(* _ensure_task: nothing while the process closes or a task is at work,    *)
(* else a new task that begins with _drive.  pcs is pc with the step of a  *)
(* caller that is itself a callback taken, leaving that callback.          *)
EnsureTask(pcs, leaving, force) ==
  /\ cancelled' = cancelled \ leaving
  /\ IF process = "up" /\ ~ActiveRun
     THEN \E r \in {s \in Runs : pcs[s] = "idle"} :
            /\ pc' = [pcs EXCEPT ![r] = "driving"]
            /\ slot' = r
            /\ forced' = (forced \ leaving) \cup (IF force THEN {r} ELSE {})
     ELSE /\ pc' = pcs /\ forced' = forced \ leaving
          /\ UNCHANGED slot

(* AgentService.cancel: the task leaves the map and gets CancelledError.   *)
CancelTask ==
  /\ slot' = None
  /\ cancelled' = cancelled \cup Working
  /\ disturbed' = disturbed \cup Working
  /\ UNCHANGED <<pc, forced, answerers>>

(* submit_message reads whether a turn is active and whether the chat is   *)
(* available; the admission follows with what was read.                    *)
Decide(e) ==
  /\ process = "up" /\ ingest[e] = "unseen"
  /\ \E matched \in BOOLEAN :
       ingest' = [ingest EXCEPT ![e] = IF matched /\ ~ActiveRun /\ ~paused THEN "turn"
                                       ELSE "context"]
  /\ UNCHANGED <<vars, taskVars, callbackVars, ownerVars, runVars, historyVars, processVars>>

AdmitDecided(e) ==
  /\ process # "down"
  /\ \/ /\ ingest[e] = "turn"
        /\ AdmitTurn(e) \/ AdmitCoalesced(e)
        /\ ingest' = [ingest EXCEPT ![e] = "admitted"]
     \/ /\ ingest[e] = "context"
        /\ AdmitContext(e)
        /\ ingest' = [ingest EXCEPT ![e] = "seen"]
  /\ UNCHANGED <<taskVars, callbackVars, ownerVars, runVars, historyVars, processVars>>

WakeTask(e) ==
  /\ process # "down" /\ ingest[e] = "admitted"
  /\ ingest' = [ingest EXCEPT ![e] = "seen"]
  /\ EnsureTask(pc, {}, FALSE)
  /\ UNCHANGED <<vars, callbackVars, ownerVars, runVars, historyVars, processVars>>

-----------------------------------------------------------------------------
(* _drive: an unforced task of a paused chat ends, and any task if no model *)
(* is ready.  Which of the work that is due comes next, and so whether a   *)
(* forced reply leads, depends on available_at.                            *)
DriveUnchecked(r) ==
  /\ Proceeds(r, "driving")
  /\ \E next \in Due \cup {None} :
       /\ next = None => Due = {}
       /\ Goes(r, IF ready THEN "checked" ELSE "ended")
       /\ forced' = IF next \in Forces THEN forced \cup {r} ELSE forced
  /\ UNCHANGED <<vars, cancelled, slot, callbackVars, ingest, ownerVars, runVars, historyVars,
                 processVars>>
Drive(r) ==
  /\ Proceeds(r, "driving")
  /\ \E next \in Due \cup {None} :
       /\ next = None => Due = {}
       /\ Goes(r, IF ~ready \/ (paused /\ r \notin forced /\ next \notin Forces)
                  THEN "ended" ELSE "checked")
       /\ forced' = IF next \in Forces THEN forced \cup {r} ELSE forced
  /\ UNCHANGED <<vars, cancelled, slot, callbackVars, ingest, ownerVars, runVars, historyVars,
                 processVars>>

(* _run: after the debounce it claims a batch under a fresh run id, or     *)
(* ends if no work is due.                                                 *)
ClaimBatch(r) ==
  /\ Proceeds(r, "checked")
  /\ \/ \E w \in Due :
          /\ ClaimReady(r, w)
          /\ answerers' = [answerers EXCEPT ![w] = @ \cup {r}]
          /\ Goes(r, "claimed")
     \/ /\ Due = {}
        /\ Goes(r, "ended")
        /\ UNCHANGED <<vars, answerers>>
  /\ UNCHANGED <<cancelled, forced, slot, ingest, callbackVars, ownerVars, runVars, disturbed,
                 processVars>>

(* The model became unusable meanwhile: build_model raises, outside of any *)
(* handler, and the claims stay with a run that has no row.                *)
BuildFails(r) ==
  /\ Proceeds(r, "claimed") /\ ~ready
  /\ Goes(r, "ended")
  /\ UNCHANGED <<vars, cancelled, forced, slot, ingest, callbackVars, ownerVars, runVars,
                 historyVars, processVars>>

StartRow(r) ==
  /\ Proceeds(r, "claimed")
  /\ row' = [row EXCEPT ![r] = "running"]
  /\ Goes(r, "running")
  /\ UNCHANGED <<vars, cancelled, forced, slot, evidence, ingest, callbackVars, ownerVars,
                 historyVars, processVars>>

(* While the graph runs: an outbound action, input at a safe point.        *)
Deliver(r) ==
  /\ Proceeds(r, "running")
  /\ evidence[r] = "none"
  /\ \E seen \in {"succeeded", "unclear"} : evidence' = [evidence EXCEPT ![r] = seen]
  /\ UNCHANGED <<vars, row, taskVars, ingest, callbackVars, ownerVars, historyVars, processVars>>

Inject(r) ==
  /\ Proceeds(r, "running")
  /\ \E participants \in SUBSET Participants : ClaimInjection(r, participants)
  /\ UNCHANGED <<taskVars, ingest, callbackVars, ownerVars, runVars, historyVars, processVars>>

(* ainvoke returns, raises, or is interrupted by CancelledError.           *)
Invoked(r) ==
  /\ At(r, "running")
  /\ \/ r \notin cancelled /\ Goes(r, "answered")
     \/ r \notin cancelled /\ Goes(r, "failing")
     \/ r \in cancelled /\ Goes(r, "unwinding")
  /\ UNCHANGED <<vars, cancelled, forced, slot, ingest, callbackVars, ownerVars, runVars,
                 historyVars, processVars>>

CompleteTurn(r) ==
  /\ Proceeds(r, "answered")
  /\ Complete(r)
  /\ Goes(r, "applied")
  /\ UNCHANGED <<cancelled, forced, slot, ingest, callbackVars, ownerVars, runVars, historyVars,
                 processVars>>

FailTurn(r) ==
  /\ Proceeds(r, "failing")
  /\ Fail(r)
  /\ Goes(r, "failed")
  /\ UNCHANGED <<cancelled, forced, slot, ingest, callbackVars, ownerVars, runVars, historyVars,
                 processVars>>

(* The handler of CancelledError: work of a handed-off chat is cancelled,  *)
(* other work waits again.                                                 *)
Unwind(r) ==
  /\ At(r, "unwinding")
  /\ IF discard THEN CancelClaimed(r) ELSE Release(r)
  /\ discard' = FALSE
  /\ Goes(r, "released")
  /\ UNCHANGED <<cancelled, forced, slot, todo, discarding, marking, ingest, ownerVars, runVars,
                 historyVars, processVars>>

(* afinish_agent_run, which changes nothing where no row was started.      *)
RowIs(r, status) == row' = [row EXCEPT ![r] = IF @ = "absent" THEN @ ELSE status]
FinishRow(r) ==
  /\ \/ Proceeds(r, "applied") /\ RowIs(r, "completed")
     \/ Proceeds(r, "failed") /\ RowIs(r, "failed")
     \/ At(r, "released") /\ RowIs(r, "cancelled")
  /\ Goes(r, "ended")
  /\ UNCHANGED <<vars, cancelled, forced, slot, evidence, ingest, callbackVars, ownerVars,
                 historyVars, processVars>>

(* CancelledError outside of ainvoke passes through the task.              *)
Interrupted(r) ==
  /\ process # "down" /\ r \in cancelled
  /\ pc[r] \in Before \cup (Graph \ {"running"}) \cup Failing
  /\ Goes(r, "ended")
  /\ UNCHANGED <<vars, cancelled, forced, slot, ingest, callbackVars, ownerVars, runVars,
                 historyVars, processVars>>

-----------------------------------------------------------------------------
(* _finished, the callback of a task: it clears the map only of its own    *)
(* task, takes the discard mark and starts _after_finished.                *)
Rest(r) == IF r \in started THEN "done" ELSE "idle"
FinishedAlike(r) ==
  /\ At(r, "ended")
  /\ slot' = IF slot = r THEN None ELSE slot
  /\ kept' = kept \ {r}
  /\ IF process = "up"
     THEN /\ Goes(r, "resuming")
          /\ discarding' = IF discard THEN discarding \cup {r} ELSE discarding
          /\ discard' = FALSE
          /\ UNCHANGED <<cancelled, forced>>
     ELSE /\ Goes(r, Rest(r))
          /\ cancelled' = cancelled \ {r} /\ forced' = forced \ {r}
          /\ UNCHANGED <<discard, discarding>>
  /\ UNCHANGED <<vars, todo, marking, ingest, paused, owner, runVars, historyVars, processVars>>
Finished(r) ==
  /\ At(r, "ended")
  /\ slot' = IF slot = r THEN None ELSE slot
  /\ kept' = kept \ {r}
  /\ IF process = "up"
     THEN /\ Goes(r, IF r \in cancelled THEN "after" ELSE "resuming")
          /\ discarding' = IF discard THEN discarding \cup {r} ELSE discarding
          /\ discard' = FALSE
          /\ UNCHANGED <<cancelled, forced>>
     ELSE /\ Goes(r, Rest(r))
          /\ cancelled' = cancelled \ {r} /\ forced' = forced \ {r}
          /\ UNCHANGED <<discard, discarding>>
  /\ UNCHANGED <<vars, todo, marking, ingest, paused, owner, runVars, historyVars, processVars>>

(* _after_finished of a cancelled task: the claimed runs of the chat are   *)
(* read, and each is released or cancelled and its row marked, one after   *)
(* the other.                                                              *)
ReadClaimed(r) ==
  /\ At(r, "after")
  /\ todo' = [todo EXCEPT ![r] = WithClaims]
  /\ Goes(r, "releasing")
  /\ UNCHANGED <<vars, cancelled, forced, slot, discard, discarding, marking, ingest,
                 ownerVars, runVars, historyVars, processVars>>

ReleaseClaims(r, s) ==
  /\ At(r, "releasing") /\ marking[r] = None /\ s \in todo[r]
  /\ IF r \in discarding THEN CancelClaimed(s) ELSE Release(s)
  /\ todo' = [todo EXCEPT ![r] = @ \ {s}]
  /\ marking' = [marking EXCEPT ![r] = s]
  /\ disturbed' = disturbed \cup {s}
  /\ UNCHANGED <<taskVars, discard, discarding, ingest, ownerVars, runVars, answerers,
                 processVars>>

MarkRow(r) ==
  /\ At(r, "releasing") /\ marking[r] # None
  /\ RowIs(marking[r], "cancelled")
  /\ marking' = [marking EXCEPT ![r] = None]
  /\ UNCHANGED <<vars, taskVars, discard, todo, discarding, ingest, ownerVars, evidence,
                 historyVars, processVars>>

Released(r) ==
  /\ At(r, "releasing") /\ marking[r] = None /\ todo[r] = {}
  /\ Goes(r, "resuming")
  /\ UNCHANGED <<vars, cancelled, forced, slot, callbackVars, ingest, ownerVars, runVars,
                 historyVars, processVars>>

(* _resume_pending: the callback ends and starts a task for work that      *)
(* waits, unless the chat is paused and no forced reply leads.             *)
ResumeNothing(r) ==
  /\ At(r, "resuming")
  /\ Goes(r, Rest(r))
  /\ cancelled' = cancelled \ {r} /\ forced' = forced \ {r} /\ discarding' = discarding \ {r}
  /\ UNCHANGED <<vars, slot, discard, todo, marking, ingest, ownerVars, runVars, historyVars,
                 processVars>>
ResumePending(r) ==
  /\ At(r, "resuming")
  /\ \E next \in Due \cup {None} :
       /\ next = None => Due = {}
       /\ IF next = None \/ (paused /\ next \notin Forces) \/ process = "closing"
          THEN /\ Goes(r, Rest(r))
               /\ cancelled' = cancelled \ {r} /\ forced' = forced \ {r}
               /\ UNCHANGED slot
          ELSE /\ EnsureTask([pc EXCEPT ![r] = Rest(r)], {r}, next \in Forces)
  /\ discarding' = discarding \ {r}
  /\ UNCHANGED <<vars, discard, todo, marking, ingest, ownerVars, runVars, historyVars,
                 processVars>>

-----------------------------------------------------------------------------
(* The owner: a forced reply; a pause from the dashboard                   *)
(* (permanently_pause), which cancels waiting turns and the task; a        *)
(* handoff by a message of the owner (_apply_owner_handoff), which pauses  *)
(* or not, and cancels or, under "keep_or_inject", leaves turns and task   *)
(* alone; the /resume route, which cancels the task first.                 *)
ForceReply(f) ==
  /\ process = "up" /\ owner = "idle" /\ counters.requests < MaxRequests
  /\ ScheduleForce(f)
  /\ owner' = "forcing" /\ Count("requests")
  /\ UNCHANGED <<paused, kept, taskVars, ingest, callbackVars, runVars, historyVars, process,
                 environment>>

WakeForced ==
  /\ process # "down" /\ owner = "forcing"
  /\ owner' = "idle"
  /\ EnsureTask(pc, {}, TRUE)
  /\ UNCHANGED <<vars, paused, kept, ingest, callbackVars, runVars, historyVars, processVars>>

Handoff(pauses, cancels) ==
  /\ process = "up" /\ owner = "idle" /\ counters.requests < MaxRequests /\ Count("requests")
  /\ paused' = (paused \/ pauses)
  /\ owner' = IF cancels THEN "pausing" ELSE "idle"
  /\ kept' = IF cancels THEN kept ELSE kept \cup Working
  /\ UNCHANGED <<vars, taskVars, ingest, callbackVars, runVars, historyVars, process, environment>>
Pause == \E pauses, cancels \in BOOLEAN : (pauses \/ cancels) /\ Handoff(pauses, cancels)

DropTurns ==
  /\ process # "down" /\ owner = "pausing"
  /\ owner' = "dropping"
  /\ IF PendingTurns = {} THEN UNCHANGED vars ELSE CancelPendingTurns
  /\ UNCHANGED <<paused, kept, taskVars, ingest, callbackVars, runVars, historyVars, processVars>>

DropTask ==
  /\ process # "down" /\ owner = "dropping"
  /\ owner' = "idle"
  /\ discard' = (discard \/ ActiveRun)
  /\ CancelTask
  /\ UNCHANGED <<vars, paused, kept, todo, discarding, marking, ingest, runVars, processVars>>

StopForResume ==
  /\ process = "up" /\ owner = "idle" /\ counters.requests < MaxRequests
  /\ owner' = "resuming" /\ Count("requests")
  /\ CancelTask
  /\ UNCHANGED <<vars, paused, kept, callbackVars, ingest, runVars, process, environment>>

Unpause ==
  /\ process # "down" /\ owner = "resuming"
  /\ paused' = FALSE /\ owner' = "idle" /\ kept' = {}
  /\ UNCHANGED <<vars, taskVars, ingest, callbackVars, runVars, historyVars, processVars>>

-----------------------------------------------------------------------------
(* close; the end of the process, orderly or not; the next start, where    *)
(* claims of runs with a running row are resolved by what their deliveries *)
(* show, and a task is started if work is due.                             *)
Close ==
  /\ process = "up"
  /\ process' = "closing"
  /\ cancelled' = cancelled \cup Working
  /\ disturbed' = disturbed \cup Working
  /\ UNCHANGED <<vars, pc, forced, slot, ingest, callbackVars, ownerVars, runVars, answerers,
                 counters, environment>>

Down ==
  /\ process # "down"
  /\ process' = "down" /\ owner' = "idle" /\ slot' = None
  /\ pc' = [r \in Runs |-> Rest(r)]
  /\ ingest' = [e \in EventIds |-> IF ingest[e] = "unseen" THEN "unseen" ELSE "seen"]
  /\ todo' = [r \in Runs |-> {}] /\ marking' = [r \in Runs |-> None]
  /\ cancelled' = {} /\ forced' = {} /\ discarding' = {} /\ discard' = FALSE /\ kept' = {}
  /\ UNCHANGED <<vars, paused, runVars, historyVars, counters, environment>>

Abandoned == {r \in WithClaims : row[r] = "running"}
OutcomeIgnoringEvidence(r) == "cancelled"
Outcome(r) == CASE evidence[r] = "none" -> "cancelled"
                [] evidence[r] = "succeeded" -> "completed"
                [] evidence[r] = "unclear" -> "failed"
ReconciledEvents ==
  [i \in Seqs |->
     IF events[i].context # "claimed" \/ events[i].run \notin Abandoned THEN events[i]
     ELSE IF Outcome(events[i].run) = "cancelled"
     THEN [events[i] EXCEPT !.context = "unapplied", !.run = None]
     ELSE [events[i] EXCEPT !.context = "applied"]]
ReconciledWork ==
  [w \in WorkIds |->
     IF work[w].state # "claimed" \/ work[w].run \notin Abandoned THEN work[w]
     ELSE IF Outcome(work[w].run) = "cancelled"
     THEN [work[w] EXCEPT !.state = "pending", !.run = None]
     ELSE [work[w] EXCEPT !.state = Outcome(work[w].run)]]

Start ==
  /\ process = "down" /\ counters.starts < MaxStarts
  /\ process' = "up" /\ Count("starts")
  /\ events' = ReconciledEvents /\ work' = ReconciledWork
  /\ row' = [r \in Runs |-> IF r \in Abandoned THEN Outcome(r) ELSE row[r]]
  /\ IF \E w \in WorkIds \ late : work'[w].state = "pending"
     THEN \E r \in {s \in Runs : pc[s] = "idle"} :
            pc' = [pc EXCEPT ![r] = "driving"] /\ slot' = r
     ELSE UNCHANGED <<pc, slot>>
  /\ UNCHANGED <<started, cursor, cancelled, forced, evidence, ingest, callbackVars, ownerVars,
                 historyVars, environment>>

(* The configuration of the model changes; the host's clock passes the     *)
(* timestamp of a message.                                                 *)
ModelChanges ==
  /\ ready' = ~ready
  /\ UNCHANGED <<vars, ingest, taskVars, callbackVars, ownerVars, runVars, historyVars, process,
                 counters, late>>
ComesDue(e) ==
  /\ e \in late /\ late' = late \ {e}
  /\ UNCHANGED <<vars, ingest, taskVars, callbackVars, ownerVars, runVars, historyVars, process,
                 counters, ready>>

-----------------------------------------------------------------------------
TaskStep(r) ==
  \/ Drive(r) \/ ClaimBatch(r) \/ BuildFails(r) \/ StartRow(r) \/ Invoked(r)
  \/ CompleteTurn(r) \/ FailTurn(r) \/ Unwind(r) \/ FinishRow(r) \/ Interrupted(r) \/ Finished(r)
  \/ ReadClaimed(r) \/ (\E s \in Runs : ReleaseClaims(r, s)) \/ MarkRow(r) \/ Released(r)
  \/ ResumePending(r)
HandlerStep(e) == AdmitDecided(e) \/ WakeTask(e)
Surroundings == ModelChanges \/ \E e \in EventIds : ComesDue(e)
OwnerStep == WakeForced \/ DropTurns \/ DropTask \/ Unpause

RuntimeNext ==
  \/ \E r \in Runs : TaskStep(r) \/ Deliver(r) \/ Inject(r)
  \/ \E e \in EventIds : Decide(e) \/ HandlerStep(e)
  \/ \E f \in Forces : ForceReply(f)
  \/ OwnerStep \/ Pause \/ StopForResume \/ Close \/ Down \/ Start \/ Surroundings

RuntimeSpec == RuntimeInit /\ [][RuntimeNext]_rvars

(* The event loop gives every coroutine its turn; ainvoke ends, by its     *)
(* recursion limit and the timeouts of the provider.  Nobody promises that *)
(* the process is started again.                                           *)
RuntimeFairness ==
  /\ \A r \in Runs : WF_rvars(TaskStep(r))
  /\ \A e \in EventIds : WF_rvars(HandlerStep(e))
  /\ WF_rvars(OwnerStep)
RuntimeFairSpec == RuntimeSpec /\ RuntimeFairness

-----------------------------------------------------------------------------
(* However messages, callbacks of ended tasks, pauses and resumes follow   *)
(* one another, a chat has at most one task that nobody has cancelled: two *)
(* would answer side by side.                                              *)
OneUncancelledTask ==
  \A r, s \in Runs : Alive(r) /\ Alive(s) /\ {r, s} \cap cancelled = {} => r = s

(* Once a pause is through, nothing unforced works on for the chat but a   *)
(* run that was at work when a handoff paused under "keep_or_inject": any  *)
(* other task that passed its check before the pause was cancelled, and a  *)
(* turn admitted across the pause, or left waiting by it, opens none.      *)
PausedIsQuiet ==
  paused /\ owner \in {"idle", "forcing"} =>
    \A r \in Runs : Alive(r) /\ r \notin cancelled \cup forced \cup kept => pc[r] = "driving"

(* A work has one answer: a run that showed an effect and was left alone   *)
(* to its end or to a crash is the last that claims the work.              *)
RepliedOnce ==
  \A w \in WorkIds : \A r, s \in answerers[w] :
    evidence[r] # "none" /\ evidence[s] # "none" /\ {r, s} \cap disturbed = {} => r = s

(* The claims of a chat are in the hands of a task or of a callback to     *)
(* come, except those of a run that ended before it had a row.             *)
Attended(r) ==
  \/ Alive(r)
  \/ \E s \in Runs : pc[s] \in {"ended", "after"} /\ s \in cancelled
  \/ \E s \in Runs : r \in todo[s]
ClaimsAreAttended ==
  process = "up" => \A r \in WithClaims : Attended(r) \/ row[r] = "absent"

(* A turn that is due, in a chat that is not paused, is claimed or closed  *)
(* once its handler has admitted it, whatever the tasks before it do, as   *)
(* long as the process lives, run ids last and a model is ready in the     *)
(* end: a task that finds none ready ends, and its callback starts the     *)
(* next.  A turn that is not due when its task looks is promised nothing.  *)
Exhausted == \A r \in Runs : pc[r] # "idle"
AdmittedTurnIsTaken ==
  <>[]ready =>
    \A e \in EventIds :
      (ingest[e] = "admitted" /\ work[e].state = "pending" /\ ~paused /\ e \notin late)
        ~> (work[e].state # "pending" \/ paused \/ process # "up" \/ Exhausted)
=============================================================================
