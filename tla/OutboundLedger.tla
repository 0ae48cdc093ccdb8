---------------------------- MODULE OutboundLedger ----------------------------
(***************************************************************************)
(* The ledger of externally visible Discord actions (OutboundPublisher).   *)
(* A coroutine that publishes claims the row of its action in one          *)
(* transaction, talks to Discord outside any transaction, and records the  *)
(* outcome in another.  Between them other coroutines run, the owner       *)
(* resolves or retries the action from the dashboard, the coroutine is     *)
(* cancelled, or the process dies and a new one starts with a new owner    *)
(* name.                                                                   *)
(*                                                                         *)
(* publish_messages and react treat one action the same way; a message cut *)
(* in several segments is several actions.                                 *)
(***************************************************************************)
EXTENDS Integers, FiniteSets

CONSTANTS
  ActionIds,      \* hashes of (thread, source, kind, ordinal)
  Calls,          \* coroutines that publish or retry
  MaxRetries,     \* bound on retries of one action
  MaxStarts,      \* bound on process starts
  None            \* SQL NULL

ASSUME LedgerAssumption ==
  /\ IsFiniteSet(Calls)
  /\ MaxRetries \in Nat /\ MaxStarts \in Nat
  /\ None \notin ActionIds \cup Nat

VARIABLES
  action,      \* outbound_actions: state and lease_owner of each row
  call,        \* what each coroutine is doing
  up,          \* the process runs
  epoch,       \* number of starts; stands for the owner name of the process
  sent,        \* times Discord accepted the action
  retried,     \* times retry reopened the action
  overruled,   \* actions the owner resolved while they were dispatching
  confirmed,   \* actions the owner declared delivered
  dropped      \* actions whose sender was cancelled in this process

vars == <<action, call, up, epoch, sent, retried, overruled, confirmed, dropped>>
history == <<sent, retried, overruled, confirmed, dropped>>

States == {"absent", "pending", "dispatching", "succeeded", "failed", "ambiguous"}
Records == {"accepted", "failed", "ambiguous"}
Phases == {"idle", "reopened", "sending", "delivered", "answered", "returned", "raised"}

Idle == [phase |-> "idle", action |-> None, record |-> None]
InFlight(a) ==
  {c \in Calls : call[c].action = a /\ call[c].phase \in {"sending", "delivered", "answered"}}

-----------------------------------------------------------------------------
Init ==
  /\ action = [a \in ActionIds |-> [state |-> "absent", owner |-> None]]
  /\ call = [c \in Calls |-> Idle]
  /\ up = FALSE
  /\ epoch = 0
  /\ sent = [a \in ActionIds |-> 0]
  /\ retried = [a \in ActionIds |-> 0]
  /\ overruled = {}
  /\ confirmed = {}
  /\ dropped = {}

Row(state, owner) == [state |-> state, owner |-> owner]
StateOptimistic(record) == IF record = "failed" THEN "failed" ELSE "succeeded"
StateOf(record) ==
  IF record = "accepted" THEN "succeeded"
  ELSE IF record = "ambiguous" THEN "ambiguous" ELSE "failed"

(* What a caller gets for an action it may not dispatch: the recorded      *)
(* outcome, or an ambiguous one while another attempt is incomplete.       *)
RecordRaw(state) == IF state = "dispatching" THEN "ambiguous" ELSE state
RecordOf(state) ==
  CASE state = "succeeded" -> "accepted"
    [] state = "failed" -> "failed"
    [] OTHER -> "ambiguous"

(* _claim: a new or pending row becomes ours, any other is left alone.     *)
ClaimedWhileDispatching(c, a) ==
  /\ action[a].state \in {"absent", "pending", "dispatching"}
  /\ action' = [action EXCEPT ![a] = Row("dispatching", epoch)]
  /\ call' = [call EXCEPT ![c] = [phase |-> "sending", action |-> a, record |-> None]]
Claimed(c, a) ==
  IF action[a].state \in {"absent", "pending"}
  THEN /\ action' = [action EXCEPT ![a] = Row("dispatching", epoch)]
       /\ call' = [call EXCEPT ![c] = [phase |-> "sending", action |-> a, record |-> None]]
  ELSE /\ call' = [call EXCEPT ![c] = [phase |-> "returned", action |-> a,
                                       record |-> RecordOf(action[a].state)]]
       /\ UNCHANGED action

(* publish_messages or react of one action: a fresh call, or the re-entry  *)
(* of a graph node that a restart or a resume runs again.                  *)
Publish(c, a) ==
  /\ up
  /\ call[c].phase = "idle"
  /\ Claimed(c, a)
  /\ UNCHANGED <<up, epoch, history>>

(* retry, first transaction: a failed or ambiguous row is pending again.   *)
Reopen(c, a) ==
  /\ up
  /\ call[c].phase = "idle"
  /\ retried[a] < MaxRetries
  /\ action[a].state \in {"ambiguous", "failed"}
  /\ action' = [action EXCEPT ![a] = Row("pending", None)]
  /\ call' = [call EXCEPT ![c] = [phase |-> "reopened", action |-> a, record |-> None]]
  /\ retried' = [retried EXCEPT ![a] = @ + 1]
  /\ UNCHANGED <<up, epoch, sent, overruled, confirmed, dropped>>

(* retry, second transaction: the row is claimed, unless someone else did. *)
ClaimReopened(c) ==
  /\ call[c].phase = "reopened"
  /\ Claimed(c, call[c].action)
  /\ UNCHANGED <<up, epoch, history>>

(* Discord accepts the request of the transport.                           *)
Deliver(c) ==
  /\ call[c].phase = "sending"
  /\ call' = [call EXCEPT ![c].phase = "delivered"]
  /\ sent' = [sent EXCEPT ![call[c].action] = @ + 1]
  /\ UNCHANGED <<action, up, epoch, retried, overruled, confirmed, dropped>>

(* The transport answers.  It reports failed for any error of the request, *)
(* which may hit after Discord accepted it, and an exception is ambiguous; *)
(* only an accepted request is reported accepted.                          *)
AnswerOf(phase) == IF phase = "delivered" THEN Records ELSE Records \ {"accepted"}
Answer(c, record) ==
  /\ call[c].phase \in {"sending", "delivered"}
  /\ record \in AnswerOf(call[c].phase)
  /\ call' = [call EXCEPT ![c].phase = "answered", ![c].record = record]
  /\ UNCHANGED <<action, up, epoch, history>>

(* _finish: the outcome is recorded if the row is still dispatched by this *)
(* process; otherwise the call raises and the row stays as it is.          *)
FinishWithoutLease(c) ==
  /\ call[c].phase = "answered"
  /\ action' = [action EXCEPT ![call[c].action] = Row(StateOf(call[c].record), None)]
  /\ call' = [call EXCEPT ![c].phase = "returned"]
  /\ UNCHANGED <<up, epoch, history>>
Finish(c) ==
  LET a == call[c].action
  IN  /\ call[c].phase = "answered"
      /\ IF action[a] = Row("dispatching", epoch)
         THEN /\ action' = [action EXCEPT ![a] = Row(StateOf(call[c].record), None)]
              /\ call' = [call EXCEPT ![c].phase = "returned"]
         ELSE /\ call' = [call EXCEPT ![c].phase = "raised"]
              /\ UNCHANGED action
      /\ UNCHANGED <<up, epoch, history>>

(* The caller takes the record or the exception.                           *)
Return(c) ==
  /\ call[c].phase \in {"returned", "raised"}
  /\ call' = [call EXCEPT ![c] = Idle]
  /\ UNCHANGED <<action, up, epoch, history>>

(* The task of the call is cancelled at one of its awaits: CancelledError  *)
(* is no Exception, so no outcome is recorded.                             *)
CancelCall(c) ==
  /\ call[c].phase \notin {"idle", "returned", "raised"}
  /\ call' = [call EXCEPT ![c] = Idle]
  /\ dropped' = IF call[c].phase = "reopened" THEN dropped ELSE dropped \cup {call[c].action}
  /\ UNCHANGED <<action, up, epoch, sent, retried, overruled, confirmed>>

(* resolve: the owner's verdict closes an ambiguous row, or one that is    *)
(* being dispatched at this moment.                                        *)
ResolveKeepingLease(a, verdict) ==
  /\ up
  /\ action[a].state \in {"ambiguous", "dispatching"}
  /\ action' = [action EXCEPT ![a].state = verdict]
  /\ overruled' = IF action[a].state = "dispatching" THEN overruled \cup {a} ELSE overruled
  /\ confirmed' = IF verdict = "succeeded" THEN confirmed \cup {a} ELSE confirmed
  /\ UNCHANGED <<call, up, epoch, sent, retried, dropped>>
Resolve(a, verdict) ==
  /\ up
  /\ action[a].state \in {"ambiguous", "dispatching"}
  /\ action' = [action EXCEPT ![a] = Row(verdict, None)]
  /\ overruled' = IF action[a].state = "dispatching" THEN overruled \cup {a} ELSE overruled
  /\ confirmed' = IF verdict = "succeeded" THEN confirmed \cup {a} ELSE confirmed
  /\ UNCHANGED <<call, up, epoch, sent, retried, dropped>>

(* The process stops; its coroutines are gone.                             *)
Crash ==
  /\ up
  /\ epoch < MaxStarts
  /\ up' = FALSE
  /\ call' = [c \in Calls |-> Idle]
  /\ UNCHANGED <<action, epoch, history>>

(* A process starts under a new owner name: reconcile_abandoned makes what *)
(* another owner was dispatching ambiguous, before anything can publish.   *)
ReconciledToPending(owner) ==
  [a \in ActionIds |-> IF action[a].state = "dispatching" /\ action[a].owner # owner
                       THEN Row("pending", None) ELSE action[a]]
ReconciledNever(owner) == action
Reconciled(owner) ==
  [a \in ActionIds |-> IF action[a].state = "dispatching" /\ action[a].owner # owner
                       THEN Row("ambiguous", None) ELSE action[a]]
Start ==
  /\ ~up
  /\ epoch < MaxStarts
  /\ epoch' = epoch + 1
  /\ up' = TRUE
  /\ action' = Reconciled(epoch')
  /\ dropped' = {}
  /\ UNCHANGED <<call, sent, retried, overruled, confirmed>>

Next ==
  \/ \E c \in Calls, a \in ActionIds : Publish(c, a) \/ Reopen(c, a)
  \/ \E c \in Calls :
       ClaimReopened(c) \/ Deliver(c) \/ Finish(c) \/ Return(c) \/ CancelCall(c)
  \/ \E c \in Calls, r \in Records : Answer(c, r)
  \/ \E a \in ActionIds, v \in {"succeeded", "failed"} : Resolve(a, v)
  \/ Crash
  \/ Start

(* A process that stopped is started again (the service manager restarts   *)
(* it), the Discord client answers or raises, and the event loop runs a    *)
(* coroutine that can continue.  Deliveries, cancellations and the owner   *)
(* promise nothing.                                                        *)
Fairness ==
  /\ WF_vars(Start)
  /\ \A c \in Calls : WF_vars(Finish(c)) /\ WF_vars(\E r \in Records : Answer(c, r))

Spec == Init /\ [][Next]_vars
FairSpec == Spec /\ Fairness

-----------------------------------------------------------------------------
(* Types; a coroutine that does anything has an action and a process, and  *)
(* what it answers is a DeliveryRecord.                                    *)
TypeOK ==
  /\ action \in [ActionIds -> [state : States, owner : Nat \cup {None}]]
  /\ call \in [Calls -> [phase : Phases, action : ActionIds \cup {None},
                         record : Records \cup {None}]]
  /\ \A c \in Calls : call[c].phase # "idle" => call[c].action # None /\ up
  /\ \A c \in Calls : call[c].phase = "answered" => call[c].record \in Records
  /\ up \in BOOLEAN
  /\ epoch \in Nat
  /\ sent \in [ActionIds -> Nat] /\ retried \in [ActionIds -> Nat]
  /\ overruled \subseteq ActionIds /\ confirmed \subseteq ActionIds
  /\ dropped \subseteq ActionIds

(* "Materialize and dispatch externally visible Discord actions            *)
(* idempotently": Discord accepts an action once, plus at most once for    *)
(* each retry the owner or an approval asked for, over re-entered nodes,   *)
(* cancelled tasks, restarts and verdicts given during a dispatch.         *)
SentOncePerPermission == \A a \in ActionIds : sent[a] <= 1 + retried[a]

(* Two coroutines talk to Discord for one action only if the owner         *)
(* resolved it while the first was still dispatching it.                   *)
OneSenderUnlessOverruled ==
  \A a \in ActionIds \ overruled : \A c, d \in InFlight(a) : c = d

(* A lease exists exactly while a row is dispatched, and in a running      *)
(* process it is the lease of that process: nothing a dead process was     *)
(* sending is taken for a delivery in progress.                            *)
LeaseIsOurs ==
  \A a \in ActionIds :
    /\ action[a].state = "dispatching" <=> action[a].owner # None
    /\ up /\ action[a].state = "dispatching" => action[a].owner = epoch

(* A success on record was accepted by Discord, or the owner said so.      *)
SuccessWitnessed ==
  \A a \in ActionIds : action[a].state = "succeeded" => sent[a] > 0 \/ a \in confirmed

(* A success is never reopened, retried or overwritten by a late call.     *)
SuccessIsFinal ==
  [][\A a \in ActionIds : action[a].state = "succeeded" => action'[a] = action[a]]_vars

(* No action is dispatched forever: its sender records an outcome or loses *)
(* the row, and what a dead process was sending becomes ambiguous at the   *)
(* next start.  Only a sender cancelled inside a living process leaves its *)
(* row behind, until the owner resolves it or the process restarts.        *)
DispatchSettles ==
  \A a \in ActionIds :
    (action[a].state = "dispatching") ~> (action[a].state # "dispatching" \/ a \in dropped)
=============================================================================
