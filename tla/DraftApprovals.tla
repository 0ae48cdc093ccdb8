---------------------------- MODULE DraftApprovals ----------------------------
(***************************************************************************)
(* Replies held for the owner's approval (outbound_drafts), on top of the  *)
(* ledger of outbound actions.  Approving a draft is four transactions and *)
(* a request to Discord: the draft is taken, the latest action of the      *)
(* draft is looked up, the action is published or retried (the steps of    *)
(* OutboundLedger), and the draft records the outcome.  Between them the   *)
(* owner also retries and resolves the action from the run inspector, and  *)
(* the process dies and starts again.                                      *)
(*                                                                         *)
(* A draft of at most one Discord segment has one action, and shares its   *)
(* index here.  The handlers are web requests: nothing cancels them short  *)
(* of the end of the process.                                              *)
(***************************************************************************)
EXTENDS OutboundLedger

CONSTANTS
  Texts,          \* what a draft may say
  MaxApprovals,   \* bound on approvals of one draft
  MaxAsked        \* bound on retries of one action from the run inspector

ASSUME DraftAssumption ==
  /\ MaxApprovals \in Nat /\ MaxAsked \in Nat
  /\ MaxApprovals + MaxAsked <= MaxRetries
  /\ None \notin Texts

VARIABLES
  draft,       \* outbound_drafts: state and payload of each row
  payload,     \* payload of each row of outbound_actions
  handler,     \* what the request run by each coroutine is doing
  approved,    \* approvals of each draft so far
  asked,       \* retries of each action from the run inspector so far
  texts,       \* texts of the action that Discord accepted
  stranded     \* drafts whose approval raised in this process

draftVars == <<draft, payload, handler, approved, asked, texts, stranded>>
allVars == <<vars, draftVars>>

DraftStates == {"absent", "pending", "recorded", "dispatching", "delivered", "failed",
                "rejected", "expired"}
Stages == {"none", "taken", "retrying", "publishing", "approving", "unanswered", "asking"}
Decisions == {"taken", "retrying", "publishing", "approving", "unanswered"}

NoHandler == [stage |-> "none", draft |-> None, text |-> None]
Idling(c) == up /\ handler[c].stage = "none" /\ call[c].phase = "idle"
Approvers(d) == {c \in Calls : handler[c].draft = d /\ handler[c].stage \in Decisions}

-----------------------------------------------------------------------------
DraftInit ==
  /\ Init
  /\ draft = [d \in ActionIds |-> [state |-> "absent", text |-> None]]
  /\ payload = [d \in ActionIds |-> None]
  /\ handler = [c \in Calls |-> NoHandler]
  /\ approved = [d \in ActionIds |-> 0]
  /\ asked = [d \in ActionIds |-> 0]
  /\ texts = [d \in ActionIds |-> {}]
  /\ stranded = {}

(* _record_draft: a reply is kept for approval, or only for the dashboard. *)
(* A draft that exists already is left alone.                              *)
RecordDraft(d, text, state) ==
  /\ up
  /\ draft[d].state = "absent"
  /\ draft' = [draft EXCEPT ![d] = [state |-> state, text |-> text]]
  /\ UNCHANGED <<vars, payload, handler, approved, asked, texts, stranded>>

(* approve_draft, first transaction: a pending or failed draft is taken,   *)
(* with the owner's edit.                                                  *)
OpenOrTaken(d) == draft[d].state \in {"pending", "failed", "dispatching"}
Open(d) == draft[d].state \in {"pending", "failed"}
TakeDraft(c, d, text) ==
  /\ Idling(c)
  /\ Open(d)
  /\ approved[d] < MaxApprovals
  /\ draft' = [draft EXCEPT ![d] = [state |-> "dispatching", text |-> text]]
  /\ handler' = [handler EXCEPT ![c] = [stage |-> "taken", draft |-> d, text |-> text]]
  /\ approved' = [approved EXCEPT ![d] = @ + 1]
  /\ UNCHANGED <<vars, payload, asked, texts, stranded>>

(* approve_draft, second transaction: a failed or ambiguous action of the  *)
(* draft gets the new text and is retried; otherwise it is published.      *)
RetryableAlways(d) == action[d].state # "absent"
Retryable(d) == action[d].state \in {"failed", "ambiguous"}
LookUpAction(c) ==
  LET d == handler[c].draft
  IN  /\ handler[c].stage = "taken"
      /\ handler' = [handler EXCEPT ![c].stage = IF Retryable(d) THEN "retrying" ELSE "publishing"]
      /\ payload' = IF Retryable(d) THEN [payload EXCEPT ![d] = handler[c].text] ELSE payload
      /\ UNCHANGED <<vars, draft, approved, asked, texts, stranded>>

(* The request raised: its draft, if it holds one, stays dispatching.      *)
Raised(c) ==
  /\ handler' = [handler EXCEPT ![c] = NoHandler]
  /\ stranded' = IF handler[c].stage = "asking" THEN stranded
                 ELSE stranded \cup {handler[c].draft}

(* retry on behalf of an approval reads the payload it reopens; if another *)
(* request was faster it returns nothing, which is taken for ambiguous.    *)
RetryDraftAsLookedUp(c) ==
  LET d == handler[c].draft
  IN  /\ handler[c].stage = "retrying"
      /\ action' = [action EXCEPT ![d] = Row("pending", None)]
      /\ call' = [call EXCEPT ![c] = [phase |-> "reopened", action |-> d, record |-> None]]
      /\ retried' = [retried EXCEPT ![d] = @ + 1]
      /\ handler' = [handler EXCEPT ![c].stage = "approving", ![c].text = payload[d]]
      /\ UNCHANGED <<up, epoch, sent, overruled, confirmed, dropped>>
      /\ UNCHANGED <<draft, payload, approved, asked, texts, stranded>>
RetryDraft(c) ==
  LET d == handler[c].draft
  IN  /\ handler[c].stage = "retrying"
      /\ IF Retryable(d)
         THEN /\ Reopen(c, d)
              /\ handler' = [handler EXCEPT ![c].stage = "approving", ![c].text = payload[d]]
         ELSE /\ handler' = [handler EXCEPT ![c].stage = "unanswered"]
              /\ UNCHANGED vars
      /\ UNCHANGED <<draft, payload, approved, asked, texts, stranded>>

(* publish_messages or react on behalf of an approval.  An action with     *)
(* another text raises.                                                    *)
PublishDraft(c) ==
  LET d == handler[c].draft
  IN  /\ handler[c].stage = "publishing"
      /\ IF action[d].state = "absent" \/ payload[d] = handler[c].text
         THEN /\ Publish(c, d)
              /\ payload' = [payload EXCEPT ![d] = handler[c].text]
              /\ handler' = [handler EXCEPT ![c].stage = "approving"]
              /\ UNCHANGED stranded
         ELSE /\ Raised(c)
              /\ UNCHANGED <<vars, payload>>
      /\ UNCHANGED <<draft, approved, asked, texts>>

(* The owner retries the action from the run inspector.                    *)
AskRetry(c, d) ==
  /\ Idling(c)
  /\ asked[d] < MaxAsked
  /\ Reopen(c, d)
  /\ handler' = [handler EXCEPT ![c] = [stage |-> "asking", draft |-> d, text |-> payload[d]]]
  /\ asked' = [asked EXCEPT ![d] = @ + 1]
  /\ UNCHANGED <<draft, payload, approved, texts, stranded>>

(* The claim of a retried action raises if the payload changed meanwhile.  *)
ClaimRetry(c) ==
  /\ call[c].phase = "reopened"
  /\ IF payload[handler[c].draft] = handler[c].text
     THEN /\ ClaimReopened(c)
          /\ UNCHANGED <<handler, stranded>>
     ELSE /\ Raised(c)
          /\ call' = [call EXCEPT ![c] = Idle]
          /\ UNCHANGED <<action, up, epoch, history>>
  /\ UNCHANGED <<draft, payload, approved, asked, texts>>

DeliverText(c) ==
  /\ Deliver(c)
  /\ texts' = [texts EXCEPT ![handler[c].draft] = @ \cup {handler[c].text}]
  /\ UNCHANGED <<draft, payload, handler, approved, asked, stranded>>

AnswerText(c) ==
  /\ \E r \in Records : Answer(c, r)
  /\ UNCHANGED draftVars

FinishText(c) ==
  /\ Finish(c)
  /\ UNCHANGED draftVars

(* approve_draft, last transaction: the outcome of the action decides.     *)
DraftStateRaw(record) == IF record = "accepted" THEN "delivered" ELSE record
DraftStateOf(record) == IF record = "accepted" THEN "delivered" ELSE "failed"
DecidedIfAccepted(d, record) ==
  IF draft[d].state = "dispatching" /\ record = "accepted"
  THEN [draft EXCEPT ![d].state = DraftStateOf(record)] ELSE draft
Decided(d, record) ==
  IF draft[d].state = "dispatching"
  THEN [draft EXCEPT ![d].state = DraftStateOf(record)] ELSE draft
Conclude(c) ==
  /\ \/ /\ handler[c].stage = "approving" /\ call[c].phase = "returned"
        /\ Return(c)
        /\ draft' = Decided(handler[c].draft, call[c].record)
     \/ /\ handler[c].stage = "unanswered"
        /\ draft' = Decided(handler[c].draft, "ambiguous")
        /\ UNCHANGED vars
  /\ handler' = [handler EXCEPT ![c] = NoHandler]
  /\ UNCHANGED <<payload, approved, asked, texts, stranded>>

(* The outcome of the action could not be recorded: the approval raises.   *)
FailToRecord(c) ==
  /\ handler[c].stage = "approving" /\ call[c].phase = "raised"
  /\ Return(c)
  /\ Raised(c)
  /\ UNCHANGED <<draft, payload, approved, asked, texts>>

ReturnRetry(c) ==
  /\ handler[c].stage = "asking"
  /\ Return(c)
  /\ handler' = [handler EXCEPT ![c] = NoHandler]
  /\ UNCHANGED <<draft, payload, approved, asked, texts, stranded>>

ResolveAction(d, verdict) ==
  /\ Resolve(d, verdict)
  /\ UNCHANGED draftVars

(* reject_draft                                                            *)
RejectOpen(d) ==
  /\ up /\ Open(d)
  /\ draft' = [draft EXCEPT ![d].state = "rejected"]
  /\ UNCHANGED <<vars, payload, handler, approved, asked, texts, stranded>>
Reject(d) ==
  /\ up
  /\ draft[d].state = "pending"
  /\ draft' = [draft EXCEPT ![d].state = "rejected"]
  /\ UNCHANGED <<vars, payload, handler, approved, asked, texts, stranded>>

(* _expire_drafts, first in every read, decision and start: the time of a  *)
(* draft that waits for the owner runs out.                                *)
Expire(d) ==
  /\ up
  /\ Open(d)
  /\ draft' = [draft EXCEPT ![d].state = "expired"]
  /\ UNCHANGED <<vars, payload, handler, approved, asked, texts, stranded>>

CrashDrafts ==
  /\ Crash
  /\ handler' = [c \in Calls |-> NoHandler]
  /\ UNCHANGED <<draft, payload, approved, asked, texts, stranded>>

(* reconcile_drafts, after reconcile_abandoned: a draft that was being     *)
(* dispatched takes the outcome of its action.                             *)
ReconciledHopefully(ledger) ==
  [d \in ActionIds |->
     IF draft[d].state # "dispatching" THEN draft[d]
     ELSE [draft[d] EXCEPT !.state = IF ledger[d].state = "failed" THEN "failed" ELSE "delivered"]]
ReconciledDrafts(ledger) ==
  [d \in ActionIds |->
     IF draft[d].state # "dispatching" THEN draft[d]
     ELSE [draft[d] EXCEPT !.state = IF ledger[d].state = "succeeded" THEN "delivered"
                                     ELSE "failed"]]
StartDrafts ==
  /\ Start
  /\ draft' = ReconciledDrafts(action')
  /\ stranded' = {}
  /\ UNCHANGED <<payload, handler, approved, asked, texts>>

HandlerStep(c) ==
  \/ LookUpAction(c) \/ RetryDraft(c) \/ PublishDraft(c) \/ ClaimRetry(c)
  \/ AnswerText(c) \/ FinishText(c) \/ Conclude(c) \/ FailToRecord(c) \/ ReturnRetry(c)

DraftNext ==
  \/ \E d \in ActionIds, t \in Texts, s \in {"pending", "recorded"} : RecordDraft(d, t, s)
  \/ \E c \in Calls, d \in ActionIds, t \in Texts : TakeDraft(c, d, t)
  \/ \E c \in Calls, d \in ActionIds : AskRetry(c, d)
  \/ \E c \in Calls : HandlerStep(c) \/ DeliverText(c)
  \/ \E d \in ActionIds, v \in {"succeeded", "failed"} : ResolveAction(d, v)
  \/ \E d \in ActionIds : Reject(d) \/ Expire(d)
  \/ CrashDrafts
  \/ StartDrafts

(* A stopped process is started again, and the event loop runs a request   *)
(* that can go on; the transport answers.                                  *)
DraftSpec == DraftInit /\ [][DraftNext]_allVars
DraftFairSpec ==
  DraftSpec /\ WF_allVars(StartDrafts) /\ \A c \in Calls : WF_allVars(HandlerStep(c))

-----------------------------------------------------------------------------
(* Types; a request that runs has a draft and a text, its coroutine in the *)
(* ledger works for the action of that draft, and an action has a payload. *)
DraftTypes ==
  /\ draft \in [ActionIds -> [state : DraftStates, text : Texts \cup {None}]]
  /\ payload \in [ActionIds -> Texts \cup {None}]
  /\ handler \in [Calls -> [stage : Stages, draft : ActionIds \cup {None},
                            text : Texts \cup {None}]]
  /\ \A c \in Calls :
       /\ handler[c].stage # "none" => up /\ handler[c].draft # None /\ handler[c].text # None
       /\ call[c].phase # "idle" =>
            handler[c].stage \in {"approving", "asking"} /\ call[c].action = handler[c].draft
  /\ \A d \in ActionIds : action[d].state # "absent" => payload[d] # None
  /\ approved \in [ActionIds -> Nat] /\ asked \in [ActionIds -> Nat]
  /\ texts \in [ActionIds -> SUBSET Texts]
  /\ stranded \subseteq ActionIds

(* Approvals work on the ledger only by the operations of the publisher:   *)
(* what the ledger promises holds for drafts.                              *)
UsesTheLedger == Spec

(* A draft is shown as delivered only if its action succeeded.             *)
DeliveredIsSucceeded ==
  \A d \in ActionIds : draft[d].state = "delivered" => action[d].state = "succeeded"

(* Nothing of a draft reaches Discord before the owner approves it, and    *)
(* nothing ever of one kept for the dashboard or rejected.                 *)
HeldUntilApproved ==
  \A d \in ActionIds : draft[d].state \in {"absent", "pending", "recorded", "rejected"}
                         => action[d].state = "absent" /\ sent[d] = 0

(* Two approvals never work on one draft at the same time, so neither can  *)
(* take the outcome of the other for its own.                              *)
OneApprover == \A d \in ActionIds : \A b, c \in Approvers(d) : b = c

(* The audit row tells the truth: a success that the owner did not decide  *)
(* was accepted by Discord with the text on record, edits and concurrent   *)
(* retries notwithstanding.                                                *)
AuditedAsSent ==
  \A d \in ActionIds \ (overruled \cup confirmed) :
    action[d].state = "succeeded" => payload[d] \in texts[d]

(* A draft the owner approved is decided, unless its approval raised; then *)
(* it waits for the next start.                                            *)
ApprovalSettles ==
  \A d \in ActionIds :
    (draft[d].state = "dispatching") ~> (draft[d].state # "dispatching" \/ d \in stranded)
=============================================================================
