# Formal models of diskovod

diskovod is a single-process Python (asyncio) service that answers Discord
direct messages with a language model on behalf of an account owner.  All state
that matters is in one SQLite database; a dashboard (FastAPI) lets the owner
pause chats, approve replies, decide about failed deliveries and run
administrative jobs.  This directory holds TLA+ models of the parts of it whose
correctness depends on the order of events, the TLC runs that check them on
small instances and the TLAPS proofs that hold for every instance.

The models follow `src/diskovod/`.  `PROJECT.json` maps each definition to the
lines it stands for.

## How atomicity is read from the code

`AsyncSQLite.transaction` (persistence.py:934) takes one `asyncio.Lock` for the
whole block, commits at its end and rolls back on any exception, cancellation
included.  Two transactions therefore never overlap, and one transaction is one
action of a model.  Everything between two transactions is a point where other
coroutines run: an `await` on Discord, on the model, on the lock.  A cancelled
task stops at such a point.  A killed process loses its coroutines and keeps
every committed row.

## Inventory

| Component | State | Operations | What is hard | What makes it correct |
|---|---|---|---|---|
| Conversation journal (`conversation.py`) | `conversation_events`, `agent_work`, cursor in `chat_threads` | admit, schedule_force, claim_ready, claim_injection, complete, fail, release, cancel_claimed, cancel_pending_turns, start-up reconciliation | overlapping runs of one chat, late release, coalescing against claiming, reconciliation after a crash | every trigger has a turn that captures it, each event is held by one run, context only grows, the cursor never passes an open event |
| Outbound ledger (`outbound.py`) | `outbound_actions` | publish_messages, react, retry, resolve, reconcile_abandoned | a send outside any transaction, verdicts during a send, cancellation, restarts | an action is sent once per permission, a success is witnessed and final, nothing stays in dispatch |
| Drafts (`outbound.py`, `web.py`) | `outbound_drafts` | record, approve, reject, expire, reconcile_drafts | four transactions and a send per approval, concurrent retry and verdict | nothing leaves before approval, a draft reports what was sent |
| Admin jobs (`admin_jobs.py`, `admin_job_handlers.py`) | `admin_jobs`, tasks of the worker | enqueue, claim, succeed, fail, mark_cancelled, request_cancel, recover_expired, start, close | cancellation against completion, leases over restarts, slots | a task keeps its lease, one active job per key, single runs where required, every job ends |
| Follow-up waits (`waits.py`) | `conversation_waits` | arm, schedule, resolve, fail, cancel, wake_for_input, claim_ready | crash between arming and the graph's interrupt, timer against input | one active wait per chat, each wait ends, input is not lost |
| Agent runtime (`runtime.py`) | task per chat, `agent_runs`, thread generations | submit_message, _drive, _run, cancel, _after_finished, start, close, cutover, roll | callbacks of cancelled tasks, crash at every step of a run | every accepted trigger is answered or explicitly dropped, no duplicate turn |
| Engagement and availability (`store.py`, `interaction.py`) | `conversation_engagements`, chat availability | open, consume, close, snooze, pause, handoff | decision and admission are two steps | no turn beyond the window, none while paused |
| Policy and triggers (`interaction.py`) | none | evaluate_trigger, schedule_allows, edit distance | midnight, equal bounds, limits | agree with their definitions |
| Agent graph (`agent.py`, `agent_tools.py`) | LangGraph checkpoints | model and tool nodes, injection, publication, interrupts | re-entry of a node after a crash or resume | effects once, interrupts resumed once |
| Escalations (`runtime.py`, `outbound.py`) | `escalation_interrupts` | record, resume, expire | resume against expiry and new input | resolved once |
| Discord client, captcha broker (`discord.py`) | nonces, own message ids, pending captcha | on_message, on edit and delete, answer, start, stop | gateway echo before the id is stored, late answers | own messages are recognised |
| OAuth (`oauth.py`) | tokens, state parameter | begin, finish, credentials | refresh against sign-in | newest grant wins |
| Providers (`providers/`) | setup drafts | save, test, adapters | concurrent setup | expired drafts are gone |
| Attachments (`attachments.py`) | objects, references | capture, search | nothing is ever removed; the file precedes its row | every row has its file |
| Migration (`migration.py`, `persistence.py`) | `legacy_import_records`, schema version | import, schema scripts | interrupted import | repeatable |
| Dashboard, queries, HTTP client, localization, configuration | none of their own | routes, queries, formatting | | |

Interaction, from the outside in: the Discord gateway calls the runtime, which
admits events to the journal and starts the chat's task.  The task claims a
batch, runs the graph, injects late events at safe points, and publishes
through the outbound ledger (or records drafts).  Then it completes the run in
the journal.  The dashboard reaches the same objects by direct calls.  The
admin worker shares only the database with them.

## Modules

| Module | Models | Main state and its code |
|---|---|---|
| `ContextLedger` | abstract: what the journal promises about context | `stage`, `holder` of each event; `frontier`, the cursor |
| `ConversationJournal` | `ConversationJournal` for one chat | `events` (row order is `sequence`), `work`, `started` (runs that claimed), `cursor` |
| `AgentRuntime` | `AgentService` for one chat, extending the journal | `pc`, `slot`, `cancelled`, `forced` (tasks), `discard`, `todo`, `marking` (callbacks), `ingest`, `owner` (handlers), `row`, `evidence` (tables), `ready` (the model), `late` (events not yet due), `kept` |
| `OutboundLedger` | `OutboundPublisher` and the transport, for actions of one segment | `action` (row), `call` (where each coroutine stands), `up`, `epoch` (the owner name `embedded:<uuid>`) |
| `DraftApprovals` | drafts, extending `OutboundLedger` | `draft`, `payload` (text of the action), `handler` (the web request) |
| `AdminJobs` | repository, service and worker of admin jobs | `job` (row), `task` (the worker's task), `up`, `epoch` |
| `FollowupTimer` | abstract: what a wait promises the run that calls it | `timer`, `due` of each wait; `gone`, the waits behind the run |
| `FollowupWaits` | `ConversationWaits`, its tool, resume and cancellation, for the waits of one run | `wait`, `wake` (rows), `interrupt`, `passed` (checkpoint), `task`, `owner` |
| `OwnerQuestion` | abstract: what an escalation promises the owner and the chat | `question` (its place in the inbox), `suspends`, `answered`, `taken` turns |
| `Escalations` | one escalation, from the tool to the owner's answer | `inter` (row), `saved` (checkpoint), `req`, `at` (requests of the owner), `turn`, `row`, `paused` (interrupted again) |
| `EngagementWindow` | policy versions, windows, availability and handoff of one chat | `policy`, `window`, `at`, `read` (handlers), `pending`, `task`, `turn` |
| `AgentGraph` | `build_agent` and the tools, for one run | `g` (state and next node), `saved` (checkpoint), `claimed`, `applied`, `delivered`, `noticed`, `overlooked` |
| `TriggerRules` | `evaluate_trigger`, `schedule_allows`, `validate_policy` | `chatPolicy`, `text` and its author and kind |
| `StartupUpgrade` | what a start carries over from an older installation | `db`, `pc` (step of the start), `todo`, `chat`, `torn` |
| `MC...` | constants for TLC | |
| `AgentRuntimeProofs` | theorems about `ConversationJournal` and `AgentRuntime` | |
| `OutboundProofs` | theorems about `OutboundLedger` and `DraftApprovals` | |
| `InteractionProofs` | theorems about `EngagementWindow` and `TriggerRules` | |
| other `...Proofs` | theorems about the module they are named for | |

How they compose.  `AgentRuntime` contains the journal: each of its actions that
touches `events`, `work` or the cursor is the journal's action under a guard of
the runtime.  `DraftApprovals` contains the outbound ledger the same way.
`ConversationJournal` implements `ContextLedger`, and `DraftApprovals` the
specification of `OutboundLedger`; both are runs and theorems, and a theorem says
that `AgentRuntime` implements `ContextLedger` too.  `FollowupWaits` implements
`FollowupTimer`, and `Escalations` implements `OwnerQuestion`, as runs and
theorems.  `FollowupWaits`, `Escalations`, `EngagementWindow` and `AgentGraph`
each carry as much of the runtime as their property needs (a turn, a run row, a task, its callback), not
the whole of it: the product of all of them is out of TLC's reach.

A few definitions are not used by any action (`DriveUnchecked`, `MatchAny`,
`Reached`...).  Each is a plausible fault of the definition that follows it;
`PROJECT.json` lists under `mutants` which property notices it.

### ConversationJournal

One action per method; a method is one transaction.  The callers are left free:
any started run may finish, fail, be released or inject at any moment, and two
runs may hold claims at once, because `_after_finished` of a cancelled task runs
in a task of its own after the next run may have claimed.  `admit` is four
actions, one for each outcome (context only, applied history, coalesced, new
turn).  Which pending work is due is a free choice, since `available_at`
mixes Discord's clock with the host's.  `ReconcileDelivered` is the branch of
`_reconcile_abandoned_agent_runs` that applies events; the branch that releases
does to the rows what `Release` does.  Message contents, policy snapshots and
timestamps are not in the model; a role per event is, for `claim_injection`.
Deletion of conversations and the generation tables of `roll_generation` are
not: the latter touches no variable of the model.

### OutboundLedger

A coroutine goes from `idle` through `sending` (claimed), `delivered` (Discord
accepted) and `answered` (the transport returned or raised) to `returned` or
`raised`; a retry starts in `reopened`.  The transport may report a failure
after Discord accepted, since `send_messages` maps every exception to `failed`
and `_record_sent_message` may raise after the send.  `CancelCall` is a
cancelled task: `CancelledError` passes every `except Exception` and the row
stays as it is.  `epoch` grows at every `Start`, as the owner name is a new
uuid.  `AsyncSQLite` failures (a full disk) are not modelled.

### DraftApprovals

`approve_draft` is split at its transactions: `TakeDraft`, `LookUpAction`, then
either `RetryDraft` and `ClaimRetry` or `PublishDraft`, the steps of the ledger,
and `Conclude`.  `AskRetry` and `ResolveAction` are the run inspector acting on
the same action.  `Raised` covers the exceptions of `_claim` (other content
under one action id) and `_finish` (lease lost).  A draft has one action; drafts
longer than a Discord segment are not modelled.

### AdminJobs

`task` tells a handler at work from a task that is writing its outcome, because
the loop's `task.cancel()` acts differently on them: a handler ends by
`mark_cancelled`, an interrupted write is rolled back and nothing follows.
Ended tasks keep their slot until the loop reaps them.  Leases expire by the
wall clock, which the code compares with them only in `recover_expired` at the
start of a worker, so `Start` picks any set of leased jobs as expired.  Stop
and kill are one action: `close` writes no outcome either.  All handlers are
treated as cancellable.

### AgentRuntime

A task is named by the run id it would claim under; the id is free again if the
task ends without a claim.  One action is the code between two awaits:
`submit_message` is `Decide` (reads availability and the active run),
`AdmitDecided` and `WakeTask`; `_drive` and `_run` are `Drive`, `ClaimBatch`,
`StartRow`, `Deliver`, `Inject`, `Invoked`, `CompleteTurn` or `FailTurn`,
`FinishRow`, and on cancellation `Unwind` or `Interrupted`; the done-callback is
`Finished`, and `_after_finished` is `ReadClaimed`, `ReleaseClaims`, `MarkRow`,
`Released` and `ResumePending`.  The owner's forced reply, pause and resume are
likewise split.  `Close` is `AgentService.close`, `Down` the end of the process
at any point, `Start` includes `_reconcile_abandoned_agent_runs`, which resolves
claims by the outbound actions of the run (`evidence`).  `permanently_pause` and
`_apply_owner_handoff` are one action, `Handoff`, with the pairs a policy may hold
(and the dashboard's, which is pause and cancel): where the pair cancels,
`DropTurns` and `DropTask` follow; under "keep_or_inject" the task at work goes on,
and is remembered in `kept`.  `ModelChanges` makes the model usable or not at any
moment: `Drive` contains the check at the head of `_run`, and `BuildFails` is what
happens if the model is gone when it is built, after the claim.  Events in `late`
carry a timestamp ahead of the host's clock; their turns are not due until
`ComesDue`, and nothing else happens then.  One request of the owner runs at a
time; no wait and no escalation is active.

### FollowupWaits

Three records have to agree: the wait's row, its wake work, and the interrupt in
LangGraph's checkpoint.  `Arm`, `Interrupt`, `ResolveInTool`, `Pass` are the
tool `wait_before_followup`; `Schedule`, `Settle`, `Complete`, `Finish` the code
after `ainvoke` in `_run` and `_resume_followup`; `Drive` the claim of a due wait
and `incomplete_resume`; `LookUp`, `CancelWait`, `ReleaseRun`, `MarkRun` are
`cancel_followup`, which a pause continues with `DropTurns` and `DropTask`.
`Start` is the reconciliation of claims and of waits that are still arming.  A new
message that wakes a scheduled wait (`wake_for_input`) sets `resume_at` to now
and is `Elapse`.  The wait ids come from the tool calls, so the n-th wait of a
run keeps its id when the node is entered again.  As a `FollowupTimer`, the state of
a row is what its timer does (`TimerOf`: arming and scheduled are set, resuming is
ringing, cancelled and failed are off), and `passed` is how far the run has gone.
An exception in `_resume_followup` before its `try` (runtime.py:1862-1949: a pinned
policy that cannot be read, credentials that are gone) is not in the model: it
leaves the wait resuming, and each later task meets it again, so `WaitsEnd` does not
speak of it.

### Escalations

A request of the owner (inbox, `/resume`, a message in the chat) is a coroutine of
its own; two of them may resume one run.  Each works on the checkpoint it
loaded (`at`) and saves over that of the other (`saved`).  `note` is the
message the owner wrote, claimed for the resumed run; `later` is another turn of
the chat that waits behind the escalation.  Escalations of before an upgrade
(`strategy = "journal"`) close without a resume.  The resumed run may reach its end
(`Return`) or be interrupted again by a wait or an escalation of a later tool call
(`PauseAgain`): the code then closes the first escalation too, marks the run
interrupted and starts no task (`Interrupted`).  What becomes of that second pause is
left to `FollowupWaits` and to a second instance of this module; here `paused` says
that it stands in the way of `_drive`.  As an `OwnerQuestion`, the row is the
question, the run having gone on with an answer, to its end or to its next pause
(`replied`), is `answered`, and a turn counts as taken when the turn of the run is
taken anew or `later` is taken.  Automation is on and a model ready.

### EngagementWindow

The handler of a message reads policy, window and availability in transactions
of their own (`ReadPolicy`, `Match`, `CloseStale`, `CheckAvailability`) and
admits with what it read (`Admit`).  `Finish` opens or prolongs the window by the
policy pinned to the turn.  Message contents are reduced to the constants
`Invoking` and `FromOwner`; expiry of windows and snoozes may come at any time.

### AgentGraph

One action per node of `build_agent`, with the tools split by what they do to the
run: work that returns, reactions, a wait, an escalation, a call that cannot be
parsed.  The model may answer anything.  LangGraph writes a checkpoint while the
next node already runs, so a crash goes back to the state before the current
node or to the one before that (`Crash` chooses `g` or `saved`), while
`delivered`, `noticed`, `reacted` and `claimed`, which are outside of the
checkpoint, stay.  `seen` is the input in the state, `read` what the last call of the
model was given of it, and `overlooked` the words with which the owner answered a
malformed escalation, behind which the graph ends.  A delivery under the id of the message is accepted once,
which `OutboundLedger` shows.

### TriggerRules

Texts are sequences of graphemes after normalisation.  The matching of names is
translated step by step (a row of the edit distance is a recursive function of its
columns, the table one of its rows), with the one distance `validate_policy` accepts (0 or
1); what it is compared with is defined without an algorithm, as is the weekly
schedule.  A reaction stands for one with the emoji of the rule.

### StartupUpgrade

`executescript` commits statement by statement, so each statement of the
schema scripts 9, 11 and 12 is a step, as is every other write of a start.  One
chat, `Home`, is followed with its inputs, run and side effects.  At version 11
at most one side effect is recorded; where the run of Home is open, it is the only
thread.  Script 12 first makes the tables of the policies (`CreatePolicies`), which
hold none of this data, but a crash behind them cuts the script as any other does.
The other scripts only add or rebuild tables and are not modelled, nor is a crash
within one of them (10, say), which can stop later starts as well.  `torn` remembers that a crash cut a script, the seeding of a thread or
a roll of generations in two: the code does not repair these three, and the
properties name them as their exceptions.  An outbound action that is pending
counts like one that is dispatching.

## Runs

| Run | Checks | Instance and states |
|---|---|---|
| `journal` | `CursorSound`, `OneFreshTurn`, `ImplementsLedger` | 3 messages, 1 forced reply, 2 runs; 278,000 |
| `journal_coalesced` | expected violation of `CoalescedIsAnswered`, see Findings | as `journal` without the forced reply |
| `runtime` | `OneUncancelledTask`, `RepliedOnce`, `ClaimsAreAttended`, `PausedIsQuiet`, `AdmittedTurnIsTaken` | 1 message, 1 forced reply, 2 run ids, 1 request of the owner, 2 starts; 568,000 |
| `outbound` | `SentOncePerPermission`, `OneSenderUnlessOverruled`, `DispatchSettles` | 1 action, 3 coroutines, 2 retries, 3 starts; 174,000 |
| `drafts` | `DeliveredIsSucceeded`, `HeldUntilApproved`, `AuditedAsSent`, `UsesTheLedger`, `ApprovalSettles` | 1 draft, 2 texts, 3 retries, 2 approvals, 1 retry from the inspector, 2 starts; 160,000 |
| `jobs` | `NonRetryableRunsOnce`, `OneActivePerKey`, `JobsSettle` | 3 jobs (two with one key), 2 slots, 1 per type, 3 starts; 31,000 |
| `waits` | `OneActiveWait`, `ScheduledCanWake`, `ResumableIsSaved`, `ImplementsTimer`, `WaitsEnd` | 2 waits, 2 starts, 1 cancellation from outside; 256,000 |
| `escalations` | `ClosedIsAnswered`, `ImplementsQuestion`, `TurnsGoOn` | 2 overlapping requests, 2 starts; 584,000 |
| `engagement` | `FollowupsBounded`, `FollowupsOfThePolicy` | 4 messages (one invokes, one from the owner), 1 follow-up turn, 1 policy change, 1 request; 3,790,000 |
| `graph` | `AnswersBounded`, `SpokenIsRemembered`, `OwnerIsAnnounced`, `ContextWasSeen` | 2 events, 3 model and 3 tool calls, 16 supersteps, 1 wait, 1 crash; 1,280,000 |
| `triggers` | `NamesAreRecognised`, `ScheduleIsWeekly` | texts up to 5 graphemes over 8 lists of rules, schedules of 4-minute days; 519,000 |
| `upgrade` | `NothingIsLost`, `JournalIsSound`, `VisibleIsNotRepeated`, `CutoverIsComplete`, `ComesUp` | 3 chats (one without messages), 2 inputs, 2 side effects, 3 messages, 3 legacy rows, 1 crash; 767,000 |

What they show, in short.

* `journal`: however two overlapping runs of a chat claim, inject and end, the
  cursor never passes an open event, at most one turn that no run has touched
  waits, and events only move as the abstract ledger allows.
* `runtime`: a chat never has two tasks that nobody cancelled, a work gets one
  answer, claims are in somebody's hands (but those of a run that never had a row),
  a pause is followed by silence except for a run that a handoff keeps, and a turn
  that is due when admitted is taken, if a model stays ready in the end.  `RepliedOnce` excepts runs that were
  cancelled or that another task's callback released (`disturbed`): there a
  second answer is possible, as two bodies of work at once are.
* `outbound`, `drafts`, `jobs`: sends are paid for by permissions, nothing held
  leaves, the audit shows the text that was sent, keys and single runs are
  respected, and everything settles, with the exceptions the properties name.
* `waits`, `escalations`: the row, the work and the checkpoint stay consistent
  through crashes at any step, timers, input and cancellations.  The run goes past
  a wait only when its time has come and it is over, and a wait that was called
  off is never answered, as `FollowupTimer` says.  An escalation leaves the inbox
  once, by one verdict, after the suspended run went on to its end or its next
  pause, and while it is open no turn is taken, as `OwnerQuestion` says.  The turns
  behind it go on, unless the run paused again.
* `engagement`: concurrent handlers cannot take more follow-ups than were
  granted, nor use a window a run reopened under an older policy.
* `graph`: budgets hold over pauses and crashes, what was said in the chat is
  in the checkpoint, the owner's answer is never awaited unannounced, and what
  completed work makes context was given to a call of the model, but for the
  owner's words on a malformed escalation.
* `triggers`: exactly the texts that name the assistant, also with one misspelt
  letter, trigger; hours across midnight belong to the day they began on.
* `upgrade`: no row of an old installation is lost, the new journal is sound
  and what was visible is not answered again, wherever the start is killed.

Why the bounds are enough to be interesting.  Three events are the least with
which a trigger can be claimed, one coalesce behind it and one be injected; two
runs are the least that overlap, and a run id is used once as in the code.  In
`runtime`, a task whose id was not used for a claim gets it back, so two ids
suffice for an old run, its callback and a new task, and one forced reply beside
a message gives both kinds of work.  Actions never share a row, so one action with three
coroutines shows every contention: a first sender, a retry, and a third that
re-enters.  Two approvals allow an approval after a failed one, two starts a
recovery of each.  Two jobs with one key and one with another type show every
clash of keys and slots, three starts a job recovered twice.  Two waits are what
the tool allows.  Two requests are the least that overlap.  Four messages let one
open the window, two compete for its only turn and one hand over.  Two events let
one be claimed in a node that a crash undoes and one come after; 16 supersteps
are met by three rounds of tools in one invocation.  Texts of five graphemes hold
every alignment of names of up to three letters with their neighbours.  Two
inputs are the least that complete out of order.  One crash cuts a start at every
write; with `MaxCrashes = 2`, a second one inside the start that recovers, the same
properties hold over 5,385,000 states, which is too slow for a routine run.

Counters the code leaves unbounded are bounded by `MaxRetries`, `MaxStarts`,
`MaxApprovals`, `MaxAsked`, `MaxAsks`, `MaxRequests`, `MaxStops`, `MaxChanges` and
`MaxCrashes`; the theorems hold for any value of them.  `MaxWaits`, `MaxTurns`,
`ModelLimit`, `ToolLimit`, `RecursionLimit` and `WaitLimit` are limits of the code
with smaller values.  Symmetry is used in `journal` (messages and run ids) and
`engagement` (the two plain messages), which have no liveness properties.

Deadlock is not checked: each model really may stop, when every message was
delivered and every bound used up.

### Fairness

Liveness is stated only where the code schedules the step.  The event loop runs
a coroutine that can continue, and the Discord client, the provider and
`ainvoke` answer or raise, so steps of tasks, handlers and requests of the owner
that have begun are weakly fair.  Deliveries, cancellations, decisions of the owner
and crashes promise nothing.

* Ledger, drafts and jobs: a stopped process is started again (the service
  manager).  The worker's loop polls every two seconds; `Claim` is strongly fair,
  because a slot may be taken and freed by jobs of the same type in between, and the
  queue is ordered by request time, so a waiting job is passed over by later ones
  only while its type is full.  `DispatchSettles` and `ApprovalSettles` name
  what the code leaves behind: an action whose sender was cancelled in a living
  process, a draft whose approval raised.  `JobsSettle` excepts orphans: a job
  whose lease outlived a quick restart (`recover_expired` runs once, at start,
  and only for expired leases), and a job whose task was cancelled while it
  wrote its outcome.
* `RuntimeFairness`: `TaskStep` of each run, `HandlerStep` of each message,
  `OwnerStep`.  No restart is promised; `AdmittedTurnIsTaken` ends with the process.
  It assumes `<>[]ready`, as no run can begin without a model, and promises nothing
  for a turn that is `late`; `ModelChanges` and `ComesDue` are not fair.
* Waits: `TaskStep`, the callback (`Release \/ Mark`), `OwnerStep`, the notifier's
  `Poll` while it lives, and the clock (`Elapse`).  The notifier may die, which
  `WaitsEnd` names.
* Escalations: `FirstPass`, `Drive`, `Handle` of each request.
* Upgrade: `Step`, with finitely many crashes.

## Findings

`journal_coalesced` (conversation.py:515): `release` keeps
`captured_through_sequence`, `admit` still coalesces new triggers into the
released turn, and `claim_ready` reuses the old cutoff.  The trigger is recorded as
`coalesced_into` a turn that completes without it, and no work is left for it.
Reached by cancelling a run and resuming, or by a restart, followed by a message.

Seen while modelling, reachable in the models and excepted by name in their
properties or outside of them; nothing in the repository states the opposite in so
many words, except where noted:

* Claims of a run whose row was not yet written when the process died, or when
  build_model raised (runtime.py:1643), are found by no later start
  (runtime.py:824); the cursor stays in front of them.
* A handoff under (pause, keep_or_inject), which `validate_policy` accepts, pauses
  the chat and leaves an unforced run at work in it (runtime.py:263).
* While no model is ready, a chat with a due turn goes round: the task ends at
  once (runtime.py:1560) and its callback starts the next (runtime.py:1557).
* A pause looks for waits before it stops the task (runtime.py:164), so a wait
  armed in between stays active in a paused chat; `cancel_followup` may stop
  an older task than the one that resumes its wait, which then makes one
  more model call (runtime.py:187).
* Two answers to one escalation both resume the run (runtime.py:1239); the first
  verdict stands.  Closing an escalation starts the turn that waits, whatever
  the inbox says (localization.json:320).
* An escalation closes also when its resumed run is interrupted again, and then
  no task is started (runtime.py:1410-1415).  A wait armed in that run is never
  scheduled, so `_drive` returns on it (runtime.py:1455-1463) and the turn behind it
  waits for a start.  A second, overlapping answer that loads the run in this pause
  resumes the later tool with the answer meant for the first, and the row of that
  wait or escalation stays open.
* The words with which the owner answers a malformed escalation become context
  without a call of the model: the node behind them goes to the end
  (runtime.py:1374-1382, agent.py:373).
* A message decided before a snooze by a handoff and admitted after it is answered
  during the snooze (runtime.py:410).  A run of an older policy opens its window
  again after the policy changed (runtime.py:1772); it admits nobody.
* A forced reply that goes through a wait or an escalation is resumed unforced
  (runtime.py:1873) and may end without text.
* Input claimed in a node that a crash undid becomes context without having been
  seen by the model, if the run had shown something (runtime.py:842).
* A draft whose edited text failed after the earlier action succeeded is shown as
  delivered with the text that was not sent; the audit keeps the right one.
* A schema script or the seeding of a thread cut in two by a crash (`torn`).
* `available_at` is Discord's timestamp, compared with the host's clock
  (conversation.py:301): with the host behind, a message is not due when its
  task looks, and nothing wakes the chat later (`late`).

Read but not in any model: the probe flag at admin_job_handlers.py:70, which a second
probe may find stale; the read-modify-write of the prompt cache identity in
`arefresh_prompt_cache_identity`; the dashboard's check of a transition before it
applies it (web.py:2236); the settings cache (store.py:651); a token refresh in
flight during a new sign-in (oauth.py:134).

## Proofs

Eight modules prove, for any events, runs, coroutines, texts, jobs, requests,
messages, chats, installations and bounds, under the named assumptions of the
modules (disjoint id sets, finite sets of coroutines, jobs and inputs, positive
bounds, SQL NULL is none of the values):

* Journal: `IInv` is the conjunction of the types, `CursorSound`, `OneFreshTurn`,
  `ClaimCoversTrigger` and `ClaimsOwned`.  `CursorSound` alone is not inductive:
  that the recomputed cursor is sound needs the types of rows, and `OneFreshTurn`
  needs `ClaimCoversTrigger` to know that a row with a cutoff was claimed.  The
  action properties (`CursorNeverRetreats`, `AppliedIsFinal`) follow, and
  `JournalImplementsLedger` shows each action to be a step of `ContextLedger` or
  a stutter.
* Runtime: `RInv` holds `IInv` and what ties rows, tasks and callbacks together.
  `JournalSteps` shows that a step of the runtime is a step of the journal or a
  start.  A start settles every abandoned run at once, which no journal action
  does, so `LetGoStep` is proved for any set of rows that leave their runs'
  hands, and serves one run and several alike; with it the journal's theorems hold
  under the runtime (`RuntimeKeepsTheJournal`, `RuntimeKeepsContext`,
  `RuntimeImplementsLedger`).  `OneUncancelledTask` needs the slot to hold the
  task (`SlotHoldsTheTask`), and that nothing runs in a process that is down;
  `ClaimsAreAttended` that tasks, rows and callbacks which are through with a run
  left it nothing (`SettledHoldNothing`), that they only name runs that claimed
  (`StartedTasks`, `StartedRows`), and that a run whose model cannot be built has no
  row yet (`JustClaimedHasNoRow`); `PausedIsQuiet` that the task which passed its
  check before the pause is the one in the slot, which the pause cancels or keeps; `RepliedOnce` that an undisturbed run at work
  still holds what it claimed (`HoldersHold`, with `CancelledAreDisturbed`), and
  that a work with a visible answer is in the hand of its run or closed for good
  (`AnswersStand`).
* Ledger: a bound on `sent` is not inductive.  The proof counts what may still
  be sent: `sent + senders under way + (1 if the row can still be claimed) <=
  1 + retried` (`SendsArePaid`).  It also needs that whoever talks to Discord
  holds the row unless overruled (`SendersHoldTheRow`), that leases are never from
  the future (`NoFutureLease`) and that a coroutine claiming acceptance was
  accepted (`AcceptedWasSent`).
* Drafts: every step is shown to be a step of the ledger or to leave it alone
  (`ApprovalsUseTheLedger`), so the ledger's theorems carry over
  (`DraftSendsAreBounded`); `DInv` adds that a request at work holds its draft and
  that what it carries of an action is true.  `AuditsAreTrue` relates the audit to
  the texts of the coroutines under way and to the payload of the row.
* Jobs: `JInv` adds to the invariants that a job which must not run twice has
  spent no attempt while it waits.
* Waits: one active wait is not inductive.  `AtCheckpoint` says that every wait
  behind the checkpoint is over and none ahead of it is armed, so the only wait
  that can be active is the next of the graph; `TaskAtCheckpoint` ties the task and
  what it resumes to it, `Wakes` each wait to its wake work.  For the refinement
  (`WaitsImplementTimer`) `TimeCame` adds that a wait which was resumed or
  completed, and the one the task resumes, is past its time.
* Escalations: `Witnessed`, that the checkpoint of the run, and any copy a request
  works on, is at its end or paused again only after the graph went on, and that a
  request closes the escalation only then.  For the refinement (`EscalationImplementsQuestion`)
  `Recorded` adds that no checkpoint is past the tool before the escalation is in
  the inbox.
* Window: `Budget`, `granted + turns left in the window <= MaxTurns`; `Answered`,
  that the policy of the window, and of every handler that decided by a window,
  is among those answered; `Staged`, that nothing is scheduled before the
  availability was read.
* Schedule: `FoundAreBegun` shows that looking at the day and at the day before
  finds exactly the hours begun on the schedule's days, by division with
  remainder (`OneDay`, `MinuteOfHour`), for days of any length.
* Names: `NamesAreFound`, that `evaluate_trigger` recognises exactly the texts that
  name the assistant, for texts and names of any length.  The rows of
  `_bounded_damerau_levenshtein` are recursive functions; that the recursions have
  solutions (`RowUnfolds`, `RowsUnfold`) and what they compute
  (`RowsCountTypos`: a cell is 0 exactly for equal beginnings, at most 1 exactly
  for beginnings one typo apart) is proved by induction over sets of naturals
  (`AllReached`, from the least element `LeastOf`), as the library's induction
  theorems cannot be instantiated here.  The step is `WaysAreNear` and
  `NearIsWays`: how a typo in longer beginnings comes from the four neighbours of a
  cell.  `EveryRowIsNear` says that the early end gives up no typo,
  `CandidatesAreBeginnings` that the lengths looked at miss none, and
  `BestAreLongest` what the choice among several names comes to.  It assumes the
  types of a saved policy (`PolicyAssumption`).
* Graph: the counters of state and checkpoint bound what was said (`Sane`),
  claimed input is in the state or the node that adds it comes next (`Reads`), both
  for the state and for the checkpoint a crash falls back to, and the state is
  never behind the checkpoint (`Forward`).  For `ContextWasSeen`, `Reads` adds
  that between an answer of the model and the next input (`UpToDate`) the state holds
  nothing that the call of this answer was not given, but for overlooked words, and
  that what is context already was given to a call that both state and checkpoint
  know.
* Upgrade: `UpgradeInv` says for each point of a start what the earlier ones have
  done: which scripts are recorded and which tables exist (`Versions`, `Tabled`),
  that copied rows are what the scripts make of the rows found (`Copied`),
  what became of claimed inputs (`InputsResolved`), and where legacy rows are
  (`RecordsKept`).  The cutover of an installation with the graph and the migration
  of one without it share the steps that seed threads, so their progress is
  followed apart (`CuttingOver`, `FirstChats`); even the types need to know
  which one is under way, as one loops over threads and the other over chats.  That the
  cursor of script 12 is sound rests on `MaxIsGreatest`, which holds because the
  inputs are finite.  The proof corrected a property: `CutoverIsComplete`
  used to promise a seeded thread to every chat, which is false for a chat without
  messages (migration.py:83) and had not been noticed, as no chat of the run was
  without; the run now has one.

Proved but not in a run, as the runs check what is harder to see: the type
invariants, `CursorNeverRetreats`, `AppliedIsFinal`, `ClaimsOwned`,
`ClaimCoversTrigger`, `LeaseIsOurs`, `SuccessIsFinal`, `SuccessWitnessed`,
`OneApprover`, `TaskHoldsLease`, `RunningIsWorkedOn`, `ClosedIsFinal`; and
`ClosedWaitsStay` and `VerdictStands`, which the refinements of the runs contain.

Only model-checked: what is temporal under fairness (`AdmittedTurnIsTaken`,
`DispatchSettles`, `ApprovalSettles`, `JobsSettle`, `WaitsEnd`, `TurnsGoOn`,
`ComesUp`), since the prover handles neither liveness from fairness nor ENABLED.
Every invariant and every other property of the passing runs is a theorem.

## Not modelled

* Discord client and captcha broker, OAuth account: the next in the plan.  Own
  messages are recognised by a nonce that is stored before the send and by the id
  after it.  An own reaction is recognised by a row that a failed call removes, also
  when Discord had accepted it; its echo then counts as the owner's.  A refresh of
  the account holds a lock against other refreshes, but not against a sign-in or a
  disconnect: a late answer stores its tokens over either, and a late refusal
  clears the tokens of a newer sign-in.
* Attachments: files named by their hash and rows that are only added.
* Settings, memory and traces: single statements, without control of their own.
* Dashboard: routes, queries and rendering.  The handlers that change modelled
  state are actions of the modules above.
* HTTP client, provider adapters, localization, configuration and redaction: no
  shared state whose order matters.
* What the language model answers, Discord itself and SQLite's durability are
  outside of the program.  Failures of SQLite statements are not modelled: they
  raise out of every operation with the transaction rolled back, which is the crash
  of the handler at that point.
* In modelled components: drafts and actions of several segments, thread
  generations outside of the upgrade, `replay_checkpoint`, retention, the heartbeat
  of jobs; and waits or escalations inside of `AgentRuntime`.

## Plan

Done: journal, ledger, drafts, jobs, runtime, waits, escalations, window, graph,
triggers, upgrade; proofs of all of them.  Next, in this order:

1. `AgentRuntime` composed with one wait or one escalation, to follow
   `_drive`'s order of a due wait, an open escalation and a waiting turn.
2. `OAuthGrant` (refresh against sign-in, single use of the state parameter) and
   `DiscordEcho` (own messages and reactions against the gateway).
