------------------------- MODULE ConversationJournal -------------------------
(***************************************************************************)
(* The journal of one Discord chat (class ConversationJournal): the        *)
(* canonical events of the chat, the durable work queue of its turns, and  *)
(* the cursor of the context already given to the model.  Every statement  *)
(* of the class filters on one channel, so one channel is the whole state. *)
(*                                                                         *)
(* Each method is one SQLite transaction and transactions never overlap,   *)
(* so each method is one action.  The callers are left free: any run that  *)
(* was started may finish, fail, be released or inject at any moment, and  *)
(* two runs may hold claims at once.  That happens in the program while a  *)
(* cancelled task is still unwinding.                                      *)
(*                                                                         *)
(* available_at compares Discord's clock with the host's, so which pending *)
(* work is due, and in which order, is a free choice.                      *)
(***************************************************************************)
EXTENDS Integers, Sequences, FiniteSetsExt

CONSTANTS
  EventIds,        \* ids of events Discord can deliver
  Forces,          \* ids of dashboard force-reply work
  Runs,            \* run ids, each a fresh uuid used for one claim_ready
  RoleOf,          \* participant role of each event, "delete" for a deletion
  None             \* SQL NULL

Participants == {"owner", "peer"}
WorkIds == EventIds \cup Forces   \* work:<event_id> and force:<uuid>

ASSUME JournalAssumption ==
  /\ EventIds \cap Forces = {}
  /\ None \notin Runs \cup WorkIds \cup Nat
  /\ RoleOf \in [EventIds -> Participants \cup {"delete"}]

VARIABLES
  events,      \* conversation_events, position = sequence
  work,        \* agent_work of kind turn (one per event) and force
  started,     \* runs that called claim_ready successfully
  cursor       \* chat_threads.applied_event_sequence

vars == <<events, work, started, cursor>>

Event == [id : EventIds,
          context : {"unapplied", "claimed", "applied"},
          run : Runs \cup {None},
          into : WorkIds \cup {None}]   \* decision.coalesced_into

WorkRow == [state : {"absent", "pending", "claimed", "completed", "cancelled", "failed"},
            run : Runs \cup {None},
            cutoff : Nat \cup {None}]   \* captured_through_sequence

Closed == {"completed", "cancelled", "failed"}

-----------------------------------------------------------------------------
(* Rows the statements select.                                             *)

Seqs == 1..Len(events)
Known(e) == \E i \in Seqs : events[i].id = e
HeldBy(r) == {i \in Seqs : events[i].context = "claimed" /\ events[i].run = r}
PendingTurns == {i \in Seqs : work[events[i].id].state = "pending"}
OldestPendingTurn == events[Min(PendingTurns)].id
Unclaimed == {i \in Seqs : events[i].context = "unapplied"}

ClaimedWork(r) == {w \in WorkIds : work[w].state = "claimed" /\ work[w].run = r}

(* The rows of a run go back to the queue of context.                      *)
ReturnedWhateverTheirState(r) ==
  [i \in Seqs |-> IF events[i].run = r
                  THEN [events[i] EXCEPT !.context = "unapplied", !.run = None]
                  ELSE events[i]]
Returned(r) ==
  [i \in Seqs |-> IF i \in HeldBy(r)
                  THEN [events[i] EXCEPT !.context = "unapplied", !.run = None]
                  ELSE events[i]]

(* The rows of a run become context.                                       *)
Applied(r) ==
  [i \in Seqs |-> IF i \in HeldBy(r) THEN [events[i] EXCEPT !.context = "applied"]
                  ELSE events[i]]

WorkClosed(r, state) ==
  [w \in WorkIds |-> IF w \in ClaimedWork(r) THEN [work[w] EXCEPT !.state = state]
                     ELSE work[w]]

(* The work of a run waits again; its cutoff is kept.                      *)
WorkRequeuedUnderItsRun(r) == WorkClosed(r, "pending")
WorkRequeued(r) ==
  [w \in WorkIds |-> IF w \in ClaimedWork(r)
                     THEN [work[w] EXCEPT !.state = "pending", !.run = None]
                     ELSE work[w]]

(* _advance_cursor: the cursor stops before the first row not applied.     *)
CursorPastClaims(rows) ==
  LET open == {i \in DOMAIN rows : rows[i].context = "unapplied"}
  IN  IF open = {} THEN Len(rows) ELSE Min(open) - 1
CursorWithoutCoalesce(rows) ==
  LET open == {i \in DOMAIN rows : rows[i].context # "applied"}
  IN  IF open = {} THEN 0 ELSE Min(open) - 1
AdvancedCursor(rows) ==
  LET open == {i \in DOMAIN rows : rows[i].context # "applied"}
  IN  IF open = {} THEN Len(rows) ELSE Min(open) - 1

-----------------------------------------------------------------------------
Init ==
  /\ events = <<>>
  /\ work = [w \in WorkIds |-> [state |-> "absent", run |-> None, cutoff |-> None]]
  /\ started = {}
  /\ cursor = 0

Row(e, context, into) == [id |-> e, context |-> context, run |-> None, into |-> into]

(* admit of an event that starts no turn: the trigger did not match, the   *)
(* chat is not available, a turn is active, or its engagement window       *)
(* closed before the admission.  A second delivery of a known id changes   *)
(* nothing.                                                                *)
AdmitContext(e) ==
  /\ ~Known(e)
  /\ events' = Append(events, Row(e, "unapplied", None))
  /\ UNCHANGED <<work, started, cursor>>

(* admit(applied=True): history the legacy importer has put in the thread. *)
(* It runs once, at a start, before the gateway is connected.              *)
AdmitApplied(e) ==
  /\ ~Known(e)
  /\ started = {} /\ \A w \in WorkIds : work[w].state = "absent"
  /\ \A i \in Seqs : events[i].context = "applied"
  /\ events' = Append(events, Row(e, "applied", None))
  /\ cursor' = AdvancedCursor(events')
  /\ UNCHANGED <<work, started>>

(* admit of a trigger while a turn waits: it coalesces into that turn.     *)
AdmitCoalesced(e) ==
  /\ ~Known(e)
  /\ PendingTurns # {}
  /\ events' = Append(events, Row(e, "unapplied", OldestPendingTurn))
  /\ UNCHANGED <<work, started, cursor>>

(* admit of a trigger that opens a turn; inside an engagement window it    *)
(* takes one of the window's turns.                                        *)
NewTurn(e) == [work EXCEPT ![e] = [state |-> "pending", run |-> None, cutoff |-> None]]
AdmitTurnUncoalesced(e) ==
  /\ ~Known(e)
  /\ events' = Append(events, Row(e, "unapplied", None))
  /\ work' = NewTurn(e)
  /\ UNCHANGED <<started, cursor>>
AdmitTurn(e) ==
  /\ ~Known(e)
  /\ PendingTurns = {}
  /\ events' = Append(events, Row(e, "unapplied", None))
  /\ work' = NewTurn(e)
  /\ UNCHANGED <<started, cursor>>

(* The owner forces a reply from the dashboard.                            *)
ScheduleForce(f) ==
  /\ work[f].state = "absent"
  /\ work' = NewTurn(f)
  /\ UNCHANGED <<events, started, cursor>>

(* claim_ready: one pending work is claimed with every unapplied event up  *)
(* to its cutoff, and the other pending turns it covers are closed.  The   *)
(* cutoff of an earlier claim is kept.                                     *)
CutoffExclusive(w) == IF work[w].cutoff = None THEN Len(events) - 1 ELSE work[w].cutoff
CutoffOf(w) == IF work[w].cutoff = None THEN Len(events) ELSE work[w].cutoff
MergedInto(w) ==
  {events[i].id : i \in {j \in PendingTurns : j <= CutoffOf(w) /\ events[j].id # w}}

StolenUpTo(n, r) ==
  [i \in Seqs |-> IF i <= n /\ events[i].context # "applied"
                  THEN [events[i] EXCEPT !.context = "claimed", !.run = r]
                  ELSE events[i]]
ClaimedUpTo(n, r) ==
  [i \in Seqs |-> IF i <= n /\ i \in Unclaimed
                  THEN [events[i] EXCEPT !.context = "claimed", !.run = r]
                  ELSE events[i]]

ClaimReady(r, w) ==
  /\ r \notin started
  /\ work[w].state = "pending"
  /\ started' = started \cup {r}
  /\ work' = [v \in WorkIds |->
                IF v = w THEN [state |-> "claimed", run |-> r, cutoff |-> CutoffOf(w)]
                ELSE IF v \in MergedInto(w) THEN [work[v] EXCEPT !.state = "cancelled"]
                ELSE work[v]]
  /\ events' = [i \in Seqs |->
                  IF events[i].id \in MergedInto(w)
                  THEN [ClaimedUpTo(CutoffOf(w), r)[i] EXCEPT !.into = w]
                  ELSE ClaimedUpTo(CutoffOf(w), r)[i]]
  /\ UNCHANGED cursor

(* claim_injection: at a safe point a run takes everything unapplied, if   *)
(* at least one deletion or one event of an active participant is there.   *)
ClaimInjection(r, participants) ==
  /\ r \in started
  /\ \E i \in Unclaimed : RoleOf[events[i].id] \in participants \cup {"delete"}
  /\ events' = ClaimedUpTo(Len(events), r)
  /\ UNCHANGED <<work, started, cursor>>

Complete(r) ==
  /\ r \in started
  /\ events' = Applied(r)
  /\ work' = WorkClosed(r, "completed")
  /\ cursor' = AdvancedCursor(events')
  /\ UNCHANGED <<started>>

Fail(r) ==
  /\ r \in started
  /\ events' = Returned(r)
  /\ work' = WorkClosed(r, "failed")
  /\ UNCHANGED <<started, cursor>>

Release(r) ==
  /\ r \in started
  /\ events' = Returned(r)
  /\ work' = WorkRequeued(r)
  /\ UNCHANGED <<started, cursor>>

CancelClaimed(r) ==
  /\ r \in started
  /\ events' = Returned(r)
  /\ work' = WorkClosed(r, "cancelled")
  /\ UNCHANGED <<started, cursor>>

CancelPendingTurns ==
  /\ PendingTurns # {}
  /\ work' = [w \in WorkIds |-> IF w \in EventIds /\ work[w].state = "pending"
                                THEN [work[w] EXCEPT !.state = "cancelled"] ELSE work[w]]
  /\ UNCHANGED <<events, started, cursor>>

(* _reconcile_abandoned_agent_runs, for a run whose deliveries show an     *)
(* effect: its events become context without a new cursor.  A run without  *)
(* a visible effect is released, as Release does.                          *)
ReconcileDelivered(r, state) ==
  /\ ClaimedWork(r) # {}
  /\ events' = Applied(r)
  /\ work' = WorkClosed(r, state)
  /\ UNCHANGED <<started, cursor>>

Next ==
  \/ \E e \in EventIds :
       AdmitContext(e) \/ AdmitApplied(e) \/ AdmitCoalesced(e) \/ AdmitTurn(e)
  \/ \E f \in Forces : ScheduleForce(f)
  \/ \E r \in Runs, w \in WorkIds : ClaimReady(r, w)
  \/ \E r \in Runs, p \in SUBSET Participants : ClaimInjection(r, p)
  \/ \E r \in Runs : Complete(r) \/ Fail(r) \/ Release(r) \/ CancelClaimed(r)
  \/ \E r \in Runs, s \in {"completed", "failed"} : ReconcileDelivered(r, s)
  \/ CancelPendingTurns

Spec == Init /\ [][Next]_vars

-----------------------------------------------------------------------------
(* Types; a turn exists only for an admitted event (source_event_id is a   *)
(* foreign key of agent_work).                                             *)
TypeOK ==
  /\ events \in Seq(Event)
  /\ work \in [WorkIds -> WorkRow]
  /\ started \subseteq Runs
  /\ cursor \in Nat
  /\ \A e \in EventIds : work[e].state # "absent" \/ work[e].cutoff # None => Known(e)

(* Everything the cursor has passed is in the model's context: whichever   *)
(* runs complete, fail or are released around _advance_cursor, no claimed  *)
(* or unapplied event is ever behind it.                                   *)
CursorSound ==
  /\ cursor <= Len(events)
  /\ \A i \in 1..cursor : events[i].context = "applied"

(* At most one turn waits that was never claimed: every later trigger of   *)
(* the chat coalesces into it (admit) or is covered by a claim.  Turns put *)
(* back by release still carry their cutoff.                               *)
OneFreshTurn ==
  \A i, j \in PendingTurns :
    work[events[i].id].cutoff = None /\ work[events[j].id].cutoff = None => i = j

(* A turn that was ever claimed captured its own trigger: its cutoff       *)
(* reaches the event that opened it and never exceeds the journal.         *)
ClaimCoversTrigger ==
  \A i \in Seqs : LET w == work[events[i].id]
                  IN  w.cutoff # None => i <= w.cutoff /\ w.cutoff <= Len(events)

(* A row names a run exactly while that run answers for it: no event or    *)
(* work waits under a run id, and whoever holds one really claimed; work   *)
(* in the hands of a run has its cutoff.                                   *)
ClaimsOwned ==
  /\ \A i \in Seqs : events[i].context = "unapplied" => events[i].run = None
  /\ \A i \in Seqs : events[i].context = "claimed" => events[i].run \in started
  /\ \A w \in WorkIds : work[w].state = "pending" => work[w].run = None
  /\ \A w \in WorkIds : work[w].state = "claimed" =>
                        work[w].run \in started /\ work[w].cutoff # None

(* The cursor never goes back, through rolls, retries and reconciliation.  *)
CursorNeverRetreats == [][cursor <= cursor']_vars

(* An event given to the model is never queued again, and a closed work    *)
(* is never reopened: a late release, fail or cancel_claimed of a run that *)
(* already completed must not touch its rows.                              *)
AppliedIsFinal ==
  [][/\ \A i \in Seqs : events[i].context = "applied" => events'[i].context = "applied"
     /\ \A w \in WorkIds : work[w].state \in Closed => work'[w] = work[w]]_vars

(* The journal implements the ledger of context: each event is held by at  *)
(* most one run at a time, only events a run holds become context, and     *)
(* nothing that became context leaves it.                                  *)
LedgerStage == [i \in Seqs |-> events[i].context]
LedgerHolder == [i \in Seqs |-> IF events[i].context = "claimed" THEN events[i].run ELSE None]
Ledger == INSTANCE ContextLedger
            WITH stage <- LedgerStage, holder <- LedgerHolder, frontier <- cursor,
                 Holders <- Runs, NoHolder <- None
ImplementsLedger == Ledger!Spec

(* What admit records of a coalesced trigger (reason "coalesced",          *)
(* coalesced_into): the turn it names answers it.  Once that turn is       *)
(* completed the event must be part of the context or held by a run.       *)
CoalescedIsAnswered ==
  \A i \in Seqs : LET w == events[i].into
                  IN  w # None /\ work[w].state = "completed"
                      => events[i].context # "unapplied"
=============================================================================
