---------------------------- MODULE StartupUpgrade ----------------------------
(***************************************************************************)
(* What a start of the process carries over from the installation it finds *)
(* (startup in main.py): the schema scripts, the split of the settings and *)
(* the model selection, the cutover of the graph's generations, and the    *)
(* one-time transformation of a database from before the graph             *)
(* (LegacyMigrator).  The process may be killed between any two writes and *)
(* starts over.                                                            *)
(*                                                                         *)
(* An executescript commits what is open and then commits statement by     *)
(* statement; every other write is a transaction.  The scripts 9, 11 and   *)
(* 12 move data and are modelled.  The others only add or rebuild tables:  *)
(* a crash within one of them, which can stop later starts as one within 9 *)
(* or 12 does, is left out.                                                *)
(* Home is the chat whose inputs, run and deliveries are followed.         *)
(***************************************************************************)
EXTENDS Integers, FiniteSets, FiniteSetsExt

CONSTANTS
  Chats, Home,
  Entries,         \* sequence numbers of the inputs of Home
  Deliveries,      \* side effects of its run
  Messages, ChatOf,\* messages from before the graph
  Records,         \* rows of the legacy tables
  Open,            \* those that are escalations which wait for the owner
  MaxCrashes,
  None

ASSUME UpgradeAssumption ==
  /\ Home \in Chats /\ Entries \subseteq Nat \ {0} /\ IsFiniteSet(Entries)
  /\ ChatOf \in [Messages -> Chats] /\ Open \subseteq Records
  /\ MaxCrashes \in Nat /\ None \notin Nat

VARIABLES
  db,       \* the database
  was,      \* history: the database before the first start
  pc,       \* the next step of the start
  todo,     \* the threads or chats a loop has yet to do
  chat,     \* the thread it is at
  crashes,
  torn      \* history: the writings that a crash has cut in two

vars == <<db, was, pc, todo, chat, crashes, torn>>

(* Rows of the tables that hold the inputs: of chat_event_queue, of        *)
(* conversation_mailbox, of conversation_events with agent_work; and those *)
(* that hold side effects.  A claimed input names its run.                 *)
Dispositions == {"none", "pending", "claimed", "completed"}
States == {"pending", "claimed", "completed", "cancelled", "failed"}
Results == {"claimed", "accepted", "partly", "rejected"}
Dispatches == {"dispatching", "succeeded", "failed", "ambiguous"}
Named(state, run) == /\ state \in {"claimed", "failed"} => run
                     /\ state \in {"none", "pending", "cancelled"} => ~run
Queued == {r \in [state : Dispositions, run : BOOLEAN] : Named(r.state, r.run)}
Mails == {r \in [kind : {"message", "force"}, state : States, run : BOOLEAN] :
            Named(r.state, r.run) /\ (r.kind = "force" /\ r.state = "completed" => r.run)}
Actions == {r \in [state : Dispatches, accepted : BOOLEAN] :
              /\ r.state = "succeeded" => r.accepted
              /\ r.state \in {"dispatching", "ambiguous"} => ~r.accepted}

(* None stands for no row: it is none of the rows.                         *)
ASSUME NoneAssumption ==
  /\ None \notin Queued \cup Mails \cup Actions \cup Results \cup [state : States, run : BOOLEAN]
  /\ None \notin {"unapplied", "claimed", "applied"}

NoInputs == [e \in Entries |-> None]
NoEffects == [x \in Deliveries |-> None]

(* Before the graph: messages, legacy tables and the mixed settings.       *)
First ==
  [version |-> 8, tables |-> {"queue"}, queue |-> NoInputs, deliveries |-> NoEffects,
   mailbox |-> NoInputs, outbound |-> NoEffects, events |-> NoInputs, work |-> NoInputs,
   cursor |-> 0, run |-> "completed", asked |-> "none",
   settings |-> "mixed", selection |-> FALSE, configured |-> FALSE,
   generation |-> [c \in Chats |-> 0], begun |-> {}, seeded |-> {},
   processed |-> {}, cut |-> FALSE,
   records |-> Records, journal |-> {}, interrupts |-> {}, archive |-> {},
   backup |-> FALSE, key |-> FALSE]
(* The graph's first public output: threads with checkpoints, a run that   *)
(* is interrupted while the owner is asked, and the queue of version 8 or  *)
(* the mailbox of version 11, there with at most one side effect.  Where   *)
(* the run has ended its side effects are not followed, but two threads.   *)
Installed(run, chats) ==
  [First EXCEPT !.settings = "split", !.configured = TRUE, !.key = TRUE, !.records = {},
     !.generation = [c \in Chats |-> IF c \in chats THEN 1 ELSE 0],
     !.begun = chats \X {1}, !.seeded = chats \X {1},
     !.run = run, !.asked = IF run = "interrupted" THEN "graph" ELSE "none"]
Version8(base, q, s) == [base EXCEPT !.queue = q, !.deliveries = s]
Version11(base, m, s) ==
  [base EXCEPT !.version = 11, !.tables = {"mailbox", "outbound"}, !.mailbox = m, !.outbound = s]
Unclaimed(rows) == \A e \in Entries : rows[e].state # "claimed"
AtMostOne == {s \in [Deliveries -> Actions \cup {None}] : Cardinality({x \in Deliveries : s[x] # None}) <= 1}
Later(d) ==
  \/ \E run \in {"running", "interrupted"} :
       \/ \E q \in [Entries -> Queued], s \in [Deliveries -> Results \cup {None}] :
            d = Version8(Installed(run, {Home}), q, s)
       \/ \E m \in [Entries -> Mails], s \in AtMostOne : d = Version11(Installed(run, {Home}), m, s)
  \/ \E q \in [Entries -> Queued] : Unclaimed(q) /\ d = Version8(Installed("completed", Chats), q, NoEffects)
  \/ \E m \in [Entries -> Mails] : Unclaimed(m) /\ d = Version11(Installed("completed", Chats), m, NoEffects)

Init ==
  /\ db = First \/ Later(db)
  /\ was = db /\ pc = "down" /\ todo = {} /\ chat = None /\ crashes = 0 /\ torn = {}

(* A write of the start, and the step that follows it.                     *)
Write(from, to, d) == pc = from /\ pc' = to /\ db' = d /\ UNCHANGED <<was, todo, chat, crashes, torn>>
Loop(from, to, d) == pc = from /\ pc' = to /\ db' = d /\ UNCHANGED <<was, crashes, torn>>

-----------------------------------------------------------------------------
(* initialize_target_schema: the scripts above the recorded version.  A    *)
(* script that meets a table of its own ends the start.                    *)
Script == IF db.version < 9 THEN "mailbox" ELSE IF db.version < 11 THEN "drop"
          ELSE IF db.version < 12 THEN "policies" ELSE "settings"
Start == Write("down", Script, db)

Create(table, to, d) ==
  IF table \in db.tables THEN Write(table, "failed", db)
  ELSE Write(table, to, [d EXCEPT !.tables = @ \cup {table}])
Record(from, version, to) == Write(from, to, [db EXCEPT !.version = version])

(* Script 9: queue and deliveries become mailbox and outbound actions.     *)
MailOf(q) == [kind |-> "message", run |-> q.run,
              state |-> IF q.state \in {"pending", "claimed"} THEN q.state ELSE "completed"]
ActionAsFailed(result) ==
  [state |-> IF result = "accepted" THEN "succeeded" ELSE "failed", accepted |-> result \in {"accepted", "partly"}]
ActionOf(result) ==
  [state |-> CASE result = "claimed" -> "ambiguous"
               [] result \in {"partly", "rejected"} -> "failed"
               [] OTHER -> "succeeded",
   accepted |-> result \in {"accepted", "partly"}]
CreateMailbox == Create("mailbox", "mails", db)
FillMailbox ==
  Write("mails", "outbound",
        [db EXCEPT !.mailbox = [e \in Entries |-> IF db.queue[e] = None THEN None ELSE MailOf(db.queue[e])]])
CreateOutbound == Create("outbound", "actions", db)
FillOutbound ==
  Write("actions", "nine",
        [db EXCEPT !.outbound = [x \in Deliveries |-> IF db.deliveries[x] = None THEN None
                                                      ELSE ActionOf(db.deliveries[x])]])
RecordNine == Record("nine", 9, "drop")

(* Script 11 drops what script 9 has copied.                               *)
DropQueue ==
  Write("drop", "eleven", [db EXCEPT !.tables = @ \ {"queue"}, !.queue = NoInputs, !.deliveries = NoEffects])
RecordEleven == Record("eleven", 11, "policies")

(* Script 12: after the tables of the policies, the mailbox becomes events,*)
(* for the context, and work.                                              *)
ContextOf(m) == IF m.kind # "message" THEN None
                ELSE IF m.state = "claimed" THEN "claimed"
                ELSE IF m.state = "completed" /\ m.run THEN "applied" ELSE "unapplied"
WorkOfPending(m) == IF m.kind = "force" \/ m.state \in {"pending", "failed", "cancelled"}
                    THEN [state |-> m.state, run |-> m.run] ELSE None
WorkOf(m) == IF m.kind = "force" \/ m.state # "completed"
             THEN [state |-> m.state, run |-> m.run] ELSE None
LastApplied == Max({0} \cup {e \in Entries : db.events[e] = "applied"})
Cursor == Max({0} \cup {e \in Entries :
             /\ db.events[e] = "applied"
             /\ \A f \in Entries : f <= e => db.events[f] \in {None, "applied"}})
CreatePolicies == Create("policies", "events", db)
CreateEvents == Create("events", "copy", db)
FillEvents ==
  Write("copy", "work",
        [db EXCEPT !.events = [e \in Entries |-> IF db.mailbox[e] = None THEN None ELSE ContextOf(db.mailbox[e])]])
CreateWork == Create("work", "works", db)
FillWork ==
  Write("works", "cursor",
        [db EXCEPT !.work = [e \in Entries |-> IF db.mailbox[e] = None THEN None ELSE WorkOf(db.mailbox[e])]])
SetCursor == Write("cursor", "empty", [db EXCEPT !.cursor = Cursor])
DropMailbox == Write("empty", "twelve", [db EXCEPT !.tables = @ \ {"mailbox"}, !.mailbox = NoInputs])
RecordTwelve == Record("twelve", 12, "settings")

Schema ==
  \/ CreateMailbox \/ FillMailbox \/ CreateOutbound \/ FillOutbound \/ RecordNine
  \/ DropQueue \/ RecordEleven
  \/ CreatePolicies \/ CreateEvents \/ FillEvents \/ CreateWork \/ FillWork \/ SetCursor
  \/ DropMailbox \/ RecordTwelve

-----------------------------------------------------------------------------
(* _migrate_app_settings, then migrate_legacy_selection in two writes.     *)
SplitSettings ==
  Write("settings", "selection",
        IF db.settings = "split" THEN db ELSE [db EXCEPT !.settings = "split", !.selection = TRUE])
(* Without an account or a custom provider the selection stays for later.  *)
SkipSelection == Write("selection", "dispatches", db)
SaveSelection == ~db.configured /\ Write("selection", "forget", [db EXCEPT !.configured = TRUE])
ForgetSelection == Write("forget", "dispatches", [db EXCEPT !.selection = FALSE])

(* OutboundPublisher.reconcile_abandoned: nobody knows what became of a     *)
(* call the dead process had under way.                                    *)
ReconcileDispatches ==
  Write("dispatches", "abandoned",
        [db EXCEPT !.outbound = [x \in Deliveries |->
           IF @[x] # None /\ @[x].state = "dispatching" THEN [@[x] EXCEPT !.state = "ambiguous"] ELSE @[x]]])

(* _claimed_run_outcome, and what it makes of the inputs a run had claimed.*)
Taken == {x \in Deliveries : db.outbound[x] # None}
OutcomeByState ==
  IF Taken # {} /\ \A x \in Taken : db.outbound[x].state = "succeeded" THEN "completed"
  ELSE IF \A x \in Taken : db.outbound[x].state = "failed" THEN "pending"
  ELSE "failed"
Outcome ==
  IF Taken # {} /\ \A x \in Taken : db.outbound[x].state = "succeeded" THEN "completed"
  ELSE IF \A x \in Taken : db.outbound[x].state = "failed" /\ ~db.outbound[x].accepted THEN "pending"
  ELSE "failed"
Claimed == {e \in Entries : db.work[e] # None /\ db.work[e].state = "claimed"}
Resolved ==
  IF Claimed = {} THEN db
  ELSE [db EXCEPT
    !.work = [e \in Entries |-> IF e \in Claimed THEN [state |-> Outcome, run |-> Outcome # "pending"] ELSE @[e]],
    !.events = [e \in Entries |-> IF @[e] # "claimed" THEN @[e]
                                  ELSE IF Outcome = "pending" THEN "unapplied" ELSE "applied"],
    !.run = IF Outcome = "pending" THEN "cancelled" ELSE Outcome]
(* _reconcile_abandoned_agent_runs: claims of a run that is still running. *)
ReconcileAbandoned == Write("abandoned", "cutover", IF db.run = "running" THEN Resolved ELSE db)

-----------------------------------------------------------------------------
(* _cutover_legacy_graph_generations: every thread with a checkpoint gets  *)
(* a new generation that begins with a summary.                            *)
Thread(c) == <<c, db.generation[c]>>
Threads == {Thread(c) : c \in {x \in Chats : db.generation[x] > 0}}
ListThreads ==
  /\ Loop("cutover", IF db.cut THEN "claims" ELSE "rolling", db)
  /\ todo' = Threads \ db.processed /\ UNCHANGED chat
Roll ==
  \E t \in todo :
    /\ todo' = todo \ {t} /\ chat' = t
    /\ IF t \in db.seeded THEN Loop("rolling", "seed", [db EXCEPT !.generation[t[1]] = @ + 1])
       ELSE Loop("rolling", "mark", db)
(* The graph that seeds a thread writes its input, then the messages.      *)
SeedInput == Write("seed", "seeding", [db EXCEPT !.begun = @ \cup {Thread(chat[1])}])
SeedMessages ==
  Write("seeding", IF db.key THEN "mark" ELSE "chats", [db EXCEPT !.seeded = @ \cup {Thread(chat[1])}])
Mark == Write("mark", "rolling", [db EXCEPT !.processed = @ \cup {chat}])
EndCutover == todo = {} /\ Write("rolling", "claims", [db EXCEPT !.cut = TRUE])
(* _reconcile_public_output_cutover: the claims and the escalations of the *)
(* threads that were cut over.                                             *)
ReconcileClaims == Write("claims", IF db.key THEN "live" ELSE "backup", Resolved)
ReconcileCutover ==
  Write("claims", IF db.key THEN "live" ELSE "backup",
        IF <<Home, 1>> \notin db.processed THEN db
        ELSE LET d == Resolved IN
             IF d.asked = "graph" THEN [d EXCEPT !.asked = "journal", !.run = "cancelled"] ELSE d)

-----------------------------------------------------------------------------
(* LegacyMigrator.run: a backup, then each chat's messages as events that  *)
(* are applied and its thread seeded with them.                            *)
Backup == Loop("backup", "chats", [db EXCEPT !.backup = TRUE]) /\ todo' = Chats /\ UNCHANGED chat
Of(c) == {m \in Messages : ChatOf[m] = c}
NextChat ==
  \E c \in todo :
    /\ todo' = todo \ {c} /\ chat' = <<c, 1>>
    /\ Loop("chats", "admit", [db EXCEPT !.generation[c] = IF @ = 0 THEN 1 ELSE @])
Admit ==
  pc = "admit" /\ \E m \in Of(chat[1]) \ db.journal : Write("admit", "admit", [db EXCEPT !.journal = @ \cup {m}])
EndChat ==
  /\ pc = "admit" /\ Of(chat[1]) \subseteq db.journal
  /\ Write("admit", IF Of(chat[1]) # {} /\ chat \notin db.begun THEN "seed" ELSE "chats", db)
EndChats == todo = {} /\ Write("chats", "escalations", db)
(* _migrate_active_escalations: one transaction for each.                  *)
MigrateEscalation ==
  \E r \in (Open \cap db.records) \ db.interrupts :
     Write("escalations", "escalations", [db EXCEPT !.interrupts = @ \cup {r}])
EndEscalations == Open \cap db.records \subseteq db.interrupts /\ Write("escalations", "archive", db)
Archive == Write("archive", "validate", [db EXCEPT !.archive = @ \cup db.records])
ReachedInFull == \A c \in Chats : Of(c) # {} => Thread(c) \in db.seeded
Reached == \A c \in Chats : Of(c) # {} => Thread(c) \in db.begun
Validate ==
  Write("validate", IF db.journal = Messages /\ Reached /\ db.backup THEN "legacy" ELSE "failed", db)
DropLegacy == Write("legacy", "key", [db EXCEPT !.records = {}])
Complete == Write("key", "live", [db EXCEPT !.key = TRUE])

Migrate == Backup \/ NextChat \/ Admit \/ EndChat \/ EndChats \/ MigrateEscalation \/ EndEscalations
           \/ Archive \/ Validate \/ DropLegacy \/ Complete

(* The process is killed, or a failed start is tried again.  What is cut   *)
(* in two: a script that does not run twice, a seeding, a roll.            *)
Cuts ==
  (IF pc \in {"mails", "outbound", "actions", "nine",
              "events", "copy", "work", "works", "cursor", "empty", "twelve"}
   THEN {"script"} ELSE {})
  \cup (IF pc = "seeding" THEN {"seed"} ELSE {})
  \cup (IF pc \in {"seed", "seeding", "mark"} /\ Thread(chat[1]) # chat THEN {"roll"} ELSE {})
Crash ==
  /\ pc # "down" /\ crashes < MaxCrashes /\ crashes' = crashes + 1
  /\ pc' = "down" /\ todo' = {} /\ chat' = None /\ torn' = torn \cup Cuts
  /\ UNCHANGED <<db, was>>

Step ==
  \/ Start \/ Schema \/ SplitSettings \/ SkipSelection \/ SaveSelection \/ ForgetSelection
  \/ ReconcileDispatches \/ ReconcileAbandoned
  \/ ListThreads \/ Roll \/ SeedInput \/ SeedMessages \/ Mark \/ EndCutover \/ ReconcileCutover
  \/ Migrate
Next == Step \/ Crash
Spec == Init /\ [][Next]_vars
FairSpec == Spec /\ WF_vars(Step)

-----------------------------------------------------------------------------
(* Whatever the installation held is still held, in the old form or in the *)
(* new one, wherever the process is killed: inputs that waited or were     *)
(* claimed, side effects, legacy rows, questions to the owner, and the     *)
(* choice of the model.                                                    *)
Inputs(d, e) == \/ d.queue[e] # None /\ d.queue[e].state \in {"pending", "claimed"}
                \/ d.mailbox[e] # None /\ d.mailbox[e].state \in {"pending", "claimed"}
Held(e) == db.queue[e] # None \/ db.mailbox[e] # None \/ db.work[e] # None
NothingIsLost ==
  /\ \A e \in Entries : Inputs(was, e) => Held(e)
  /\ \A x \in Deliveries : was.deliveries[x] # None \/ was.outbound[x] # None
                            => db.deliveries[x] # None \/ db.outbound[x] # None
  /\ was.records \subseteq db.records \cup db.archive
  /\ was.records \cap Open \subseteq db.records \cup db.interrupts
  /\ was.settings = "mixed" => db.settings = "mixed" \/ db.selection \/ db.configured

(* Once the mailbox is gone, the journal is as the runtime expects it: the *)
(* inputs up to the cursor are all in the context, and an input is claimed *)
(* in the context exactly when its work is.                                *)
JournalIsSound ==
  "events" \in db.tables /\ "mailbox" \notin db.tables =>
    /\ \A e \in Entries : e <= db.cursor => db.events[e] \in {None, "applied"}
    /\ \A e \in Entries : db.events[e] = "claimed" => e \in Claimed
    /\ \A e \in Claimed : db.events[e] \in {None, "claimed"}

(* Inputs of a run whose side effects were or may have been visible do not *)
(* wait for another run after the upgrade; if nothing was visible, they do.*)
Visible(d) ==
  \/ \E x \in Deliveries : d.deliveries[x] \notin {None, "rejected"}
  \/ \E x \in Deliveries : d.outbound[x] # None /\ (d.outbound[x].state # "failed" \/ d.outbound[x].accepted)
WasClaimed(e) == (was.queue[e] # None /\ was.queue[e].state = "claimed")
                 \/ (was.mailbox[e] # None /\ was.mailbox[e].state = "claimed")
VisibleIsNotRepeated ==
  \A e \in Entries : WasClaimed(e) /\ db.work[e] # None =>
    /\ Visible(was) => db.work[e].state # "pending"
    /\ ~Visible(was) => db.work[e].state \in {"claimed", "pending"}

(* When the process is up, nothing of the old forms is left to do, unless a*)
(* crash has cut a script, a seeding or a roll in two: no input is claimed *)
(* by a run of before, every question to the owner can be answered, and the*)
(* thread of every chat that has messages begins with them or their        *)
(* summary.                                                                *)
CutoverIsComplete ==
  pc = "live" /\ torn = {} =>
    /\ Claimed = {} /\ db.asked # "graph"
    /\ \A c \in Chats : Thread(c) \in Threads /\ (was.key \/ Of(c) # {}) => Thread(c) \in db.seeded
    /\ was.key \/ (db.journal = Messages /\ db.interrupts = Open /\ db.archive = Records /\ db.records = {})

(* The process comes up in the end if crashes stop, unless one has cut a   *)
(* script in two.                                                          *)
ComesUp == <>(pc = "live" \/ "script" \in torn)
=============================================================================
