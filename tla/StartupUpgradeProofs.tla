------------------------ MODULE StartupUpgradeProofs ------------------------
(***************************************************************************)
(* Proofs about a start of the process, for any chats, inputs, side        *)
(* effects, messages and legacy rows, any installation the start may find, *)
(* and any number of crashes: what was found is kept, the journal is sound,*)
(* what was visible is not repeated, and a process that is up has nothing  *)
(* of the old forms left to do.                                            *)
(***************************************************************************)
EXTENDS StartupUpgrade, FiniteSetTheorems, WellFoundedInduction, TLAPS

(* The inputs and side effects as scripts 9 and 11 leave them.             *)
Mail0(e) == IF was.version # 8 THEN was.mailbox[e]
            ELSE IF was.queue[e] = None THEN None ELSE MailOf(was.queue[e])
Action0(x) == IF was.version # 8 THEN was.outbound[x]
              ELSE IF was.deliveries[x] = None THEN None ELSE ActionOf(was.deliveries[x])
Event0(e) == IF Mail0(e) = None THEN None ELSE ContextOf(Mail0(e))
Work0(e) == IF Mail0(e) = None THEN None ELSE WorkOf(Mail0(e))

(* The steps of the scripts, of the settings and the dead process, of the  *)
(* cutover, and of the migration.                                          *)
Nine == {"mailbox", "mails", "outbound", "actions", "nine"}
Eleven == {"drop", "eleven"}
Twelve == {"policies", "events", "copy", "work", "works", "cursor", "empty", "twelve"}
Carrying == {"settings", "selection", "forget", "dispatches", "abandoned"}
Cutting == {"cutover", "rolling", "mark", "claims"}
Seeding == {"seed", "seeding"}
Migrating == {"backup", "chats", "admit", "escalations", "archive", "validate", "legacy", "key"}
Phases == {"down", "failed", "live"} \cup Nine \cup Eleven \cup Twelve \cup Carrying \cup Cutting
          \cup Seeding \cup Migrating

(* The rows of agent_work.                                                 *)
WorkState == [state : States, run : BOOLEAN]
(* The columns of the database that are followed.                          *)
Database ==
  [version : {8, 9, 11, 12}, tables : SUBSET {"queue", "mailbox", "outbound", "policies", "events", "work"},
   queue : [Entries -> Queued \cup {None}], deliveries : [Deliveries -> Results \cup {None}],
   mailbox : [Entries -> Mails \cup {None}], outbound : [Deliveries -> Actions \cup {None}],
   events : [Entries -> {"unapplied", "claimed", "applied", None}],
   work : [Entries -> WorkState \cup {None}], cursor : Nat,
   run : {"running", "interrupted", "completed", "failed", "cancelled"},
   asked : {"none", "graph", "journal"}, settings : {"mixed", "split"},
   selection : BOOLEAN, configured : BOOLEAN, generation : [Chats -> Nat],
   begun : SUBSET (Chats \X Nat), seeded : SUBSET (Chats \X Nat), processed : SUBSET (Chats \X Nat),
   cut : BOOLEAN, records : SUBSET Records, journal : SUBSET Messages,
   interrupts : SUBSET Open, archive : SUBSET Records, backup : BOOLEAN, key : BOOLEAN]
(* What the loops go through.                                              *)
Loops ==
  /\ pc \in {"rolling", "mark"} \/ (pc \in Seeding /\ db.key) => todo \subseteq Chats \X Nat
  /\ pc \in {"chats", "admit"} \/ (pc \in Seeding /\ ~db.key) => todo \subseteq Chats
  /\ pc \in {"mark", "admit"} \cup Seeding => chat \in Chats \X Nat
Types == db \in Database /\ pc \in Phases /\ torn \subseteq {"script", "seed", "roll"} /\ Loops

(* What was found: nothing of the graph's, or an installation of it.       *)
Found ==
  /\ was \in Database /\ was.version \in {8, 11}
  /\ ~was.key => was = First
  /\ was.key => was.generation[Home] = 1 /\ was.records = {} /\ was.settings = "split"
  /\ was.version = 8 => was.outbound = NoEffects /\ was.mailbox = NoInputs
  /\ was.version = 11 => was.deliveries = NoEffects /\ was.queue = NoInputs

(* The version tells which scripts are behind.                             *)
Versions ==
  /\ pc \in Nine => db.version = 8
  /\ pc \in Eleven => db.version = 9
  /\ pc \in Twelve => db.version = 11
  /\ pc \in Carrying \cup Cutting \cup Seeding \cup Migrating \cup {"live"} => db.version = 12
  /\ db.version = 8 => was.version = 8
  /\ db.version = 9 => was.version = 8

(* Which tables there are: the mailbox until script 12 is through with it. *)
Tabled ==
  /\ "events" \in db.tables => db.version \in {11, 12}
  /\ db.version = 12 => "events" \in db.tables /\ "mailbox" \notin db.tables
  /\ db.version \in {9, 11} => "events" \in db.tables \/ "mailbox" \in db.tables
  /\ pc \in {"mails", "outbound", "actions", "nine"} => "mailbox" \in db.tables
  /\ pc \in {"copy", "work", "works", "cursor", "empty", "twelve"} => "events" \in db.tables
  /\ pc \in {"copy", "work", "works", "cursor", "empty"} => "mailbox" \in db.tables
  /\ pc = "twelve" => "mailbox" \notin db.tables

(* What the scripts have copied so far is what they make of the rows that  *)
(* were found; a side effect may have become ambiguous since.              *)
Copied ==
  /\ db.version = 8 => db.queue = was.queue /\ db.deliveries = was.deliveries
  /\ (db.version # 8 \/ pc \in {"outbound", "actions", "nine"}) /\ "mailbox" \in db.tables
       => \A e \in Entries : db.mailbox[e] = Mail0(e)
  /\ db.version # 8 \/ pc = "nine"
       => \A x \in Deliveries :
            \/ db.outbound[x] = Action0(x)
            \/ /\ Action0(x) # None /\ Action0(x).state = "dispatching"
               /\ db.outbound[x] = [state |-> "ambiguous", accepted |-> FALSE]
  /\ pc \in {"work", "works", "cursor", "empty"} => \A e \in Entries : db.events[e] = Event0(e)
  /\ pc \in {"cursor", "empty"} => \A e \in Entries : db.work[e] = Work0(e)

(* Work is what script 12 made of the input, or what became of a claim.    *)
InputsResolved ==
  /\ \A e \in Entries :
       \/ db.work[e] = None
       \/ db.work[e] = Work0(e)
       \/ /\ Work0(e) # None /\ Work0(e).state = "claimed"
          /\ db.work[e] # None
          /\ db.work[e].state \in {"completed", "pending", "failed"}
          /\ Visible(was) <=> db.work[e].state # "pending"
  /\ "events" \in db.tables /\ "mailbox" \notin db.tables
       => \A e \in Entries : Mail0(e) # None /\ Mail0(e).state \in {"pending", "claimed"} => db.work[e] # None

(* The cursor, before the mailbox is dropped.                              *)
CursorIsRight == pc = "empty" => \A e \in Entries : e <= db.cursor => db.events[e] \in {None, "applied"}

(* Legacy rows are in their tables until they are in the archive, and the  *)
(* open ones with a question; the selection is in the settings until it is *)
(* saved.                                                                  *)
RecordsKept ==
  /\ was.records \subseteq db.records \cup db.archive
  /\ was.records \cap Open \subseteq db.records \cup db.interrupts
  /\ pc \in {"validate", "legacy"} => db.records \subseteq db.archive
  /\ pc \in {"archive", "validate", "legacy"} => Open \cap db.records \subseteq db.interrupts
  /\ was.settings = "mixed" => db.settings = "mixed" \/ db.selection \/ db.configured
  /\ pc = "forget" => db.configured

(* The mark of the migration is set when everything is done, and never     *)
(* taken back.                                                             *)
MigratedOnce ==
  /\ was.key => db.key
  /\ pc \in Migrating => ~db.key
  /\ pc = "live" => db.key
  /\ pc \in {"legacy", "key"} \/ (db.key /\ ~was.key) => db.journal = Messages
  /\ pc = "key" \/ (db.key /\ ~was.key) => db.records = {}

(* A start that finds threads: the list holds current threads of different *)
(* chats, the one of Home is in it until it is processed, and every        *)
(* current thread is seeded but the one that is being seeded.              *)
CuttingOver ==
  was.key =>
    /\ pc \in {"rolling", "mark"} \cup Seeding =>
         \A t \in todo : t[1] \in Chats /\ t = Thread(t[1]) /\ t \in Threads
    /\ pc \in {"mark"} \cup Seeding => \A t \in todo : t[1] # chat[1]
    /\ pc \in Seeding => Thread(chat[1]) = <<chat[1], chat[2] + 1>>
    /\ pc = "claims" => db.cut
    /\ torn = {} =>
         /\ \/ <<Home, 1>> \in db.processed \/ db.generation[Home] = 1
            \/ pc \in {"mark"} \cup Seeding /\ chat = <<Home, 1>>
         /\ pc \in {"rolling", "mark"} \cup Seeding
              => \/ <<Home, 1>> \in db.processed \cup todo
                 \/ pc # "rolling" /\ chat = <<Home, 1>>
         /\ db.cut => <<Home, 1>> \in db.processed
         /\ \A c \in Chats : Thread(c) \in Threads
              => Thread(c) \in db.seeded \/ (pc \in Seeding /\ chat[1] = c)
         /\ pc = "live" => Claimed = {} /\ db.asked # "graph"

(* A start that finds a database from before the graph: threads are in     *)
(* their first generation, and a thread that has begun has been seeded in  *)
(* full, unless a crash has cut its seeding.                               *)
FirstChats ==
  ~was.key =>
    /\ db.asked = "none" /\ \A c \in Chats : db.generation[c] \in {0, 1}
    /\ db.cut \/ \A c \in Chats : db.generation[c] = 0
    /\ pc = "rolling" => todo = {}
    /\ pc # "mark" /\ (pc \in Seeding => ~db.key)
    /\ pc \in {"claims"} \cup Migrating \cup Seeding => db.cut
    /\ pc \in {"admit"} \cup Seeding => \E c \in Chats : chat = <<c, 1>> /\ db.generation[c] = 1
    /\ torn = {} =>
         /\ \A c \in Chats : <<c, 1>> \in db.begun
              => <<c, 1>> \in db.seeded \/ (pc = "seeding" /\ chat = <<c, 1>>)
         /\ pc \in {"chats", "admit"} \cup Seeding =>
              \A c \in Chats : Of(c) = {} \/ <<c, 1>> \in db.seeded \/ c \in todo
                               \/ (pc # "chats" /\ chat = <<c, 1>>)
         /\ db.key \/ pc \in {"escalations", "archive", "validate", "legacy", "key"}
              => \A c \in Chats : Of(c) = {} \/ <<c, 1>> \in db.seeded

(* The columns of the scripts, of the legacy tables and settings, and of   *)
(* the threads.                                                            *)
SchemaRows == <<db.version, db.tables, db.queue, db.deliveries, db.mailbox, db.outbound,
                db.events, db.work, db.cursor>>
LegacyRows == <<db.records, db.journal, db.interrupts, db.archive, db.key,
                db.settings, db.selection, db.configured>>
ThreadRows == <<db.generation, db.begun, db.seeded, db.processed, db.cut, db.asked>>

-----------------------------------------------------------------------------
(* What each group of steps leaves alone, and the types.                   *)

(* The scripts leave the legacy tables, the settings and the threads       *)
(* alone.                                                                  *)
LEMMA SchemaFrame ==
  ASSUME db \in Database, Schema
  PROVE  UNCHANGED <<LegacyRows, ThreadRows, was, torn, todo, chat>>
<1>1. CASE CreateMailbox
  BY <1>1 DEF CreateMailbox, Create, Write, Database, LegacyRows, ThreadRows
<1>2. CASE FillMailbox
  BY <1>2 DEF FillMailbox, Write, Database, LegacyRows, ThreadRows
<1>3. CASE CreateOutbound
  BY <1>3 DEF CreateOutbound, Create, Write, Database, LegacyRows, ThreadRows
<1>4. CASE FillOutbound
  BY <1>4 DEF FillOutbound, Write, Database, LegacyRows, ThreadRows
<1>5. CASE RecordNine
  BY <1>5 DEF RecordNine, Record, Write, Database, LegacyRows, ThreadRows
<1>6. CASE DropQueue
  BY <1>6 DEF DropQueue, Write, Database, LegacyRows, ThreadRows
<1>7. CASE RecordEleven
  BY <1>7 DEF RecordEleven, Record, Write, Database, LegacyRows, ThreadRows
<1>8. CASE CreatePolicies \/ CreateEvents
  BY <1>8 DEF CreatePolicies, CreateEvents, Create, Write, Database, LegacyRows, ThreadRows
<1>9. CASE FillEvents
  BY <1>9 DEF FillEvents, Write, Database, LegacyRows, ThreadRows
<1>10. CASE CreateWork
  BY <1>10 DEF CreateWork, Create, Write, Database, LegacyRows, ThreadRows
<1>11. CASE FillWork
  BY <1>11 DEF FillWork, Write, Database, LegacyRows, ThreadRows
<1>12. CASE SetCursor
  BY <1>12 DEF SetCursor, Write, Database, LegacyRows, ThreadRows
<1>13. CASE DropMailbox
  BY <1>13 DEF DropMailbox, Write, Database, LegacyRows, ThreadRows
<1>14. CASE RecordTwelve
  BY <1>14 DEF RecordTwelve, Record, Write, Database, LegacyRows, ThreadRows
<1> QED
  BY <1>1, <1>2, <1>3, <1>4, <1>5, <1>6, <1>7, <1>8, <1>9, <1>10, <1>11, <1>12, <1>13, <1>14 DEF Schema

(* The split of the settings leaves the scripts' tables and the threads    *)
(* alone.                                                                  *)
LEMMA CarryingFrame ==
  ASSUME db \in Database, SplitSettings \/ SkipSelection \/ SaveSelection \/ ForgetSelection
  PROVE  UNCHANGED <<SchemaRows, ThreadRows, was, torn, todo, chat>>
<1>1. CASE SplitSettings
  BY <1>1 DEF SplitSettings, Write, Database, SchemaRows, ThreadRows
<1>2. CASE SkipSelection
  BY <1>2 DEF SkipSelection, Write, Database, SchemaRows, ThreadRows
<1>3. CASE SaveSelection
  BY <1>3 DEF SaveSelection, Write, Database, SchemaRows, ThreadRows
<1>4. CASE ForgetSelection
  BY <1>4 DEF ForgetSelection, Write, Database, SchemaRows, ThreadRows
<1> QED
  BY <1>1, <1>2, <1>3, <1>4

(* The cutover of the threads leaves everything else alone.                *)
LEMMA CutoverFrame ==
  ASSUME db \in Database, ListThreads \/ Roll \/ SeedInput \/ SeedMessages \/ Mark \/ EndCutover
  PROVE  UNCHANGED <<SchemaRows, LegacyRows, db.asked, was, torn>>
<1>1. CASE ListThreads
  BY <1>1 DEF ListThreads, Loop, Write, Database, SchemaRows, LegacyRows
<1>2. CASE Roll
  BY <1>2 DEF Roll, Loop, Write, Database, SchemaRows, LegacyRows
<1>3. CASE SeedInput
  BY <1>3 DEF SeedInput, Write, Database, SchemaRows, LegacyRows
<1>4. CASE SeedMessages
  BY <1>4 DEF SeedMessages, Write, Database, SchemaRows, LegacyRows
<1>5. CASE Mark
  BY <1>5 DEF Mark, Write, Database, SchemaRows, LegacyRows
<1>6. CASE EndCutover
  BY <1>6 DEF EndCutover, Write, Database, SchemaRows, LegacyRows
<1> QED
  BY <1>1, <1>2, <1>3, <1>4, <1>5, <1>6

(* The migration leaves the scripts' tables and the questions alone.       *)
LEMMA MigrationFrame ==
  ASSUME db \in Database, Migrate
  PROVE  UNCHANGED <<SchemaRows, db.asked, was, torn>>
<1>1. CASE Backup
  BY <1>1 DEF Backup, Loop, Write, Database, SchemaRows
<1>2. CASE NextChat
  BY <1>2 DEF NextChat, Loop, Write, Database, SchemaRows
<1>3. CASE Admit
  BY <1>3 DEF Admit, Write, Database, SchemaRows
<1>4. CASE EndChat
  BY <1>4 DEF EndChat, Write, Database, SchemaRows
<1>5. CASE EndChats
  BY <1>5 DEF EndChats, Write, Database, SchemaRows
<1>6. CASE MigrateEscalation
  BY <1>6 DEF MigrateEscalation, Write, Database, SchemaRows
<1>7. CASE EndEscalations
  BY <1>7 DEF EndEscalations, Write, Database, SchemaRows
<1>8. CASE Archive
  BY <1>8 DEF Archive, Write, Database, SchemaRows
<1>9. CASE Validate
  BY <1>9 DEF Validate, Write, Database, SchemaRows
<1>10. CASE DropLegacy
  BY <1>10 DEF DropLegacy, Write, Database, SchemaRows
<1>11. CASE Complete
  BY <1>11 DEF Complete, Write, Database, SchemaRows
<1> QED
  BY <1>1, <1>2, <1>3, <1>4, <1>5, <1>6, <1>7, <1>8, <1>9, <1>10, <1>11 DEF Migrate

(* A finite set of naturals that is not empty has the greatest element Max  *)
(* names.                                                                   *)
HasGreatest(T) == \E x \in T : \A y \in T : x >= y
LEMMA MaxIsGreatest ==
  ASSUME NEW S \in SUBSET Nat, IsFiniteSet(S), S # {}
  PROVE  Max(S) \in S /\ \A y \in S : Max(S) >= y
<1> DEFINE Bad == {n \in Nat : \E T \in SUBSET Nat :
                     IsFiniteSet(T) /\ T # {} /\ Cardinality(T) = n /\ ~HasGreatest(T)}
<1>1. ASSUME Bad # {} PROVE FALSE
  <2>1. PICK n \in Bad : \A m \in Bad : ~(<<m, n>> \in OpToRel(<, Nat))
    BY <1>1, NatLessThanWellFounded, WFMin
  <2>2. PICK T \in SUBSET Nat : IsFiniteSet(T) /\ T # {} /\ Cardinality(T) = n /\ ~HasGreatest(T)
    BY <2>1
  <2>3. PICK x \in T : TRUE
    BY <2>2
  <2>4. /\ IsFiniteSet(T \ {x}) /\ Cardinality(T \ {x}) = n - 1
        /\ n \in Nat /\ Cardinality(T \ {x}) \in Nat
    BY <2>2, <2>3, FS_RemoveElement, FS_CardinalityType
  <2>5. ASSUME T \ {x} # {}, ~HasGreatest(T \ {x}) PROVE FALSE
    <3>1. n - 1 \in Bad
      BY <2>2, <2>4, <2>5
    <3>2. <<n - 1, n>> \in OpToRel(<, Nat)
      BY <2>4 DEF OpToRel
    <3> QED
      BY <2>1, <3>1, <3>2
  <2>6. CASE T \ {x} = {}
    BY <2>2, <2>3, <2>6 DEF HasGreatest
  <2>7. CASE T \ {x} # {}
    <3>1. PICK m \in T \ {x} : \A y \in T \ {x} : m >= y
      BY <2>5, <2>7 DEF HasGreatest
    <3>2. CASE m >= x
      BY <2>2, <2>3, <3>1, <3>2 DEF HasGreatest
    <3>3. CASE ~(m >= x)
      <4>1. \A y \in T : x >= y
        BY <2>2, <2>3, <3>1, <3>3
      <4> QED
        BY <2>2, <2>3, <4>1 DEF HasGreatest
    <3> QED
      BY <3>2, <3>3
  <2> QED
    BY <2>6, <2>7
<1>2. HasGreatest(S)
  <2>1. Cardinality(S) \in Nat
    BY FS_CardinalityType
  <2> QED
    BY <1>1, <2>1
<1> QED
  BY <1>2 DEF HasGreatest, Max

(* The cursor is sound: the inputs up to it are in the context.             *)
LEMMA CursorIsSound ==
  Cursor \in Nat /\ (Cursor \in Entries => \A f \in Entries : f <= Cursor => db.events[f] \in {None, "applied"})
         /\ (Cursor \notin Entries => Cursor = 0)
<1> DEFINE Sound == {e \in Entries :
             /\ db.events[e] = "applied"
             /\ \A f \in Entries : f <= e => db.events[f] \in {None, "applied"}}
<1>1. {0} \cup Sound \in SUBSET Nat
  <2>1. Sound \in SUBSET Entries
    OBVIOUS
  <2> HIDE DEF Sound
  <2> QED
    BY <2>1, UpgradeAssumption
<1>2. IsFiniteSet({0} \cup Sound)
  <2>1. IsFiniteSet(Sound)
    <3>1. Sound \in SUBSET Entries
      OBVIOUS
    <3> HIDE DEF Sound
    <3> QED
      BY <3>1, UpgradeAssumption, FS_Subset
  <2> QED
    BY <2>1, FS_Singleton, FS_Union
<1>3. Cursor = Max({0} \cup Sound)
  BY DEF Cursor
<1> HIDE DEF Sound
<1>4. Cursor \in {0} \cup Sound
  BY <1>1, <1>2, <1>3, MaxIsGreatest
<1> USE DEF Sound
<1> QED
  BY <1>1, <1>4, UpgradeAssumption

(* A row of the database that is rewritten with one of its kind.            *)
LEMMA Rewritten ==
  ASSUME NEW d \in Database
  PROVE
  /\ \A x \in {8, 9, 11, 12} : [d EXCEPT !.version = x] \in Database
  /\ \A x \in SUBSET {"queue", "mailbox", "outbound", "policies", "events", "work"} : [d EXCEPT !.tables = x] \in Database
  /\ \A x \in [Entries -> Queued \cup {None}] : [d EXCEPT !.queue = x] \in Database
  /\ \A x \in [Deliveries -> Results \cup {None}] : [d EXCEPT !.deliveries = x] \in Database
  /\ \A x \in [Entries -> Mails \cup {None}] : [d EXCEPT !.mailbox = x] \in Database
  /\ \A x \in [Deliveries -> Actions \cup {None}] : [d EXCEPT !.outbound = x] \in Database
  /\ \A x \in [Entries -> {"unapplied", "claimed", "applied", None}] : [d EXCEPT !.events = x] \in Database
  /\ \A x \in [Entries -> WorkState \cup {None}] : [d EXCEPT !.work = x] \in Database
  /\ \A x \in Nat : [d EXCEPT !.cursor = x] \in Database
  /\ \A x \in {"running", "interrupted", "completed", "failed", "cancelled"} : [d EXCEPT !.run = x] \in Database
  /\ \A x \in {"none", "graph", "journal"} : [d EXCEPT !.asked = x] \in Database
  /\ \A x \in {"mixed", "split"} : [d EXCEPT !.settings = x] \in Database
  /\ \A x \in BOOLEAN : [d EXCEPT !.selection = x] \in Database
  /\ \A x \in BOOLEAN : [d EXCEPT !.configured = x] \in Database
  /\ \A x \in [Chats -> Nat] : [d EXCEPT !.generation = x] \in Database
  /\ \A x \in SUBSET (Chats \X Nat) : [d EXCEPT !.begun = x] \in Database
  /\ \A x \in SUBSET (Chats \X Nat) : [d EXCEPT !.seeded = x] \in Database
  /\ \A x \in SUBSET (Chats \X Nat) : [d EXCEPT !.processed = x] \in Database
  /\ \A x \in BOOLEAN : [d EXCEPT !.cut = x] \in Database
  /\ \A x \in SUBSET Records : [d EXCEPT !.records = x] \in Database
  /\ \A x \in SUBSET Messages : [d EXCEPT !.journal = x] \in Database
  /\ \A x \in SUBSET Open : [d EXCEPT !.interrupts = x] \in Database
  /\ \A x \in SUBSET Records : [d EXCEPT !.archive = x] \in Database
  /\ \A x \in BOOLEAN : [d EXCEPT !.backup = x] \in Database
  /\ \A x \in BOOLEAN : [d EXCEPT !.key = x] \in Database
<1>1. \A x \in {8, 9, 11, 12} : [d EXCEPT !.version = x] \in Database
  BY DEF Database
<1>2. \A x \in SUBSET {"queue", "mailbox", "outbound", "policies", "events", "work"} : [d EXCEPT !.tables = x] \in Database
  BY DEF Database
<1>3. \A x \in [Entries -> Queued \cup {None}] : [d EXCEPT !.queue = x] \in Database
  BY DEF Database
<1>4. \A x \in [Deliveries -> Results \cup {None}] : [d EXCEPT !.deliveries = x] \in Database
  BY DEF Database
<1>5. \A x \in [Entries -> Mails \cup {None}] : [d EXCEPT !.mailbox = x] \in Database
  BY DEF Database
<1>6. \A x \in [Deliveries -> Actions \cup {None}] : [d EXCEPT !.outbound = x] \in Database
  BY DEF Database
<1>7. \A x \in [Entries -> {"unapplied", "claimed", "applied", None}] : [d EXCEPT !.events = x] \in Database
  BY DEF Database
<1>8. \A x \in [Entries -> WorkState \cup {None}] : [d EXCEPT !.work = x] \in Database
  BY DEF Database
<1>9. \A x \in Nat : [d EXCEPT !.cursor = x] \in Database
  BY DEF Database
<1>10. \A x \in {"running", "interrupted", "completed", "failed", "cancelled"} : [d EXCEPT !.run = x] \in Database
  BY DEF Database
<1>11. \A x \in {"none", "graph", "journal"} : [d EXCEPT !.asked = x] \in Database
  BY DEF Database
<1>12. \A x \in {"mixed", "split"} : [d EXCEPT !.settings = x] \in Database
  BY DEF Database
<1>13. \A x \in BOOLEAN : [d EXCEPT !.selection = x] \in Database
  BY DEF Database
<1>15. \A x \in BOOLEAN : [d EXCEPT !.configured = x] \in Database
  BY DEF Database
<1>16. \A x \in [Chats -> Nat] : [d EXCEPT !.generation = x] \in Database
  BY DEF Database
<1>17. \A x \in SUBSET (Chats \X Nat) : [d EXCEPT !.begun = x] \in Database
  BY DEF Database
<1>18. \A x \in SUBSET (Chats \X Nat) : [d EXCEPT !.seeded = x] \in Database
  BY DEF Database
<1>19. \A x \in SUBSET (Chats \X Nat) : [d EXCEPT !.processed = x] \in Database
  BY DEF Database
<1>20. \A x \in BOOLEAN : [d EXCEPT !.cut = x] \in Database
  BY DEF Database
<1>21. \A x \in SUBSET Records : [d EXCEPT !.records = x] \in Database
  BY DEF Database
<1>22. \A x \in SUBSET Messages : [d EXCEPT !.journal = x] \in Database
  BY DEF Database
<1>23. \A x \in SUBSET Open : [d EXCEPT !.interrupts = x] \in Database
  BY DEF Database
<1>24. \A x \in SUBSET Records : [d EXCEPT !.archive = x] \in Database
  BY DEF Database
<1>25. \A x \in BOOLEAN : [d EXCEPT !.backup = x] \in Database
  BY DEF Database
<1>26. \A x \in BOOLEAN : [d EXCEPT !.key = x] \in Database
  BY DEF Database
<1> QED
  BY <1>1, <1>2, <1>3, <1>4, <1>5, <1>6, <1>7, <1>8, <1>9, <1>10, <1>11, <1>12, <1>13, <1>15, <1>16,
     <1>17, <1>18, <1>19, <1>20, <1>21, <1>22, <1>23, <1>24, <1>25, <1>26

(* What the scripts make of a row is a row of the new table.                *)
LEMMA RowsOfScripts ==
  /\ \A q \in Queued : MailOf(q) \in Mails
  /\ \A r \in Results : ActionOf(r) \in Actions
  /\ \A m \in Mails : ContextOf(m) \in {"unapplied", "claimed", "applied", None}
  /\ \A m \in Mails : WorkOf(m) \in WorkState \cup {None}
<1>1. ASSUME NEW q \in Queued PROVE MailOf(q) \in Mails
  BY <1>1 DEF Queued, Mails, MailOf, Named, Dispositions, States
<1>2. ASSUME NEW r \in Results PROVE ActionOf(r) \in Actions
  <2> DEFINE state == CASE r = "claimed" -> "ambiguous"
                        [] r \in {"partly", "rejected"} -> "failed"
                        [] OTHER -> "succeeded"
             accepted == r \in {"accepted", "partly"}
  <2>1. ActionOf(r) = [state |-> state, accepted |-> accepted]
    BY DEF ActionOf
  <2>2. r = "claimed" => state = "ambiguous"
    OBVIOUS
  <2>3. r \in {"partly", "rejected"} => state = "failed"
    OBVIOUS
  <2>4. r = "accepted" => state = "succeeded"
    OBVIOUS
  <2>5. accepted \in BOOLEAN /\ (r = "accepted" => accepted) /\ (r = "claimed" => ~accepted)
    OBVIOUS
  <2> HIDE DEF state, accepted
  <2> QED
    BY <1>2, <2>1, <2>2, <2>3, <2>4, <2>5 DEF Results, Actions, Dispatches
<1>3. ASSUME NEW m \in Mails PROVE ContextOf(m) \in {"unapplied", "claimed", "applied", None}
  BY <1>3 DEF ContextOf
<1>4. ASSUME NEW m \in Mails PROVE WorkOf(m) \in WorkState \cup {None}
  BY <1>4 DEF Mails, WorkOf, WorkState
<1> QED
  BY <1>1, <1>2, <1>3, <1>4

(* The outcome of a run is a state of its work.                            *)
LEMMA OutcomeIsAState == Outcome \in {"completed", "pending", "failed"}
BY DEF Outcome

(* What Resolved does to the database, column by column.                    *)
LEMMA ResolvedRows ==
  ASSUME db \in Database
  PROVE  /\ Resolved \in Database
         /\ Claimed = {} => Resolved = db
         /\ Claimed # {} =>
              /\ Resolved.work = [e \in Entries |-> IF e \in Claimed
                                   THEN [state |-> Outcome, run |-> Outcome # "pending"] ELSE db.work[e]]
              /\ Resolved.events = [e \in Entries |-> IF db.events[e] # "claimed" THEN db.events[e]
                                      ELSE IF Outcome = "pending" THEN "unapplied" ELSE "applied"]
         /\ \E w, v, r : Resolved = [[[db EXCEPT !.work = w] EXCEPT !.events = v] EXCEPT !.run = r]
<1>1. CASE Claimed = {}
  <2>1. db = [[[db EXCEPT !.work = db.work] EXCEPT !.events = db.events] EXCEPT !.run = db.run]
    BY DEF Database
  <2> QED
    BY <1>1, <2>1 DEF Resolved
<1>2. CASE Claimed # {}
  <2> DEFINE w == [e \in Entries |-> IF e \in Claimed
                     THEN [state |-> Outcome, run |-> Outcome # "pending"] ELSE db.work[e]]
             v == [e \in Entries |-> IF db.events[e] # "claimed" THEN db.events[e]
                                     ELSE IF Outcome = "pending" THEN "unapplied" ELSE "applied"]
             r == IF Outcome = "pending" THEN "cancelled" ELSE Outcome
  <2>1. /\ db.work \in [Entries -> WorkState \cup {None}]
        /\ db.events \in [Entries -> {"unapplied", "claimed", "applied", None}]
    BY DEF Database
  <2>2. [state |-> Outcome, run |-> Outcome # "pending"] \in WorkState
    BY OutcomeIsAState DEF WorkState, States
  <2>3. w \in [Entries -> WorkState \cup {None}]
    BY <2>1, <2>2
  <2>4. v \in [Entries -> {"unapplied", "claimed", "applied", None}]
    BY <2>1
  <2>5. r \in {"running", "interrupted", "completed", "failed", "cancelled"}
    BY OutcomeIsAState
  <2>6. Resolved = [db EXCEPT !.work = w, !.events = v, !.run = r]
    <3>1. w = [e \in Entries |-> IF e \in Claimed
                     THEN [state |-> Outcome, run |-> Outcome # "pending"] ELSE db.work[e]]
      OBVIOUS
    <3> QED
      BY <1>2 DEF Resolved
  <2> HIDE DEF w, v, r
  <2>7. [db EXCEPT !.work = w, !.events = v, !.run = r]
          = [[[db EXCEPT !.work = w] EXCEPT !.events = v] EXCEPT !.run = r]
    BY DEF Database
  <2>8. [db EXCEPT !.work = w] \in Database
    BY <2>3, Rewritten
  <2>9. [[db EXCEPT !.work = w] EXCEPT !.events = v] \in Database
    BY <2>4, <2>8, Rewritten
  <2>10. Resolved \in Database
    BY <2>5, <2>6, <2>7, <2>9, Rewritten
  <2>11. Resolved.work = w /\ Resolved.events = v
    BY <2>6 DEF Database
  <2> QED
    BY <1>2, <2>6, <2>7, <2>10, <2>11 DEF w, v
<1> QED
  BY <1>1, <1>2

(* Each write leaves the database typed.                                    *)
LEMMA SchemaTyped ==
  ASSUME db \in Database, Schema
  PROVE  db' \in Database
<1>1. ASSUME NEW t \in {"queue", "mailbox", "outbound", "policies", "events", "work"}
      PROVE  [db EXCEPT !.tables = @ \cup {t}] \in Database
  <2>1. db.tables \cup {t} \in SUBSET {"queue", "mailbox", "outbound", "policies", "events", "work"}
    BY DEF Database
  <2> QED
    BY <2>1, Rewritten
<1>2. CASE CreateMailbox
  BY <1>1, <1>2 DEF CreateMailbox, Create, Write
<1>3. CASE FillMailbox
  <2> DEFINE rows == [e \in Entries |-> IF db.queue[e] = None THEN None ELSE MailOf(db.queue[e])]
  <2>1. \A e \in Entries : db.queue[e] \in Queued \cup {None}
    BY DEF Database
  <2>2. rows \in [Entries -> Mails \cup {None}]
    BY <2>1, RowsOfScripts
  <2>3. db' = [db EXCEPT !.mailbox = rows]
    BY <1>3 DEF FillMailbox, Write
  <2> HIDE DEF rows
  <2> QED
    BY <2>2, <2>3, Rewritten
<1>4. CASE CreateOutbound
  BY <1>1, <1>4 DEF CreateOutbound, Create, Write
<1>5. CASE FillOutbound
  <2> DEFINE rows == [x \in Deliveries |-> IF db.deliveries[x] = None THEN None ELSE ActionOf(db.deliveries[x])]
  <2>1. \A x \in Deliveries : db.deliveries[x] \in Results \cup {None}
    BY DEF Database
  <2>2. rows \in [Deliveries -> Actions \cup {None}]
    BY <2>1, RowsOfScripts
  <2>3. db' = [db EXCEPT !.outbound = rows]
    BY <1>5 DEF FillOutbound, Write
  <2> HIDE DEF rows
  <2> QED
    BY <2>2, <2>3, Rewritten
<1>6. CASE RecordNine
  BY <1>6, Rewritten DEF RecordNine, Record, Write
<1>7. CASE DropQueue
  <2>1. /\ db.tables \ {"queue"} \in SUBSET {"queue", "mailbox", "outbound", "policies", "events", "work"}
        /\ NoInputs \in [Entries -> Queued \cup {None}] /\ NoEffects \in [Deliveries -> Results \cup {None}]
    BY DEF Database, NoInputs, NoEffects
  <2>2. [db EXCEPT !.tables = db.tables \ {"queue"}] \in Database
    BY <2>1, Rewritten
  <2>3. [[db EXCEPT !.tables = db.tables \ {"queue"}] EXCEPT !.queue = NoInputs] \in Database
    BY <2>1, <2>2, Rewritten
  <2>4. [[[db EXCEPT !.tables = db.tables \ {"queue"}] EXCEPT !.queue = NoInputs]
            EXCEPT !.deliveries = NoEffects] \in Database
    BY <2>1, <2>3, Rewritten
  <2>5. db' = [[[db EXCEPT !.tables = db.tables \ {"queue"}] EXCEPT !.queue = NoInputs] EXCEPT !.deliveries = NoEffects]
    BY <1>7 DEF DropQueue, Write, Database
  <2> QED
    BY <2>4, <2>5
<1>8. CASE RecordEleven
  BY <1>8, Rewritten DEF RecordEleven, Record, Write
<1>9. CASE CreatePolicies \/ CreateEvents
  BY <1>1, <1>9 DEF CreatePolicies, CreateEvents, Create, Write
<1>10. CASE FillEvents
  <2> DEFINE rows == [e \in Entries |-> IF db.mailbox[e] = None THEN None ELSE ContextOf(db.mailbox[e])]
  <2>1. \A e \in Entries : db.mailbox[e] \in Mails \cup {None}
    BY DEF Database
  <2>2. rows \in [Entries -> {"unapplied", "claimed", "applied", None}]
    BY <2>1, RowsOfScripts
  <2>3. db' = [db EXCEPT !.events = rows]
    BY <1>10 DEF FillEvents, Write
  <2> HIDE DEF rows
  <2> QED
    BY <2>2, <2>3, Rewritten
<1>11. CASE CreateWork
  BY <1>1, <1>11 DEF CreateWork, Create, Write
<1>12. CASE FillWork
  <2> DEFINE rows == [e \in Entries |-> IF db.mailbox[e] = None THEN None ELSE WorkOf(db.mailbox[e])]
  <2>1. \A e \in Entries : db.mailbox[e] \in Mails \cup {None}
    BY DEF Database
  <2>2. rows \in [Entries -> WorkState \cup {None}]
    BY <2>1, RowsOfScripts
  <2>3. db' = [db EXCEPT !.work = rows]
    BY <1>12 DEF FillWork, Write
  <2> HIDE DEF rows
  <2> QED
    BY <2>2, <2>3, Rewritten
<1>13. CASE SetCursor
  BY <1>13, CursorIsSound, Rewritten DEF SetCursor, Write
<1>14. CASE DropMailbox
  <2>1. /\ db.tables \ {"mailbox"} \in SUBSET {"queue", "mailbox", "outbound", "policies", "events", "work"}
        /\ NoInputs \in [Entries -> Mails \cup {None}]
    BY DEF Database, NoInputs
  <2>2. [db EXCEPT !.tables = db.tables \ {"mailbox"}] \in Database
    BY <2>1, Rewritten
  <2>3. [[db EXCEPT !.tables = db.tables \ {"mailbox"}] EXCEPT !.mailbox = NoInputs] \in Database
    BY <2>1, <2>2, Rewritten
  <2>4. db' = [[db EXCEPT !.tables = db.tables \ {"mailbox"}] EXCEPT !.mailbox = NoInputs]
    BY <1>14 DEF DropMailbox, Write, Database
  <2> QED
    BY <2>3, <2>4
<1>15. CASE RecordTwelve
  BY <1>15, Rewritten DEF RecordTwelve, Record, Write
<1> QED
  BY <1>2, <1>3, <1>4, <1>5, <1>6, <1>7, <1>8, <1>9, <1>10, <1>11, <1>12, <1>13, <1>14, <1>15 DEF Schema

(* So do the writes of the settings.                                       *)
LEMMA CarryingTyped ==
  ASSUME db \in Database, SplitSettings \/ SkipSelection \/ SaveSelection \/ ForgetSelection
  PROVE  db' \in Database
<1>1. CASE SplitSettings
  <2>1. [db EXCEPT !.settings = "split"] \in Database
    BY Rewritten
  <2>2. [[db EXCEPT !.settings = "split"] EXCEPT !.selection = TRUE] \in Database
    BY <2>1, Rewritten
  <2>3. [db EXCEPT !.settings = "split", !.selection = TRUE]
          = [[db EXCEPT !.settings = "split"] EXCEPT !.selection = TRUE]
    BY DEF Database
  <2> QED
    BY <1>1, <2>2, <2>3 DEF SplitSettings, Write
<1>2. CASE SkipSelection
  BY <1>2 DEF SkipSelection, Write
<1>3. CASE SaveSelection
  BY <1>3, Rewritten DEF SaveSelection, Write
<1>4. CASE ForgetSelection
  BY <1>4, Rewritten DEF ForgetSelection, Write
<1> QED
  BY <1>1, <1>2, <1>3, <1>4

(* So do the reconciliations.                                              *)
LEMMA ReconciliationTyped ==
  ASSUME db \in Database, ReconcileDispatches \/ ReconcileAbandoned \/ ReconcileCutover
  PROVE  db' \in Database
<1>1. CASE ReconcileDispatches
  <2> DEFINE rows == [x \in Deliveries |->
           IF db.outbound[x] # None /\ db.outbound[x].state = "dispatching"
           THEN [db.outbound[x] EXCEPT !.state = "ambiguous"] ELSE db.outbound[x]]
  <2>1. \A x \in Deliveries : db.outbound[x] \in Actions \cup {None}
    BY DEF Database
  <2>2. ASSUME NEW r \in Actions, r.state = "dispatching" PROVE [r EXCEPT !.state = "ambiguous"] \in Actions
    BY <2>2 DEF Actions, Dispatches
  <2>3. rows \in [Deliveries -> Actions \cup {None}]
    BY <2>1, <2>2
  <2>4. db' = [db EXCEPT !.outbound = rows]
    BY <1>1 DEF ReconcileDispatches, Write
  <2> HIDE DEF rows
  <2> QED
    BY <2>3, <2>4, Rewritten
<1>2. CASE ReconcileAbandoned
  BY <1>2, ResolvedRows DEF ReconcileAbandoned, Write
<1>3. CASE ReconcileCutover
  <2>1. Resolved \in Database
    BY ResolvedRows
  <2>2. [Resolved EXCEPT !.asked = "journal"] \in Database
    BY <2>1, Rewritten
  <2>3. [[Resolved EXCEPT !.asked = "journal"] EXCEPT !.run = "cancelled"] \in Database
    BY <2>2, Rewritten
  <2>4. [Resolved EXCEPT !.asked = "journal", !.run = "cancelled"]
          = [[Resolved EXCEPT !.asked = "journal"] EXCEPT !.run = "cancelled"]
    BY <2>1 DEF Database
  <2> QED
    BY <1>3, <2>1, <2>3, <2>4 DEF ReconcileCutover, Write
<1> QED
  BY <1>1, <1>2, <1>3

(* The generation of a chat goes up by one.                                 *)
LEMMA GenerationRaised ==
  ASSUME NEW d \in Database, NEW c \in Chats, NEW n \in Nat
  PROVE  /\ [d EXCEPT !.generation[c] = n] \in Database
         /\ [d EXCEPT !.generation[c] = n] = [d EXCEPT !.generation = [d.generation EXCEPT ![c] = n]]
         /\ d.generation[c] \in Nat
<1>1. d.generation \in [Chats -> Nat]
  BY DEF Database
<1>2. [d.generation EXCEPT ![c] = n] \in [Chats -> Nat]
  BY <1>1
<1>3. [d EXCEPT !.generation[c] = n] = [d EXCEPT !.generation = [d.generation EXCEPT ![c] = n]]
  OBVIOUS
<1> QED
  BY <1>1, <1>2, <1>3, Rewritten

(* A thread is a chat with a generation.                                   *)
LEMMA ThreadTyped ==
  ASSUME db \in Database, NEW c \in Chats
  PROVE  Thread(c) \in Chats \X Nat /\ Thread(c)[1] = c
<1>1. db.generation \in [Chats -> Nat]
  BY DEF Database
<1> QED
  BY <1>1 DEF Thread

(* So are those with a checkpoint.                                         *)
LEMMA ThreadsTyped ==
  ASSUME db \in Database
  PROVE  Threads \subseteq Chats \X Nat
BY ThreadTyped DEF Threads

(* The steps of the cutover leave the database typed: what they go through *)
(* is threads.                                                             *)
LEMMA CutoverTyped ==
  ASSUME Types, ListThreads \/ Roll \/ SeedInput \/ SeedMessages \/ Mark \/ EndCutover
  PROVE  db' \in Database
<1> USE DEF Types
<1>1. CASE ListThreads
  BY <1>1 DEF ListThreads, Loop
<1>2. CASE Roll
  <2>1. PICK t \in todo : IF t \in db.seeded THEN db' = [db EXCEPT !.generation[t[1]] = @ + 1] ELSE db' = db
    BY <1>2 DEF Roll, Loop
  <2>2. t[1] \in Chats
    BY <1>2, <2>1 DEF Roll, Loop, Loops
  <2>3. [db EXCEPT !.generation[t[1]] = @ + 1] = [db EXCEPT !.generation[t[1]] = db.generation[t[1]] + 1]
    BY DEF Database
  <2>4. db.generation[t[1]] + 1 \in Nat
    BY <2>2 DEF Database
  <2>5. [db EXCEPT !.generation[t[1]] = db.generation[t[1]] + 1] \in Database
    BY <2>2, <2>4, GenerationRaised
  <2>6. CASE t \in db.seeded
    BY <2>1, <2>3, <2>5, <2>6
  <2>7. CASE t \notin db.seeded
    BY <2>1, <2>7
  <2> QED
    BY <2>6, <2>7
<1>3. CASE SeedInput
  <2>1. db.begun \cup {Thread(chat[1])} \in SUBSET (Chats \X Nat)
    BY <1>3, ThreadTyped DEF Database, SeedInput, Write, Loops, Seeding
  <2> QED
    BY <1>3, <2>1, Rewritten DEF SeedInput, Write
<1>4. CASE SeedMessages
  <2>1. db.seeded \cup {Thread(chat[1])} \in SUBSET (Chats \X Nat)
    BY <1>4, ThreadTyped DEF Database, SeedMessages, Write, Loops, Seeding
  <2> QED
    BY <1>4, <2>1, Rewritten DEF SeedMessages, Write
<1>5. CASE Mark
  <2>1. db.processed \cup {chat} \in SUBSET (Chats \X Nat)
    BY <1>5 DEF Database, Mark, Write, Loops
  <2> QED
    BY <1>5, <2>1, Rewritten DEF Mark, Write
<1>6. CASE EndCutover
  BY <1>6, Rewritten DEF EndCutover, Write
<1> QED
  BY <1>1, <1>2, <1>3, <1>4, <1>5, <1>6

(* So do the steps of the migration, which go through chats.               *)
LEMMA MigrationTyped ==
  ASSUME Types, Migrate
  PROVE  db' \in Database
<1> USE DEF Types
<1>1. CASE Backup
  BY <1>1, Rewritten DEF Backup, Loop
<1>2. CASE NextChat
  <2>1. PICK c \in todo : db' = [db EXCEPT !.generation[c] = IF @ = 0 THEN 1 ELSE @]
    BY <1>2 DEF NextChat, Loop
  <2>2. c \in Chats
    BY <1>2, <2>1 DEF NextChat, Loop, Loops
  <2>3. (IF db.generation[c] = 0 THEN 1 ELSE db.generation[c]) \in Nat
    BY <2>2, GenerationRaised
  <2>4. db' = [db EXCEPT !.generation[c] = IF db.generation[c] = 0 THEN 1 ELSE db.generation[c]]
    BY <2>1 DEF Database
  <2> QED
    BY <2>2, <2>3, <2>4, GenerationRaised
<1>3. CASE Admit
  <2>1. PICK m \in Of(chat[1]) \ db.journal : db' = [db EXCEPT !.journal = db.journal \cup {m}]
    BY <1>3 DEF Admit, Write
  <2>2. db.journal \cup {m} \in SUBSET Messages
    BY <2>1 DEF Of, Database
  <2> QED
    BY <2>1, <2>2, Rewritten
<1>4. CASE EndChat
  BY <1>4 DEF EndChat, Write
<1>5. CASE EndChats
  BY <1>5 DEF EndChats, Write
<1>6. CASE MigrateEscalation
  <2>1. PICK r \in (Open \cap db.records) \ db.interrupts : db' = [db EXCEPT !.interrupts = db.interrupts \cup {r}]
    BY <1>6 DEF MigrateEscalation, Write
  <2>2. db.interrupts \cup {r} \in SUBSET Open
    BY <2>1 DEF Database
  <2> QED
    BY <2>1, <2>2, Rewritten
<1>7. CASE EndEscalations
  BY <1>7 DEF EndEscalations, Write
<1>8. CASE Archive
  <2>1. db.archive \cup db.records \in SUBSET Records
    BY DEF Database
  <2> QED
    BY <1>8, <2>1, Rewritten DEF Archive, Write
<1>9. CASE Validate
  BY <1>9 DEF Validate, Write
<1>10. CASE DropLegacy
  BY <1>10, Rewritten DEF DropLegacy, Write
<1>11. CASE Complete
  BY <1>11, Rewritten DEF Complete, Write
<1> QED
  BY <1>1, <1>2, <1>3, <1>4, <1>5, <1>6, <1>7, <1>8, <1>9, <1>10, <1>11 DEF Migrate

(* Where a step goes, and which loop it is in.                              *)
LEMMA PhasesStep ==
  ASSUME Types, MigratedOnce, FirstChats, Step
  PROVE  pc' \in Phases /\ UNCHANGED <<was, torn>> /\ Loops'
<1> USE DEF Phases, Nine, Eleven, Twelve, Carrying, Cutting, Seeding, Migrating, Loops
<1>1. CASE CreateMailbox
  BY <1>1 DEF CreateMailbox, Create, Write
<1>2. CASE FillMailbox
  BY <1>2 DEF FillMailbox, Write
<1>3. CASE CreateOutbound
  BY <1>3 DEF CreateOutbound, Create, Write
<1>4. CASE FillOutbound
  BY <1>4 DEF FillOutbound, Write
<1>5. CASE RecordNine
  BY <1>5 DEF RecordNine, Record, Write
<1>6. CASE DropQueue
  BY <1>6 DEF DropQueue, Write
<1>7. CASE RecordEleven
  BY <1>7 DEF RecordEleven, Record, Write
<1>8. CASE CreatePolicies \/ CreateEvents
  BY <1>8 DEF CreatePolicies, CreateEvents, Create, Write
<1>9. CASE FillEvents
  BY <1>9 DEF FillEvents, Write
<1>10. CASE CreateWork
  BY <1>10 DEF CreateWork, Create, Write
<1>11. CASE FillWork
  BY <1>11 DEF FillWork, Write
<1>12. CASE SetCursor
  BY <1>12 DEF SetCursor, Write
<1>13. CASE DropMailbox
  BY <1>13 DEF DropMailbox, Write
<1>14. CASE RecordTwelve
  BY <1>14 DEF RecordTwelve, Record, Write
<1>15. CASE Start
  BY <1>15 DEF Start, Write, Script
<1>16. CASE SplitSettings
  BY <1>16 DEF SplitSettings, Write
<1>17. CASE SkipSelection
  BY <1>17 DEF SkipSelection, Write
<1>18. CASE SaveSelection
  BY <1>18 DEF SaveSelection, Write
<1>19. CASE ForgetSelection
  BY <1>19 DEF ForgetSelection, Write
<1>20. CASE ReconcileDispatches
  BY <1>20 DEF ReconcileDispatches, Write
<1>21. CASE ReconcileAbandoned
  BY <1>21 DEF ReconcileAbandoned, Write
<1>22. CASE ListThreads
  BY <1>22, ThreadsTyped DEF ListThreads, Loop, Types
<1>23. CASE Roll
  BY <1>23 DEF Roll, Loop, Types, MigratedOnce, FirstChats, Database
<1>24. CASE SeedInput
  BY <1>24 DEF SeedInput, Write, Types, Database, MigratedOnce
<1>25. CASE SeedMessages
  BY <1>25 DEF SeedMessages, Write, Types, Database, MigratedOnce
<1>26. CASE Mark
  <2>1. pc' = "rolling" /\ pc = "mark" /\ todo' = todo /\ chat' = chat /\ UNCHANGED <<was, torn>>
    BY <1>26 DEF Mark, Write
  <2> QED
    BY <2>1 DEF Types
<1>27. CASE EndCutover
  BY <1>27 DEF EndCutover, Write
<1>28. CASE ReconcileCutover
  BY <1>28 DEF ReconcileCutover, Write
<1>29. CASE Backup
  BY <1>29 DEF Backup, Loop
<1>30. CASE NextChat
  BY <1>30 DEF NextChat, Loop, Types
<1>31. CASE Admit
  <2>1. pc' = "admit" /\ pc = "admit" /\ todo' = todo /\ chat' = chat /\ UNCHANGED <<was, torn>>
    BY <1>31 DEF Admit, Write
  <2> QED
    BY <2>1 DEF Types
<1>32. CASE EndChat
  BY <1>32 DEF EndChat, Write, Types, MigratedOnce
<1>33. CASE EndChats
  BY <1>33 DEF EndChats, Write
<1>34. CASE MigrateEscalation
  BY <1>34 DEF MigrateEscalation, Write
<1>35. CASE EndEscalations
  BY <1>35 DEF EndEscalations, Write
<1>36. CASE Archive
  BY <1>36 DEF Archive, Write
<1>37. CASE Validate
  BY <1>37 DEF Validate, Write
<1>38. CASE DropLegacy
  BY <1>38 DEF DropLegacy, Write
<1>39. CASE Complete
  BY <1>39 DEF Complete, Write
<1> QED
  BY <1>1, <1>2, <1>3, <1>4, <1>5, <1>6, <1>7, <1>8, <1>9, <1>10, <1>11, <1>12, <1>13, <1>14, <1>15,
     <1>16, <1>17, <1>18, <1>19, <1>20, <1>21, <1>22, <1>23, <1>24, <1>25, <1>26, <1>27, <1>28, <1>29,
     <1>30, <1>31, <1>32, <1>33, <1>34, <1>35, <1>36, <1>37, <1>38, <1>39 DEF Step, Schema, Migrate

(* Every step keeps the types. That the loop of the cutover has nothing to *)
(* seed in a first installation, which is FirstChats, is why the two loops *)
(* are never mixed up.                                                     *)
LEMMA TypesStep ==
  ASSUME Types, MigratedOnce, FirstChats, [Next]_vars
  PROVE  Types'
<1>1. CASE Step
  <2>1. db' \in Database
    <3>1. CASE Start
      BY <3>1 DEF Start, Write, Types
    <3> QED
      BY <1>1, <3>1, SchemaTyped, CarryingTyped, ReconciliationTyped, CutoverTyped, MigrationTyped DEF
         Step, Types
  <2> QED
    BY <1>1, <2>1, PhasesStep DEF Types
<1>2. CASE Crash
  BY <1>2 DEF Crash, Cuts, Types, Loops, Phases, Seeding
<1>3. CASE UNCHANGED vars
  BY <1>3 DEF vars, Types, Loops
<1> QED
  BY <1>1, <1>2, <1>3 DEF Next

-----------------------------------------------------------------------------
(* The scripts, and the inputs and side effects they carry over.           *)

(* The inductive invariant: what the scripts have made,                    *)
SchemaInv == Versions /\ Tabled /\ Copied /\ InputsResolved /\ CursorIsRight /\ JournalIsSound
Upgraded == Carrying \cup Cutting \cup Seeding \cup Migrating \cup {"live"}

(* The rows of before are mails and actions.                                *)
LEMMA RowsOfBefore ==
  ASSUME Found
  PROVE  /\ \A e \in Entries : Mail0(e) \in Mails \cup {None}
         /\ \A x \in Deliveries : Action0(x) \in Actions \cup {None}
         /\ \A e \in Entries : Work0(e) \in WorkState \cup {None}
<1>1. /\ \A e \in Entries : was.queue[e] \in Queued \cup {None} /\ was.mailbox[e] \in Mails \cup {None}
      /\ \A x \in Deliveries : was.deliveries[x] \in Results \cup {None} /\ was.outbound[x] \in Actions \cup {None}
  BY DEF Found, Database
<1>2. \A e \in Entries : Mail0(e) \in Mails \cup {None}
  BY <1>1, RowsOfScripts DEF Mail0
<1>3. \A x \in Deliveries : Action0(x) \in Actions \cup {None}
  BY <1>1, RowsOfScripts DEF Action0
<1>4. \A e \in Entries : Work0(e) \in WorkState \cup {None}
  BY <1>2, RowsOfScripts DEF Work0
<1> QED
  BY <1>2, <1>3, <1>4

(* What was found is history.                                              *)
LEMMA RowsOfBeforeStay ==
  ASSUME was' = was
  PROVE  /\ \A e \in Entries : Mail0(e)' = Mail0(e) /\ Event0(e)' = Event0(e) /\ Work0(e)' = Work0(e)
         /\ \A x \in Deliveries : Action0(x)' = Action0(x)
BY DEF Mail0, Event0, Work0, Action0

(* Of the work a mail becomes: it is there unless the mail is done, and in  *)
(* the state of the mail, as is the context.                                *)
LEMMA WorkOfMails ==
  ASSUME Found, NEW e \in Entries
  PROVE  /\ Mail0(e) # None /\ Mail0(e).state \in {"pending", "claimed"}
              => Work0(e) # None /\ Work0(e).state = Mail0(e).state
         /\ Event0(e) = "claimed" => Work0(e) # None /\ Work0(e).state = "claimed"
         /\ Work0(e) # None /\ Work0(e).state = "claimed"
              => Event0(e) \in {None, "claimed"} /\ Mail0(e) # None /\ Mail0(e).state = "claimed"
<1>1. CASE Mail0(e) = None
  BY <1>1, NoneAssumption DEF Work0, Event0
<1>2. CASE Mail0(e) # None
  <2> DEFINE m == Mail0(e)
  <2>1. m \in Mails
    BY <1>2, RowsOfBefore
  <2>2. [state |-> m.state, run |-> m.run] \in WorkState /\ WorkState = [state : States, run : BOOLEAN]
    BY <2>1 DEF Mails, WorkState
  <2>3. [state |-> m.state, run |-> m.run] # None
    BY <2>2, NoneAssumption
  <2>4. Work0(e) = WorkOf(m) /\ Event0(e) = ContextOf(m)
    BY <1>2 DEF Work0, Event0
  <2>5. Work0(e) # None => Work0(e).state = m.state
    BY <2>3, <2>4 DEF WorkOf
  <2>6. m.state # "completed" => Work0(e) # None
    BY <2>3, <2>4 DEF WorkOf
  <2>7. Event0(e) = "claimed" <=> m.kind = "message" /\ m.state = "claimed"
    BY <2>4, NoneAssumption DEF ContextOf
  <2>8. m.kind # "message" => Event0(e) = None
    BY <2>4 DEF ContextOf
  <2> HIDE DEF m
  <2>9. m = Mail0(e)
    BY DEF m
  <2> QED
    BY <1>2, <2>5, <2>6, <2>7, <2>8, <2>9
<1> QED
  BY <1>1, <1>2

(* A step that leaves the tables of the scripts alone.                      *)
LEMMA SchemaKept ==
  ASSUME SchemaInv, UNCHANGED <<SchemaRows, was>>,
         \/ pc' \in {"down", "failed"}
         \/ pc' = "mailbox" /\ db.version = 8
         \/ pc' = "drop" /\ db.version = 9
         \/ pc' = "policies" /\ db.version = 11
         \/ pc' \in Upgraded /\ db.version = 12
  PROVE  SchemaInv'
<1> USE DEF SchemaInv, SchemaRows
<1>1. \/ pc' \in {"down", "failed", "mailbox", "drop", "policies"}
      \/ pc' \in Upgraded
  OBVIOUS
<1>2. pc' \notin {"mails", "outbound", "actions", "nine", "copy", "work", "works", "cursor", "empty",
                 "twelve", "eleven"}
  BY <1>1 DEF Upgraded, Carrying, Cutting, Seeding, Migrating
<1>3. Versions'
  BY DEF Versions, Nine, Eleven, Twelve, Upgraded, Carrying, Cutting, Seeding, Migrating
<1>4. Tabled'
  BY <1>2 DEF Tabled
<1>5. Copied'
  BY <1>2, RowsOfBeforeStay DEF Copied
<1>6. InputsResolved'
  BY RowsOfBeforeStay DEF InputsResolved
<1>7. CursorIsRight'
  BY <1>2 DEF CursorIsRight
<1>8. JournalIsSound'
  BY DEF JournalIsSound, Claimed
<1> QED
  BY <1>3, <1>4, <1>5, <1>6, <1>7, <1>8

(* What became of the side effects, as the runtime reads it from the rows,  *)
(* is what was visible in the installation that was found.                  *)
LEMMA OutcomeIsVisible ==
  ASSUME Types, Found, Copied, db.version = 12
  PROVE  Outcome # "pending" <=> Visible(was)
<1>1. \A x \in Deliveries :
        /\ db.outbound[x] \in Actions \cup {None}
        /\ Action0(x) \in Actions \cup {None}
        /\ \/ db.outbound[x] = Action0(x)
           \/ /\ Action0(x) # None /\ Action0(x).state = "dispatching"
              /\ db.outbound[x] = [state |-> "ambiguous", accepted |-> FALSE]
  BY RowsOfBefore DEF Copied, Types, Database
<1>2. [state |-> "ambiguous", accepted |-> FALSE] # None
  <2>1. [state |-> "ambiguous", accepted |-> FALSE] \in Actions
    BY DEF Actions, Dispatches
  <2> QED
    BY <2>1, NoneAssumption
<1> DEFINE Quiet(x) == Action0(x) # None => Action0(x).state = "failed" /\ ~Action0(x).accepted
<1>3. ASSUME NEW x \in Deliveries
      PROVE  (x \in Taken => db.outbound[x].state = "failed" /\ ~db.outbound[x].accepted) <=> Quiet(x)
  <2>1. CASE db.outbound[x] = Action0(x)
    BY <2>1 DEF Taken
  <2>2. CASE /\ Action0(x) # None /\ Action0(x).state = "dispatching"
             /\ db.outbound[x] = [state |-> "ambiguous", accepted |-> FALSE]
    BY <1>2, <2>2 DEF Taken
  <2> QED
    BY <1>1, <2>1, <2>2
<1>4. Outcome = "pending" <=> \A x \in Deliveries : Quiet(x)
  <2>1. (\A x \in Taken : db.outbound[x].state = "failed" /\ ~db.outbound[x].accepted)
           <=> \A x \in Deliveries : Quiet(x)
    BY <1>3 DEF Taken
  <2>2. (\A x \in Taken : db.outbound[x].state = "failed" /\ ~db.outbound[x].accepted)
           => ~(Taken # {} /\ \A x \in Taken : db.outbound[x].state = "succeeded")
    OBVIOUS
  <2> HIDE DEF Quiet
  <2> QED
    BY <2>1, <2>2 DEF Outcome
<1>5. ASSUME NEW x \in Deliveries
      PROVE  Quiet(x) <=> /\ was.deliveries[x] \in {None, "rejected"}
                          /\ ~(was.outbound[x] # None /\ (was.outbound[x].state # "failed" \/ was.outbound[x].accepted))
  <2>1. CASE was.version = 11
    <3>1. was.deliveries[x] = None /\ Action0(x) = was.outbound[x]
      BY <2>1 DEF Found, NoEffects, Action0
    <3> QED
      BY <3>1
  <2>2. CASE was.version = 8
    <3>1. was.outbound[x] = None /\ was.deliveries[x] \in Results \cup {None}
      BY <2>2 DEF Found, NoEffects, Database
    <3>2. CASE was.deliveries[x] = None
      BY <2>2, <3>1, <3>2 DEF Action0
    <3>3. CASE was.deliveries[x] # None
      <4> DEFINE r == was.deliveries[x]
      <4>1. r \in Results /\ Action0(x) = ActionOf(r)
        BY <2>2, <3>1, <3>3 DEF Action0
      <4>2. ActionOf(r) # None
        BY <4>1, RowsOfScripts, NoneAssumption
      <4>3. (ActionOf(r).state = "failed" <=> r \in {"partly", "rejected"})
            /\ (ActionOf(r).accepted <=> r \in {"accepted", "partly"})
        <5> HIDE DEF r
        <5>1. ActionOf(r).state = CASE r = "claimed" -> "ambiguous"
                                    [] r \in {"partly", "rejected"} -> "failed"
                                    [] OTHER -> "succeeded"
          BY DEF ActionOf
        <5>2. ActionOf(r).accepted = (r \in {"accepted", "partly"})
          BY DEF ActionOf
        <5>3. r = "claimed" => ActionOf(r).state = "ambiguous"
          BY <5>1
        <5>4. r \in {"partly", "rejected"} => ActionOf(r).state = "failed"
          BY <5>1
        <5>5. r = "accepted" => ActionOf(r).state = "succeeded"
          BY <5>1
        <5> QED
          BY <4>1, <5>2, <5>3, <5>4, <5>5 DEF Results
      <4>4. r \in {None, "rejected"} <=> r = "rejected"
        BY <3>3
      <4> HIDE DEF r
      <4>5. r = was.deliveries[x]
        BY DEF r
      <4> QED
        BY <3>1, <4>1, <4>2, <4>3, <4>4, <4>5 DEF Results
    <3> QED
      BY <3>2, <3>3
  <2> QED
    BY <2>1, <2>2 DEF Found
<1>6. ~Visible(was) <=> \A x \in Deliveries : Quiet(x)
  BY <1>5 DEF Visible
<1> HIDE DEF Quiet
<1> QED
  BY <1>4, <1>6

(* A script that meets a table of its own.                                  *)
LEMMA SchemaFails ==
  ASSUME SchemaInv, db' = db, was' = was, pc' = "failed"
  PROVE  SchemaInv'
BY SchemaKept DEF SchemaRows

(* Script 9: the two tables are copied row by row, and while it runs the   *)
(* version is still 8 and nothing of script 12 is there.                   *)
LEMMA ScriptNineStep ==
  ASSUME Types, Found, SchemaInv,
         CreateMailbox \/ FillMailbox \/ CreateOutbound \/ FillOutbound \/ RecordNine
  PROVE  SchemaInv'
<1> USE DEF SchemaInv
<1>0. was' = was /\ db.work' = db.work /\ db.events' = db.events /\ db.cursor' = db.cursor
      /\ db.queue' = db.queue /\ db.deliveries' = db.deliveries
  <2>1. CASE CreateMailbox
    BY <2>1 DEF CreateMailbox, Create, Write, Database, Types
  <2>2. CASE FillMailbox
    BY <2>2 DEF FillMailbox, Write, Database, Types
  <2>3. CASE CreateOutbound
    BY <2>3 DEF CreateOutbound, Create, Write, Database, Types
  <2>4. CASE FillOutbound
    BY <2>4 DEF FillOutbound, Write, Database, Types
  <2>5. CASE RecordNine
    BY <2>5 DEF RecordNine, Record, Write, Database, Types
  <2> QED
    BY <2>1, <2>2, <2>3, <2>4, <2>5
<1>1. db.version = 8 /\ was.version = 8
  BY DEF Versions, Nine, CreateMailbox, FillMailbox, CreateOutbound, FillOutbound, RecordNine, Create,
     Record, Write
<1>2. "events" \notin db.tables
  BY <1>1 DEF Tabled
<1>3. ASSUME \/ pc' \in {"mails", "outbound", "actions", "nine"} /\ db'.version = 8
             \/ pc' = "drop" /\ db'.version = 9,
             "mailbox" \in db'.tables, "events" \notin db'.tables,
             pc' \in {"outbound", "actions", "nine", "drop"} => \A e \in Entries : db'.mailbox[e] = Mail0(e),
             pc' \in {"nine", "drop"} => \A x \in Deliveries : db'.outbound[x] = Action0(x)
      PROVE  SchemaInv'
  <2>1. Versions'
    BY <1>0, <1>1, <1>3 DEF Versions, Nine, Eleven, Twelve, Carrying, Cutting, Seeding, Migrating
  <2>2. Tabled'
    BY <1>3 DEF Tabled
  <2>3. Copied'
    BY <1>0, <1>1, <1>3, RowsOfBeforeStay DEF Copied
  <2>4. InputsResolved'
    BY <1>0, <1>3, RowsOfBeforeStay DEF InputsResolved
  <2>5. CursorIsRight'
    BY <1>3 DEF CursorIsRight
  <2>6. JournalIsSound'
    BY <1>3 DEF JournalIsSound
  <2> QED
    BY <2>1, <2>2, <2>3, <2>4, <2>5, <2>6
<1>4. CASE CreateMailbox
  <2>1. CASE "mailbox" \in db.tables
    <3>1. pc' = "failed" /\ db' = db
      BY <1>4, <2>1 DEF CreateMailbox, Create, Write
    <3> QED
      BY <1>0, <3>1, SchemaFails
  <2>2. CASE "mailbox" \notin db.tables
    <3>1. pc' = "mails" /\ db'.version = db.version /\ db'.tables = db.tables \cup {"mailbox"}
      BY <1>4, <2>2 DEF CreateMailbox, Create, Write, Database, Types
    <3> QED
      BY <1>1, <1>2, <1>3, <3>1
  <2> QED
    BY <2>1, <2>2
<1>5. CASE FillMailbox
  <2>1. pc = "mails" /\ pc' = "outbound" /\ db'.version = db.version /\ db'.tables = db.tables
        /\ \A e \in Entries : db'.mailbox[e] = IF db.queue[e] = None THEN None ELSE MailOf(db.queue[e])
    BY <1>5 DEF FillMailbox, Write, Database, Types
  <2>2. \A e \in Entries : db'.mailbox[e] = Mail0(e)
    BY <1>1, <2>1 DEF Copied, Mail0
  <2>3. "mailbox" \in db'.tables /\ "events" \notin db'.tables
    BY <1>2, <2>1 DEF Tabled
  <2> QED
    BY <1>1, <1>3, <2>1, <2>2, <2>3
<1>6. CASE CreateOutbound
  <2>1. CASE "outbound" \in db.tables
    <3>1. pc' = "failed" /\ db' = db
      BY <1>6, <2>1 DEF CreateOutbound, Create, Write
    <3> QED
      BY <1>0, <3>1, SchemaFails
  <2>2. CASE "outbound" \notin db.tables
    <3>1. pc = "outbound" /\ pc' = "actions" /\ db'.version = db.version
          /\ db'.tables = db.tables \cup {"outbound"} /\ db'.mailbox = db.mailbox
      BY <1>6, <2>2 DEF CreateOutbound, Create, Write, Database, Types
    <3>2. "mailbox" \in db.tables
      BY <3>1 DEF Tabled
    <3>3. \A e \in Entries : db'.mailbox[e] = Mail0(e)
      BY <3>1, <3>2 DEF Copied
    <3> QED
      BY <1>1, <1>2, <1>3, <3>1, <3>2, <3>3
  <2> QED
    BY <2>1, <2>2
<1>7. CASE FillOutbound
  <2>1. pc = "actions" /\ pc' = "nine" /\ db'.version = db.version /\ db'.tables = db.tables
        /\ db'.mailbox = db.mailbox
        /\ \A x \in Deliveries : db'.outbound[x] = IF db.deliveries[x] = None THEN None ELSE ActionOf(db.deliveries[x])
    BY <1>7 DEF FillOutbound, Write, Database, Types
  <2>2. \A x \in Deliveries : db'.outbound[x] = Action0(x)
    BY <1>1, <2>1 DEF Copied, Action0
  <2>3. "mailbox" \in db'.tables /\ "events" \notin db'.tables /\ \A e \in Entries : db'.mailbox[e] = Mail0(e)
    BY <1>2, <2>1 DEF Tabled, Copied
  <2> QED
    BY <1>1, <1>3, <2>1, <2>2, <2>3
<1>8. CASE RecordNine
  <2>1. pc = "nine" /\ pc' = "drop" /\ db'.version = 9 /\ db'.tables = db.tables
        /\ db'.mailbox = db.mailbox /\ db'.outbound = db.outbound
    BY <1>8 DEF RecordNine, Record, Write, Database, Types
  <2>2. "mailbox" \in db'.tables /\ "events" \notin db'.tables /\ \A e \in Entries : db'.mailbox[e] = Mail0(e)
    BY <1>2, <2>1 DEF Tabled, Copied
  <2>3. \A x \in Deliveries : \/ db'.outbound[x] = Action0(x)
        \/ (Action0(x) # None /\ Action0(x).state = "dispatching"
            /\ db'.outbound[x] = [state |-> "ambiguous", accepted |-> FALSE])
    BY <2>1 DEF Copied
  <2>4. \A x \in Deliveries : Action0(x) # None => Action0(x).state # "dispatching"
    <3> SUFFICES ASSUME NEW x \in Deliveries, Action0(x) # None PROVE Action0(x).state # "dispatching"
      OBVIOUS
    <3>1. was.deliveries[x] \in Results /\ Action0(x) = ActionOf(was.deliveries[x])
      BY <1>1 DEF Action0, Found, Database
    <3>2. ActionOf(was.deliveries[x]).state # "dispatching"
      <4> DEFINE r == was.deliveries[x]
      <4> HIDE DEF r
      <4>1. ActionOf(r).state = CASE r = "claimed" -> "ambiguous"
                                    [] r \in {"partly", "rejected"} -> "failed"
                                    [] OTHER -> "succeeded"
          BY DEF ActionOf
      <4>2. r \in Results => ActionOf(r).state # "dispatching"
        BY <4>1 DEF Results
      <4> QED
        BY <3>1, <4>2 DEF r
    <3> QED
      BY <3>1, <3>2
  <2>5. \A x \in Deliveries : db'.outbound[x] = Action0(x)
    BY <2>3, <2>4
  <2> QED
    BY <1>3, <2>1, <2>2, <2>5
<1> QED
  BY <1>4, <1>5, <1>6, <1>7, <1>8

(* Script 11 drops what has been copied.                                   *)
LEMMA ScriptElevenStep ==
  ASSUME Types, Found, SchemaInv, DropQueue \/ RecordEleven
  PROVE  SchemaInv'
<1> USE DEF SchemaInv
<1>1. /\ was' = was /\ db'.work = db.work /\ db'.mailbox = db.mailbox /\ db'.outbound = db.outbound
      /\ db'.events = db.events /\ db'.cursor = db.cursor
      /\ db'.tables \in {db.tables, db.tables \ {"queue"}}
      /\ \/ pc' = "eleven" /\ db'.version = db.version
         \/ pc' = "policies" /\ db'.version = 11
  <2>1. CASE DropQueue
    BY <2>1 DEF DropQueue, Write, Database, Types
  <2>2. CASE RecordEleven
    BY <2>2 DEF RecordEleven, Record, Write, Database, Types
  <2> QED
    BY <2>1, <2>2
<1>2. db.version = 9 /\ was.version = 8
  BY DEF Versions, Eleven, DropQueue, RecordEleven, Record, Write
<1>3. "events" \notin db'.tables /\ "mailbox" \in db'.tables /\ "mailbox" \in db.tables
  BY <1>1, <1>2 DEF Tabled
<1>4. Versions'
  BY <1>1, <1>2 DEF Versions, Nine, Eleven, Twelve, Carrying, Cutting, Seeding, Migrating
<1>5. Tabled'
  BY <1>1, <1>2, <1>3 DEF Tabled
<1>6. Copied'
  BY <1>1, <1>2, <1>3, RowsOfBeforeStay DEF Copied
<1>7. InputsResolved'
  BY <1>1, <1>3, RowsOfBeforeStay DEF InputsResolved
<1>8. CursorIsRight'
  BY <1>1 DEF CursorIsRight
<1>9. JournalIsSound'
  BY <1>3 DEF JournalIsSound
<1> QED
  BY <1>4, <1>5, <1>6, <1>7, <1>8, <1>9

(* Script 12 up to the cursor: its tables are filled from a mailbox that   *)
(* is still whole.                                                         *)
LEMMA ScriptTwelveStep ==
  ASSUME Types, Found, SchemaInv,
         CreatePolicies \/ CreateEvents \/ FillEvents \/ CreateWork \/ FillWork \/ SetCursor
  PROVE  SchemaInv'
<1> USE DEF SchemaInv
<1>0. was' = was /\ db'.version = db.version /\ db'.outbound = db.outbound /\ db'.mailbox = db.mailbox
  <2>1. CASE CreatePolicies \/ CreateEvents
    BY <2>1 DEF CreatePolicies, CreateEvents, Create, Write, Database, Types
  <2>2. CASE FillEvents
    BY <2>2 DEF FillEvents, Write, Database, Types
  <2>3. CASE CreateWork
    BY <2>3 DEF CreateWork, Create, Write, Database, Types
  <2>4. CASE FillWork
    BY <2>4 DEF FillWork, Write, Database, Types
  <2>5. CASE SetCursor
    BY <2>5 DEF SetCursor, Write, Database, Types
  <2> QED
    BY <2>1, <2>2, <2>3, <2>4, <2>5
<1>1. db.version = 11
  BY DEF Versions, Twelve, CreatePolicies, CreateEvents, FillEvents, CreateWork, FillWork, SetCursor, Create, Write
<1>2. ASSUME pc' \in {"copy", "work", "works", "cursor", "empty"},
             "mailbox" \in db'.tables, "events" \in db'.tables,
             "mailbox" \in db.tables,
             pc' \in {"work", "works", "cursor", "empty"} => \A e \in Entries : db'.events[e] = Event0(e),
             pc' \in {"cursor", "empty"} => \A e \in Entries : db'.work[e] = Work0(e),
             pc' \in {"copy", "work", "works"} => db'.work = db.work,
             CursorIsRight'
      PROVE  SchemaInv'
  <2>1. Versions'
    BY <1>0, <1>1, <1>2 DEF Versions, Nine, Eleven, Twelve, Carrying, Cutting, Seeding, Migrating
  <2>2. Tabled'
    BY <1>0, <1>1, <1>2 DEF Tabled
  <2>3. Copied'
    BY <1>0, <1>1, <1>2, RowsOfBeforeStay DEF Copied
  <2>4. InputsResolved'
    BY <1>0, <1>2, RowsOfBeforeStay DEF InputsResolved
  <2>5. JournalIsSound'
    BY <1>2 DEF JournalIsSound
  <2> QED
    BY <1>2, <2>1, <2>2, <2>3, <2>4, <2>5
<1>3. CASE CreateEvents
  <2>1. CASE "events" \in db.tables
    <3>1. pc' = "failed" /\ db' = db
      BY <1>3, <2>1 DEF CreateEvents, Create, Write
    <3> QED
      BY <1>0, <3>1, SchemaFails
  <2>2. CASE "events" \notin db.tables
    <3>1. pc' = "copy" /\ db'.work = db.work /\ db'.tables = db.tables \cup {"events"}
      BY <1>3, <2>2 DEF CreateEvents, Create, Write, Database, Types
    <3>2. "mailbox" \in db.tables
      BY <1>1, <2>2 DEF Tabled
    <3> QED
      BY <1>2, <3>1, <3>2 DEF CursorIsRight
  <2> QED
    BY <2>1, <2>2
<1>4. CASE FillEvents
  <2>1. pc = "copy" /\ pc' = "work" /\ db'.tables = db.tables /\ db'.work = db.work
        /\ \A e \in Entries : db'.events[e] = IF db.mailbox[e] = None THEN None ELSE ContextOf(db.mailbox[e])
    BY <1>4 DEF FillEvents, Write, Database, Types
  <2>2. "mailbox" \in db.tables /\ "events" \in db.tables
    BY <2>1 DEF Tabled
  <2>3. \A e \in Entries : db'.events[e] = Event0(e)
    BY <1>1, <2>1, <2>2 DEF Copied, Event0
  <2> QED
    BY <1>2, <2>1, <2>2, <2>3 DEF CursorIsRight
<1>5. CASE CreateWork
  <2>1. CASE "work" \in db.tables
    <3>1. pc' = "failed" /\ db' = db
      BY <1>5, <2>1 DEF CreateWork, Create, Write
    <3> QED
      BY <1>0, <3>1, SchemaFails
  <2>2. CASE "work" \notin db.tables
    <3>1. pc = "work" /\ pc' = "works" /\ db'.work = db.work /\ db'.events = db.events
          /\ db'.tables = db.tables \cup {"work"}
      BY <1>5, <2>2 DEF CreateWork, Create, Write, Database, Types
    <3>2. "mailbox" \in db.tables /\ "events" \in db.tables
      BY <3>1 DEF Tabled
    <3>3. \A e \in Entries : db'.events[e] = Event0(e)
      BY <3>1 DEF Copied
    <3> QED
      BY <1>2, <3>1, <3>2, <3>3 DEF CursorIsRight
  <2> QED
    BY <2>1, <2>2
<1>6. CASE FillWork
  <2>1. pc = "works" /\ pc' = "cursor" /\ db'.tables = db.tables /\ db'.events = db.events
        /\ \A e \in Entries : db'.work[e] = IF db.mailbox[e] = None THEN None ELSE WorkOf(db.mailbox[e])
    BY <1>6 DEF FillWork, Write, Database, Types
  <2>2. "mailbox" \in db.tables /\ "events" \in db.tables
    BY <2>1 DEF Tabled
  <2>3. \A e \in Entries : db'.work[e] = Work0(e) /\ db'.events[e] = Event0(e)
    BY <1>1, <2>1, <2>2 DEF Copied, Work0
  <2> QED
    BY <1>2, <2>1, <2>2, <2>3 DEF CursorIsRight
<1>7. CASE SetCursor
  <2>1. pc = "cursor" /\ pc' = "empty" /\ db'.tables = db.tables /\ db'.events = db.events
        /\ db'.work = db.work /\ db'.cursor = Cursor
    BY <1>7, CursorIsSound DEF SetCursor, Write, Database, Types
  <2>2. "mailbox" \in db.tables /\ "events" \in db.tables
    BY <2>1 DEF Tabled
  <2>3. \A e \in Entries : db'.work[e] = Work0(e) /\ db'.events[e] = Event0(e)
    BY <2>1 DEF Copied
  <2>4. ASSUME NEW e \in Entries, e <= Cursor PROVE db.events[e] \in {None, "applied"}
    <3>1. e \in Nat \ {0}
      BY UpgradeAssumption
    <3> QED
      BY <2>4, <3>1, CursorIsSound
  <2>5. CursorIsRight'
    BY <2>1, <2>4 DEF CursorIsRight
  <2> QED
    BY <1>2, <2>1, <2>2, <2>3, <2>5
<1>8. CASE CreatePolicies
  <2>1. CASE "policies" \in db.tables
    <3>1. pc' = "failed" /\ db' = db
      BY <1>8, <2>1 DEF CreatePolicies, Create, Write
    <3> QED
      BY <1>0, <3>1, SchemaFails
  <2>2. CASE "policies" \notin db.tables
    <3>1. /\ pc' = "events" /\ db'.work = db.work /\ db'.events = db.events /\ db'.cursor = db.cursor
          /\ db'.tables = db.tables \cup {"policies"}
      BY <1>8, <2>2 DEF CreatePolicies, Create, Write, Database, Types
    <3>2. Versions'
      BY <1>0, <1>1, <3>1 DEF Versions, Nine, Eleven, Twelve, Carrying, Cutting, Seeding, Migrating
    <3>3. Tabled'
      BY <1>0, <3>1 DEF Tabled
    <3>4. Copied'
      BY <1>0, <1>1, <3>1, RowsOfBeforeStay DEF Copied
    <3>5. InputsResolved'
      BY <1>0, <3>1, RowsOfBeforeStay DEF InputsResolved
    <3>6. CursorIsRight'
      BY <3>1 DEF CursorIsRight
    <3>7. JournalIsSound'
      BY <3>1 DEF JournalIsSound, Claimed
    <3> QED
      BY <3>2, <3>3, <3>4, <3>5, <3>6, <3>7
  <2> QED
    BY <2>1, <2>2
<1> QED
  BY <1>3, <1>4, <1>5, <1>6, <1>7, <1>8

(* The mailbox goes when everything in it is in the journal.                *)
LEMMA MailboxStep ==
  ASSUME Types, Found, SchemaInv, DropMailbox \/ RecordTwelve
  PROVE  SchemaInv'
<1> USE DEF SchemaInv
<1>1. CASE DropMailbox
  <2>1. /\ was' = was /\ db'.version = db.version /\ db'.outbound = db.outbound /\ db'.work = db.work
        /\ db'.events = db.events /\ db'.cursor = db.cursor /\ db'.tables = db.tables \ {"mailbox"}
        /\ pc = "empty" /\ pc' = "twelve"
    BY <1>1 DEF DropMailbox, Write, Database, Types
  <2>2. db.version = 11 /\ "events" \in db.tables
    BY <2>1 DEF Versions, Twelve, Tabled
  <2>3. \A e \in Entries : db.work[e] = Work0(e) /\ db.events[e] = Event0(e)
    BY <2>1 DEF Copied
  <2>4. Versions'
    BY <2>1, <2>2 DEF Versions, Nine, Eleven, Twelve, Carrying, Cutting, Seeding, Migrating
  <2>5. Tabled'
    BY <2>1, <2>2 DEF Tabled
  <2>6. Copied'
    BY <2>1, <2>2, RowsOfBeforeStay DEF Copied
  <2>7. InputsResolved'
    BY <2>1, <2>3, WorkOfMails, RowsOfBeforeStay DEF InputsResolved
  <2>8. CursorIsRight'
    BY <2>1 DEF CursorIsRight
  <2>9. JournalIsSound'
    <3>1. \A e \in Entries : e <= db'.cursor => db'.events[e] \in {None, "applied"}
      BY <2>1 DEF CursorIsRight
    <3>2. \A e \in Entries : db'.events[e] = "claimed" => e \in Claimed'
      BY <2>1, <2>3, WorkOfMails DEF Claimed
    <3>3. \A e \in Claimed' : db'.events[e] \in {None, "claimed"}
      BY <2>1, <2>3, WorkOfMails DEF Claimed
    <3> QED
      BY <3>1, <3>2, <3>3 DEF JournalIsSound
  <2> QED
    BY <2>4, <2>5, <2>6, <2>7, <2>8, <2>9
<1>2. CASE RecordTwelve
  <2>1. /\ was' = was /\ db'.version = 12 /\ db'.outbound = db.outbound /\ db'.work = db.work
        /\ db'.events = db.events /\ db'.cursor = db.cursor /\ db'.tables = db.tables
        /\ pc = "twelve" /\ pc' = "settings"
    BY <1>2 DEF RecordTwelve, Record, Write, Database, Types
  <2>2. db.version = 11 /\ "events" \in db.tables /\ "mailbox" \notin db.tables
    BY <2>1 DEF Versions, Twelve, Tabled
  <2>4. Versions'
    BY <2>1, <2>2 DEF Versions, Nine, Eleven, Twelve, Carrying, Cutting, Seeding, Migrating
  <2>5. Tabled'
    BY <2>1, <2>2 DEF Tabled
  <2>6. Copied'
    BY <2>1, <2>2, RowsOfBeforeStay DEF Copied
  <2>7. InputsResolved'
    BY <2>1, RowsOfBeforeStay DEF InputsResolved
  <2>8. CursorIsRight'
    BY <2>1 DEF CursorIsRight
  <2>9. JournalIsSound'
    BY <2>1 DEF JournalIsSound, Claimed
  <2> QED
    BY <2>4, <2>5, <2>6, <2>7, <2>8, <2>9
<1> QED
  BY <1>1, <1>2

(* A side effect under way becomes ambiguous, and nothing else changes.    *)
LEMMA DispatchesStep ==
  ASSUME Types, Found, SchemaInv, ReconcileDispatches
  PROVE  SchemaInv'
<1> USE DEF SchemaInv
<1>1. /\ was' = was /\ db'.version = db.version /\ db'.work = db.work /\ db'.mailbox = db.mailbox
      /\ db'.events = db.events /\ db'.cursor = db.cursor /\ db'.tables = db.tables
      /\ pc = "dispatches" /\ pc' = "abandoned"
      /\ \A x \in Deliveries : db'.outbound[x] =
           IF db.outbound[x] # None /\ db.outbound[x].state = "dispatching"
           THEN [db.outbound[x] EXCEPT !.state = "ambiguous"] ELSE db.outbound[x]
  BY DEF ReconcileDispatches, Write, Database, Types
<1>2. db.version = 12 /\ "mailbox" \notin db.tables
  BY <1>1 DEF Versions, Carrying, Tabled
<1>3. Versions'
  BY <1>1, <1>2 DEF Versions, Nine, Eleven, Twelve, Carrying, Cutting, Seeding, Migrating
<1>4. Tabled'
  BY <1>1, <1>2 DEF Tabled
<1>5. ASSUME NEW x \in Deliveries
      PROVE  \/ db'.outbound[x] = Action0(x)
             \/ /\ Action0(x) # None /\ Action0(x).state = "dispatching"
                /\ db'.outbound[x] = [state |-> "ambiguous", accepted |-> FALSE]
  <2>1. CASE db.outbound[x] = Action0(x)
    <3>1. CASE Action0(x) # None /\ Action0(x).state = "dispatching"
      <4>1. ASSUME NEW r \in Actions, r.state = "dispatching"
            PROVE  [r EXCEPT !.state = "ambiguous"] = [state |-> "ambiguous", accepted |-> FALSE]
        <5>1. ~r.accepted
          BY <4>1 DEF Actions
        <5>2. r = [state |-> r.state, accepted |-> r.accepted]
          BY <4>1 DEF Actions
        <5>3. r.accepted = FALSE
          BY <4>1, <5>1, Zenon DEF Actions
        <5>4. [r EXCEPT !.state = "ambiguous"] = [state |-> "ambiguous", accepted |-> r.accepted]
          BY <5>2
        <5> QED
          BY <5>3, <5>4
      <4> QED
        BY <1>1, <2>1, <3>1, <4>1, RowsOfBefore
    <3>2. CASE ~(Action0(x) # None /\ Action0(x).state = "dispatching")
      BY <1>1, <2>1, <3>2
    <3> QED
      BY <3>1, <3>2
  <2>2. CASE /\ Action0(x) # None /\ Action0(x).state = "dispatching"
             /\ db.outbound[x] = [state |-> "ambiguous", accepted |-> FALSE]
    BY <1>1, <2>2
  <2> QED
    BY <1>2, <2>1, <2>2 DEF Copied
<1>6. Copied'
  BY <1>1, <1>2, <1>5, RowsOfBeforeStay DEF Copied
<1>7. InputsResolved'
  BY <1>1, RowsOfBeforeStay DEF InputsResolved
<1>8. CursorIsRight'
  BY <1>1 DEF CursorIsRight
<1>9. JournalIsSound'
  BY <1>1 DEF JournalIsSound, Claimed
<1> QED
  BY <1>3, <1>4, <1>6, <1>7, <1>8, <1>9

(* The inputs that were claimed are resolved.                               *)
LEMMA ResolvedStep ==
  ASSUME Types, Found, SchemaInv, was' = was,
         db'.version = db.version, db'.tables = db.tables, db'.outbound = db.outbound,
         db'.cursor = db.cursor, db'.work = Resolved.work, db'.events = Resolved.events,
         db.version = 12, pc' \in Upgraded, Claimed # {}
  PROVE  SchemaInv' /\ Claimed' = {}
<1> USE DEF SchemaInv
<1>1. pc' \notin {"mails", "outbound", "actions", "nine", "copy", "work", "works", "cursor", "empty",
                 "twelve", "eleven"}
  BY DEF Upgraded, Carrying, Cutting, Seeding, Migrating
<1>2. "events" \in db.tables /\ "mailbox" \notin db.tables
  BY DEF Tabled
<1>3. [state |-> Outcome, run |-> Outcome # "pending"] # None
  <2>1. [state |-> Outcome, run |-> Outcome # "pending"] \in [state : States, run : BOOLEAN]
    BY OutcomeIsAState DEF States
  <2> QED
    BY <2>1, NoneAssumption
<1>4. \A e \in Entries :
        /\ e \in Claimed => /\ db'.work[e] = [state |-> Outcome, run |-> Outcome # "pending"]
                            /\ db'.work[e] # None /\ db'.work[e].state = Outcome
        /\ e \notin Claimed => db'.work[e] = db.work[e]
  <2>1. db'.work = [e \in Entries |-> IF e \in Claimed
                      THEN [state |-> Outcome, run |-> Outcome # "pending"] ELSE db.work[e]]
    BY ResolvedRows DEF Types
  <2> QED
    BY <1>3, <2>1
<1>5. \A e \in Entries : db'.events[e] # "claimed" /\ (db.events[e] # "claimed" => db'.events[e] = db.events[e])
  <2>1. db'.events = [e \in Entries |-> IF db.events[e] # "claimed" THEN db.events[e]
                        ELSE IF Outcome = "pending" THEN "unapplied" ELSE "applied"]
    BY ResolvedRows DEF Types
  <2> QED
    BY <2>1
<1>6. Versions'
  BY DEF Versions, Nine, Eleven, Twelve, Upgraded, Carrying, Cutting, Seeding, Migrating
<1>7. Tabled'
  BY <1>1, <1>2 DEF Tabled
<1>8. Copied'
  BY <1>1, <1>2, RowsOfBeforeStay DEF Copied
<1>9. InputsResolved'
  <2>1. ASSUME NEW e \in Entries, e \in Claimed
        PROVE  /\ Work0(e) # None /\ Work0(e).state = "claimed"
               /\ db'.work[e] # None
               /\ db'.work[e].state \in {"completed", "pending", "failed"}
               /\ Visible(was) <=> db'.work[e].state # "pending"
    <3>1. db.work[e] # None /\ db.work[e].state = "claimed"
      BY <2>1 DEF Claimed
    <3>2. db.work[e] = Work0(e)
      BY <3>1 DEF InputsResolved
    <3> QED
      BY <1>4, <2>1, <3>1, <3>2, OutcomeIsVisible, OutcomeIsAState
  <2>2. ASSUME NEW e \in Entries
        PROVE \/ db'.work[e] = None
              \/ db'.work[e] = Work0(e)
              \/ /\ Work0(e) # None /\ Work0(e).state = "claimed"
                 /\ db'.work[e] # None
                 /\ db'.work[e].state \in {"completed", "pending", "failed"}
                 /\ Visible(was) <=> db'.work[e].state # "pending"
    <3>1. CASE e \in Claimed
      BY <2>1, <3>1
    <3>2. CASE e \notin Claimed
      <4>1. db'.work[e] = db.work[e]
        BY <1>4, <3>2
      <4> QED
        BY <4>1 DEF InputsResolved
    <3> QED
      BY <3>1, <3>2
  <2>3. \A e \in Entries : Mail0(e) # None /\ Mail0(e).state \in {"pending", "claimed"} => db'.work[e] # None
    BY <1>2, <1>4 DEF InputsResolved
  <2>4. Visible(was)' = Visible(was)
    BY DEF Visible
  <2> QED
    BY <2>2, <2>3, <2>4, RowsOfBeforeStay DEF InputsResolved
<1>10. CursorIsRight'
  BY <1>1 DEF CursorIsRight
<1>11. Claimed' = {}
  <2>1. \A e \in Entries : db'.work[e] # None => db'.work[e].state # "claimed"
    <3> SUFFICES ASSUME NEW e \in Entries, db'.work[e] # None PROVE db'.work[e].state # "claimed"
      OBVIOUS
    <3>1. CASE e \in Claimed
      BY <1>4, <3>1, OutcomeIsAState
    <3>2. CASE e \notin Claimed
      BY <1>4, <3>2 DEF Claimed
    <3> QED
      BY <3>1, <3>2
  <2> QED
    BY <2>1 DEF Claimed
<1>12. JournalIsSound'
  <2>1. \A e \in Entries : e <= db'.cursor => db'.events[e] \in {None, "applied"}
    <3> SUFFICES ASSUME NEW e \in Entries, e <= db.cursor PROVE db'.events[e] \in {None, "applied"}
      OBVIOUS
    <3>1. db.events[e] \in {None, "applied"}
      BY <1>2 DEF JournalIsSound
    <3>2. db.events[e] # "claimed"
      BY <3>1, NoneAssumption
    <3> QED
      BY <1>5, <3>1, <3>2
  <2> QED
    BY <1>5, <1>11, <2>1 DEF JournalIsSound
<1> QED
  BY <1>6, <1>7, <1>8, <1>9, <1>10, <1>11, <1>12

(* What the two reconciliations do to the database.                         *)
LEMMA Reconciled ==
  ASSUME Types, ReconcileAbandoned \/ ReconcileCutover
  PROVE  /\ was' = was /\ torn' = torn /\ todo' = todo /\ chat' = chat
         /\ UNCHANGED <<LegacyRows, db.generation, db.begun, db.seeded, db.processed, db.cut>>
         /\ UNCHANGED <<db.version, db.tables, db.queue, db.deliveries, db.mailbox, db.outbound, db.cursor>>
         /\ \/ db'.work = db.work /\ db'.events = db.events
            \/ db'.work = Resolved.work /\ db'.events = Resolved.events
<1>1. PICK w, v, r : Resolved = [[[db EXCEPT !.work = w] EXCEPT !.events = v] EXCEPT !.run = r]
  BY ResolvedRows DEF Types
<1>2. /\ Resolved.work = w /\ Resolved.events = v /\ Resolved.run = r
      /\ Resolved.asked = db.asked
      /\ <<Resolved.records, Resolved.journal, Resolved.interrupts, Resolved.archive, Resolved.key,
           Resolved.settings, Resolved.selection, Resolved.configured>> = LegacyRows
      /\ <<Resolved.generation, Resolved.begun, Resolved.seeded, Resolved.processed, Resolved.cut>>
           = <<db.generation, db.begun, db.seeded, db.processed, db.cut>>
      /\ <<Resolved.version, Resolved.tables, Resolved.queue, Resolved.deliveries, Resolved.mailbox,
           Resolved.outbound, Resolved.cursor>>
           = <<db.version, db.tables, db.queue, db.deliveries, db.mailbox, db.outbound, db.cursor>>
  BY <1>1 DEF Types, Database, LegacyRows
<1>3. Resolved \in Database
  BY ResolvedRows DEF Types
<1>4. \E x, y : db' = Resolved \/ db' = db \/ db' = [Resolved EXCEPT !.asked = x, !.run = y]
  <2>1. CASE ReconcileAbandoned
    BY <2>1 DEF ReconcileAbandoned, Write
  <2>2. CASE ReconcileCutover
    BY <2>2 DEF ReconcileCutover, Write
  <2> QED
    BY <2>1, <2>2
<1>5. was' = was /\ torn' = torn /\ todo' = todo /\ chat' = chat
  BY DEF ReconcileAbandoned, ReconcileCutover, Write
<1>6. CASE db' = db
  BY <1>5, <1>6 DEF LegacyRows
<1>7. CASE db' = Resolved
  BY <1>2, <1>5, <1>7 DEF LegacyRows
<1>8. ASSUME NEW x, NEW y, db' = [Resolved EXCEPT !.asked = x, !.run = y]
      PROVE  /\ db'.work = Resolved.work /\ db'.events = Resolved.events
             /\ <<db'.records, db'.journal, db'.interrupts, db'.archive, db'.key,
                  db'.settings, db'.selection, db'.configured>>
                = <<Resolved.records, Resolved.journal, Resolved.interrupts, Resolved.archive, Resolved.key,
                    Resolved.settings, Resolved.selection, Resolved.configured>>
             /\ <<db'.generation, db'.begun, db'.seeded, db'.processed, db'.cut>>
                = <<Resolved.generation, Resolved.begun, Resolved.seeded, Resolved.processed, Resolved.cut>>
             /\ <<db'.version, db'.tables, db'.queue, db'.deliveries, db'.mailbox, db'.outbound, db'.cursor>>
                = <<Resolved.version, Resolved.tables, Resolved.queue, Resolved.deliveries, Resolved.mailbox,
                    Resolved.outbound, Resolved.cursor>>
  BY <1>3, <1>8 DEF Database
<1>9. CASE ~(db' = db \/ db' = Resolved)
  <2>1. PICK x, y : db' = [Resolved EXCEPT !.asked = x, !.run = y]
    BY <1>4, <1>9
  <2> QED
    BY <1>2, <1>5, <1>8, <2>1 DEF LegacyRows
<1> QED
  BY <1>6, <1>7, <1>9

(* The two reconciliations keep what the scripts have made.                *)
LEMMA ReconciliationStep ==
  ASSUME Types, Found, SchemaInv, ReconcileAbandoned \/ ReconcileCutover
  PROVE  SchemaInv'
<1>1. db.version = 12
  BY DEF SchemaInv, Versions, Carrying, Cutting, ReconcileAbandoned, ReconcileCutover, Write
<1>2. pc' \in Upgraded
  BY DEF Upgraded, Carrying, Cutting, Migrating, ReconcileAbandoned, ReconcileCutover, Write
<1>3. CASE db'.work = db.work /\ db'.events = db.events
  <2>1. UNCHANGED <<SchemaRows, was>>
    BY <1>3, Reconciled DEF SchemaRows
  <2> QED
    BY <1>1, <1>2, <2>1, SchemaKept
<1>4. CASE Claimed = {}
  <2>1. UNCHANGED <<SchemaRows, was>>
    BY <1>4, Reconciled, ResolvedRows DEF SchemaRows, Types
  <2> QED
    BY <1>1, <1>2, <2>1, SchemaKept
<1>5. CASE Claimed # {} /\ ~(db'.work = db.work /\ db'.events = db.events)
  BY <1>1, <1>2, <1>5, Reconciled, ResolvedStep
<1> QED
  BY <1>3, <1>4, <1>5

(* Every step keeps what the scripts have made.                            *)
LEMMA SchemaStep ==
  ASSUME Types, Found, SchemaInv, [Next]_vars
  PROVE  SchemaInv'
<1>1. CASE Start
  <2>1. /\ UNCHANGED <<SchemaRows, was>>
        /\ \/ pc' = "mailbox" /\ db.version < 9
           \/ pc' = "drop" /\ ~(db.version < 9) /\ db.version < 11
           \/ pc' = "policies" /\ ~(db.version < 11) /\ db.version < 12
           \/ pc' = "settings" /\ ~(db.version < 12)
    BY <1>1 DEF Start, Script, Write, SchemaRows
  <2>2. db.version \in {8, 9, 11, 12}
    BY DEF Types, Database
  <2>3. \/ pc' = "mailbox" /\ db.version = 8
        \/ pc' = "drop" /\ db.version = 9
        \/ pc' = "policies" /\ db.version = 11
        \/ pc' \in Upgraded /\ db.version = 12
    BY <2>1, <2>2 DEF Upgraded, Carrying
  <2> QED
    BY <2>1, <2>3, SchemaKept
<1>2. CASE Schema
  BY <1>2, ScriptNineStep, ScriptElevenStep, ScriptTwelveStep, MailboxStep DEF Schema
<1>3. CASE SplitSettings \/ SkipSelection \/ SaveSelection \/ ForgetSelection
  <2>1. pc \in Carrying /\ pc' \in Upgraded
    BY <1>3 DEF SplitSettings, SkipSelection, SaveSelection, ForgetSelection, Write, Carrying, Upgraded
  <2>2. db.version = 12
    BY <2>1 DEF SchemaInv, Versions
  <2> QED
    BY <1>3, <2>1, <2>2, CarryingFrame, SchemaKept DEF Types
<1>4. CASE ReconcileDispatches
  BY <1>4, DispatchesStep
<1>5. CASE ReconcileAbandoned \/ ReconcileCutover
  BY <1>5, ReconciliationStep
<1>6. CASE ListThreads \/ Roll \/ SeedInput \/ SeedMessages \/ Mark \/ EndCutover
  <2>1. pc \in Upgraded /\ pc' \in Upgraded
    <3>1. CASE ListThreads
      BY <3>1 DEF ListThreads, Loop, Upgraded, Cutting
    <3>2. CASE Roll
      BY <3>2 DEF Roll, Loop, Upgraded, Cutting, Seeding
    <3>3. CASE SeedInput
      BY <3>3 DEF SeedInput, Write, Upgraded, Seeding
    <3>4. CASE SeedMessages
      BY <3>4 DEF SeedMessages, Write, Upgraded, Seeding, Cutting, Migrating
    <3>5. CASE Mark
      BY <3>5 DEF Mark, Write, Upgraded, Cutting
    <3>6. CASE EndCutover
      BY <3>6 DEF EndCutover, Write, Upgraded, Cutting
    <3> QED
      BY <1>6, <3>1, <3>2, <3>3, <3>4, <3>5, <3>6
  <2>2. db.version = 12
    BY <2>1 DEF SchemaInv, Versions, Upgraded
  <2> QED
    BY <1>6, <2>1, <2>2, CutoverFrame, SchemaKept DEF Types
<1>7. CASE Migrate
  <2>1. pc \in Migrating /\ (pc' \in Upgraded \/ pc' = "failed")
    <3> USE DEF Upgraded, Migrating, Seeding
    <3>1. CASE Backup \/ NextChat
      BY <3>1 DEF Backup, NextChat, Loop
    <3>2. CASE Admit
      BY <3>2 DEF Admit, Write
    <3>3. CASE EndChat
      BY <3>3 DEF EndChat, Write
    <3>4. CASE EndChats
      BY <3>4 DEF EndChats, Write
    <3>5. CASE MigrateEscalation
      BY <3>5 DEF MigrateEscalation, Write
    <3>6. CASE EndEscalations
      BY <3>6 DEF EndEscalations, Write
    <3>7. CASE Archive
      BY <3>7 DEF Archive, Write
    <3>8. CASE Validate
      BY <3>8 DEF Validate, Write
    <3>9. CASE DropLegacy
      BY <3>9 DEF DropLegacy, Write
    <3>10. CASE Complete
      BY <3>10 DEF Complete, Write
    <3> QED
      BY <1>7, <3>1, <3>2, <3>3, <3>4, <3>5, <3>6, <3>7, <3>8, <3>9, <3>10 DEF Migrate
  <2>2. db.version = 12
    BY <2>1 DEF SchemaInv, Versions, Upgraded
  <2> QED
    BY <1>7, <2>1, <2>2, MigrationFrame, SchemaKept DEF Types
<1>8. CASE Crash
  <2>1. UNCHANGED <<SchemaRows, was>> /\ pc' = "down"
    BY <1>8 DEF Crash, SchemaRows
  <2> QED
    BY <2>1, SchemaKept
<1>9. CASE UNCHANGED vars
  BY <1>9, RowsOfBeforeStay DEF vars, SchemaInv, Versions, Tabled, Copied, InputsResolved, CursorIsRight,
     JournalIsSound, Claimed
<1> QED
  BY <1>1, <1>2, <1>3, <1>4, <1>5, <1>6, <1>7, <1>8, <1>9 DEF Next, Step

(* Neither a step nor a crash changes what was found.                       *)
LEMMA FoundStep ==
  ASSUME Types, MigratedOnce, FirstChats, Found, [Next]_vars
  PROVE  Found' /\ was' = was
<1>1. was' = was
  BY PhasesStep DEF Next, Crash, vars
<1> QED
  BY <1>1 DEF Found

-----------------------------------------------------------------------------
(* The legacy tables and the settings.                                     *)

(* what becomes of the legacy rows,                                        *)
LegacyInv == RecordsKept /\ MigratedOnce

(* A step that leaves the legacy tables and the settings alone.             *)
LEMMA LegacyKept ==
  ASSUME LegacyInv, UNCHANGED <<LegacyRows, was>>,
         pc' \notin {"archive", "validate", "legacy", "key", "forget"},
         pc' \in Migrating => ~db.key,
         pc' = "live" => db.key
  PROVE  LegacyInv'
<1>1. RecordsKept'
  BY DEF LegacyInv, RecordsKept, LegacyRows
<1>2. MigratedOnce'
  <2>1. db'.key = db.key /\ db'.journal = db.journal /\ db'.records = db.records /\ was' = was
    BY DEF LegacyRows
  <2>2. (db.key /\ ~was.key => db.journal = Messages /\ db.records = {}) /\ (was.key => db.key)
    BY DEF LegacyInv, MigratedOnce
  <2>3. pc' \notin {"legacy", "key"}
    OBVIOUS
  <2> QED
    BY <2>1, <2>2, <2>3 DEF MigratedOnce
<1> QED
  BY <1>1, <1>2 DEF LegacyInv

(* No step, nor a crash, loses a legacy row, a question or the selection:  *)
(* the rows are dropped after they are in the archive, and the mark of the *)
(* migration is set last.                                                  *)
LEMMA LegacyStep ==
  ASSUME Types, LegacyInv, [Next]_vars
  PROVE  LegacyInv'
<1> USE DEF LegacyInv
<1>1. CASE Start
  <2>1. UNCHANGED <<LegacyRows, was>> /\ pc' \in {"mailbox", "drop", "policies", "settings"}
    BY <1>1 DEF Start, Script, Write, LegacyRows
  <2> QED
    BY <2>1, LegacyKept DEF Migrating
<1>2. CASE Schema
  <2>1. pc' \in Nine \cup Eleven \cup Twelve \cup {"failed", "settings"}
    BY <1>2 DEF Schema, CreateMailbox, FillMailbox, CreateOutbound, FillOutbound, RecordNine, DropQueue,
       RecordEleven,
       CreatePolicies, CreateEvents, FillEvents, CreateWork, FillWork, SetCursor, DropMailbox,
       RecordTwelve, Create, Record, Write, Nine, Eleven, Twelve
  <2> QED
    BY <1>2, <2>1, SchemaFrame, LegacyKept DEF Types, Nine, Eleven, Twelve, Migrating
<1>3. CASE SplitSettings
  <2>1. /\ was' = was /\ pc' = "selection" /\ db'.records = db.records /\ db'.journal = db.journal
        /\ db'.interrupts = db.interrupts /\ db'.archive = db.archive /\ db'.key = db.key
        /\ db'.configured = db.configured
        /\ db.settings = "split" => db'.settings = db.settings /\ db'.selection = db.selection
        /\ db.settings # "split" => db'.selection
    BY <1>3 DEF SplitSettings, Write, Types, Database
  <2>2. RecordsKept'
    BY <2>1 DEF RecordsKept
  <2>3. MigratedOnce'
    BY <2>1 DEF MigratedOnce, Migrating
  <2> QED
    BY <2>2, <2>3
<1>4. CASE SkipSelection
  <2>1. UNCHANGED <<LegacyRows, was>> /\ pc' = "dispatches"
    BY <1>4 DEF SkipSelection, Write, LegacyRows
  <2> QED
    BY <2>1, LegacyKept DEF Migrating
<1>5. CASE SaveSelection
  <2>1. /\ was' = was /\ pc' = "forget" /\ db'.records = db.records /\ db'.journal = db.journal
        /\ db'.interrupts = db.interrupts /\ db'.archive = db.archive /\ db'.key = db.key
        /\ db'.configured
    BY <1>5 DEF SaveSelection, Write, Types, Database
  <2>2. RecordsKept'
    BY <2>1 DEF RecordsKept
  <2>3. MigratedOnce'
    BY <2>1 DEF MigratedOnce, Migrating
  <2> QED
    BY <2>2, <2>3
<1>6. CASE ForgetSelection
  <2>1. /\ was' = was /\ pc = "forget" /\ pc' = "dispatches" /\ db'.records = db.records /\ db'.journal = db.journal
        /\ db'.interrupts = db.interrupts /\ db'.archive = db.archive /\ db'.key = db.key
        /\ db'.configured = db.configured
    BY <1>6 DEF ForgetSelection, Write, Types, Database
  <2>2. RecordsKept'
    BY <2>1 DEF RecordsKept
  <2>3. MigratedOnce'
    BY <2>1 DEF MigratedOnce, Migrating
  <2> QED
    BY <2>2, <2>3
<1>7. CASE ReconcileDispatches
  <2>1. UNCHANGED <<LegacyRows, was>> /\ pc' = "abandoned"
    BY <1>7 DEF ReconcileDispatches, Write, LegacyRows, Types, Database
  <2> QED
    BY <2>1, LegacyKept DEF Migrating
<1>8. CASE ReconcileAbandoned \/ ReconcileCutover
  <2>1. pc' = "cutover" \/ pc' = IF db.key THEN "live" ELSE "backup"
    BY <1>8 DEF ReconcileAbandoned, ReconcileCutover, Write
  <2> QED
    BY <1>8, <2>1, Reconciled, LegacyKept DEF Migrating
<1>9. CASE ListThreads \/ Roll \/ SeedInput \/ SeedMessages \/ Mark \/ EndCutover
  <2>1. pc' \in {"claims", "rolling", "seed", "mark", "seeding"} \/ (pc' = "chats" /\ ~db.key)
    BY <1>9 DEF ListThreads, Roll, SeedInput, SeedMessages, Mark, EndCutover, Loop, Write
  <2> QED
    BY <1>9, <2>1, CutoverFrame, LegacyKept DEF Migrating, Types
<1>10. CASE Migrate
  <2>1. CASE Backup \/ NextChat \/ EndChat \/ EndChats
    <3>1. UNCHANGED <<LegacyRows, was>> /\ pc \in Migrating
      <4>1. CASE Backup
        BY <4>1 DEF Backup, Loop, LegacyRows, Types, Database, Migrating
      <4>2. CASE NextChat
        BY <4>2 DEF NextChat, Loop, LegacyRows, Types, Database, Migrating
      <4>3. CASE EndChat
        BY <4>3 DEF EndChat, Write, LegacyRows, Types, Database, Migrating
      <4>4. CASE EndChats
        BY <4>4 DEF EndChats, Write, LegacyRows, Types, Database, Migrating
      <4> QED
        BY <2>1, <4>1, <4>2, <4>3, <4>4
    <3>2. pc' \in {"chats", "admit", "seed", "escalations"}
      BY <2>1 DEF Backup, NextChat, EndChat, EndChats, Loop, Write
    <3>3. ~db.key
      BY <3>1 DEF MigratedOnce
    <3> QED
      BY <3>1, <3>2, <3>3, LegacyKept
  <2>2. CASE Admit
    <3>1. /\ was' = was /\ pc' = "admit" /\ pc = "admit" /\ db'.records = db.records
          /\ db'.interrupts = db.interrupts /\ db'.archive = db.archive /\ db'.key = db.key
          /\ db'.configured = db.configured /\ db'.settings = db.settings /\ db'.selection = db.selection
      BY <2>2 DEF Admit, Write, Types, Database
    <3>2. RecordsKept'
      BY <3>1 DEF RecordsKept
    <3>3. ~db.key /\ ~was.key
      BY <3>1 DEF MigratedOnce, Migrating
    <3>4. MigratedOnce'
      BY <3>1, <3>3 DEF MigratedOnce
    <3> QED
      BY <3>2, <3>4
  <2>3. CASE MigrateEscalation
    <3>1. /\ was' = was /\ pc' = "escalations" /\ pc = "escalations" /\ db'.records = db.records
          /\ db.interrupts \subseteq db'.interrupts /\ db'.archive = db.archive /\ db'.key = db.key
          /\ db'.configured = db.configured /\ db'.settings = db.settings /\ db'.selection = db.selection
      BY <2>3 DEF MigrateEscalation, Write, Types, Database
    <3>2. RecordsKept'
      BY <3>1 DEF RecordsKept
    <3>3. ~db.key /\ ~was.key
      BY <3>1 DEF MigratedOnce, Migrating
    <3>4. MigratedOnce'
      BY <3>1, <3>3 DEF MigratedOnce
    <3> QED
      BY <3>2, <3>4
  <2>4. CASE EndEscalations
    <3>1. /\ db' = db /\ was' = was /\ pc = "escalations" /\ pc' = "archive"
          /\ Open \cap db.records \subseteq db.interrupts
      BY <2>4 DEF EndEscalations, Write
    <3>2. ~db.key /\ ~was.key
      BY <3>1 DEF MigratedOnce, Migrating
    <3> QED
      BY <3>1, <3>2 DEF RecordsKept, MigratedOnce
  <2>5. CASE Archive
    <3>1. /\ was' = was /\ pc' = "validate" /\ pc = "archive" /\ db'.records = db.records
          /\ db'.interrupts = db.interrupts /\ db'.archive = db.archive \cup db.records /\ db'.key = db.key
          /\ db'.configured = db.configured /\ db'.settings = db.settings /\ db'.selection = db.selection
      BY <2>5 DEF Archive, Write, Types, Database
    <3>2. RecordsKept'
      BY <3>1 DEF RecordsKept
    <3>3. ~db.key /\ ~was.key
      BY <3>1 DEF MigratedOnce, Migrating
    <3>4. MigratedOnce'
      BY <3>1, <3>3 DEF MigratedOnce
    <3> QED
      BY <3>2, <3>4
  <2>6. CASE Validate
    <3>1. /\ db' = db /\ was' = was /\ pc = "validate"
          /\ pc' = "failed" \/ (pc' = "legacy" /\ db.journal = Messages)
      BY <2>6 DEF Validate, Write
    <3>2. ~db.key /\ ~was.key
      BY <3>1 DEF MigratedOnce, Migrating
    <3>3. RecordsKept'
      BY <3>1 DEF RecordsKept
    <3>4. MigratedOnce'
      BY <3>1, <3>2 DEF MigratedOnce
    <3> QED
      BY <3>3, <3>4
  <2>7. CASE DropLegacy
    <3>1. /\ was' = was /\ pc' = "key" /\ pc = "legacy" /\ db'.records = {} /\ db'.journal = db.journal
          /\ db'.interrupts = db.interrupts /\ db'.archive = db.archive /\ db'.key = db.key
          /\ db'.configured = db.configured /\ db'.settings = db.settings /\ db'.selection = db.selection
      BY <2>7 DEF DropLegacy, Write, Types, Database
    <3>2. RecordsKept'
      BY <3>1 DEF RecordsKept
    <3>3. ~db.key /\ ~was.key /\ db.journal = Messages
      BY <3>1 DEF MigratedOnce, Migrating
    <3>4. MigratedOnce'
      BY <3>1, <3>3 DEF MigratedOnce
    <3> QED
      BY <3>2, <3>4
  <2>8. CASE Complete
    <3>1. /\ was' = was /\ pc' = "live" /\ pc = "key" /\ db'.records = db.records /\ db'.journal = db.journal
          /\ db'.interrupts = db.interrupts /\ db'.archive = db.archive /\ db'.key
          /\ db'.configured = db.configured /\ db'.settings = db.settings /\ db'.selection = db.selection
      BY <2>8 DEF Complete, Write, Types, Database
    <3>2. RecordsKept'
      BY <3>1 DEF RecordsKept
    <3>3. db.records = {} /\ db.journal = Messages
      BY <3>1 DEF MigratedOnce, Migrating
    <3>4. MigratedOnce'
      BY <3>1, <3>3 DEF MigratedOnce, Migrating
    <3> QED
      BY <3>2, <3>4
  <2> QED
    BY <1>10, <2>1, <2>2, <2>3, <2>4, <2>5, <2>6, <2>7, <2>8 DEF Migrate
<1>11. CASE Crash
  <2>1. UNCHANGED <<LegacyRows, was>> /\ pc' = "down"
    BY <1>11 DEF Crash, LegacyRows
  <2> QED
    BY <2>1, LegacyKept DEF Migrating
<1>12. CASE UNCHANGED vars
  BY <1>12 DEF vars, RecordsKept, MigratedOnce
<1> QED
  BY <1>1, <1>2, <1>3, <1>4, <1>5, <1>6, <1>7, <1>8, <1>9, <1>10, <1>11, <1>12 DEF Next, Step

-----------------------------------------------------------------------------
(* The cutover of the threads of an installation.                          *)

(* The steps in which the cutover goes through its list.                   *)
Looping == {"rolling", "mark"} \cup Seeding

(* The thread of a chat has a checkpoint when its generation is not 0.     *)
LEMMA ThreadsOf ==
  ASSUME NEW c \in Chats, db \in Database
  PROVE  Thread(c) = <<c, db.generation[c]>> /\ (Thread(c) \in Threads <=> db.generation[c] > 0)
<1>1. Thread(c) = <<c, db.generation[c]>>
  BY DEF Thread
<1>2. ASSUME Thread(c) \in Threads PROVE db.generation[c] > 0
  <2>1. PICK x \in Chats : db.generation[x] > 0 /\ Thread(c) = Thread(x)
    BY <1>2 DEF Threads
  <2>2. c = x
    BY <2>1 DEF Thread
  <2> QED
    BY <2>1, <2>2
<1>3. ASSUME db.generation[c] > 0 PROVE Thread(c) \in Threads
  BY <1>3 DEF Threads
<1> QED
  BY <1>1, <1>2, <1>3

(* Threads change with the generations only.                               *)
LEMMA ThreadsStay ==
  ASSUME db'.generation = db.generation
  PROVE  Threads' = Threads /\ \A c \in Chats : Thread(c)' = Thread(c)
BY DEF Threads, Thread

(* A step that leaves the threads alone, outside the loops of the cutover.  *)
LEMMA CuttingKept ==
  ASSUME CuttingOver, was' = was, torn' = torn, UNCHANGED <<db.generation, db.seeded, db.processed, db.cut>>,
         pc \notin {"mark"} \cup Seeding, pc' \notin Looping \cup {"live"}, pc' = "claims" => db.cut
  PROVE  CuttingOver'
<1> SUFFICES ASSUME was'.key PROVE CuttingOver'
  BY DEF CuttingOver
<1>1. Threads' = Threads /\ \A c \in Chats : Thread(c)' = Thread(c)
  BY ThreadsStay
<1>2. pc' \notin {"rolling", "mark"} \cup Seeding /\ pc' # "live" /\ pc' # "mark" /\ pc' \notin Seeding
  BY DEF Looping
<1>3. ASSUME torn' = {}
      PROVE  /\ <<Home, 1>> \in db'.processed \/ db'.generation[Home] = 1
             /\ db'.cut => <<Home, 1>> \in db'.processed
             /\ \A c \in Chats : Thread(c)' \in Threads' => Thread(c)' \in db'.seeded
  BY <1>1, <1>3 DEF CuttingOver
<1> QED
  BY <1>2, <1>3 DEF CuttingOver

(* The threads that are listed are the current ones, the one of Home too,  *)
(* unless it is processed.                                                 *)
LEMMA ListThreadsCuts ==
  ASSUME Types, CuttingOver, was.key, ListThreads
  PROVE  CuttingOver'
<1>1. /\ db' = db /\ was' = was /\ torn' = torn /\ pc = "cutover" /\ todo' = Threads \ db.processed
      /\ \/ db.cut /\ pc' = "claims"
         \/ pc' = "rolling"
  BY DEF ListThreads, Loop
<1>2. Threads' = Threads /\ \A c \in Chats : Thread(c)' = Thread(c)
  BY <1>1, ThreadsStay
<1>3. \A t \in todo' : t[1] \in Chats /\ t = Thread(t[1])' /\ t \in Threads'
  <2>1. ASSUME NEW t \in Threads PROVE t[1] \in Chats /\ t = Thread(t[1])
    <3>1. PICK x \in Chats : t = Thread(x)
      BY <2>1 DEF Threads
    <3> QED
      BY <3>1 DEF Thread
  <2>2. \A t \in todo' : t \in Threads
    BY <1>1
  <2> QED
    BY <1>2, <2>1, <2>2
<1>4. pc' \notin {"mark"} \cup Seeding /\ pc' # "live" /\ pc' \notin Seeding
      /\ pc \notin {"mark"} \cup Seeding
  BY <1>1 DEF Seeding
<1>5. ASSUME torn' = {}
      PROVE  /\ <<Home, 1>> \in db'.processed \/ db'.generation[Home] = 1
             /\ <<Home, 1>> \in db'.processed \cup todo'
             /\ db'.cut => <<Home, 1>> \in db'.processed
             /\ \A c \in Chats : Thread(c)' \in Threads' => Thread(c)' \in db'.seeded
  <2>1. <<Home, 1>> \in db.processed \/ db.generation[Home] = 1
    BY <1>1, <1>4, <1>5 DEF CuttingOver
  <2>2. db.generation[Home] = 1 => <<Home, 1>> \in Threads
    <3>1. Home \in Chats
      BY UpgradeAssumption
    <3> QED
      BY <3>1, ThreadsOf DEF Types
  <2>3. /\ db.cut => <<Home, 1>> \in db.processed
        /\ \A c \in Chats : Thread(c) \in Threads => Thread(c) \in db.seeded
    BY <1>1, <1>4, <1>5 DEF CuttingOver
  <2> QED
    BY <1>1, <1>2, <2>1, <2>2, <2>3
<1> QED
  BY <1>1, <1>3, <1>4, <1>5 DEF CuttingOver

(* A roll takes a thread to its next generation: the others in the list    *)
(* are threads of other chats and stay current.                            *)
LEMMA RollCuts ==
  ASSUME Types, CuttingOver, was.key, Roll
  PROVE  CuttingOver'
<1>1. PICK t \in todo :
        /\ todo' = todo \ {t} /\ chat' = t /\ was' = was /\ torn' = torn /\ pc = "rolling"
        /\ IF t \in db.seeded THEN pc' = "seed" /\ db' = [db EXCEPT !.generation[t[1]] = @ + 1]
           ELSE pc' = "mark" /\ db' = db
  BY DEF Roll, Loop
<1>2. /\ t[1] \in Chats /\ t = Thread(t[1]) /\ t \in Threads
      /\ \A u \in todo : u[1] \in Chats /\ u = Thread(u[1]) /\ u \in Threads
  BY <1>1 DEF CuttingOver
<1>3. t = <<t[1], db.generation[t[1]]>> /\ db.generation[t[1]] \in Nat /\ db.generation[t[1]] > 0
      /\ t[2] = db.generation[t[1]]
  <2>1. t = <<t[1], db.generation[t[1]]>> /\ db.generation[t[1]] > 0
    BY <1>2, ThreadsOf DEF Types
  <2>2. db.generation[t[1]] \in Nat
    BY <1>2 DEF Types, Database
  <2> QED
    BY <2>1, <2>2
<1>4. \A u \in todo' : u \in todo /\ u[1] # t[1]
  BY <1>1, <1>2
<1>5. /\ db'.processed = db.processed /\ db'.seeded = db.seeded /\ db'.cut = db.cut
      /\ \A c \in Chats \ {t[1]} : db'.generation[c] = db.generation[c]
      /\ t \in db.seeded => db'.generation[t[1]] = db.generation[t[1]] + 1
      /\ t \notin db.seeded => db'.generation[t[1]] = db.generation[t[1]]
  <2>1. CASE t \in db.seeded
    <3>1. db' = [db EXCEPT !.generation = [db.generation EXCEPT ![t[1]] = db.generation[t[1]] + 1]]
      BY <1>1, <1>2, <2>1 DEF Types, Database
    <3>2. db.generation \in [Chats -> Nat]
      BY DEF Types, Database
    <3>3. db'.generation = [db.generation EXCEPT ![t[1]] = db.generation[t[1]] + 1]
          /\ db'.processed = db.processed /\ db'.seeded = db.seeded /\ db'.cut = db.cut
      BY <3>1 DEF Types, Database
    <3> QED
      BY <1>2, <2>1, <3>2, <3>3
  <2>2. CASE t \notin db.seeded
    BY <1>1, <2>2
  <2> QED
    BY <2>1, <2>2
<1>6. db' \in Database
  BY CutoverTyped
<1>7. \A c \in Chats : Thread(c)' = <<c, db'.generation[c]>> /\ (Thread(c)' \in Threads' <=> db'.generation[c] > 0)
  <2>1. ASSUME NEW c \in Chats
        PROVE Thread(c)' = <<c, db'.generation[c]>> /\ (Thread(c)' \in Threads' <=> db'.generation[c] > 0)
    <3>1. Thread(c)' = <<c, db'.generation[c]>>
      BY DEF Thread
    <3>2. ASSUME Thread(c)' \in Threads' PROVE db'.generation[c] > 0
      <4>1. PICK x \in Chats : db'.generation[x] > 0 /\ <<c, db'.generation[c]>> = <<x, db'.generation[x]>>
        BY <3>1, <3>2 DEF Threads, Thread
      <4> QED
        BY <4>1
    <3>3. ASSUME db'.generation[c] > 0 PROVE Thread(c)' \in Threads'
      BY <3>3 DEF Threads, Thread
    <3> QED
      BY <3>1, <3>2, <3>3
  <2> QED
    BY <2>1
<1>8. \A u \in todo' : u[1] \in Chats /\ u = <<u[1], db'.generation[u[1]]>> /\ db'.generation[u[1]] > 0
  BY <1>2, <1>4, <1>5, ThreadsOf DEF Types
<1>9. (\A u \in todo : u[1] \in Chats /\ u = Thread(u[1]) /\ u \in Threads)'
  <2>1. ASSUME NEW u \in todo' PROVE u[1] \in Chats /\ u = Thread(u[1])' /\ u \in Threads'
    BY <1>7, <1>8
  <2> QED
    BY <2>1
<1>10. \A u \in todo' : u[1] # chat'[1]
  BY <1>1, <1>4
<1>11. (pc \in Seeding => Thread(chat[1]) = <<chat[1], chat[2] + 1>>)'
  <2>1. pc' \in Seeding => t \in db.seeded
    BY <1>1 DEF Seeding
  <2>2. ASSUME pc' \in Seeding PROVE <<t[1], db'.generation[t[1]]>> = <<t[1], t[2] + 1>>
    BY <1>3, <1>5, <2>1, <2>2
  <2>3. Thread(chat[1])' = <<chat'[1], db'.generation[chat'[1]]>>
    BY DEF Thread
  <2> QED
    BY <1>1, <2>2, <2>3
<1>12. pc' # "claims" /\ pc' # "live" /\ pc' # "rolling" /\ pc' \in {"mark"} \cup Seeding
  BY <1>1 DEF Seeding
<1>13. ASSUME torn' = {}
      PROVE  /\ \/ <<Home, 1>> \in db'.processed \/ db'.generation[Home] = 1
                \/ chat' = <<Home, 1>>
             /\ <<Home, 1>> \in db'.processed \cup todo' \/ chat' = <<Home, 1>>
             /\ db'.cut => <<Home, 1>> \in db'.processed
             /\ \A c \in Chats : Thread(c)' \in Threads'
                  => Thread(c)' \in db'.seeded \/ (pc' \in Seeding /\ chat'[1] = c)
  <2>0. pc \notin {"mark"} \cup Seeding /\ torn = {} /\ Home \in Chats
    BY <1>1, <1>13, UpgradeAssumption DEF Seeding
  <2>1. <<Home, 1>> \in db.processed \/ db.generation[Home] = 1
    BY <2>0 DEF CuttingOver
  <2>2. <<Home, 1>> \in db.processed \cup todo
    BY <1>1, <2>0 DEF CuttingOver
  <2>3. /\ db.cut => <<Home, 1>> \in db.processed
        /\ \A c \in Chats : Thread(c) \in Threads => Thread(c) \in db.seeded
    BY <2>0 DEF CuttingOver
  <2>4. ASSUME NEW c \in Chats, Thread(c)' \in Threads'
        PROVE  Thread(c)' \in db'.seeded \/ (pc' \in Seeding /\ chat'[1] = c)
    <3>1. CASE c # t[1]
      <4>1. Thread(c)' = Thread(c) /\ Thread(c) \in Threads
        BY <1>5, <1>7, <2>4, <3>1, ThreadsOf DEF Types
      <4> QED
        BY <1>5, <2>3, <4>1
    <3>2. CASE c = t[1] /\ t \in db.seeded
      BY <1>1, <3>2 DEF Seeding
    <3>3. CASE c = t[1] /\ t \notin db.seeded
      BY <1>2, <2>3, <3>3
    <3> QED
      BY <3>1, <3>2, <3>3
  <2>5. db'.generation[Home] = 1 \/ <<Home, 1>> \in db'.processed \/ chat' = <<Home, 1>>
    <3>1. CASE Home = t[1] /\ db.generation[Home] = 1
      BY <1>1, <1>3, <3>1
    <3>2. CASE Home # t[1]
      BY <1>5, <2>0, <2>1, <3>2
    <3> QED
      BY <1>5, <2>1, <3>1, <3>2
  <2> QED
    BY <1>1, <1>5, <2>2, <2>3, <2>4, <2>5
<1> QED
  BY <1>9, <1>10, <1>11, <1>12, <1>13 DEF CuttingOver

(* A seeding ends, a thread is marked: the loop stays where it is.          *)
LEMMA SeedCuts ==
  ASSUME Types, CuttingOver, MigratedOnce, was.key, SeedInput \/ SeedMessages
  PROVE  CuttingOver'
<1>1. /\ todo' = todo /\ chat' = chat /\ was' = was /\ torn' = torn
      /\ db'.generation = db.generation /\ db'.processed = db.processed /\ db'.cut = db.cut
      /\ pc \in Seeding
      /\ \/ pc' = "seeding" /\ db'.seeded = db.seeded
         \/ pc' = "mark" /\ db'.seeded = db.seeded \cup {Thread(chat[1])}
  <2>1. CASE SeedInput
    BY <2>1 DEF SeedInput, Write, Types, Database, Seeding
  <2>2. CASE SeedMessages
    <3>1. db.key
      BY DEF MigratedOnce
    <3> QED
      BY <2>2, <3>1 DEF SeedMessages, Write, Types, Database, Seeding
  <2> QED
    BY <2>1, <2>2
<1>2. Threads' = Threads /\ \A c \in Chats : Thread(c)' = Thread(c)
  BY <1>1, ThreadsStay
<1>3. /\ \A t \in todo : t[1] \in Chats /\ t = Thread(t[1]) /\ t \in Threads
      /\ \A t \in todo : t[1] # chat[1]
      /\ Thread(chat[1]) = <<chat[1], chat[2] + 1>>
      /\ pc # "rolling"
      /\ pc \in {"mark"} \cup Seeding /\ pc \in {"rolling", "mark"} \cup Seeding
  BY <1>1 DEF CuttingOver, Seeding
<1>4. (\A t \in todo : t[1] \in Chats /\ t = Thread(t[1]) /\ t \in Threads)'
  BY <1>1, <1>2, <1>3
<1>5. (\A t \in todo : t[1] # chat[1])'
  BY <1>1, <1>3
<1>6. (Thread(chat[1]) = <<chat[1], chat[2] + 1>>)'
  BY <1>1, <1>3 DEF Thread
<1>7. pc' # "claims" /\ pc' # "live" /\ pc' # "rolling" /\ pc' \in {"mark"} \cup Seeding
  BY <1>1 DEF Seeding
<1>8. ASSUME torn' = {}
      PROVE  /\ <<Home, 1>> \in db'.processed \/ db'.generation[Home] = 1 \/ chat' = <<Home, 1>>
             /\ <<Home, 1>> \in db'.processed \cup todo' \/ chat' = <<Home, 1>>
             /\ db'.cut => <<Home, 1>> \in db'.processed
             /\ \A c \in Chats : Thread(c)' \in Threads'
                  => Thread(c)' \in db'.seeded \/ (pc' \in Seeding /\ chat'[1] = c)
  <2>1. torn = {}
    BY <1>1, <1>8
  <2>2. /\ <<Home, 1>> \in db.processed \/ db.generation[Home] = 1 \/ chat = <<Home, 1>>
        /\ <<Home, 1>> \in db.processed \cup todo \/ chat = <<Home, 1>>
        /\ db.cut => <<Home, 1>> \in db.processed
        /\ \A c \in Chats : Thread(c) \in Threads => Thread(c) \in db.seeded \/ chat[1] = c
    BY <1>3, <2>1 DEF CuttingOver
  <2>3. ASSUME NEW c \in Chats, Thread(c)' \in Threads'
        PROVE  Thread(c)' \in db'.seeded \/ (pc' \in Seeding /\ chat'[1] = c)
    <3>1. Thread(c) \in db.seeded \/ chat[1] = c
      BY <1>2, <2>2, <2>3
    <3>2. Thread(c)' = Thread(c)
      BY <1>2
    <3>3. CASE Thread(c) \in db.seeded
      BY <1>1, <3>2, <3>3
    <3>4. CASE chat[1] = c
      BY <1>1, <3>2, <3>4 DEF Seeding
    <3> QED
      BY <3>1, <3>3, <3>4
  <2> QED
    BY <1>1, <2>2, <2>3
<1> QED
  BY <1>1, <1>4, <1>5, <1>6, <1>7, <1>8 DEF CuttingOver

(* A thread is marked when its new generation begins with a summary.       *)
LEMMA MarkCuts ==
  ASSUME Types, CuttingOver, was.key, Mark
  PROVE  CuttingOver'
<1>1. /\ todo' = todo /\ chat' = chat /\ was' = was /\ torn' = torn
      /\ db'.generation = db.generation /\ db'.seeded = db.seeded /\ db'.cut = db.cut
      /\ pc = "mark" /\ pc' = "rolling" /\ db'.processed = db.processed \cup {chat}
  BY DEF Mark, Write, Types, Database
<1>2. Threads' = Threads /\ \A c \in Chats : Thread(c)' = Thread(c)
  BY <1>1, ThreadsStay
<1>3. \A t \in todo : t[1] \in Chats /\ t = Thread(t[1]) /\ t \in Threads
  BY <1>1 DEF CuttingOver
<1>4. (\A t \in todo : t[1] \in Chats /\ t = Thread(t[1]) /\ t \in Threads)'
  BY <1>1, <1>2, <1>3
<1>5. pc' \notin {"mark"} \cup Seeding /\ pc' \notin Seeding /\ pc' # "claims" /\ pc' # "live" /\ pc \notin Seeding
  BY <1>1 DEF Seeding
<1>6. ASSUME torn' = {}
      PROVE  /\ <<Home, 1>> \in db'.processed \/ db'.generation[Home] = 1
             /\ <<Home, 1>> \in db'.processed \cup todo'
             /\ db'.cut => <<Home, 1>> \in db'.processed
             /\ \A c \in Chats : Thread(c)' \in Threads' => Thread(c)' \in db'.seeded
  <2>1. torn = {}
    BY <1>1, <1>6
  <2>2. /\ <<Home, 1>> \in db.processed \/ db.generation[Home] = 1 \/ chat = <<Home, 1>>
        /\ <<Home, 1>> \in db.processed \cup todo \/ chat = <<Home, 1>>
        /\ db.cut => <<Home, 1>> \in db.processed
        /\ \A c \in Chats : Thread(c) \in Threads => Thread(c) \in db.seeded
    BY <1>1, <1>5, <2>1 DEF CuttingOver
  <2> QED
    BY <1>1, <1>2, <2>2
<1> QED
  BY <1>4, <1>5, <1>6 DEF CuttingOver

(* The cutover ends when nothing is left, so Home is processed.            *)
LEMMA EndCutoverCuts ==
  ASSUME Types, CuttingOver, was.key, EndCutover
  PROVE  CuttingOver'
<1>1. /\ todo = {} /\ was' = was /\ torn' = torn
      /\ db'.generation = db.generation /\ db'.seeded = db.seeded /\ db'.cut
      /\ pc = "rolling" /\ pc' = "claims" /\ db'.processed = db.processed
  BY DEF EndCutover, Write, Types, Database
<1>2. Threads' = Threads /\ \A c \in Chats : Thread(c)' = Thread(c)
  BY <1>1, ThreadsStay
<1>3. pc' \notin Looping /\ pc' # "live" /\ pc \notin {"mark"} \cup Seeding
      /\ pc' \notin {"rolling", "mark"} \cup Seeding /\ pc' # "mark" /\ pc' \notin Seeding
  BY <1>1 DEF Seeding, Looping
<1>4. ASSUME torn' = {}
      PROVE  /\ <<Home, 1>> \in db'.processed
             /\ \A c \in Chats : Thread(c)' \in Threads' => Thread(c)' \in db'.seeded
  <2>1. torn = {}
    BY <1>1, <1>4
  <2>2. /\ <<Home, 1>> \in db.processed
        /\ \A c \in Chats : Thread(c) \in Threads => Thread(c) \in db.seeded
    BY <1>1, <1>3, <2>1 DEF CuttingOver
  <2> QED
    BY <1>1, <1>2, <2>2
<1> QED
  BY <1>1, <1>3, <1>4 DEF CuttingOver

(* The questions of the graph become questions of the journal.              *)
LEMMA Asked ==
  ASSUME Types, ReconcileAbandoned \/ ReconcileCutover
  PROVE  /\ db.asked # "graph" => db'.asked = db.asked
         /\ ReconcileCutover /\ <<Home, 1>> \in db.processed
              => db'.asked # "graph" /\ (Claimed # {} => db'.work = Resolved.work /\ db'.events = Resolved.events)
<1>1. Resolved \in Database /\ Resolved.asked = db.asked
  <2>1. PICK w, v, r : Resolved = [[[db EXCEPT !.work = w] EXCEPT !.events = v] EXCEPT !.run = r]
    BY ResolvedRows DEF Types
  <2> QED
    <3>1. Resolved.asked = db.asked
      BY <2>1 DEF Types, Database
    <3> QED
      BY <3>1, ResolvedRows DEF Types
<1>2. CASE ReconcileAbandoned
  <2>1. db' = Resolved \/ db' = db
    BY <1>2 DEF ReconcileAbandoned, Write
  <2>2. ~ReconcileCutover
    BY <1>2 DEF ReconcileAbandoned, ReconcileCutover, Write
  <2> QED
    BY <1>1, <2>1, <2>2
<1>3. CASE ReconcileCutover
  <2>1. CASE <<Home, 1>> \notin db.processed
    BY <1>3, <2>1 DEF ReconcileCutover, Write
  <2>2. CASE <<Home, 1>> \in db.processed /\ db.asked = "graph"
    <3>1. db' = [Resolved EXCEPT !.asked = "journal", !.run = "cancelled"]
      BY <1>1, <1>3, <2>2 DEF ReconcileCutover, Write
    <3>2. db'.asked = "journal" /\ db'.work = Resolved.work /\ db'.events = Resolved.events
      BY <1>1, <3>1 DEF Database
    <3> QED
      BY <2>2, <3>2
  <2>3. CASE <<Home, 1>> \in db.processed /\ db.asked # "graph"
    <3>1. db' = Resolved
      BY <1>1, <1>3, <2>3 DEF ReconcileCutover, Write
    <3> QED
      BY <1>1, <2>3, <3>1
  <2> QED
    BY <2>1, <2>2, <2>3
<1> QED
  BY <1>2, <1>3

(* The reconciliation of the cutover reaches Home, resolves its claims and *)
(* turns its question into one of the journal.                             *)
LEMMA ReconcileCuts ==
  ASSUME Types, Found, SchemaInv, CuttingOver, MigratedOnce, was.key, ReconcileCutover
  PROVE  CuttingOver'
<1>1. /\ was' = was /\ torn' = torn /\ db'.generation = db.generation /\ db'.seeded = db.seeded
      /\ db'.processed = db.processed /\ db'.cut = db.cut
  BY Reconciled
<1>2. pc = "claims" /\ pc' = "live" /\ db.cut
  BY DEF ReconcileCutover, Write, MigratedOnce, CuttingOver
<1>3. Threads' = Threads /\ \A c \in Chats : Thread(c)' = Thread(c)
  BY <1>1, ThreadsStay
<1>4. pc' \notin Looping /\ pc \notin {"mark"} \cup Seeding /\ pc' \notin {"rolling", "mark"} \cup Seeding
      /\ pc' # "mark" /\ pc' \notin Seeding
  BY <1>2 DEF Seeding, Looping
<1>5. ASSUME torn' = {}
      PROVE  /\ <<Home, 1>> \in db'.processed
             /\ \A c \in Chats : Thread(c)' \in Threads' => Thread(c)' \in db'.seeded
             /\ Claimed' = {} /\ db'.asked # "graph"
  <2>1. torn = {}
    BY <1>1, <1>5
  <2>2. /\ <<Home, 1>> \in db.processed
        /\ \A c \in Chats : Thread(c) \in Threads => Thread(c) \in db.seeded
    BY <1>2, <1>4, <2>1 DEF CuttingOver
  <2>3. db'.asked # "graph"
    BY <2>2, Asked
  <2>4. Claimed' = {}
    <3>1. CASE Claimed = {}
      <4>1. db'.work = db.work
        BY <3>1, Reconciled, ResolvedRows DEF Types
      <4> QED
        BY <3>1, <4>1 DEF Claimed
    <3>2. CASE Claimed # {}
      <4>1. db'.work = Resolved.work /\ db'.events = Resolved.events
        BY <2>2, <3>2, Asked
      <4>2. db.version = 12 /\ pc' \in Upgraded
        BY <1>2 DEF SchemaInv, Versions, Cutting, Upgraded
      <4> QED
        BY <3>2, <4>1, <4>2, Reconciled, ResolvedStep
    <3> QED
      BY <3>1, <3>2
  <2> QED
    BY <1>1, <1>3, <2>2, <2>3, <2>4
<1> QED
  BY <1>2, <1>4, <1>5, <1>1 DEF CuttingOver

(* The steps of the migration are taken while it runs.                     *)
LEMMA MigratingFrom ==
  ASSUME Migrate
  PROVE  pc \in Migrating
BY DEF Migrating, Migrate, Backup, NextChat, Admit, EndChat, EndChats, MigrateEscalation, EndEscalations,
   Archive, Validate, DropLegacy, Complete, Loop, Write

(* A start that is before the cutover.                                      *)
LEMMA BeforeTheCutover ==
  ASSUME Types, Start \/ Schema \/ SplitSettings \/ SkipSelection \/ SaveSelection \/ ForgetSelection
                \/ ReconcileDispatches \/ ReconcileAbandoned
  PROVE  /\ was' = was /\ torn' = torn
         /\ UNCHANGED <<db.generation, db.begun, db.seeded, db.processed, db.cut>>
         /\ pc \in {"down"} \cup Nine \cup Eleven \cup Twelve \cup Carrying
         /\ pc' \in {"failed", "cutover"} \cup Nine \cup Eleven \cup Twelve \cup Carrying
<1> USE DEF Nine, Eleven, Twelve, Carrying
<1>1. CASE Start
  BY <1>1 DEF Start, Script, Write
<1>2. CASE Schema
  <2>1. /\ pc \in Nine \cup Eleven \cup Twelve
        /\ pc' \in {"failed"} \cup Nine \cup Eleven \cup Twelve \cup Carrying
    BY <1>2 DEF Schema, CreateMailbox, FillMailbox, CreateOutbound, FillOutbound, RecordNine, DropQueue,
       RecordEleven,
       CreatePolicies, CreateEvents, FillEvents, CreateWork, FillWork, SetCursor, DropMailbox,
       RecordTwelve, Create, Record, Write
  <2> QED
    BY <1>2, <2>1, SchemaFrame DEF Types, ThreadRows
<1>3. CASE SplitSettings \/ SkipSelection \/ SaveSelection \/ ForgetSelection
  <2>1. pc \in Carrying /\ pc' \in Carrying
    BY <1>3 DEF SplitSettings, SkipSelection, SaveSelection, ForgetSelection, Write
  <2> QED
    BY <1>3, <2>1, CarryingFrame DEF Types, ThreadRows
<1>4. CASE ReconcileDispatches
  BY <1>4 DEF ReconcileDispatches, Write, Types, Database
<1>5. CASE ReconcileAbandoned
  <2>1. pc = "abandoned" /\ pc' = "cutover"
    BY <1>5 DEF ReconcileAbandoned, Write
  <2> QED
    BY <1>5, <2>1, Reconciled
<1> QED
  BY <1>1, <1>2, <1>3, <1>4, <1>5

(* A crash that cuts no seeding and no roll leaves every current thread    *)
(* seeded.                                                                 *)
LEMMA CrashCuts ==
  ASSUME Types, CuttingOver, was.key, Crash
  PROVE  CuttingOver'
<1>1. was' = was /\ db' = db /\ todo' = {} /\ pc' = "down" /\ torn' = torn \cup Cuts
  BY DEF Crash
<1>2. Threads' = Threads /\ \A c \in Chats : Thread(c)' = Thread(c)
  BY <1>1, ThreadsStay
<1>3. pc' \notin {"rolling", "mark"} \cup Seeding /\ pc' \notin {"mark"} \cup Seeding /\ pc' \notin Seeding
      /\ pc' # "live" /\ pc' # "claims" /\ pc' # "mark"
  BY <1>1 DEF Seeding
<1>4. ASSUME torn' = {}
      PROVE  /\ <<Home, 1>> \in db'.processed \/ db'.generation[Home] = 1
             /\ db'.cut => <<Home, 1>> \in db'.processed
             /\ \A c \in Chats : Thread(c)' \in Threads' => Thread(c)' \in db'.seeded
  <2>1. torn = {} /\ "roll" \notin Cuts
    BY <1>1, <1>4
  <2>2. pc \in {"seed", "seeding", "mark"} => Thread(chat[1]) = chat
    BY <2>1 DEF Cuts
  <2>3. pc \notin Seeding
    <3> SUFFICES ASSUME pc \in Seeding PROVE FALSE
      OBVIOUS
    <3>1. Thread(chat[1]) = chat /\ Thread(chat[1]) = <<chat[1], chat[2] + 1>>
      BY <2>2 DEF CuttingOver, Seeding
    <3>2. chat \in Chats \X Nat
      BY DEF Types, Loops
    <3>3. chat[2] = chat[2] + 1 /\ chat[2] \in Nat
      BY <3>1, <3>2
    <3> QED
      BY <3>3
  <2>4. chat = <<Home, 1>> /\ pc = "mark" => db.generation[Home] = 1
    BY <2>2 DEF Thread
  <2>5. /\ \/ <<Home, 1>> \in db.processed \/ db.generation[Home] = 1
           \/ pc = "mark" /\ chat = <<Home, 1>>
        /\ db.cut => <<Home, 1>> \in db.processed
        /\ \A c \in Chats : Thread(c) \in Threads => Thread(c) \in db.seeded
    BY <2>1, <2>3 DEF CuttingOver
  <2> QED
    BY <1>1, <1>2, <2>4, <2>5
<1> QED
  BY <1>1, <1>3, <1>4 DEF CuttingOver

(* Every step of a start that finds threads.                               *)
LEMMA CuttingStep ==
  ASSUME Types, Found, SchemaInv, LegacyInv, CuttingOver, was' = was, [Next]_vars
  PROVE  CuttingOver'
<1> SUFFICES ASSUME was.key PROVE CuttingOver'
  BY DEF CuttingOver
<1>0. MigratedOnce
  BY DEF LegacyInv
<1>1. CASE Start \/ Schema \/ SplitSettings \/ SkipSelection \/ SaveSelection \/ ForgetSelection
           \/ ReconcileDispatches \/ ReconcileAbandoned
  <2>1. pc \notin {"mark"} \cup Seeding /\ pc' \notin Looping \cup {"live"} /\ pc' # "claims"
    BY <1>1, BeforeTheCutover DEF Nine, Eleven, Twelve, Carrying, Seeding, Looping
  <2> QED
    BY <1>1, <2>1, BeforeTheCutover, CuttingKept
<1>2. CASE ListThreads
  BY <1>2, ListThreadsCuts
<1>3. CASE Roll
  BY <1>3, RollCuts
<1>4. CASE SeedInput \/ SeedMessages
  BY <1>0, <1>4, SeedCuts
<1>5. CASE Mark
  BY <1>5, MarkCuts
<1>6. CASE EndCutover
  BY <1>6, EndCutoverCuts
<1>7. CASE ReconcileCutover
  BY <1>0, <1>7, ReconcileCuts
<1>8. CASE Migrate
  BY <1>0, <1>8, MigratingFrom DEF MigratedOnce
<1>9. CASE Crash
  BY <1>9, CrashCuts
<1>10. CASE UNCHANGED vars
  BY <1>10 DEF vars, CuttingOver, Threads, Thread, Claimed
<1> QED
  BY <1>1, <1>2, <1>3, <1>4, <1>5, <1>6, <1>7, <1>8, <1>9, <1>10 DEF Next, Step

-----------------------------------------------------------------------------
(* The first start after an installation from before the graph.            *)

(* The first start, when the threads are left as they are.                  *)
LEMMA FirstKept ==
  ASSUME FirstChats, was' = was, torn' = torn,
         UNCHANGED <<db.generation, db.begun, db.seeded, db.cut, db.key>>, db'.asked = "none" \/ db'.asked = db.asked,
         pc # "seeding", pc' \notin {"rolling", "mark", "chats", "admit"} \cup Seeding,
         pc' \in {"claims"} \cup Migrating => db.cut \/ was.key,
         pc' \in {"escalations", "archive", "validate", "legacy", "key"}
           => pc \in {"escalations", "archive", "validate", "legacy", "key"}
  PROVE  FirstChats'
<1> SUFFICES ASSUME ~was'.key PROVE FirstChats'
  BY DEF FirstChats
<1>1. pc' # "mark" /\ pc' # "rolling" /\ pc' \notin Seeding /\ pc' \notin {"chats", "admit"} \cup Seeding
      /\ pc' \notin {"admit"} \cup Seeding
  OBVIOUS
<1>2. /\ db'.asked = "none" /\ \A c \in Chats : db'.generation[c] \in {0, 1}
      /\ db'.cut \/ \A c \in Chats : db'.generation[c] = 0
  BY DEF FirstChats
<1>3. pc' \in {"claims"} \cup Migrating \cup Seeding => db'.cut
  BY <1>1
<1>4. ASSUME torn' = {}
      PROVE  /\ \A c \in Chats : <<c, 1>> \in db'.begun => <<c, 1>> \in db'.seeded
             /\ db'.key \/ pc' \in {"escalations", "archive", "validate", "legacy", "key"}
                  => \A c \in Chats : Of(c) = {} \/ <<c, 1>> \in db'.seeded
  BY <1>4 DEF FirstChats
<1>5. \A c \in Chats : Of(c)' = Of(c)
  BY DEF Of
<1> QED
  BY <1>1, <1>2, <1>3, <1>4, <1>5 DEF FirstChats

(* Before the cutover a first installation has no threads.                 *)
LEMMA NoThreadsYet ==
  ASSUME Types, FirstChats, ~was.key, ~db.cut
  PROVE  Threads = {}
BY DEF Threads, FirstChats

(* The cutover of a first installation has nothing to do.                  *)
LEMMA FirstCutover ==
  ASSUME Types, FirstChats, was' = was, ~was.key, ListThreads \/ Roll \/ Mark \/ EndCutover
  PROVE  FirstChats'
<1>1. CASE ListThreads
  <2>1. /\ db' = db /\ torn' = torn /\ pc = "cutover"
        /\ todo' = Threads \ db.processed
        /\ \/ pc' = "claims" /\ db.cut
           \/ pc' = "rolling" /\ ~db.cut
    BY <1>1 DEF ListThreads, Loop
  <2>2. CASE db.cut
    BY <2>1, <2>2, FirstKept DEF Seeding, Migrating
  <2>3. CASE ~db.cut
    <3>1. todo' = {}
      BY <2>1, <2>3, NoThreadsYet
    <3>2. pc' = "rolling" /\ pc' \notin Seeding /\ pc' \notin {"chats", "admit"} \cup Seeding
          /\ pc' \notin {"admit"} \cup Seeding /\ pc' \notin {"claims"} \cup Migrating \cup Seeding
          /\ pc' \notin {"escalations", "archive", "validate", "legacy", "key"} /\ pc # "seeding"
      BY <2>1, <2>3 DEF Seeding, Migrating
    <3>3. \A c \in Chats : Of(c)' = Of(c)
      BY DEF Of
    <3> QED
      BY <2>1, <3>1, <3>2, <3>3 DEF FirstChats
  <2> QED
    BY <2>2, <2>3
<1>2. ~Roll
  BY DEF Roll, Loop, FirstChats
<1>3. ~Mark
  BY DEF Mark, Write, FirstChats
<1>4. CASE EndCutover
  <2>1. /\ db'.generation = db.generation /\ db'.begun = db.begun /\ db'.seeded = db.seeded /\ db'.cut
        /\ db'.key = db.key /\ db'.asked = db.asked /\ torn' = torn /\ pc = "rolling" /\ pc' = "claims"
    BY <1>4 DEF EndCutover, Write, Types, Database
  <2>2. pc' # "mark" /\ pc' # "rolling" /\ pc' \notin Seeding /\ pc' \notin {"chats", "admit"} \cup Seeding
        /\ pc' \notin {"admit"} \cup Seeding /\ pc # "seeding"
        /\ pc' \notin {"escalations", "archive", "validate", "legacy", "key"}
    BY <2>1 DEF Seeding
  <2>3. \A c \in Chats : Of(c)' = Of(c)
    BY DEF Of
  <2> QED
    BY <2>1, <2>2, <2>3 DEF FirstChats
<1> QED
  BY <1>1, <1>2, <1>3, <1>4

(* The thread of a chat that is seeded with the messages there are.         *)
LEMMA FirstSeeding ==
  ASSUME Types, FirstChats, was' = was, ~was.key, SeedInput \/ SeedMessages
  PROVE  FirstChats'
<1>1. /\ db'.generation = db.generation /\ db'.cut = db.cut /\ db'.key = db.key /\ db'.asked = db.asked
      /\ torn' = torn /\ todo' = todo /\ chat' = chat /\ pc \in Seeding
  BY DEF SeedInput, SeedMessages, Write, Types, Database, Seeding
<1>2. PICK d \in Chats : chat = <<d, 1>> /\ db.generation[d] = 1
  BY <1>1 DEF FirstChats
<1>3. Thread(chat[1]) = <<d, 1>>
  BY <1>2 DEF Thread
<1>4. ~db.key /\ db.cut
  BY <1>1 DEF FirstChats
<1>5. \/ pc = "seed" /\ pc' = "seeding" /\ db'.begun = db.begun \cup {<<d, 1>>} /\ db'.seeded = db.seeded
      \/ pc = "seeding" /\ pc' = "chats" /\ db'.begun = db.begun /\ db'.seeded = db.seeded \cup {<<d, 1>>}
  BY <1>3, <1>4 DEF SeedInput, SeedMessages, Write, Types, Database
<1>6. pc' # "mark" /\ pc' # "rolling" /\ pc' \notin {"escalations", "archive", "validate", "legacy", "key"}
      /\ pc \in {"chats", "admit"} \cup Seeding /\ pc # "chats"
  BY <1>5 DEF Seeding
<1>7. \A c \in Chats : Of(c)' = Of(c)
  BY DEF Of
<1>8. /\ db'.asked = "none" /\ \A c \in Chats : db'.generation[c] \in {0, 1}
      /\ ~db'.key /\ db'.cut
      /\ \E c \in Chats : chat' = <<c, 1>> /\ db'.generation[c] = 1
  BY <1>1, <1>2, <1>4 DEF FirstChats
<1>9. ASSUME torn' = {}
      PROVE  /\ \A c \in Chats : <<c, 1>> \in db'.begun
                  => <<c, 1>> \in db'.seeded \/ (pc' = "seeding" /\ chat' = <<c, 1>>)
             /\ \A c \in Chats : Of(c) = {} \/ <<c, 1>> \in db'.seeded \/ c \in todo'
                  \/ (pc' # "chats" /\ chat' = <<c, 1>>)
  <2>1. torn = {}
    BY <1>1, <1>9
  <2>2. /\ \A c \in Chats : <<c, 1>> \in db.begun
             => <<c, 1>> \in db.seeded \/ (pc = "seeding" /\ chat = <<c, 1>>)
        /\ \A c \in Chats : Of(c) = {} \/ <<c, 1>> \in db.seeded \/ c \in todo \/ chat = <<c, 1>>
    BY <1>6, <2>1 DEF FirstChats
  <2>3. CASE pc = "seed"
    BY <1>1, <1>2, <1>5, <2>2, <2>3
  <2>4. CASE pc = "seeding"
    BY <1>1, <1>2, <1>5, <2>2, <2>4
  <2> QED
    BY <1>5, <2>3, <2>4
<1> QED
  BY <1>6, <1>7, <1>8, <1>9 DEF FirstChats

(* Nor has its reconciliation.                                             *)
LEMMA FirstReconciliation ==
  ASSUME Types, FirstChats, was' = was, ~was.key, ReconcileCutover
  PROVE  FirstChats'
<1>1. /\ torn' = torn /\ UNCHANGED <<db.generation, db.begun, db.seeded, db.cut>> /\ db'.key = db.key
  BY Reconciled DEF LegacyRows
<1>2. pc = "claims" /\ pc' \in {"live", "backup"}
  BY DEF ReconcileCutover, Write
<1>3. db'.asked = db.asked /\ db.cut
  BY <1>2, Asked DEF FirstChats
<1> QED
  BY <1>1, <1>2, <1>3, FirstKept DEF Seeding

(* After the backup every chat is yet to do.                               *)
LEMMA BackupFirst ==
  ASSUME Types, FirstChats, was' = was, ~was.key, Backup
  PROVE  FirstChats'
<1>1. /\ db'.generation = db.generation /\ db'.begun = db.begun /\ db'.seeded = db.seeded /\ db'.cut = db.cut
      /\ db'.key = db.key /\ db'.asked = db.asked /\ torn' = torn /\ todo' = Chats
      /\ pc = "backup" /\ pc' = "chats"
  BY DEF Backup, Loop, Types, Database
<1>2. pc' # "mark" /\ pc' # "rolling" /\ pc' \notin Seeding /\ pc' \notin {"admit"} \cup Seeding /\ pc # "seeding"
      /\ pc' \notin {"escalations", "archive", "validate", "legacy", "key"}
      /\ pc \in {"claims"} \cup Migrating \cup Seeding
  BY <1>1 DEF Seeding, Migrating
<1>3. \A c \in Chats : Of(c)' = Of(c)
  BY DEF Of
<1>4. db.cut
  BY <1>2 DEF FirstChats
<1> QED
  BY <1>1, <1>2, <1>3, <1>4 DEF FirstChats

(* The next chat gets its first generation.                                *)
LEMMA NextChatFirst ==
  ASSUME Types, FirstChats, was' = was, ~was.key, NextChat
  PROVE  FirstChats'
<1>1. PICK d \in todo :
        /\ todo' = todo \ {d} /\ chat' = <<d, 1>> /\ torn' = torn /\ pc = "chats" /\ pc' = "admit"
        /\ db' = [db EXCEPT !.generation[d] = IF @ = 0 THEN 1 ELSE @]
  BY DEF NextChat, Loop
<1>2. d \in Chats
  BY <1>1 DEF Types, Loops
<1>3. db.generation[d] \in {0, 1} /\ db.generation \in [Chats -> Nat]
  BY <1>2 DEF FirstChats, Types, Database
<1>4. db' = [db EXCEPT !.generation = [db.generation EXCEPT ![d] = 1]]
  BY <1>1, <1>3 DEF Types, Database
<1>5. /\ db'.generation = [db.generation EXCEPT ![d] = 1] /\ db'.begun = db.begun /\ db'.seeded = db.seeded
      /\ db'.cut = db.cut /\ db'.key = db.key /\ db'.asked = db.asked
  BY <1>4 DEF Types, Database
<1>6. pc' # "mark" /\ pc' # "rolling" /\ pc' \notin Seeding /\ pc # "seeding"
      /\ pc' \notin {"escalations", "archive", "validate", "legacy", "key"}
      /\ pc \in {"claims"} \cup Migrating \cup Seeding /\ pc \in {"chats", "admit"} \cup Seeding
      /\ pc' # "chats" /\ pc' # "seeding"
  BY <1>1 DEF Seeding, Migrating
<1>7. /\ db'.asked = "none" /\ \A c \in Chats : db'.generation[c] \in {0, 1}
      /\ db'.cut /\ \E c \in Chats : chat' = <<c, 1>> /\ db'.generation[c] = 1
  BY <1>1, <1>2, <1>3, <1>5, <1>6 DEF FirstChats
<1>8. \A c \in Chats : Of(c)' = Of(c)
  BY DEF Of
<1>9. db.key = db'.key /\ (db.key \in BOOLEAN)
  BY <1>5 DEF Types, Database
<1>10. ASSUME torn' = {}
       PROVE  /\ \A c \in Chats : <<c, 1>> \in db'.begun => <<c, 1>> \in db'.seeded
              /\ \A c \in Chats : Of(c) = {} \/ <<c, 1>> \in db'.seeded \/ c \in todo' \/ chat' = <<c, 1>>
              /\ db'.key => \A c \in Chats : Of(c) = {} \/ <<c, 1>> \in db'.seeded
  <2>1. torn = {}
    BY <1>1, <1>10
  <2>2. /\ \A c \in Chats : <<c, 1>> \in db.begun => <<c, 1>> \in db.seeded
        /\ \A c \in Chats : Of(c) = {} \/ <<c, 1>> \in db.seeded \/ c \in todo
        /\ db.key => \A c \in Chats : Of(c) = {} \/ <<c, 1>> \in db.seeded
    BY <1>1, <1>6, <2>1 DEF FirstChats
  <2> QED
    BY <1>1, <1>5, <2>2
<1> QED
  BY <1>6, <1>7, <1>8, <1>10 DEF FirstChats

(* A message becomes an event.                                             *)
LEMMA AdmitFirst ==
  ASSUME Types, FirstChats, was' = was, ~was.key, Admit
  PROVE  FirstChats'
<1>1. /\ db'.generation = db.generation /\ db'.begun = db.begun /\ db'.seeded = db.seeded /\ db'.cut = db.cut
      /\ db'.key = db.key /\ db'.asked = db.asked /\ torn' = torn /\ todo' = todo /\ chat' = chat
      /\ pc = "admit" /\ pc' = "admit"
  BY DEF Admit, Write, Types, Database
<1>2. \A c \in Chats : Of(c)' = Of(c)
  BY DEF Of
<1> QED
  BY <1>1, <1>2 DEF FirstChats

(* A chat is done without a seeding when it has no messages, or when its   *)
(* thread has begun: then it has been seeded in full, as no seeding was    *)
(* cut.                                                                    *)
LEMMA EndChatFirst ==
  ASSUME Types, FirstChats, MigratedOnce, was' = was, ~was.key, EndChat
  PROVE  FirstChats'
<1>1. /\ db' = db /\ torn' = torn /\ todo' = todo /\ chat' = chat /\ pc = "admit"
      /\ \/ pc' = "seed"
         \/ pc' = "chats" /\ (Of(chat[1]) = {} \/ chat \in db.begun)
  BY DEF EndChat, Write
<1>2. pc \in {"admit"} \cup Seeding /\ pc \in {"claims"} \cup Migrating \cup Seeding
      /\ pc \in {"chats", "admit"} \cup Seeding /\ pc # "seeding" /\ pc \in Migrating
  BY <1>1 DEF Migrating
<1>3. PICK d \in Chats : chat = <<d, 1>> /\ db.generation[d] = 1
  BY <1>2 DEF FirstChats
<1>4. chat[1] = d
  BY <1>3
<1>5. /\ db.asked = "none" /\ (\A c \in Chats : db.generation[c] \in {0, 1}) /\ db.cut /\ ~db.key
  BY <1>2 DEF FirstChats, MigratedOnce
<1>6. pc' # "mark" /\ pc' # "rolling" /\ pc' \notin {"escalations", "archive", "validate", "legacy", "key"}
      /\ pc' # "seeding"
  BY <1>1
<1>7. \A c \in Chats : Of(c)' = Of(c)
  BY DEF Of
<1>8. ASSUME torn' = {}
      PROVE  /\ \A c \in Chats : <<c, 1>> \in db'.begun => <<c, 1>> \in db'.seeded
             /\ \A c \in Chats : Of(c) = {} \/ <<c, 1>> \in db'.seeded \/ c \in todo'
                  \/ (pc' # "chats" /\ chat' = <<c, 1>>)
  <2>1. torn = {}
    BY <1>1, <1>8
  <2>2. /\ \A c \in Chats : <<c, 1>> \in db.begun => <<c, 1>> \in db.seeded
        /\ \A c \in Chats : Of(c) = {} \/ <<c, 1>> \in db.seeded \/ c \in todo \/ chat = <<c, 1>>
    BY <1>1, <1>2, <2>1 DEF FirstChats
  <2>3. CASE pc' = "seed"
    BY <1>1, <2>2, <2>3
  <2>4. CASE pc' = "chats" /\ (Of(d) = {} \/ <<d, 1>> \in db.begun)
    <3>1. Of(d) = {} \/ <<d, 1>> \in db.seeded
      BY <2>2, <2>4
    <3>2. \A c \in Chats : chat = <<c, 1>> => c = d
      BY <1>3
    <3> QED
      BY <1>1, <2>2, <3>1, <3>2
  <2> QED
    BY <1>1, <1>3, <1>4, <2>3, <2>4
<1> QED
  BY <1>1, <1>3, <1>5, <1>6, <1>7, <1>8 DEF FirstChats

(* The loop ends when every chat that has messages is seeded.              *)
LEMMA EndChatsFirst ==
  ASSUME Types, FirstChats, was' = was, ~was.key, EndChats
  PROVE  FirstChats'
<1>1. db' = db /\ torn' = torn /\ todo = {} /\ pc = "chats" /\ pc' = "escalations"
  BY DEF EndChats, Write
<1>2. pc' # "mark" /\ pc' # "rolling" /\ pc' \notin Seeding /\ pc' \notin {"chats", "admit"} \cup Seeding
      /\ pc' \notin {"admit"} \cup Seeding /\ pc # "seeding" /\ pc' # "seeding"
      /\ pc \in {"claims"} \cup Migrating \cup Seeding /\ pc \in {"chats", "admit"} \cup Seeding
  BY <1>1 DEF Seeding, Migrating
<1>3. \A c \in Chats : Of(c)' = Of(c)
  BY DEF Of
<1>4. db.cut /\ db.asked = "none" /\ \A c \in Chats : db.generation[c] \in {0, 1}
  BY <1>2 DEF FirstChats
<1>5. ASSUME torn = {}
      PROVE  /\ \A c \in Chats : <<c, 1>> \in db.begun => <<c, 1>> \in db.seeded
             /\ \A c \in Chats : Of(c) = {} \/ <<c, 1>> \in db.seeded
  BY <1>1, <1>2, <1>5 DEF FirstChats
<1> QED
  BY <1>1, <1>2, <1>3, <1>4, <1>5 DEF FirstChats

(* After the chats.                                                         *)
LEMMA AfterChatsFirst ==
  ASSUME Types, FirstChats, was' = was, ~was.key,
         MigrateEscalation \/ EndEscalations \/ Archive \/ Validate \/ DropLegacy
  PROVE  FirstChats'
<1>1. /\ UNCHANGED <<db.generation, db.begun, db.seeded, db.cut, db.key>> /\ db'.asked = db.asked /\ torn' = torn
      /\ pc \in {"escalations", "archive", "validate", "legacy"}
      /\ pc' \in {"escalations", "archive", "validate", "legacy", "key", "failed"}
  <2>1. CASE MigrateEscalation
    BY <2>1 DEF MigrateEscalation, Write, Types, Database
  <2>2. CASE EndEscalations
    BY <2>2 DEF EndEscalations, Write
  <2>3. CASE Archive
    BY <2>3 DEF Archive, Write, Types, Database
  <2>4. CASE Validate
    BY <2>4 DEF Validate, Write
  <2>5. CASE DropLegacy
    BY <2>5 DEF DropLegacy, Write, Types, Database
  <2> QED
    BY <2>1, <2>2, <2>3, <2>4, <2>5
<1>2. db.cut
  BY <1>1 DEF FirstChats, Migrating
<1>3. pc' \notin {"rolling", "mark", "chats", "admit"} \cup Seeding /\ pc # "seeding"
  BY <1>1 DEF Seeding
<1> QED
  BY <1>1, <1>2, <1>3, FirstKept

(* The mark of the migration.                                              *)
LEMMA CompleteFirst ==
  ASSUME Types, FirstChats, was' = was, ~was.key, Complete
  PROVE  FirstChats'
<1>1. /\ UNCHANGED <<db.generation, db.begun, db.seeded, db.cut>> /\ db'.asked = db.asked /\ torn' = torn
      /\ pc = "key" /\ pc' = "live"
  BY DEF Complete, Write, Types, Database
<1>2. pc' # "mark" /\ pc' # "rolling" /\ pc' \notin Seeding /\ pc' \notin {"chats", "admit"} \cup Seeding
      /\ pc' \notin {"admit"} \cup Seeding /\ pc # "seeding" /\ pc' # "seeding"
      /\ pc \in {"claims"} \cup Migrating \cup Seeding
      /\ pc \in {"escalations", "archive", "validate", "legacy", "key"}
  BY <1>1 DEF Seeding, Migrating
<1>3. \A c \in Chats : Of(c)' = Of(c)
  BY DEF Of
<1>4. db.cut /\ db.asked = "none" /\ \A c \in Chats : db.generation[c] \in {0, 1}
  BY <1>2 DEF FirstChats
<1>5. ASSUME torn = {}
      PROVE  /\ \A c \in Chats : <<c, 1>> \in db.begun => <<c, 1>> \in db.seeded
             /\ \A c \in Chats : Of(c) = {} \/ <<c, 1>> \in db.seeded
  BY <1>1, <1>2, <1>5 DEF FirstChats
<1> QED
  BY <1>1, <1>2, <1>3, <1>4, <1>5 DEF FirstChats

(* Every step of a start that finds a database from before the graph.      *)
LEMMA FirstStep ==
  ASSUME Types, LegacyInv, FirstChats, was' = was, [Next]_vars
  PROVE  FirstChats'
<1> SUFFICES ASSUME ~was.key PROVE FirstChats'
  BY DEF FirstChats
<1>0. MigratedOnce
  BY DEF LegacyInv
<1>1. CASE Start \/ Schema \/ SplitSettings \/ SkipSelection \/ SaveSelection \/ ForgetSelection
           \/ ReconcileDispatches \/ ReconcileAbandoned
  <2>1. /\ pc # "seeding" /\ pc' \notin {"rolling", "mark", "chats", "admit"} \cup Seeding
        /\ pc' \notin {"claims"} \cup Migrating
        /\ pc' \notin {"escalations", "archive", "validate", "legacy", "key"}
    BY <1>1, BeforeTheCutover DEF Nine, Eleven, Twelve, Carrying, Seeding, Migrating
  <2>2. db'.key = db.key /\ db'.asked = db.asked
    <3>1. CASE Start
      BY <3>1 DEF Start, Write
    <3>2. CASE Schema
      BY <3>2, SchemaFrame DEF LegacyRows, ThreadRows, Types
    <3>3. CASE SplitSettings \/ SkipSelection \/ SaveSelection \/ ForgetSelection
      <4>1. db'.asked = db.asked
        BY <3>3, CarryingFrame DEF ThreadRows, Types
      <4>2. db'.key = db.key
        <5>1. CASE SplitSettings
          BY <5>1 DEF SplitSettings, Write, Types, Database
        <5>2. CASE SkipSelection
          BY <5>2 DEF SkipSelection, Write
        <5>3. CASE SaveSelection
          BY <5>3 DEF SaveSelection, Write, Types, Database
        <5>4. CASE ForgetSelection
          BY <5>4 DEF ForgetSelection, Write, Types, Database
        <5> QED
          BY <3>3, <5>1, <5>2, <5>3, <5>4
      <4> QED
        BY <4>1, <4>2
    <3>4. CASE ReconcileDispatches
      BY <3>4 DEF ReconcileDispatches, Write, Types, Database
    <3>5. CASE ReconcileAbandoned
      BY <3>5, Asked, Reconciled DEF LegacyRows, FirstChats
    <3> QED
      BY <1>1, <3>1, <3>2, <3>3, <3>4, <3>5
  <2> QED
    BY <1>1, <2>1, <2>2, BeforeTheCutover, FirstKept
<1>2. CASE ListThreads \/ Roll \/ Mark \/ EndCutover
  BY <1>2, FirstCutover
<1>3. CASE SeedInput \/ SeedMessages
  BY <1>3, FirstSeeding
<1>4. CASE ReconcileCutover
  BY <1>4, FirstReconciliation
<1>5. CASE Migrate
  BY <1>0, <1>5, BackupFirst, NextChatFirst, AdmitFirst, EndChatFirst, EndChatsFirst, AfterChatsFirst,
     CompleteFirst
  DEF Migrate
<1>6. CASE Crash
  <2>1. db' = db /\ pc' = "down" /\ torn' = torn \cup Cuts
    BY <1>6 DEF Crash
  <2>2. pc' # "mark" /\ pc' # "rolling" /\ pc' \notin Seeding /\ pc' \notin {"chats", "admit"} \cup Seeding
        /\ pc' \notin {"admit"} \cup Seeding /\ pc' # "seeding" /\ pc' \notin {"claims"} \cup Migrating \cup Seeding
        /\ pc' \notin {"escalations", "archive", "validate", "legacy", "key"}
    BY <2>1 DEF Seeding, Migrating
  <2>3. \A c \in Chats : Of(c)' = Of(c)
    BY DEF Of
  <2>4. ASSUME torn' = {}
        PROVE  /\ \A c \in Chats : <<c, 1>> \in db.begun => <<c, 1>> \in db.seeded
               /\ db.key => \A c \in Chats : Of(c) = {} \/ <<c, 1>> \in db.seeded
    <3>1. torn = {} /\ "seed" \notin Cuts
      BY <2>1, <2>4
    <3>2. pc # "seeding"
      BY <3>1 DEF Cuts
    <3> QED
      BY <3>1, <3>2 DEF FirstChats
  <2>5. /\ db.asked = "none" /\ \A c \in Chats : db.generation[c] \in {0, 1}
        /\ db.cut \/ \A c \in Chats : db.generation[c] = 0
    BY DEF FirstChats
  <2> QED
    BY <2>1, <2>2, <2>3, <2>4, <2>5 DEF FirstChats
<1>7. CASE UNCHANGED vars
  BY <1>7 DEF vars, FirstChats, Of
<1> QED
  BY <1>1, <1>2, <1>3, <1>4, <1>5, <1>6, <1>7 DEF Next, Step

-----------------------------------------------------------------------------
(* The installations that are found, and the theorems.                     *)

(* The database from before the graph is typed.                            *)
LEMMA FirstTyped == First \in Database
<1>1. /\ NoInputs \in [Entries -> Queued \cup {None}] /\ NoEffects \in [Deliveries -> Results \cup {None}]
      /\ NoInputs \in [Entries -> Mails \cup {None}] /\ NoEffects \in [Deliveries -> Actions \cup {None}]
      /\ NoInputs \in [Entries -> {"unapplied", "claimed", "applied", None}]
      /\ NoInputs \in [Entries -> WorkState \cup {None}]
  BY DEF NoInputs, NoEffects
<1>2. [c \in Chats |-> 0] \in [Chats -> Nat]
  OBVIOUS
<1> DEFINE none == [c \in Chats |-> 0]
<1> HIDE DEF none
<1>3. none \in [Chats -> Nat]
  BY <1>2 DEF none
<1>4. First = [version |-> 8, tables |-> {"queue"}, queue |-> NoInputs, deliveries |-> NoEffects,
   mailbox |-> NoInputs, outbound |-> NoEffects, events |-> NoInputs, work |-> NoInputs,
   cursor |-> 0, run |-> "completed", asked |-> "none",
   settings |-> "mixed", selection |-> FALSE, configured |-> FALSE,
   generation |-> none, begun |-> {}, seeded |-> {},
   processed |-> {}, cut |-> FALSE,
   records |-> Records, journal |-> {}, interrupts |-> {}, archive |-> {},
   backup |-> FALSE, key |-> FALSE]
  BY DEF First, none
<1> QED
  BY <1>1, <1>3, <1>4 DEF Database

(* An installation of the graph's first public output.                      *)
LEMMA InstalledTyped ==
  ASSUME NEW run \in {"running", "interrupted", "completed"}, NEW chats \in SUBSET Chats
  PROVE  /\ Installed(run, chats) \in Database
         /\ \A c \in Chats : Installed(run, chats).generation[c] = IF c \in chats THEN 1 ELSE 0
         /\ Installed(run, chats).seeded = chats \X {1}
         /\ Installed(run, chats).cut = FALSE /\ Installed(run, chats).key = TRUE
         /\ Installed(run, chats).records = {} /\ Installed(run, chats).settings = "split"
         /\ Installed(run, chats).work = NoInputs /\ Installed(run, chats).queue = NoInputs
         /\ Installed(run, chats).deliveries = NoEffects /\ Installed(run, chats).mailbox = NoInputs
         /\ Installed(run, chats).outbound = NoEffects
         /\ Installed(run, chats).version = 8 /\ Installed(run, chats).tables = {"queue"}
<1> DEFINE g == [c \in Chats |-> IF c \in chats THEN 1 ELSE 0]
           s == chats \X {1}
           a == IF run = "interrupted" THEN "graph" ELSE "none"
<1>1. g \in [Chats -> Nat] /\ s \in SUBSET (Chats \X Nat) /\ a \in {"none", "graph", "journal"}
  OBVIOUS
<1>2. Installed(run, chats) = [First EXCEPT !.settings = "split", !.configured = TRUE, !.key = TRUE, !.records = {},
        !.generation = g, !.begun = s, !.seeded = s, !.run = run, !.asked = a]
  BY DEF Installed
<1>3. \A c \in Chats : g[c] = IF c \in chats THEN 1 ELSE 0
  OBVIOUS
<1> HIDE DEF g, s, a
<1> DEFINE d1 == [First EXCEPT !.settings = "split"]
           d2 == [d1 EXCEPT !.configured = TRUE]
           d3 == [d2 EXCEPT !.key = TRUE]
           d4 == [d3 EXCEPT !.records = {}]
           d5 == [d4 EXCEPT !.generation = g]
           d6 == [d5 EXCEPT !.begun = s]
           d7 == [d6 EXCEPT !.seeded = s]
           d8 == [d7 EXCEPT !.run = run]
           d9 == [d8 EXCEPT !.asked = a]
<1>4. Installed(run, chats) = d9
  BY <1>2, FirstTyped DEF Database
<1>5. d1 \in Database
  BY FirstTyped, Rewritten
<1>6. d2 \in Database
  <2> HIDE DEF d1
  <2> QED
    BY <1>5, Rewritten
<1>7. d3 \in Database
  <2> HIDE DEF d2
  <2> QED
    BY <1>6, Rewritten
<1>8. d4 \in Database
  <2> HIDE DEF d3
  <2> QED
    BY <1>7, Rewritten
<1>9. d5 \in Database
  <2> HIDE DEF d4
  <2> QED
    BY <1>1, <1>8, Rewritten
<1>10. d6 \in Database
  <2> HIDE DEF d5
  <2> QED
    BY <1>1, <1>9, Rewritten
<1>11. d7 \in Database
  <2> HIDE DEF d6
  <2> QED
    BY <1>1, <1>10, Rewritten
<1>12. d8 \in Database
  <2> HIDE DEF d7
  <2> QED
    BY <1>11, Rewritten
<1>13. d9 \in Database
  <2> HIDE DEF d8
  <2> QED
    BY <1>1, <1>12, Rewritten
<1>14. /\ First.cut = FALSE /\ First.work = NoInputs /\ First.queue = NoInputs /\ First.deliveries = NoEffects
       /\ First.mailbox = NoInputs /\ First.outbound = NoEffects /\ First.version = 8 /\ First.tables = {"queue"}
  BY DEF First
<1>15. /\ d9.generation = g /\ d9.seeded = s /\ d9.cut = First.cut /\ d9.key = TRUE /\ d9.records = {}
       /\ d9.settings = "split" /\ d9.work = First.work /\ d9.queue = First.queue
       /\ d9.deliveries = First.deliveries /\ d9.mailbox = First.mailbox /\ d9.outbound = First.outbound
       /\ d9.version = First.version /\ d9.tables = First.tables
  BY FirstTyped DEF Database
<1> HIDE DEF d9
<1> QED
  BY <1>3, <1>4, <1>13, <1>14, <1>15 DEF s

(* What an installation holds: rows of the queue or mails, and its threads. *)
LEMMA FoundAtFirst ==
  ASSUME Init
  PROVE  /\ db \in Database /\ Found
         /\ db.version = 8 => db.tables = {"queue"}
         /\ db.version = 11 => db.tables = {"mailbox", "outbound"}
         /\ db.work = NoInputs
         /\ db.key => /\ db.cut = FALSE
                      /\ \A c \in Chats : db.generation[c] > 0 => <<c, db.generation[c]>> \in db.seeded
<1> DEFINE Held0(d) ==
      /\ d \in Database /\ d.version \in {8, 11}
      /\ ~d.key => d = First
      /\ d.key => d.generation[Home] = 1 /\ d.records = {} /\ d.settings = "split"
      /\ d.version = 8 => d.outbound = NoEffects /\ d.mailbox = NoInputs
      /\ d.version = 11 => d.deliveries = NoEffects /\ d.queue = NoInputs
      /\ d.version = 8 => d.tables = {"queue"}
      /\ d.version = 11 => d.tables = {"mailbox", "outbound"}
      /\ d.work = NoInputs
      /\ d.key => /\ d.cut = FALSE
                  /\ \A c \in Chats : d.generation[c] > 0 => <<c, d.generation[c]>> \in d.seeded
<1>1. Held0(First)
  <2>1. /\ First.version = 8 /\ First.key = FALSE /\ First.outbound = NoEffects /\ First.mailbox = NoInputs
        /\ First.tables = {"queue"} /\ First.work = NoInputs
    BY DEF First
  <2> QED
    BY <2>1, FirstTyped
<1>2. ASSUME NEW run \in {"running", "interrupted", "completed"}, NEW chats \in SUBSET Chats, Home \in chats
      PROVE  /\ \A q \in [Entries -> Queued \cup {None}], s \in [Deliveries -> Results \cup {None}] :
                  Held0(Version8(Installed(run, chats), q, s))
             /\ \A m \in [Entries -> Mails \cup {None}], s \in [Deliveries -> Actions \cup {None}] :
                  Held0(Version11(Installed(run, chats), m, s))
  <2> DEFINE base == Installed(run, chats)
  <2>1. /\ base \in Database
        /\ \A c \in Chats : base.generation[c] = IF c \in chats THEN 1 ELSE 0
        /\ base.seeded = chats \X {1}
        /\ base.cut = FALSE /\ base.key = TRUE /\ base.records = {} /\ base.settings = "split"
        /\ base.work = NoInputs /\ base.queue = NoInputs /\ base.deliveries = NoEffects
        /\ base.mailbox = NoInputs /\ base.outbound = NoEffects
        /\ base.version = 8 /\ base.tables = {"queue"}
    BY <1>2, InstalledTyped, Zenon
  <2>2. Home \in Chats
    BY UpgradeAssumption
  <2> HIDE DEF base
  <2>3. ASSUME NEW q \in [Entries -> Queued \cup {None}], NEW s \in [Deliveries -> Results \cup {None}]
        PROVE  Held0(Version8(base, q, s))
    <3> DEFINE d == [[base EXCEPT !.queue = q] EXCEPT !.deliveries = s]
    <3>1. d \in Database
      <4>1. [base EXCEPT !.queue = q] \in Database
        BY <2>1, Rewritten
      <4> QED
        BY <4>1, Rewritten
    <3>2. Version8(base, q, s) = d
      BY <2>1 DEF Version8, Database
    <3>3. /\ d.generation = base.generation /\ d.seeded = base.seeded /\ d.cut = base.cut /\ d.key = base.key
          /\ d.records = base.records /\ d.settings = base.settings /\ d.work = base.work
          /\ d.mailbox = base.mailbox /\ d.outbound = base.outbound
          /\ d.version = base.version /\ d.tables = base.tables
      BY <2>1 DEF Database
    <3> HIDE DEF d
    <3> QED
      BY <1>2, <2>1, <2>2, <3>1, <3>2, <3>3
  <2>4. ASSUME NEW m \in [Entries -> Mails \cup {None}], NEW s \in [Deliveries -> Actions \cup {None}]
        PROVE  Held0(Version11(base, m, s))
    <3> DEFINE e1 == [base EXCEPT !.version = 11]
               e2 == [e1 EXCEPT !.tables = {"mailbox", "outbound"}]
               e3 == [e2 EXCEPT !.mailbox = m]
               d == [e3 EXCEPT !.outbound = s]
    <3>1. e1 \in Database
      BY <2>1, Rewritten
    <3>2. e2 \in Database
      <4> HIDE DEF e1
      <4> QED
        BY <3>1, Rewritten
    <3>3. e3 \in Database
      <4> HIDE DEF e2
      <4> QED
        BY <3>2, Rewritten
    <3>4. d \in Database
      <4> HIDE DEF e3
      <4> QED
        BY <3>3, Rewritten
    <3>5. Version11(base, m, s) = d
      BY <2>1 DEF Version11, Database
    <3>6. /\ d.generation = base.generation /\ d.seeded = base.seeded /\ d.cut = base.cut /\ d.key = base.key
          /\ d.records = base.records /\ d.settings = base.settings /\ d.work = base.work
          /\ d.queue = base.queue /\ d.deliveries = base.deliveries
          /\ d.version = 11 /\ d.tables = {"mailbox", "outbound"}
      BY <2>1 DEF Database
    <3> HIDE DEF d
    <3> QED
      BY <1>2, <2>1, <2>2, <3>4, <3>5, <3>6
  <2> QED
    BY <2>3, <2>4 DEF base
<1>3. ASSUME Later(db) PROVE Held0(db)
  <2>1. {Home} \in SUBSET Chats /\ Home \in {Home} /\ Home \in Chats
    BY UpgradeAssumption
  <2>2. /\ \A q \in [Entries -> Queued] : q \in [Entries -> Queued \cup {None}]
        /\ \A m \in [Entries -> Mails] : m \in [Entries -> Mails \cup {None}]
        /\ \A s \in AtMostOne : s \in [Deliveries -> Actions \cup {None}]
        /\ NoEffects \in [Deliveries -> Results \cup {None}] /\ NoEffects \in [Deliveries -> Actions \cup {None}]
    BY DEF AtMostOne, NoEffects
  <2> HIDE DEF Held0
  <2>3. \/ \E run \in {"running", "interrupted"} :
             \/ \E q \in [Entries -> Queued], s \in [Deliveries -> Results \cup {None}] :
                  db = Version8(Installed(run, {Home}), q, s)
             \/ \E m \in [Entries -> Mails], s \in AtMostOne : db = Version11(Installed(run, {Home}), m, s)
        \/ \E q \in [Entries -> Queued] : db = Version8(Installed("completed", Chats), q, NoEffects)
        \/ \E m \in [Entries -> Mails] : db = Version11(Installed("completed", Chats), m, NoEffects)
    BY <1>3 DEF Later
  <2>4. CASE \E run \in {"running", "interrupted"} :
             \/ \E q \in [Entries -> Queued], s \in [Deliveries -> Results \cup {None}] :
                  db = Version8(Installed(run, {Home}), q, s)
             \/ \E m \in [Entries -> Mails], s \in AtMostOne : db = Version11(Installed(run, {Home}), m, s)
    BY <1>2, <2>1, <2>2, <2>4
  <2>5. CASE \E q \in [Entries -> Queued] : db = Version8(Installed("completed", Chats), q, NoEffects)
    BY <1>2, <2>1, <2>2, <2>5
  <2>6. CASE \E m \in [Entries -> Mails] : db = Version11(Installed("completed", Chats), m, NoEffects)
    BY <1>2, <2>1, <2>2, <2>6
  <2> QED
    BY <2>3, <2>4, <2>5, <2>6
<1>4. Held0(db)
  <2> HIDE DEF Held0
  <2> QED
    BY <1>1, <1>3 DEF Init
<1>5. was = db
  BY DEF Init
<1> QED
  BY <1>4, <1>5 DEF Found

(* and the two kinds of start.                                             *)
UpgradeInv == Types /\ Found /\ SchemaInv /\ LegacyInv /\ CuttingOver /\ FirstChats

(* The inductive invariant holds of whatever installation is found.        *)
LEMMA InitUpgrade == Init => UpgradeInv
<1> SUFFICES ASSUME Init PROVE UpgradeInv
  OBVIOUS
<1>1. /\ was = db /\ pc = "down" /\ todo = {} /\ torn = {} /\ chat = None
      /\ db = First \/ Later(db)
  BY DEF Init
<1>2. /\ db \in Database /\ Found
      /\ db.version = 8 => db.tables = {"queue"}
      /\ db.version = 11 => db.tables = {"mailbox", "outbound"}
      /\ db.work = NoInputs
      /\ db.key => /\ db.cut = FALSE
                   /\ \A c \in Chats : db.generation[c] > 0 => <<c, db.generation[c]>> \in db.seeded
  BY FoundAtFirst
<1>3. Types
  BY <1>1, <1>2 DEF Types, Loops, Phases, Seeding
<1>4. db.version \in {8, 11} /\ "events" \notin db.tables
  BY <1>1, <1>2 DEF Found
<1>5. Versions
  BY <1>1, <1>4 DEF Versions, Nine, Eleven, Twelve, Carrying, Cutting, Seeding, Migrating
<1>6. Tabled
  BY <1>1, <1>2, <1>4 DEF Tabled
<1>7. Copied
  <2>1. db.version # 8 => \A e \in Entries : db.mailbox[e] = Mail0(e)
    BY <1>1 DEF Mail0
  <2>2. db.version # 8 => \A x \in Deliveries : db.outbound[x] = Action0(x)
    BY <1>1 DEF Action0
  <2> QED
    BY <1>1, <2>1, <2>2 DEF Copied
<1>8. InputsResolved
  BY <1>2, <1>4 DEF InputsResolved, NoInputs
<1>9. CursorIsRight /\ JournalIsSound
  BY <1>1, <1>4 DEF CursorIsRight, JournalIsSound
<1>10. LegacyInv
  BY <1>1 DEF LegacyInv, RecordsKept, MigratedOnce, Migrating
<1>11. CuttingOver
  <2> SUFFICES ASSUME was.key PROVE CuttingOver
    BY DEF CuttingOver
  <2>1. db.generation[Home] = 1 /\ db.cut = FALSE
    BY <1>1, <1>2 DEF Found
  <2>2. \A c \in Chats : Thread(c) \in Threads => Thread(c) \in db.seeded
    BY <1>1, <1>2, ThreadsOf
  <2> QED
    BY <1>1, <2>1, <2>2 DEF CuttingOver, Seeding
<1>12. FirstChats
  <2> SUFFICES ASSUME ~was.key PROVE FirstChats
    BY DEF FirstChats
  <2>1. db = First
    BY <1>1, <1>2 DEF Found
  <2>2. /\ db.asked = "none" /\ (\A c \in Chats : db.generation[c] = 0) /\ db.begun = {} /\ db.key = FALSE
    BY <2>1 DEF First
  <2> QED
    BY <1>1, <2>2 DEF FirstChats, Seeding, Migrating
<1> QED
  BY <1>2, <1>3, <1>5, <1>6, <1>7, <1>8, <1>9, <1>10, <1>11, <1>12 DEF UpgradeInv, SchemaInv

(* The inductive invariant is kept by every step and by a crash.           *)
LEMMA NextUpgrade == UpgradeInv /\ [Next]_vars => UpgradeInv'
<1> SUFFICES ASSUME UpgradeInv, [Next]_vars PROVE UpgradeInv'
  OBVIOUS
<1>1. MigratedOnce
  BY DEF UpgradeInv, LegacyInv
<1>2. Found' /\ was' = was
  BY <1>1, FoundStep DEF UpgradeInv
<1>3. Types'
  BY <1>1, TypesStep DEF UpgradeInv
<1>4. SchemaInv'
  BY SchemaStep DEF UpgradeInv
<1>5. LegacyInv'
  BY LegacyStep DEF UpgradeInv
<1>6. CuttingOver'
  BY <1>2, CuttingStep DEF UpgradeInv
<1>7. FirstChats'
  BY <1>2, FirstStep DEF UpgradeInv
<1> QED
  BY <1>2, <1>3, <1>4, <1>5, <1>6, <1>7 DEF UpgradeInv

(* Every database a start leaves behind has rows of the kinds its tables   *)
(* take, and the loops go through threads or chats (startup in main.py,    *)
(* target_schema.py, migration.py).                                        *)
THEOREM UpgradeIsTyped == Spec => []Types
<1>1. UpgradeInv => Types
  BY DEF UpgradeInv
<1> QED
  BY <1>1, InitUpgrade, NextUpgrade, PTL DEF Spec

(* What the inductive invariant says of the inputs and side effects.        *)
LEMMA UpgradeHolds == UpgradeInv => NothingIsLost
<1> SUFFICES ASSUME UpgradeInv PROVE NothingIsLost
  OBVIOUS
<1> USE DEF UpgradeInv
<1>0. db.version \in {8, 9, 11, 12} /\ was.version \in {8, 11}
  BY DEF Types, Database, Found
<1>1. ASSUME NEW e \in Entries, Inputs(was, e) PROVE Held(e)
  <2>1. Mail0(e) # None /\ Mail0(e).state \in {"pending", "claimed"}
    <3>1. CASE was.version = 8
      <4>1. was.mailbox[e] = None
        BY <3>1 DEF Found, NoInputs
      <4>2. was.queue[e] # None /\ was.queue[e].state \in {"pending", "claimed"} /\ was.queue[e] \in Queued
        BY <1>1, <4>1 DEF Inputs, Found, Database
      <4>3. Mail0(e) = MailOf(was.queue[e]) /\ MailOf(was.queue[e]) \in Mails
        BY <3>1, <4>2, RowsOfScripts DEF Mail0
      <4> QED
        BY <4>2, <4>3, NoneAssumption DEF MailOf
    <3>2. CASE was.version = 11
      <4>1. was.queue[e] = None
        BY <3>2 DEF Found, NoInputs
      <4> QED
        BY <1>1, <3>2, <4>1 DEF Inputs, Mail0
    <3> QED
      BY <1>0, <3>1, <3>2
  <2>2. CASE db.version = 8
    <3>1. db.queue = was.queue /\ was.version = 8
      BY <2>2 DEF SchemaInv, Copied, Versions
    <3>2. was.mailbox[e] = None
      BY <3>1 DEF Found, NoInputs
    <3> QED
      BY <1>1, <3>1, <3>2 DEF Inputs, Held
  <2>3. CASE db.version # 8 /\ "mailbox" \in db.tables
    BY <2>1, <2>3 DEF SchemaInv, Copied, Held
  <2>4. CASE db.version # 8 /\ "mailbox" \notin db.tables
    <3>1. "events" \in db.tables
      BY <1>0, <2>4 DEF SchemaInv, Tabled
    <3> QED
      BY <2>1, <2>4, <3>1 DEF SchemaInv, InputsResolved, Held
  <2> QED
    BY <2>2, <2>3, <2>4
<1>2. ASSUME NEW x \in Deliveries, was.deliveries[x] # None \/ was.outbound[x] # None
      PROVE  db.deliveries[x] # None \/ db.outbound[x] # None
  <2>1. CASE db.version = 8
    <3>1. db.deliveries = was.deliveries /\ was.version = 8
      BY <2>1 DEF SchemaInv, Copied, Versions
    <3>2. was.outbound[x] = None
      BY <3>1 DEF Found, NoEffects
    <3> QED
      BY <1>2, <3>1, <3>2
  <2>2. CASE db.version # 8
    <3>1. Action0(x) # None
      <4>1. CASE was.version = 8
        <5>1. was.deliveries[x] # None /\ was.deliveries[x] \in Results \cup {None}
          BY <1>2, <4>1 DEF Found, NoEffects, Database
        <5>2. Action0(x) = ActionOf(was.deliveries[x]) /\ ActionOf(was.deliveries[x]) \in Actions
          BY <4>1, <5>1, RowsOfScripts DEF Action0
        <5> QED
          BY <5>2, NoneAssumption
      <4>2. CASE was.version = 11
        BY <1>2, <4>2 DEF Found, NoEffects, Action0
      <4> QED
        BY <1>0, <4>1, <4>2
    <3>2. [state |-> "ambiguous", accepted |-> FALSE] # None
      <4>1. [state |-> "ambiguous", accepted |-> FALSE] \in Actions
        BY DEF Actions, Dispatches
      <4> QED
        BY <4>1, NoneAssumption
    <3> QED
      BY <2>2, <3>1, <3>2 DEF SchemaInv, Copied
  <2> QED
    BY <2>1, <2>2
<1> QED
  BY <1>1, <1>2 DEF NothingIsLost, LegacyInv, RecordsKept

(* What it says of the inputs a run had claimed.                           *)
LEMMA UpgradeResolves == UpgradeInv => VisibleIsNotRepeated
<1> SUFFICES ASSUME UpgradeInv, NEW e \in Entries, WasClaimed(e), db.work[e] # None
             PROVE  /\ Visible(was) => db.work[e].state # "pending"
                    /\ ~Visible(was) => db.work[e].state \in {"claimed", "pending"}
  BY DEF VisibleIsNotRepeated
<1> USE DEF UpgradeInv
<1>1. Mail0(e) # None /\ Mail0(e).state = "claimed"
  <2>1. CASE was.version = 8
    <3>1. was.mailbox[e] = None
      BY <2>1 DEF Found, NoInputs
    <3>2. was.queue[e] # None /\ was.queue[e].state = "claimed" /\ was.queue[e] \in Queued
      BY <3>1 DEF WasClaimed, Found, Database
    <3>3. Mail0(e) = MailOf(was.queue[e]) /\ MailOf(was.queue[e]) \in Mails
      BY <2>1, <3>2, RowsOfScripts DEF Mail0
    <3> QED
      BY <3>2, <3>3, NoneAssumption DEF MailOf
  <2>2. CASE was.version = 11
    <3>1. was.queue[e] = None
      BY <2>2 DEF Found, NoInputs
    <3> QED
      BY <2>2, <3>1 DEF WasClaimed, Mail0
  <2> QED
    BY <2>1, <2>2 DEF Found
<1>2. Work0(e) # None /\ Work0(e).state = "claimed"
  BY <1>1, WorkOfMails
<1>3. \/ db.work[e] = Work0(e)
      \/ /\ db.work[e].state \in {"completed", "pending", "failed"}
         /\ Visible(was) <=> db.work[e].state # "pending"
  BY DEF SchemaInv, InputsResolved
<1>4. CASE db.work[e] = Work0(e)
  BY <1>2, <1>4
<1>5. CASE /\ db.work[e].state \in {"completed", "pending", "failed"}
           /\ Visible(was) <=> db.work[e].state # "pending"
  BY <1>5
<1> QED
  BY <1>3, <1>4, <1>5

(* What it says of a process that is up.                                   *)
LEMMA UpgradeCompletes == UpgradeInv => CutoverIsComplete
<1> SUFFICES ASSUME UpgradeInv, pc = "live", torn = {}
             PROVE  /\ Claimed = {} /\ db.asked # "graph"
                    /\ \A c \in Chats : Thread(c) \in Threads /\ (was.key \/ Of(c) # {}) => Thread(c) \in db.seeded
                    /\ \/ was.key
                       \/ /\ db.journal = Messages /\ db.interrupts = Open
                          /\ db.archive = Records /\ db.records = {}
  BY DEF CutoverIsComplete
<1> USE DEF UpgradeInv
<1>1. pc \notin {"rolling", "mark"} \cup Seeding /\ pc \notin Seeding
  BY DEF Seeding
<1>2. CASE was.key
  <2>1. Claimed = {} /\ db.asked # "graph" /\ \A c \in Chats : Thread(c) \in Threads => Thread(c) \in db.seeded
    BY <1>1, <1>2 DEF CuttingOver
  <2> QED
    BY <1>2, <2>1
<1>3. CASE ~was.key
  <2>1. was = First /\ db.key
    BY <1>3 DEF Found, LegacyInv, MigratedOnce
  <2>2. was.records = Records /\ was.version = 8 /\ \A e \in Entries : was.queue[e] = None
    BY <2>1 DEF First, NoInputs
  <2>3. \A e \in Entries : Work0(e) = None
    BY <2>2 DEF Work0, Mail0
  <2>4. Claimed = {}
    BY <2>3 DEF Claimed, SchemaInv, InputsResolved
  <2>5. db.asked # "graph" /\ \A c \in Chats : db.generation[c] \in {0, 1}
    BY <1>3 DEF FirstChats
  <2>6. \A c \in Chats : Of(c) = {} \/ <<c, 1>> \in db.seeded
    BY <1>3, <2>1 DEF FirstChats
  <2>7. ASSUME NEW c \in Chats, Thread(c) \in Threads, Of(c) # {} PROVE Thread(c) \in db.seeded
    <3>1. Thread(c) = <<c, db.generation[c]>> /\ db.generation[c] > 0
      BY <2>7, ThreadsOf DEF Types
    <3>2. db.generation[c] = 1
      BY <2>5, <3>1
    <3> QED
      BY <2>6, <2>7, <3>1, <3>2
  <2>8. db.journal = Messages /\ db.records = {}
    BY <1>3, <2>1 DEF LegacyInv, MigratedOnce
  <2>9. Records \subseteq db.archive /\ Records \cap Open \subseteq db.interrupts
    BY <2>2, <2>8 DEF LegacyInv, RecordsKept
  <2>10. db.archive \subseteq Records /\ db.interrupts \subseteq Open
    BY DEF Types, Database
  <2>11. db.archive = Records /\ db.interrupts = Open
    BY <2>9, <2>10, UpgradeAssumption
  <2> QED
    BY <1>3, <2>4, <2>5, <2>7, <2>8, <2>11
<1> QED
  BY <1>2, <1>3

(* Wherever the process is killed, how often and whatever it found, inputs *)
(* that waited, side effects, legacy rows, questions and the selection of  *)
(* the model are still held in the old form or the new                     *)
(* (initialize_target_schema, LegacyMigrator.run,                          *)
(* migrate_legacy_selection).                                              *)
THEOREM InstallationIsKept == Spec => []NothingIsLost
BY InitUpgrade, NextUpgrade, UpgradeHolds, PTL DEF Spec

(* When the mailbox is gone, the journal is as the runtime expects it: the *)
(* cursor is behind everything that is not in the context, and an input is *)
(* claimed in the context exactly when its work is (script 12).            *)
THEOREM JournalIsCarriedOver == Spec => []JournalIsSound
<1>1. UpgradeInv => JournalIsSound
  BY DEF UpgradeInv, SchemaInv
<1> QED
  BY <1>1, InitUpgrade, NextUpgrade, PTL DEF Spec

(* Inputs of a run whose side effects were or may have been visible do not *)
(* wait for another run, and those of a run with none do (scripts 9 and    *)
(* 12, OutboundPublisher.reconcile_abandoned, _claimed_run_outcome).       *)
THEOREM NoReplyTwice == Spec => []VisibleIsNotRepeated
BY InitUpgrade, NextUpgrade, UpgradeResolves, PTL DEF Spec

(* When the process is up and no crash has cut a script, a seeding or a    *)
(* roll, nothing of the old forms is left to do                            *)
(* (_cutover_legacy_graph_generations, _reconcile_public_output_cutover,   *)
(* LegacyMigrator.run).                                                    *)
THEOREM CutoverCompletes == Spec => []CutoverIsComplete
BY InitUpgrade, NextUpgrade, UpgradeCompletes, PTL DEF Spec

=============================================================================
