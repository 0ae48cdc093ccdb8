------------------------- MODULE AgentRuntimeProofs -------------------------
(***************************************************************************)
(* Proofs about the journal of a chat, for any events, forces and runs and *)
(* for callers left free; and about the runtime that calls it, for any     *)
(* number of owner requests and process starts.                            *)
(***************************************************************************)
EXTENDS AgentRuntime, SequenceTheorems, WellFoundedInduction, TLAPS

(* Every nonempty set of naturals has the least element Min names.          *)
LEMMA MinIsLeast ==
  ASSUME NEW T \in SUBSET Nat, T # {}
  PROVE  Min(T) \in T /\ \A n \in T : Min(T) <= n
<1>1. PICK x \in T : \A y \in T : ~(<<y, x>> \in OpToRel(<, Nat))
  BY NatLessThanWellFounded, WFMin
<1>2. ASSUME NEW y \in T PROVE x <= y
  <2>1. y \in Nat /\ x \in Nat
    OBVIOUS
  <2>2. y < x => <<y, x>> \in OpToRel(<, Nat)
    BY <2>1 DEF OpToRel
  <2>3. ~(y < x)
    BY <1>1, <2>2, Zenon
  <2> QED
    BY <2>1, <2>3
<1> QED
  BY <1>2 DEF Min

(* A sequence rewritten row by row is a sequence of the same length.        *)
LEMMA RowsInPlace ==
  ASSUME NEW S, NEW s \in Seq(S), NEW t,
         t = [i \in 1..Len(s) |-> t[i]], \A i \in 1..Len(s) : t[i] \in S
  PROVE  t \in Seq(S) /\ Len(t) = Len(s)
<1>1. Len(s) \in Nat
  OBVIOUS
<1>2. t \in [1..Len(s) -> S]
  OBVIOUS
<1>3. t \in Seq(S)
  BY <1>1, <1>2, SeqDef
<1>4. DOMAIN t = 1..Len(s) /\ DOMAIN t = 1..Len(t) /\ Len(t) \in Nat
  BY <1>2, <1>3, LenProperties
<1> QED
  BY <1>1, <1>3, <1>4

-----------------------------------------------------------------------------
(* What the statements of a run do to the rows and to the work.             *)

LEMMA ReturnedRows ==
  ASSUME TypeOK, NEW r \in Runs
  PROVE  /\ Returned(r) \in Seq(Event) /\ Len(Returned(r)) = Len(events)
         /\ \A i \in Seqs :
              /\ Returned(r)[i].id = events[i].id
              /\ i \in HeldBy(r) => /\ Returned(r)[i].context = "unapplied"
                                    /\ Returned(r)[i].run = None
              /\ i \notin HeldBy(r) => Returned(r)[i] = events[i]
<1>1. events \in Seq(Event) /\ \A i \in Seqs : events[i] \in Event
  BY ElementOfSeq DEF TypeOK, Seqs
<1>2. \A i \in Seqs : Returned(r)[i] \in Event
  BY <1>1 DEF Returned, Event
<1>3. Returned(r) = [i \in 1..Len(events) |-> Returned(r)[i]]
  BY DEF Returned, Seqs
<1>4. Returned(r) \in Seq(Event) /\ Len(Returned(r)) = Len(events)
  BY <1>1, <1>2, <1>3, RowsInPlace DEF Seqs
<1> QED
  BY <1>1, <1>4 DEF Returned, Event

LEMMA AppliedRows ==
  ASSUME TypeOK, NEW r \in Runs
  PROVE  /\ Applied(r) \in Seq(Event) /\ Len(Applied(r)) = Len(events)
         /\ \A i \in Seqs :
              /\ Applied(r)[i].id = events[i].id
              /\ i \in HeldBy(r) => Applied(r)[i].context = "applied"
              /\ i \notin HeldBy(r) => Applied(r)[i] = events[i]
<1>1. events \in Seq(Event) /\ \A i \in Seqs : events[i] \in Event
  BY ElementOfSeq DEF TypeOK, Seqs
<1>2. \A i \in Seqs : Applied(r)[i] \in Event
  BY <1>1 DEF Applied, Event
<1>3. Applied(r) = [i \in 1..Len(events) |-> Applied(r)[i]]
  BY DEF Applied, Seqs
<1>4. Applied(r) \in Seq(Event) /\ Len(Applied(r)) = Len(events)
  BY <1>1, <1>2, <1>3, RowsInPlace DEF Seqs
<1> QED
  BY <1>1, <1>4 DEF Applied, Event

LEMMA ClaimedRows ==
  ASSUME TypeOK, NEW r \in Runs, NEW n \in Nat
  PROVE  /\ ClaimedUpTo(n, r) \in Seq(Event) /\ Len(ClaimedUpTo(n, r)) = Len(events)
         /\ \A i \in Seqs :
              /\ ClaimedUpTo(n, r)[i].id = events[i].id
              /\ i <= n /\ i \in Unclaimed => /\ ClaimedUpTo(n, r)[i].context = "claimed"
                                              /\ ClaimedUpTo(n, r)[i].run = r
              /\ ~(i <= n /\ i \in Unclaimed) => ClaimedUpTo(n, r)[i] = events[i]
<1>1. events \in Seq(Event) /\ \A i \in Seqs : events[i] \in Event
  BY ElementOfSeq DEF TypeOK, Seqs
<1>2. \A i \in Seqs : ClaimedUpTo(n, r)[i] \in Event
  BY <1>1 DEF ClaimedUpTo, Event
<1>3. ClaimedUpTo(n, r) = [i \in 1..Len(events) |-> ClaimedUpTo(n, r)[i]]
  BY DEF ClaimedUpTo, Seqs
<1>4. ClaimedUpTo(n, r) \in Seq(Event) /\ Len(ClaimedUpTo(n, r)) = Len(events)
  BY <1>1, <1>2, <1>3, RowsInPlace DEF Seqs
<1> QED
  BY <1>1, <1>4 DEF ClaimedUpTo, Event

(* The cursor recomputed over rows stops right before the first open one.   *)
LEMMA CursorOfRows ==
  ASSUME NEW rows \in Seq(Event)
  PROVE  /\ AdvancedCursor(rows) \in Nat /\ AdvancedCursor(rows) <= Len(rows)
         /\ \A i \in 1..AdvancedCursor(rows) : rows[i].context = "applied"
         /\ \A n \in Nat : n <= Len(rows) /\ (\A i \in 1..n : rows[i].context = "applied")
              => n <= AdvancedCursor(rows)
<1> DEFINE open == {i \in DOMAIN rows : rows[i].context # "applied"}
<1>1. DOMAIN rows = 1..Len(rows) /\ Len(rows) \in Nat
  BY LenProperties
<1>2. CASE open = {}
  BY <1>1, <1>2 DEF AdvancedCursor
<1>3. CASE open # {}
  <2>1. open \in SUBSET Nat
    BY <1>1
  <2>2. AdvancedCursor(rows) = Min(open) - 1
    BY <1>3 DEF AdvancedCursor
  <2>3. \A i \in 1..Len(rows) : i \in open <=> rows[i].context # "applied"
    BY <1>1
  <2>4. open \subseteq 1..Len(rows)
    BY <1>1
  <2> HIDE DEF open
  <2>5. Min(open) \in open /\ \A n \in open : Min(open) <= n
    BY <1>3, <2>1, MinIsLeast
  <2>6. Min(open) \in 1..Len(rows) /\ rows[Min(open)].context # "applied"
    BY <2>3, <2>4, <2>5
  <2>7. ASSUME NEW i \in 1..(Min(open) - 1)
        PROVE  rows[i].context = "applied"
    <3>1. i \in 1..Len(rows) /\ ~(Min(open) <= i)
      BY <1>1, <2>6
    <3> QED
      BY <2>3, <2>5, <3>1
  <2> QED
    BY <1>1, <2>2, <2>6, <2>7
<1> QED
  BY <1>2, <1>3

-----------------------------------------------------------------------------
(* The inductive invariant: the invariants of the journal support each other.*)
(* A fresh turn is alone because admit looked for a pending one and released *)
(* work, which claims left with a cutoff, is not fresh; a cutoff covers its  *)
(* trigger because work only exists for admitted events.                     *)
IInv == TypeOK /\ CursorSound /\ OneFreshTurn /\ ClaimCoversTrigger /\ ClaimsOwned

(* The inductive invariant of the journal at its start.                      *)
LEMMA InitInvariant == Init => IInv
<1> SUFFICES ASSUME Init PROVE IInv
  OBVIOUS
<1>1. Len(events) = 0 /\ Seqs = {}
  BY DEF Init, Seqs
<1>2. TypeOK
  <2>1. events \in Seq(Event)
    BY EmptySeq DEF Init
  <2>2. work \in [WorkIds -> WorkRow]
    BY DEF Init, WorkRow
  <2>3. \A e \in EventIds : work[e].state = "absent" /\ work[e].cutoff = None
    BY DEF Init, WorkIds
  <2> QED
    BY <2>1, <2>2, <2>3 DEF Init, TypeOK
<1>3. CursorSound
  BY <1>1 DEF Init, CursorSound
<1> QED
  BY <1>1, <1>2, <1>3 DEF Init, IInv, OneFreshTurn, ClaimCoversTrigger, ClaimsOwned, PendingTurns

(* What the types say of each row and each work.                            *)
LEMMA TypedRows ==
  ASSUME TypeOK
  PROVE  /\ Len(events) \in Nat /\ Seqs = 1..Len(events)
         /\ \A i \in Seqs : events[i] \in Event /\ events[i].id \in EventIds
         /\ \A w \in WorkIds : work[w] \in WorkRow
         /\ cursor \in Nat /\ EventIds \subseteq WorkIds
<1>1. Len(events) \in Nat /\ Seqs = 1..Len(events)
  BY LenProperties DEF TypeOK, Seqs
<1>2. \A i \in Seqs : events[i] \in Event
  BY <1>1, ElementOfSeq DEF TypeOK
<1>3. \A i \in Seqs : events[i].id \in EventIds
  BY <1>2 DEF Event
<1> QED
  BY <1>1, <1>2, <1>3 DEF TypeOK, WorkIds

(* A new row at the end leaves the others in place.                         *)
LEMMA AppendedRow ==
  ASSUME TypeOK, NEW e \in EventIds, NEW c \in {"unapplied", "applied"},
         NEW into \in WorkIds \cup {None},
         events' = Append(events, Row(e, c, into))
  PROVE  /\ events' \in Seq(Event) /\ Len(events') = Len(events) + 1
         /\ \A i \in Seqs : events'[i] = events[i]
         /\ events'[Len(events) + 1] = Row(e, c, into)
         /\ Seqs' = Seqs \cup {Len(events) + 1}
<1>1. Row(e, c, into) \in Event
  BY DEF Row, Event
<1> QED
  BY <1>1, AppendProperties DEF TypeOK, Seqs

(* Admission: the invariant survives a row that arrives with its work.      *)
LEMMA AdmissionStep ==
  ASSUME IInv, NEW e \in EventIds,
         AdmitContext(e) \/ AdmitApplied(e) \/ AdmitCoalesced(e) \/ AdmitTurn(e)
  PROVE  IInv'
<1> USE JournalAssumption
<1>0. ~Known(e) /\ started' = started
  BY DEF AdmitContext, AdmitApplied, AdmitCoalesced, AdmitTurn
<1>1. /\ Len(events) \in Nat /\ Seqs = 1..Len(events)
      /\ \A i \in Seqs : events[i] \in Event /\ events[i].id \in EventIds
      /\ \A w \in WorkIds : work[w] \in WorkRow
      /\ cursor \in Nat /\ EventIds \subseteq WorkIds
  BY TypedRows DEF IInv
<1>2. AdmitCoalesced(e) => OldestPendingTurn \in WorkIds
  <2>1. PendingTurns \in SUBSET Nat /\ PendingTurns \subseteq Seqs
    BY <1>1 DEF PendingTurns
  <2> QED
    BY <1>1, <2>1, MinIsLeast DEF AdmitCoalesced, OldestPendingTurn
<1>3. \E c \in {"unapplied", "applied"}, into \in WorkIds \cup {None} :
        /\ events' = Append(events, Row(e, c, into))
        /\ c = "applied" => cursor' = AdvancedCursor(events')
        /\ c = "unapplied" => cursor' = cursor
  BY <1>2 DEF AdmitContext, AdmitApplied, AdmitCoalesced, AdmitTurn
<1>4. PICK c \in {"unapplied", "applied"}, into \in WorkIds \cup {None} :
        /\ events' = Append(events, Row(e, c, into))
        /\ c = "applied" => cursor' = AdvancedCursor(events')
        /\ c = "unapplied" => cursor' = cursor
  BY <1>3
<1>5. /\ events' \in Seq(Event) /\ Len(events') = Len(events) + 1
      /\ \A i \in Seqs : events'[i] = events[i]
      /\ events'[Len(events) + 1] = Row(e, c, into)
      /\ Seqs' = Seqs \cup {Len(events) + 1}
  BY <1>4, AppendedRow DEF IInv
<1>6. work[e].state = "absent" /\ work[e].cutoff = None
  BY <1>0 DEF IInv, TypeOK
<1>7. \/ work' = work
      \/ work' = NewTurn(e) /\ PendingTurns = {}
  BY DEF AdmitContext, AdmitApplied, AdmitCoalesced, AdmitTurn
<1>8. /\ \A w \in WorkIds \ {e} : work'[w] = work[w]
      /\ work'[e].cutoff = None /\ work'[e].state \in {"absent", "pending"}
      /\ work'[e].state = "pending" => PendingTurns = {} /\ work'[e].run = None
      /\ work' \in [WorkIds -> WorkRow]
  <2>1. CASE work' = work
    BY <1>1, <1>6, <2>1 DEF IInv, TypeOK
  <2>2. CASE work' = NewTurn(e) /\ PendingTurns = {}
    BY <1>1, <2>2 DEF NewTurn, WorkRow, IInv, TypeOK
  <2> QED
    BY <1>7, <2>1, <2>2
<1>9. \A i \in Seqs : events[i].id # e
  BY <1>0 DEF Known
<1>10. TypeOK'
  <2>1. cursor' \in Nat
    BY <1>1, <1>4, <1>5, CursorOfRows
  <2>2. started' \subseteq Runs
    BY <1>0 DEF IInv, TypeOK
  <2>3. ASSUME NEW v \in EventIds, work'[v].state # "absent" \/ work'[v].cutoff # None
        PROVE  Known(v)'
    <3>1. CASE v = e
      <4>1. events'[Len(events) + 1].id = v /\ Len(events) + 1 \in Seqs'
        BY <1>5, <3>1 DEF Row
      <4> QED
        BY <4>1 DEF Known
    <3>2. CASE v # e
      <4>1. Known(v)
        BY <1>1, <1>8, <2>3, <3>2 DEF IInv, TypeOK
      <4> QED
        BY <1>5, <4>1 DEF Known
    <3> QED
      BY <3>1, <3>2
  <2> QED
    BY <1>5, <1>8, <2>1, <2>2, <2>3 DEF TypeOK
<1>11. CursorSound'
  <2>1. CASE c = "applied"
    BY <1>4, <1>5, <2>1, CursorOfRows DEF CursorSound
  <2>2. CASE c = "unapplied"
    BY <1>1, <1>4, <1>5, <2>2 DEF IInv, CursorSound
  <2> QED
    BY <2>1, <2>2
<1>12. OneFreshTurn'
  <2>1. \A i \in Seqs : i \in PendingTurns' <=> i \in PendingTurns
    BY <1>1, <1>5, <1>8, <1>9 DEF PendingTurns
  <2>2. PendingTurns' \subseteq Seqs'
    BY DEF PendingTurns
  <2>3. Len(events) + 1 \in PendingTurns' => PendingTurns = {}
    BY <1>5, <1>8 DEF PendingTurns, Row
  <2> QED
    BY <1>1, <1>5, <1>8, <1>9, <2>1, <2>2, <2>3 DEF OneFreshTurn, IInv
<1>13. ClaimCoversTrigger'
  <2>1. \A i \in Seqs : work'[events'[i].id] = work[events[i].id]
    BY <1>1, <1>5, <1>8, <1>9
  <2>2. work'[events'[Len(events) + 1].id].cutoff = None
    BY <1>5, <1>8 DEF Row
  <2>3. \A i \in Seqs : work[events[i].id].cutoff \in Nat \cup {None}
    BY <1>1 DEF WorkRow
  <2> QED
    BY <1>1, <1>5, <2>1, <2>2, <2>3 DEF ClaimCoversTrigger, IInv
<1>14. ClaimsOwned'
  <2>1. \A i \in Seqs' : events'[i].context = "unapplied" => events'[i].run = None
    BY <1>5 DEF Row, ClaimsOwned, IInv
  <2>2. \A i \in Seqs' : events'[i].context = "claimed" => events'[i].run \in started'
    BY <1>0, <1>5 DEF Row, ClaimsOwned, IInv
  <2> QED
    BY <1>0, <1>1, <1>8, <2>1, <2>2 DEF ClaimsOwned, IInv
<1> QED
  BY <1>10, <1>11, <1>12, <1>13, <1>14 DEF IInv

(* A forced reply or the cancellation of waiting turns only touches work.   *)
LEMMA QueueStep ==
  ASSUME IInv, (\E f \in Forces : ScheduleForce(f)) \/ CancelPendingTurns
  PROVE  IInv'
<1> USE JournalAssumption
<1>1. /\ Seqs = 1..Len(events)
      /\ \A i \in Seqs : events[i].id \in EventIds
      /\ \A w \in WorkIds : work[w] \in WorkRow
      /\ EventIds \subseteq WorkIds
  BY TypedRows DEF IInv
<1>2. events' = events /\ started' = started /\ cursor' = cursor /\ Seqs' = Seqs
  BY DEF ScheduleForce, CancelPendingTurns, Seqs
<1>3. /\ work' \in [WorkIds -> WorkRow]
      /\ \A e \in EventIds : /\ work'[e].cutoff = work[e].cutoff
                             /\ work'[e].state = "pending" => work[e].state = "pending"
                             /\ work'[e].state # "absent" => work[e].state # "absent"
      /\ \A w \in WorkIds : /\ work'[w].state = "pending" => work'[w].run = None
                            /\ work'[w].state = "claimed" => work'[w] = work[w]
  <2>1. ASSUME NEW f \in Forces, ScheduleForce(f) PROVE <1>3!1 /\ <1>3!2 /\ <1>3!3
    BY <1>1, <2>1 DEF ScheduleForce, NewTurn, WorkRow, WorkIds, IInv, TypeOK, ClaimsOwned
  <2>2. ASSUME CancelPendingTurns PROVE <1>3!1 /\ <1>3!2 /\ <1>3!3
    BY <1>1, <2>2 DEF CancelPendingTurns, WorkRow, IInv, TypeOK, ClaimsOwned
  <2> QED
    BY <2>1, <2>2
<1>4. TypeOK'
  <2>1. \A e \in EventIds : Known(e) => Known(e)'
    BY <1>2 DEF Known
  <2>2. \A e \in EventIds : work'[e].state # "absent" \/ work'[e].cutoff # None
                         => Known(e)
    BY <1>3 DEF IInv, TypeOK
  <2> QED
    BY <1>2, <1>3, <2>1, <2>2 DEF IInv, TypeOK
<1>5. CursorSound'
  BY <1>2 DEF IInv, CursorSound
<1>6. OneFreshTurn'
  <2>1. PendingTurns' \subseteq PendingTurns
    BY <1>1, <1>2, <1>3 DEF PendingTurns
  <2>2. \A i \in PendingTurns' : work'[events'[i].id].cutoff = work[events[i].id].cutoff
    BY <1>1, <1>2, <1>3 DEF PendingTurns
  <2> QED
    BY <1>2, <2>1, <2>2 DEF IInv, OneFreshTurn
<1>7. ClaimCoversTrigger'
  <2>1. \A i \in Seqs : work'[events'[i].id].cutoff = work[events[i].id].cutoff
    BY <1>1, <1>2, <1>3
  <2> QED
    BY <1>2, <2>1 DEF IInv, ClaimCoversTrigger
<1>8. ClaimsOwned'
  <2>1. \A i \in Seqs' : /\ events'[i].context = "unapplied" => events'[i].run = None
                         /\ events'[i].context = "claimed" => events'[i].run \in started'
    BY <1>2 DEF IInv, ClaimsOwned
  <2>2. \A w \in WorkIds : /\ work'[w].state = "pending" => work'[w].run = None
                           /\ work'[w].state = "claimed" =>
                                 work'[w].run \in started' /\ work'[w].cutoff # None
    BY <1>2, <1>3 DEF IInv, ClaimsOwned
  <2> QED
    BY <2>1, <2>2 DEF ClaimsOwned
<1> QED
  BY <1>4, <1>5, <1>6, <1>7, <1>8 DEF IInv

(* claim_ready: the claimed work gets a cutoff that covers its own trigger. *)
LEMMA ClaimStep ==
  ASSUME IInv, NEW r \in Runs, NEW w \in WorkIds, ClaimReady(r, w)
  PROVE  IInv'
<1> USE JournalAssumption
<1>1. /\ Len(events) \in Nat /\ Seqs = 1..Len(events)
      /\ \A i \in Seqs : events[i] \in Event /\ events[i].id \in EventIds
      /\ \A v \in WorkIds : work[v] \in WorkRow
      /\ cursor \in Nat /\ EventIds \subseteq WorkIds
  BY TypedRows DEF IInv
<1> DEFINE n == CutoffOf(w)
           rows == ClaimedUpTo(n, r)
<1>2. n \in Nat /\ (work[w].cutoff # None => n = work[w].cutoff)
      /\ (work[w].cutoff = None => n = Len(events))
  BY <1>1 DEF CutoffOf, WorkRow
<1>3. /\ rows \in Seq(Event) /\ Len(rows) = Len(events)
      /\ \A i \in Seqs :
           /\ rows[i].id = events[i].id
           /\ i <= n /\ i \in Unclaimed => rows[i].context = "claimed" /\ rows[i].run = r
           /\ ~(i <= n /\ i \in Unclaimed) => rows[i] = events[i]
  BY <1>2, ClaimedRows DEF IInv
<1>4. \A i \in Seqs : rows[i] \in Event
  BY <1>1, <1>3, ElementOfSeq
<1> HIDE DEF rows, n
<1>5. events' = [i \in Seqs |-> IF events[i].id \in MergedInto(w)
                                THEN [rows[i] EXCEPT !.into = w] ELSE rows[i]]
  BY DEF ClaimReady, rows, n
<1>6. /\ events' \in Seq(Event) /\ Len(events') = Len(events) /\ Seqs' = Seqs
      /\ \A i \in Seqs : /\ events'[i].id = events[i].id
                         /\ events'[i].context = rows[i].context
                         /\ events'[i].run = rows[i].run
  <2>1. \A i \in Seqs : events'[i] \in Event
    BY <1>4, <1>5 DEF Event
  <2>2. events' = [i \in 1..Len(events) |-> events'[i]]
    BY <1>1, <1>5
  <2>3. events' \in Seq(Event) /\ Len(events') = Len(events)
    BY <1>1, <2>1, <2>2, RowsInPlace DEF IInv, TypeOK
  <2> QED
    BY <1>1, <1>3, <1>4, <1>5, <2>3 DEF Event, Seqs
<1>7. /\ work[w].state = "pending"
      /\ work'[w] = [state |-> "claimed", run |-> r, cutoff |-> n]
      /\ \A v \in WorkIds \ {w} :
           work'[v] = IF v \in MergedInto(w) THEN [work[v] EXCEPT !.state = "cancelled"]
                      ELSE work[v]
      /\ work' \in [WorkIds -> WorkRow]
  BY <1>1, <1>2 DEF ClaimReady, WorkRow, IInv, TypeOK, n
<1>8. started' = started \cup {r} /\ cursor' = cursor
  BY DEF ClaimReady
<1>9. TypeOK'
  <2>1. \A e \in EventIds : Known(e) => Known(e)'
    BY <1>6 DEF Known
  <2>2. \A e \in EventIds : work'[e].state # "absent" \/ work'[e].cutoff # None
                         => work[e].state # "absent" \/ work[e].cutoff # None
    <3>1. ASSUME NEW v \in MergedInto(w) PROVE work[v].state = "pending"
      BY <3>1 DEF MergedInto, PendingTurns
    <3> QED
      BY <1>1, <1>7, <3>1 DEF WorkRow
  <2> QED
    BY <1>6, <1>7, <1>8, <2>1, <2>2 DEF IInv, TypeOK
<1>10. CursorSound'
  BY <1>1, <1>3, <1>6, <1>8 DEF IInv, CursorSound, Unclaimed
<1>11. OneFreshTurn'
  <2>1. \A i \in Seqs : work'[events'[i].id].state = "pending" =>
          work'[events'[i].id] = work[events[i].id]
    BY <1>1, <1>6, <1>7 DEF WorkRow
  <2> QED
    BY <1>6, <2>1 DEF IInv, OneFreshTurn, PendingTurns
<1>12. ClaimCoversTrigger'
  <2>1. ASSUME NEW i \in Seqs, events[i].id = w PROVE i <= n /\ n <= Len(events)
    BY <1>1, <1>2, <2>1 DEF IInv, ClaimCoversTrigger
  <2>2. ASSUME NEW i \in Seqs, events[i].id # w
        PROVE  work'[events[i].id].cutoff = work[events[i].id].cutoff
    BY <1>1, <1>7, <2>2 DEF WorkRow
  <2> QED
    BY <1>1, <1>6, <1>7, <2>1, <2>2 DEF IInv, ClaimCoversTrigger
<1>13. ClaimsOwned'
  <2>1. \A i \in Seqs : /\ events'[i].context = "unapplied" => events'[i].run = None
                        /\ events'[i].context = "claimed" => events'[i].run \in started'
    BY <1>3, <1>6, <1>8 DEF IInv, ClaimsOwned
  <2>2. \A v \in WorkIds : /\ work'[v].state = "pending" => work'[v].run = None
                           /\ work'[v].state = "claimed" =>
                                 work'[v].run \in started' /\ work'[v].cutoff # None
    BY <1>1, <1>2, <1>7, <1>8 DEF IInv, ClaimsOwned, WorkRow
  <2>3. \A i \in Seqs' : /\ events'[i].context = "unapplied" => events'[i].run = None
                         /\ events'[i].context = "claimed" => events'[i].run \in started'
    BY <1>6, <2>1
  <2> QED
    BY <2>2, <2>3 DEF ClaimsOwned
<1> QED
  BY <1>9, <1>10, <1>11, <1>12, <1>13 DEF IInv

LEMMA InjectionStep ==
  ASSUME IInv, NEW r \in Runs, NEW p \in SUBSET Participants, ClaimInjection(r, p)
  PROVE  IInv'
<1>1. /\ Len(events) \in Nat /\ Seqs = 1..Len(events)
      /\ \A i \in Seqs : events[i] \in Event /\ events[i].id \in EventIds
      /\ cursor \in Nat /\ EventIds \subseteq WorkIds
  BY TypedRows DEF IInv
<1>2. events' = ClaimedUpTo(Len(events), r) /\ r \in started
      /\ started' = started /\ work' = work /\ cursor' = cursor
  BY DEF ClaimInjection
<1>3. /\ events' \in Seq(Event) /\ Len(events') = Len(events) /\ Seqs' = Seqs
      /\ \A i \in Seqs :
           /\ events'[i].id = events[i].id
           /\ i \in Unclaimed => events'[i].context = "claimed" /\ events'[i].run = r
           /\ i \notin Unclaimed => events'[i] = events[i]
  BY <1>1, <1>2, ClaimedRows DEF IInv, Seqs
<1>4. TypeOK'
  <2>1. \A e \in EventIds : Known(e) => Known(e)'
    BY <1>3 DEF Known
  <2> QED
    BY <1>2, <1>3, <2>1 DEF IInv, TypeOK
<1>5. CursorSound'
  BY <1>1, <1>2, <1>3 DEF IInv, CursorSound, Unclaimed
<1>6. OneFreshTurn'
  BY <1>2, <1>3 DEF IInv, OneFreshTurn, PendingTurns
<1>7. ClaimCoversTrigger'
  BY <1>2, <1>3 DEF IInv, ClaimCoversTrigger
<1>8. ClaimsOwned'
  <2>1. \A i \in Seqs : /\ events'[i].context = "unapplied" => events'[i].run = None
                        /\ events'[i].context = "claimed" => events'[i].run \in started
    BY <1>2, <1>3 DEF IInv, ClaimsOwned, Unclaimed
  <2> QED
    BY <1>2, <1>3, <2>1 DEF IInv, ClaimsOwned
<1> QED
  BY <1>4, <1>5, <1>6, <1>7, <1>8 DEF IInv

-----------------------------------------------------------------------------
(* The five ways a run lets go of what it holds.  Settled names what they    *)
(* have in common: its rows all move together, its work leaves its hands,    *)
(* and the cursor either stays or is recomputed over the new rows.           *)
Settled(r) ==
  /\ events' = Applied(r) \/ events' = Returned(r)
  /\ work' = WorkRequeued(r) \/ \E s \in Closed : work' = WorkClosed(r, s)
  /\ started' = started
  /\ \/ cursor' = AdvancedCursor(events') /\ events' = Applied(r)
     \/ cursor' = cursor

LEMMA SettlementsSettle ==
  ASSUME NEW r \in Runs,
         \/ Complete(r) \/ Fail(r) \/ Release(r) \/ CancelClaimed(r)
         \/ \E s \in {"completed", "failed"} : ReconcileDelivered(r, s)
  PROVE  Settled(r)
<1>1. CASE Complete(r)
  BY <1>1 DEF Complete, Settled, Closed
<1>2. CASE Fail(r)
  BY <1>2 DEF Fail, Settled, Closed
<1>3. CASE Release(r)
  BY <1>3 DEF Release, Settled
<1>4. CASE CancelClaimed(r)
  BY <1>4 DEF CancelClaimed, Settled, Closed
<1>5. ASSUME NEW s \in {"completed", "failed"}, ReconcileDelivered(r, s)
      PROVE  Settled(r)
  BY <1>5 DEF ReconcileDelivered, Settled, Closed
<1> QED
  BY <1>1, <1>2, <1>3, <1>4, <1>5

(* Settling never disturbs a row that is already context.                   *)
LEMMA SettledRows ==
  ASSUME IInv, NEW r \in Runs, Settled(r)
  PROVE  /\ events' \in Seq(Event) /\ Len(events') = Len(events) /\ Seqs' = Seqs
         /\ \A i \in Seqs :
              /\ events'[i].id = events[i].id
              /\ i \in HeldBy(r) => \/ events'[i].context = "applied"
                                    \/ events'[i].context = "unapplied" /\ events'[i].run = None
              /\ i \notin HeldBy(r) => events'[i] = events[i]
              /\ events[i].context = "applied" => events'[i].context = "applied"
<1>1. CASE events' = Applied(r)
  BY <1>1, AppliedRows DEF IInv, Seqs, HeldBy
<1>2. CASE events' = Returned(r)
  BY <1>2, ReturnedRows DEF IInv, Seqs, HeldBy
<1> QED
  BY <1>1, <1>2 DEF Settled

LEMMA SettledWork ==
  ASSUME IInv, NEW r \in Runs, Settled(r)
  PROVE  /\ work' \in [WorkIds -> WorkRow]
         /\ \A w \in WorkIds :
              /\ work'[w].cutoff = work[w].cutoff
              /\ w \notin ClaimedWork(r) => work'[w] = work[w]
              /\ w \in ClaimedWork(r) =>
                   \/ work'[w].state \in Closed
                   \/ work'[w].state = "pending" /\ work'[w].run = None
<1> USE JournalAssumption
<1>1. work \in [WorkIds -> WorkRow] /\ \A w \in WorkIds : work[w] \in WorkRow
  BY TypedRows DEF IInv, TypeOK
<1>2. CASE work' = WorkRequeued(r)
  BY <1>1, <1>2 DEF WorkRequeued, WorkRow
<1>3. ASSUME NEW s \in Closed, work' = WorkClosed(r, s)
      PROVE  /\ work' \in [WorkIds -> WorkRow]
             /\ \A w \in WorkIds :
                  /\ work'[w].cutoff = work[w].cutoff
                  /\ w \notin ClaimedWork(r) => work'[w] = work[w]
                  /\ w \in ClaimedWork(r) => work'[w].state \in Closed
  BY <1>1, <1>3 DEF WorkClosed, WorkRow, Closed
<1> QED
  BY <1>2, <1>3 DEF Settled

(* The invariant survives whenever claimed rows leave their runs' hands and   *)
(* claimed work is closed or waits again, of one run or of several at once.  *)
LEMMA LetGoStep ==
  ASSUME IInv,
         NEW Rows \in SUBSET Seqs, NEW Works \in SUBSET WorkIds,
         \A w \in Works : work[w].state = "claimed",
         events' \in Seq(Event), Len(events') = Len(events),
         \A i \in Seqs :
           /\ events'[i].id = events[i].id
           /\ i \in Rows => \/ events'[i].context = "applied"
                            \/ events'[i].context = "unapplied" /\ events'[i].run = None
           /\ i \notin Rows => events'[i] = events[i]
           /\ events[i].context = "applied" => events'[i].context = "applied",
         work' \in [WorkIds -> WorkRow],
         \A w \in WorkIds :
           /\ work'[w].cutoff = work[w].cutoff
           /\ w \notin Works => work'[w] = work[w]
           /\ w \in Works => \/ work'[w].state \in Closed
                             \/ work'[w].state = "pending" /\ work'[w].run = None,
         started' = started,
         cursor' = AdvancedCursor(events') \/ cursor' = cursor
  PROVE  IInv'
<1> USE JournalAssumption
<1>1. /\ Len(events) \in Nat /\ Seqs = 1..Len(events) /\ Seqs' = Seqs
      /\ \A i \in Seqs : events[i].id \in EventIds
      /\ \A w \in WorkIds : work[w] \in WorkRow
      /\ cursor \in Nat /\ EventIds \subseteq WorkIds
  BY TypedRows DEF IInv, Seqs
<1>2. TypeOK'
  <2>1. cursor' \in Nat
    BY <1>1, CursorOfRows
  <2>2. \A e \in EventIds : Known(e) => Known(e)'
    BY <1>1 DEF Known
  <2>3. \A e \in EventIds : work'[e].state # "absent" \/ work'[e].cutoff # None => Known(e)
    BY <1>1 DEF IInv, TypeOK
  <2> QED
    BY <2>1, <2>2, <2>3 DEF IInv, TypeOK
<1>3. CursorSound'
  <2>1. CASE cursor' = AdvancedCursor(events')
    BY <2>1, CursorOfRows DEF CursorSound
  <2>2. CASE cursor' = cursor
    BY <1>1, <2>2 DEF IInv, CursorSound
  <2> QED
    BY <2>1, <2>2
<1>4. OneFreshTurn'
  <2>1. ASSUME NEW i \in PendingTurns', work'[events'[i].id].cutoff = None
        PROVE  i \in PendingTurns /\ work[events[i].id].cutoff = None
    <3>1. i \in Seqs /\ events'[i].id = events[i].id
      BY <1>1, <2>1 DEF PendingTurns
    <3>2. events[i].id \notin Works
      BY <1>1, <2>1, <3>1 DEF IInv, ClaimsOwned
    <3> QED
      BY <1>1, <2>1, <3>1, <3>2 DEF PendingTurns
  <2> QED
    BY <2>1 DEF IInv, OneFreshTurn
<1>5. ClaimCoversTrigger'
  <2>1. \A i \in Seqs : work'[events'[i].id].cutoff = work[events[i].id].cutoff
    BY <1>1
  <2> QED
    BY <1>1, <2>1 DEF IInv, ClaimCoversTrigger
<1>6. ClaimsOwned'
  <2>1. \A i \in Seqs : /\ events'[i].context = "unapplied" => events'[i].run = None
                        /\ events'[i].context = "claimed" => events'[i].run \in started
    BY DEF IInv, ClaimsOwned
  <2>2. \A w \in WorkIds : /\ work'[w].state = "pending" => work'[w].run = None
                           /\ work'[w].state = "claimed" =>
                                work'[w].run \in started /\ work'[w].cutoff # None
    BY DEF IInv, ClaimsOwned, Closed
  <2> QED
    BY <1>1, <2>1, <2>2 DEF ClaimsOwned
<1> QED
  BY <1>2, <1>3, <1>4, <1>5, <1>6 DEF IInv

LEMMA SettledStep ==
  ASSUME IInv, NEW r \in Runs, Settled(r)
  PROVE  IInv'
<1>1. /\ events' \in Seq(Event) /\ Len(events') = Len(events)
      /\ \A i \in Seqs :
           /\ events'[i].id = events[i].id
           /\ i \in HeldBy(r) => \/ events'[i].context = "applied"
                                 \/ events'[i].context = "unapplied" /\ events'[i].run = None
           /\ i \notin HeldBy(r) => events'[i] = events[i]
           /\ events[i].context = "applied" => events'[i].context = "applied"
  BY SettledRows
<1>2. /\ work' \in [WorkIds -> WorkRow]
      /\ \A w \in WorkIds :
           /\ work'[w].cutoff = work[w].cutoff
           /\ w \notin ClaimedWork(r) => work'[w] = work[w]
           /\ w \in ClaimedWork(r) =>
                \/ work'[w].state \in Closed
                \/ work'[w].state = "pending" /\ work'[w].run = None
  BY SettledWork
<1>3. /\ HeldBy(r) \in SUBSET Seqs /\ ClaimedWork(r) \in SUBSET WorkIds
      /\ \A w \in ClaimedWork(r) : work[w].state = "claimed"
  BY DEF HeldBy, ClaimedWork
<1>4. started' = started /\ (cursor' = AdvancedCursor(events') \/ cursor' = cursor)
  BY DEF Settled
<1> QED
  BY <1>1, <1>2, <1>3, <1>4, LetGoStep

-----------------------------------------------------------------------------
LEMMA NextInvariant == IInv /\ [Next]_vars => IInv'
<1> SUFFICES ASSUME IInv, [Next]_vars PROVE IInv'
  OBVIOUS
<1>1. ASSUME NEW e \in EventIds,
             AdmitContext(e) \/ AdmitApplied(e) \/ AdmitCoalesced(e) \/ AdmitTurn(e)
      PROVE  IInv'
  BY <1>1, AdmissionStep
<1>2. CASE (\E f \in Forces : ScheduleForce(f)) \/ CancelPendingTurns
  BY <1>2, QueueStep
<1>3. ASSUME NEW r \in Runs, NEW w \in WorkIds, ClaimReady(r, w) PROVE IInv'
  BY <1>3, ClaimStep
<1>4. ASSUME NEW r \in Runs, NEW p \in SUBSET Participants, ClaimInjection(r, p) PROVE IInv'
  BY <1>4, InjectionStep
<1>5. ASSUME NEW r \in Runs,
             \/ Complete(r) \/ Fail(r) \/ Release(r) \/ CancelClaimed(r)
             \/ \E s \in {"completed", "failed"} : ReconcileDelivered(r, s)
      PROVE  IInv'
  BY <1>5, SettlementsSettle, SettledStep
<1>6. CASE UNCHANGED vars
  BY <1>6 DEF vars, IInv, TypeOK, CursorSound, OneFreshTurn, ClaimCoversTrigger, ClaimsOwned,
              Seqs, Known, PendingTurns
<1> QED
  BY <1>1, <1>2, <1>3, <1>4, <1>5, <1>6 DEF Next

(* The four parts hold together: none of the cursor, the cutoffs and the     *)
(* owners is inductive alone.                                                *)
LEMMA Invariance == Spec => []IInv
<1>1. Init => IInv
  BY InitInvariant
<1>2. IInv /\ [Next]_vars => IInv'
  BY NextInvariant
<1> QED
  BY <1>1, <1>2, PTL DEF Spec

(* Rows, work and cursor keep their types, and no turn exists without the    *)
(* event that admit inserted for it.                                         *)
THEOREM JournalTypes == Spec => []TypeOK
BY Invariance, PTL DEF IInv

(* _advance_cursor never leaves an unapplied or claimed event behind, with   *)
(* any number of runs claiming, finishing and being reconciled.              *)
THEOREM CursorIsSound == Spec => []CursorSound
BY Invariance, PTL DEF IInv

(* admit keeps at most one unclaimed turn, whatever release puts back.       *)
THEOREM FreshTurnIsAlone == Spec => []OneFreshTurn
BY Invariance, PTL DEF IInv

(* Every claim of claim_ready covers the event that opened its turn.         *)
THEOREM ClaimsCoverTriggers == Spec => []ClaimCoversTrigger
BY Invariance, PTL DEF IInv

(* Only a run that claimed holds rows and work, and a pending work is free.  *)
THEOREM ClaimsAreOwned == Spec => []ClaimsOwned
BY Invariance, PTL DEF IInv

-----------------------------------------------------------------------------
(* What every step preserves of the context: it only grows, and with it the  *)
(* cursor, and closed work is left alone.                                    *)
LEMMA ContextGrows ==
  ASSUME IInv, [Next]_vars
  PROVE  /\ cursor <= cursor'
         /\ \A i \in Seqs : events[i].context = "applied" => events'[i].context = "applied"
         /\ \A w \in WorkIds : work[w].state \in Closed => work'[w] = work[w]
<1> USE JournalAssumption
<1>1. /\ Len(events) \in Nat /\ Seqs = 1..Len(events)
      /\ \A i \in Seqs : events[i] \in Event /\ events[i].id \in EventIds
      /\ \A w \in WorkIds : work[w] \in WorkRow
      /\ cursor \in Nat /\ EventIds \subseteq WorkIds
  BY TypedRows DEF IInv
<1> DEFINE Grows ==
             /\ cursor <= cursor'
             /\ \A i \in Seqs : events[i].context = "applied" => events'[i].context = "applied"
             /\ \A w \in WorkIds : work[w].state \in Closed => work'[w] = work[w]
<1>2. ASSUME events' \in Seq(Event), Len(events') >= Len(events),
             \A i \in Seqs : events[i].context = "applied" => events'[i].context = "applied",
             cursor' = AdvancedCursor(events')
      PROVE  cursor <= cursor'
  <2>1. cursor <= Len(events') /\ \A i \in 1..cursor : events'[i].context = "applied"
    BY <1>1, <1>2, LenProperties DEF IInv, CursorSound
  <2> QED
    BY <1>1, <1>2, <2>1, CursorOfRows
<1>3. ASSUME NEW e \in EventIds,
             AdmitContext(e) \/ AdmitApplied(e) \/ AdmitCoalesced(e) \/ AdmitTurn(e)
      PROVE  Grows
  <2>1. work[e].state = "absent"
    BY <1>3 DEF AdmitContext, AdmitApplied, AdmitCoalesced, AdmitTurn, IInv, TypeOK
  <2>2. \A w \in WorkIds : work[w].state \in Closed => work'[w] = work[w]
    BY <1>1, <1>3, <2>1 DEF AdmitContext, AdmitApplied, AdmitCoalesced, AdmitTurn, NewTurn,
       Closed, IInv, TypeOK
  <2>3. \E added : events' = Append(events, added)
    BY <1>3 DEF AdmitContext, AdmitApplied, AdmitCoalesced, AdmitTurn
  <2>4. \A i \in Seqs : events'[i] = events[i]
    BY <1>1, <2>3 DEF IInv, TypeOK
  <2>5. CASE AdmitApplied(e)
    <3>1. events' = Append(events, Row(e, "applied", None)) /\ cursor' = AdvancedCursor(events')
      BY <2>5 DEF AdmitApplied
    <3>2. events' \in Seq(Event) /\ Len(events') = Len(events) + 1
      BY <3>1, AppendedRow DEF IInv
    <3> QED
      BY <1>1, <1>2, <2>2, <2>4, <3>1, <3>2
  <2>6. CASE cursor' = cursor
    BY <1>1, <2>2, <2>4, <2>6
  <2> QED
    BY <1>3, <2>5, <2>6 DEF AdmitContext, AdmitCoalesced, AdmitTurn
<1>4. CASE (\E f \in Forces : ScheduleForce(f)) \/ CancelPendingTurns
  BY <1>1, <1>4 DEF ScheduleForce, CancelPendingTurns, NewTurn, Closed, IInv, TypeOK
<1>5. ASSUME NEW r \in Runs, NEW w \in WorkIds, ClaimReady(r, w) PROVE Grows
  <2>1. CutoffOf(w) \in Nat
    BY <1>1 DEF CutoffOf, WorkRow
  <2> DEFINE rows == ClaimedUpTo(CutoffOf(w), r)
  <2>2. \A i \in Seqs : rows[i] \in Event /\ (events[i].context = "applied" => rows[i] = events[i])
    BY <1>1, <2>1, ClaimedRows, ElementOfSeq DEF IInv, Unclaimed
  <2> HIDE DEF rows
  <2>3. events' = [i \in Seqs |-> IF events[i].id \in MergedInto(w)
                                  THEN [rows[i] EXCEPT !.into = w] ELSE rows[i]]
    BY <1>5 DEF ClaimReady, rows
  <2>4. \A i \in Seqs : events'[i].context = rows[i].context
    BY <2>2, <2>3 DEF Event
  <2>5. \A v \in MergedInto(w) : work[v].state = "pending"
    BY DEF MergedInto, PendingTurns
  <2>6. \A v \in WorkIds : work[v].state \in Closed => work'[v] = work[v]
    BY <1>1, <1>5, <2>5 DEF ClaimReady, Closed, IInv, TypeOK
  <2>7. cursor' = cursor
    BY <1>5 DEF ClaimReady
  <2> QED
    BY <1>1, <2>2, <2>4, <2>6, <2>7
<1>6. ASSUME NEW r \in Runs, NEW p \in SUBSET Participants, ClaimInjection(r, p) PROVE Grows
  <2>1. \A i \in Seqs : events[i].context = "applied" => events'[i] = events[i]
    BY <1>1, <1>6, ClaimedRows DEF ClaimInjection, IInv, Unclaimed
  <2> QED
    BY <1>1, <1>6, <2>1 DEF ClaimInjection
<1>7. ASSUME NEW r \in Runs,
             \/ Complete(r) \/ Fail(r) \/ Release(r) \/ CancelClaimed(r)
             \/ \E s \in {"completed", "failed"} : ReconcileDelivered(r, s)
      PROVE  Grows
  <2>1. Settled(r)
    BY <1>7, SettlementsSettle
  <2>2. /\ events' \in Seq(Event) /\ Len(events') = Len(events)
        /\ \A i \in Seqs : events[i].context = "applied" => events'[i].context = "applied"
    BY <2>1, SettledRows
  <2>3. \A w \in WorkIds : work[w].state \in Closed => work'[w] = work[w]
    BY <2>1, SettledWork DEF ClaimedWork, Closed
  <2>4. cursor <= cursor'
    BY <1>1, <1>2, <2>1, <2>2 DEF Settled
  <2> QED
    BY <2>2, <2>3, <2>4
<1>8. CASE UNCHANGED vars
  BY <1>1, <1>8 DEF vars
<1> QED
  BY <1>3, <1>4, <1>5, <1>6, <1>7, <1>8 DEF Next

(* The cursor of the chat never goes back.                                   *)
THEOREM CursorIsMonotone == Spec => CursorNeverRetreats
<1>1. IInv /\ [Next]_vars => [cursor <= cursor']_vars
  BY ContextGrows
<1> QED
  BY <1>1, Invariance, PTL DEF Spec, CursorNeverRetreats

(* Context is final: no late fail, release or cancel_claimed takes an event  *)
(* back from the model or reopens closed work.                               *)
THEOREM ContextIsFinal == Spec => AppliedIsFinal
<1>1. IInv /\ [Next]_vars =>
        [/\ \A i \in Seqs : events[i].context = "applied" => events'[i].context = "applied"
         /\ \A w \in WorkIds : work[w].state \in Closed => work'[w] = work[w]]_vars
  BY ContextGrows
<1> QED
  BY <1>1, Invariance, PTL DEF Spec, AppliedIsFinal

-----------------------------------------------------------------------------
(* The journal implements ContextLedger: every step arrives, takes, settles  *)
(* or stutters.                                                              *)

(* The mapped rows, as sequences.                                            *)
LEMMA LedgerRows ==
  ASSUME IInv
  PROVE  /\ DOMAIN LedgerStage = Seqs /\ DOMAIN LedgerHolder = Seqs
         /\ LedgerStage \in Seq(Ledger!Stages) /\ Len(LedgerStage) = Len(events)
         /\ LedgerHolder \in Seq(Runs \cup {None}) /\ Len(LedgerHolder) = Len(events)
         /\ \A i \in Seqs : LedgerStage[i] = events[i].context
         /\ \A i \in Seqs : LedgerHolder[i] = IF events[i].context = "claimed"
                                              THEN events[i].run ELSE None
<1>1. /\ Len(events) \in Nat /\ Seqs = 1..Len(events)
      /\ \A i \in Seqs : events[i] \in Event
  BY TypedRows DEF IInv
<1>2. LedgerStage \in [1..Len(events) -> Ledger!Stages]
  BY <1>1 DEF LedgerStage, Event, Ledger!Stages
<1>3. LedgerHolder \in [1..Len(events) -> Runs \cup {None}]
  BY <1>1 DEF LedgerHolder, Event
<1>4. LedgerStage \in Seq(Ledger!Stages) /\ LedgerHolder \in Seq(Runs \cup {None})
  BY <1>1, <1>2, <1>3, SeqDef
<1>5. DOMAIN LedgerStage = 1..Len(LedgerStage) /\ Len(LedgerStage) \in Nat
      /\ DOMAIN LedgerHolder = 1..Len(LedgerHolder) /\ Len(LedgerHolder) \in Nat
  BY <1>4, LenProperties
<1> QED
  BY <1>1, <1>2, <1>3, <1>4, <1>5 DEF LedgerStage, LedgerHolder

(* The cursor may catch up, as the ledger lets its frontier do.              *)
LEMMA FrontierFollows ==
  ASSUME IInv, IInv', cursor <= cursor'
  PROVE  Ledger!FrontierMoves
<1>1. cursor <= cursor' /\ cursor' \in Nat
  BY DEF IInv, TypeOK
<1>2. cursor' <= Len(events') /\ \A i \in 1..cursor' : events'[i].context = "applied"
  BY DEF IInv, CursorSound
<1>3. Len(LedgerStage') = Len(events') /\ \A i \in Seqs' : LedgerStage'[i] = events'[i].context
  <2>1. (Len(LedgerStage) = Len(events) /\ \A i \in Seqs : LedgerStage[i] = events[i].context)'
    BY LedgerRows, PTL
  <2> QED
    BY <2>1
<1> QED
  BY <1>1, <1>2, <1>3 DEF Ledger!FrontierMoves, Seqs

(* Rows that leave the hands of some runs settle in the ledger.              *)
LEMMA LedgerSettles ==
  ASSUME IInv, NEW settling \in SUBSET Runs,
         NEW outcome \in [settling -> {"unapplied", "applied"}],
         Seqs' = Seqs,
         \A i \in Seqs, r \in settling : LedgerHolder[i] = r => events'[i].context = outcome[r],
         \A i \in Seqs : LedgerHolder[i] \notin settling => events'[i] = events[i],
         \/ Ledger!FrontierMoves
         \/ cursor' = cursor /\ \A r \in settling : outcome[r] = "unapplied",
         (\E r \in settling : outcome[r] = "applied") \/ cursor' = cursor
  PROVE  Ledger!Settle(outcome)
<1>1. /\ DOMAIN LedgerStage = Seqs
      /\ \A i \in Seqs : LedgerStage[i] = events[i].context
      /\ \A i \in Seqs : LedgerHolder[i] = IF events[i].context = "claimed"
                                           THEN events[i].run ELSE None
  BY LedgerRows
<1>2. /\ LedgerStage' = [i \in Seqs |-> events'[i].context]
      /\ LedgerHolder' = [i \in Seqs |-> IF events'[i].context = "claimed"
                                        THEN events'[i].run ELSE None]
  BY DEF LedgerStage, LedgerHolder
<1>3. DOMAIN outcome = settling /\ \A r \in settling : outcome[r] \in {"unapplied", "applied"}
  OBVIOUS
<1>4. ASSUME NEW i \in Seqs
      PROVE  /\ LedgerStage'[i] = IF LedgerHolder[i] \in settling THEN outcome[LedgerHolder[i]]
                                 ELSE LedgerStage[i]
             /\ LedgerHolder'[i] = IF LedgerHolder[i] \in settling THEN None ELSE LedgerHolder[i]
  <2>1. LedgerStage'[i] = events'[i].context
        /\ LedgerHolder'[i] = IF events'[i].context = "claimed" THEN events'[i].run ELSE None
    BY <1>2
  <2>2. CASE LedgerHolder[i] \in settling
    <3>1. events'[i].context = outcome[LedgerHolder[i]]
      BY <2>2
    <3>2. events'[i].context # "claimed"
      BY <1>3, <2>2, <3>1
    <3> QED
      BY <2>1, <2>2, <3>1, <3>2
  <2>3. CASE LedgerHolder[i] \notin settling
    <3>1. events'[i] = events[i]
      BY <2>3
    <3> QED
      BY <1>1, <2>1, <2>3, <3>1
  <2> QED
    BY <2>2, <2>3
<1>5. /\ LedgerStage' = [i \in DOMAIN LedgerStage |->
                           IF LedgerHolder[i] \in DOMAIN outcome THEN outcome[LedgerHolder[i]]
                           ELSE LedgerStage[i]]
      /\ LedgerHolder' = [i \in DOMAIN LedgerStage |->
                            IF LedgerHolder[i] \in DOMAIN outcome THEN None ELSE LedgerHolder[i]]
  BY <1>1, <1>2, <1>3, <1>4
<1> QED
  BY <1>3, <1>5 DEF Ledger!Settle

(* Each step arrives, takes, settles or stutters in the ledger.              *)
LEMMA LedgerStep == IInv /\ IInv' /\ [Next]_vars => [Ledger!Next]_(Ledger!ledger)
<1> SUFFICES ASSUME IInv, IInv', [Next]_vars PROVE [Ledger!Next]_(Ledger!ledger)
  OBVIOUS
<1> USE JournalAssumption
<1>1. /\ Len(events) \in Nat /\ Seqs = 1..Len(events)
      /\ \A i \in Seqs : events[i] \in Event /\ events[i].id \in EventIds
      /\ \A w \in WorkIds : work[w] \in WorkRow
  BY TypedRows DEF IInv
<1>2. /\ DOMAIN LedgerStage = Seqs /\ DOMAIN LedgerHolder = Seqs
      /\ LedgerStage \in Seq(Ledger!Stages) /\ Len(LedgerStage) = Len(events)
      /\ LedgerHolder \in Seq(Runs \cup {None}) /\ Len(LedgerHolder) = Len(events)
      /\ \A i \in Seqs : LedgerStage[i] = events[i].context
      /\ \A i \in Seqs : LedgerHolder[i] = IF events[i].context = "claimed"
                                           THEN events[i].run ELSE None
  BY LedgerRows
<1>3. LedgerStage' = [i \in Seqs' |-> events'[i].context]
      /\ LedgerHolder' = [i \in Seqs' |-> IF events'[i].context = "claimed"
                                          THEN events'[i].run ELSE None]
  BY DEF LedgerStage, LedgerHolder
<1>4. ASSUME NEW e \in EventIds,
             AdmitContext(e) \/ AdmitApplied(e) \/ AdmitCoalesced(e) \/ AdmitTurn(e)
      PROVE  Ledger!Arrive
  <2>1. PICK c, into :
          /\ c \in {"unapplied", "applied"}
          /\ events' = Append(events, Row(e, c, into))
    BY <1>4 DEF AdmitContext, AdmitApplied, AdmitCoalesced, AdmitTurn
  <2>2. /\ Seqs' = 1..(Len(events) + 1)
        /\ \A i \in Seqs : events'[i] = events[i]
        /\ events'[Len(events) + 1] = Row(e, c, into)
    BY <1>1, <2>1 DEF IInv, TypeOK, Seqs
  <2>3. /\ LedgerStage' \in Seq(Ledger!Stages) /\ Len(LedgerStage') = Len(events) + 1
        /\ LedgerHolder' \in Seq(Runs \cup {None}) /\ Len(LedgerHolder') = Len(events) + 1
    <3>1. (/\ LedgerStage \in Seq(Ledger!Stages) /\ Len(LedgerStage) = Len(events)
           /\ LedgerHolder \in Seq(Runs \cup {None}) /\ Len(LedgerHolder) = Len(events))'
      BY LedgerRows, PTL
    <3>2. Len(events') = Len(events) + 1
      BY <2>1 DEF IInv, TypeOK
    <3> QED
      BY <3>1, <3>2
  <2>4. LedgerStage' = Append(LedgerStage, c)
    <3>1. /\ Append(LedgerStage, c) \in Seq(Ledger!Stages)
          /\ Len(Append(LedgerStage, c)) = Len(events) + 1
          /\ \A i \in 1..Len(events) : Append(LedgerStage, c)[i] = LedgerStage[i]
          /\ Append(LedgerStage, c)[Len(events) + 1] = c
      BY <1>2, <2>1, AppendProperties DEF Ledger!Stages
    <3>2. \A i \in 1..(Len(events) + 1) : LedgerStage'[i] = Append(LedgerStage, c)[i]
      BY <1>1, <1>2, <1>3, <2>2, <3>1 DEF Row
    <3> QED
      BY <2>2, <2>3, <3>1, <3>2, SeqEqual
  <2>5. LedgerHolder' = Append(LedgerHolder, None)
    <3>1. /\ Append(LedgerHolder, None) \in Seq(Runs \cup {None})
          /\ Len(Append(LedgerHolder, None)) = Len(events) + 1
          /\ \A i \in 1..Len(events) : Append(LedgerHolder, None)[i] = LedgerHolder[i]
          /\ Append(LedgerHolder, None)[Len(events) + 1] = None
      BY <1>2, AppendProperties
    <3>2. \A i \in 1..(Len(events) + 1) : LedgerHolder'[i] = Append(LedgerHolder, None)[i]
      BY <1>1, <1>2, <1>3, <2>2, <3>1 DEF Row
    <3> QED
      BY <2>2, <2>3, <3>1, <3>2, SeqEqual
  <2> QED
    BY <2>1, <2>4, <2>5, FrontierFollows, ContextGrows DEF Ledger!Arrive
<1>5. ASSUME NEW r \in Runs, NEW n \in Nat, Seqs' = Seqs, cursor' = cursor,
             \A i \in Seqs :
               /\ i <= n /\ i \in Unclaimed => /\ events'[i].context = "claimed"
                                               /\ events'[i].run = r
               /\ ~(i <= n /\ i \in Unclaimed) => /\ events'[i].context = events[i].context
                                                  /\ events'[i].run = events[i].run
      PROVE  Ledger!Take(r)
  <2> DEFINE taken == {i \in Seqs : i <= n /\ i \in Unclaimed}
  <2>1. taken \in SUBSET {i \in DOMAIN LedgerStage : LedgerStage[i] = "unapplied"}
    BY <1>2 DEF Unclaimed
  <2>2. LedgerStage' = [i \in DOMAIN LedgerStage |-> IF i \in taken THEN "claimed" ELSE LedgerStage[i]]
    BY <1>2, <1>3, <1>5
  <2>3. LedgerHolder' = [i \in DOMAIN LedgerStage |-> IF i \in taken THEN r ELSE LedgerHolder[i]]
    BY <1>2, <1>3, <1>5
  <2> QED
    BY <1>5, <2>1, <2>2, <2>3 DEF Ledger!Take
<1>6. ASSUME NEW r \in Runs, NEW w \in WorkIds, ClaimReady(r, w) PROVE Ledger!Take(r)
  <2>1. CutoffOf(w) \in Nat
    BY <1>1 DEF CutoffOf, WorkRow
  <2> DEFINE rows == ClaimedUpTo(CutoffOf(w), r)
  <2>2. /\ rows \in Seq(Event) /\ Len(rows) = Len(events)
        /\ \A i \in Seqs :
             /\ i <= CutoffOf(w) /\ i \in Unclaimed => rows[i].context = "claimed" /\ rows[i].run = r
             /\ ~(i <= CutoffOf(w) /\ i \in Unclaimed) => rows[i] = events[i]
    BY <2>1, ClaimedRows DEF IInv
  <2>3. \A i \in Seqs : rows[i] \in Event
    BY <1>1, <2>2, ElementOfSeq
  <2> HIDE DEF rows
  <2>4. events' = [i \in Seqs |-> IF events[i].id \in MergedInto(w)
                                  THEN [rows[i] EXCEPT !.into = w] ELSE rows[i]]
    BY <1>6 DEF ClaimReady, rows
  <2>5. \A i \in Seqs : events'[i].context = rows[i].context /\ events'[i].run = rows[i].run
    BY <2>3, <2>4 DEF Event
  <2>6. \A i \in Seqs : events'[i] \in Event
    BY <2>3, <2>4 DEF Event
  <2>7. events' = [i \in 1..Len(events) |-> events'[i]]
    BY <1>1, <2>4
  <2>8. Seqs' = Seqs
    BY <1>1, <2>6, <2>7, RowsInPlace DEF Seqs, IInv, TypeOK
  <2> QED
    BY <1>5, <1>6, <2>1, <2>2, <2>5, <2>8 DEF ClaimReady
<1>7. ASSUME NEW r \in Runs, NEW p \in SUBSET Participants, ClaimInjection(r, p)
      PROVE  Ledger!Take(r)
  <2>1. /\ events' = ClaimedUpTo(Len(events), r) /\ cursor' = cursor
    BY <1>7 DEF ClaimInjection
  <2>2. /\ Len(events') = Len(events)
        /\ \A i \in Seqs :
             /\ i \in Unclaimed => events'[i].context = "claimed" /\ events'[i].run = r
             /\ i \notin Unclaimed => events'[i] = events[i]
    BY <1>1, <2>1, ClaimedRows DEF IInv
  <2>3. Seqs' = Seqs
    BY <2>2 DEF Seqs
  <2>4. Len(events) \in Nat /\ \A i \in Seqs : i <= Len(events)
    BY <1>1 DEF Seqs, IInv, TypeOK
  <2>5. \A i \in Seqs :
          /\ i <= Len(events) /\ i \in Unclaimed => events'[i].context = "claimed" /\ events'[i].run = r
          /\ ~(i <= Len(events) /\ i \in Unclaimed)
               => events'[i].context = events[i].context /\ events'[i].run = events[i].run
    BY <2>2, <2>4
  <2> QED
    BY <1>5, <2>1, <2>3, <2>4, <2>5
<1>8. ASSUME NEW r \in Runs, Settled(r)
      PROVE  \E outcome \in [{r} -> {"unapplied", "applied"}] : Ledger!Settle(outcome)
  <2>1. Seqs' = Seqs
    BY <1>8, SettledRows
  <2>2. \A i \in Seqs : i \in HeldBy(r) <=> LedgerHolder[i] \in {r}
    BY <1>2, JournalAssumption DEF HeldBy
  <2>3. CASE events' = Applied(r)
    <3> DEFINE applied == [h \in {r} |-> "applied"]
    <3>1. \A i \in Seqs : /\ i \in HeldBy(r) => events'[i].context = "applied"
                          /\ i \notin HeldBy(r) => events'[i] = events[i]
      BY <2>3, AppliedRows DEF IInv
    <3>2. applied \in [{r} -> {"unapplied", "applied"}] /\ applied[r] = "applied" /\ {r} \in SUBSET Runs
      OBVIOUS
    <3>3. /\ \A i \in Seqs, h \in {r} : LedgerHolder[i] = h => events'[i].context = applied[h]
          /\ \A i \in Seqs : LedgerHolder[i] \notin {r} => events'[i] = events[i]
      BY <2>2, <3>1, <3>2
    <3>4. Ledger!FrontierMoves
      BY FrontierFollows, ContextGrows
    <3> HIDE DEF applied
    <3>5. Ledger!Settle(applied)
      BY <2>1, <3>2, <3>3, <3>4, LedgerSettles
    <3> QED
      BY <3>2, <3>5
  <2>4. CASE events' = Returned(r) /\ cursor' = cursor
    <3> DEFINE returned == [h \in {r} |-> "unapplied"]
    <3>1. \A i \in Seqs : /\ i \in HeldBy(r) => events'[i].context = "unapplied"
                          /\ i \notin HeldBy(r) => events'[i] = events[i]
      BY <2>4, ReturnedRows DEF IInv
    <3>2. returned \in [{r} -> {"unapplied", "applied"}] /\ returned[r] = "unapplied" /\ {r} \in SUBSET Runs
      OBVIOUS
    <3>3. /\ \A i \in Seqs, h \in {r} : LedgerHolder[i] = h => events'[i].context = returned[h]
          /\ \A i \in Seqs : LedgerHolder[i] \notin {r} => events'[i] = events[i]
      BY <2>2, <3>1, <3>2
    <3> HIDE DEF returned
    <3>4. Ledger!Settle(returned)
      BY <2>1, <2>4, <3>2, <3>3, LedgerSettles
    <3> QED
      BY <3>2, <3>4
  <2> QED
    BY <1>8, <2>3, <2>4 DEF Settled
<1>9. CASE (\E f \in Forces : ScheduleForce(f)) \/ CancelPendingTurns \/ UNCHANGED vars
  <2>1. events' = events /\ cursor' = cursor
    BY <1>9 DEF ScheduleForce, CancelPendingTurns, vars
  <2>2. LedgerStage' = LedgerStage /\ LedgerHolder' = LedgerHolder
    BY <2>1 DEF LedgerStage, LedgerHolder, Seqs
  <2> QED
    BY <2>1, <2>2 DEF Ledger!ledger
<1>10. ASSUME NEW r \in Runs,
              \/ Complete(r) \/ Fail(r) \/ Release(r) \/ CancelClaimed(r)
              \/ \E s \in {"completed", "failed"} : ReconcileDelivered(r, s)
       PROVE  Ledger!Next
  BY <1>8, <1>10, SettlementsSettle DEF Ledger!Next
<1>11. CASE Next
  BY <1>4, <1>6, <1>7, <1>9, <1>10, <1>11 DEF Next, Ledger!Next
<1> QED
  BY <1>9, <1>11

(* The journal with its work, turns, cutoffs and reconciliation implements   *)
(* the ledger of context, for any number of events, forces and runs.         *)
THEOREM JournalImplementsLedger == Spec => ImplementsLedger
<1>1. Init => Ledger!Init
  <2>1. Init => Len(events) = 0 /\ Seqs = {}
    BY DEF Init, Seqs
  <2> QED
    BY <2>1 DEF Init, Ledger!Init, LedgerStage, LedgerHolder
<1>2. IInv /\ IInv' /\ [Next]_vars => [Ledger!Next]_(Ledger!ledger)
  BY LedgerStep
<1> QED
  BY <1>1, <1>2, Invariance, PTL DEF Spec, ImplementsLedger, Ledger!Spec

-----------------------------------------------------------------------------
(* The runtime: its types.                                                  *)

Flags == discard \in BOOLEAN /\ paused \in BOOLEAN /\ ready \in BOOLEAN
TaskTypes ==
  /\ pc \in [Runs -> Phases] /\ slot \in Runs \cup {None}
  /\ cancelled \subseteq Runs /\ forced \subseteq Runs
CallbackTypes ==
  /\ todo \in [Runs -> SUBSET Runs] /\ marking \in [Runs -> Runs \cup {None}]
  /\ discarding \subseteq Runs
WorldTypes ==
  /\ process \in {"down", "up", "closing"}
  /\ owner \in {"idle", "forcing", "pausing", "dropping", "resuming"}
  /\ ingest \in [EventIds -> {"unseen", "turn", "context", "admitted", "seen"}]
  /\ counters \in [requests : Nat, starts : Nat]
  /\ kept \subseteq Runs /\ late \subseteq EventIds
RunTypes ==
  /\ row \in [Runs -> {"absent", "running", "completed", "failed", "cancelled"}]
  /\ evidence \in [Runs -> {"none", "succeeded", "unclear"}]
  /\ answerers \in [WorkIds -> SUBSET Runs] /\ disturbed \subseteq Runs
RuntimeTypes == Flags /\ TaskTypes /\ CallbackTypes /\ WorldTypes /\ RunTypes

(* The flags are Boolean, shown apart: the solver that does the sets     *)
(* does not do them.                                                         *)
LEMMA FlagsKept == Flags /\ [RuntimeNext]_rvars => Flags'
<1> SUFFICES ASSUME Flags, [RuntimeNext]_rvars PROVE Flags'
  OBVIOUS
<1> USE Zenon DEF Flags, taskVars, callbackVars, ownerVars, processVars, environment
<1>1. ASSUME NEW r \in Runs, TaskStep(r) PROVE Flags'
  <2>1. CASE Drive(r) \/ ClaimBatch(r) \/ BuildFails(r) \/ StartRow(r) \/ Invoked(r)
             \/ CompleteTurn(r) \/ FailTurn(r)
    BY <2>1 DEF Drive, ClaimBatch, BuildFails, Due, StartRow, Invoked, CompleteTurn, FailTurn
  <2>2. CASE Unwind(r) \/ FinishRow(r) \/ Interrupted(r) \/ Finished(r)
    BY <2>2 DEF Unwind, FinishRow, Interrupted, Finished
  <2>3. CASE ReadClaimed(r) \/ (\E s \in Runs : ReleaseClaims(r, s)) \/ MarkRow(r) \/ Released(r)
             \/ ResumePending(r)
    BY <2>3 DEF ReadClaimed, ReleaseClaims, MarkRow, Released, ResumePending
  <2> QED BY <1>1, <2>1, <2>2, <2>3 DEF TaskStep
<1>2. ASSUME NEW r \in Runs, Deliver(r) \/ Inject(r) PROVE Flags'
  BY <1>2 DEF Deliver, Inject
<1>3. ASSUME NEW e \in EventIds, Decide(e) \/ HandlerStep(e) PROVE Flags'
  BY <1>3 DEF Decide, HandlerStep, AdmitDecided, WakeTask
<1>4. ASSUME NEW f \in Forces, ForceReply(f) PROVE Flags'
  BY <1>4 DEF ForceReply
<1>5. CASE OwnerStep \/ Pause \/ StopForResume
  BY <1>5 DEF OwnerStep, WakeForced, DropTurns, DropTask, Unpause, Pause, Handoff, StopForResume
<1>6. CASE Close \/ Down \/ Start
  BY <1>6 DEF Close, Working, Down, Start
<1>7. CASE Surroundings \/ UNCHANGED rvars
  BY <1>7 DEF Surroundings, ModelChanges, ComesDue, rvars
<1> QED BY <1>1, <1>2, <1>3, <1>4, <1>5, <1>6, <1>7 DEF RuntimeNext

(* Tasks move between the phases named, and the map holds a run or nothing.  *)
LEMMA TaskTypesKept ==
  ASSUME TaskTypes, CallbackTypes, [RuntimeNext]_rvars
  PROVE  TaskTypes'
<1> USE DEF TaskTypes, Phases, Before, Graph, Failing, Unwinding, Callback, Goes, taskVars
<1>0. \A r \in Runs : Rest(r) \in {"done", "idle"}
  BY DEF Rest
<1>1. ASSUME NEW r \in Runs, TaskStep(r) PROVE TaskTypes'
  <2>1. CASE Drive(r) \/ ClaimBatch(r) \/ BuildFails(r) \/ StartRow(r) \/ Invoked(r)
             \/ CompleteTurn(r) \/ FailTurn(r)
    BY <2>1 DEF Drive, ClaimBatch, BuildFails, Due, StartRow, Invoked, CompleteTurn, FailTurn
  <2>2. CASE Unwind(r) \/ FinishRow(r) \/ Interrupted(r)
    BY <2>2 DEF Unwind, FinishRow, Interrupted
  <2>3. CASE Finished(r)
    BY <1>0, <2>3 DEF Finished
  <2>4. CASE ReadClaimed(r) \/ (\E s \in Runs : ReleaseClaims(r, s)) \/ MarkRow(r) \/ Released(r)
    BY <2>4 DEF ReadClaimed, ReleaseClaims, MarkRow, Released
  <2>5. CASE ResumePending(r)
    <3>1. [pc EXCEPT ![r] = Rest(r)] \in [Runs -> Phases]
      BY <1>0
    <3> QED BY <2>5, <3>1 DEF ResumePending, EnsureTask
  <2> QED BY <1>1, <2>1, <2>2, <2>3, <2>4, <2>5 DEF TaskStep
<1>2. ASSUME NEW r \in Runs, Deliver(r) \/ Inject(r) PROVE TaskTypes'
  BY <1>2 DEF Deliver, Inject
<1>3. ASSUME NEW e \in EventIds, Decide(e) \/ HandlerStep(e) PROVE TaskTypes'
  <2>1. CASE Decide(e) \/ AdmitDecided(e)
    BY <2>1 DEF Decide, AdmitDecided
  <2>2. CASE WakeTask(e)
    BY <2>2 DEF WakeTask, EnsureTask
  <2> QED BY <1>3, <2>1, <2>2 DEF HandlerStep
<1>4. ASSUME NEW f \in Forces, ForceReply(f) PROVE TaskTypes'
  BY <1>4 DEF ForceReply
<1>5. CASE WakeForced
  BY <1>5 DEF WakeForced, EnsureTask
<1>6. CASE DropTurns \/ DropTask \/ Unpause \/ Pause \/ StopForResume
  BY <1>6 DEF DropTurns, DropTask, Unpause, Pause, Handoff, StopForResume, CancelTask, Working
<1>7. CASE Close \/ Down
  BY <1>0, <1>7 DEF Close, Working, Down
<1>8. CASE Start
  BY <1>8 DEF Start
<1>9. CASE Surroundings \/ UNCHANGED rvars
  BY <1>9 DEF Surroundings, ModelChanges, ComesDue, rvars
<1> QED BY <1>1, <1>2, <1>3, <1>4, <1>5, <1>6, <1>7, <1>8, <1>9 DEF RuntimeNext, OwnerStep


(* What callbacks have still to do is about runs.                            *)
LEMMA CallbackTypesKept ==
  ASSUME CallbackTypes, [RuntimeNext]_rvars
  PROVE  CallbackTypes'
<1> USE DEF CallbackTypes, callbackVars
<1>1. ASSUME NEW r \in Runs, TaskStep(r) PROVE CallbackTypes'
  <2>1. CASE Drive(r) \/ ClaimBatch(r) \/ BuildFails(r) \/ StartRow(r) \/ Invoked(r)
             \/ CompleteTurn(r) \/ FailTurn(r)
    BY <2>1 DEF Drive, ClaimBatch, BuildFails, Due, StartRow, Invoked, CompleteTurn, FailTurn
  <2>2. CASE Unwind(r) \/ FinishRow(r) \/ Interrupted(r) \/ Finished(r)
    BY <2>2 DEF Unwind, FinishRow, Interrupted, Finished
  <2>3. CASE ReadClaimed(r) \/ (\E s \in Runs : ReleaseClaims(r, s)) \/ MarkRow(r) \/ Released(r)
             \/ ResumePending(r)
    BY <2>3 DEF ReadClaimed, WithClaims, ReleaseClaims, MarkRow, Released, ResumePending
  <2> QED BY <1>1, <2>1, <2>2, <2>3 DEF TaskStep
<1>2. ASSUME NEW r \in Runs, Deliver(r) \/ Inject(r) PROVE CallbackTypes'
  BY <1>2 DEF Deliver, Inject
<1>3. ASSUME NEW e \in EventIds, Decide(e) \/ HandlerStep(e) PROVE CallbackTypes'
  BY <1>3 DEF Decide, HandlerStep, AdmitDecided, WakeTask
<1>4. ASSUME NEW f \in Forces, ForceReply(f) PROVE CallbackTypes'
  BY <1>4 DEF ForceReply
<1>5. CASE OwnerStep \/ Pause \/ StopForResume
  BY <1>5 DEF OwnerStep, WakeForced, DropTurns, DropTask, Unpause, Pause, Handoff, StopForResume
<1>6. CASE Close \/ Down \/ Start
  BY <1>6 DEF Close, Working, Down, Start
<1>7. CASE Surroundings \/ UNCHANGED rvars
  BY <1>7 DEF Surroundings, ModelChanges, ComesDue, rvars
<1> QED BY <1>1, <1>2, <1>3, <1>4, <1>5, <1>6, <1>7 DEF RuntimeNext

(* Process, owner, handlers and counters.                                    *)
LEMMA WorldTypesKept ==
  ASSUME TaskTypes, WorldTypes, [RuntimeNext]_rvars
  PROVE  WorldTypes'
<1> USE DEF WorldTypes, ownerVars, processVars, environment, Count
<1>1. ASSUME NEW r \in Runs, TaskStep(r) PROVE WorldTypes'
  <2>1. CASE Drive(r) \/ ClaimBatch(r) \/ BuildFails(r) \/ StartRow(r) \/ Invoked(r)
             \/ CompleteTurn(r) \/ FailTurn(r)
    BY <2>1 DEF Drive, ClaimBatch, BuildFails, Due, StartRow, Invoked, CompleteTurn, FailTurn
  <2>2. CASE Unwind(r) \/ FinishRow(r) \/ Interrupted(r) \/ Finished(r)
    BY <2>2 DEF Unwind, FinishRow, Interrupted, Finished
  <2>3. CASE ReadClaimed(r) \/ (\E s \in Runs : ReleaseClaims(r, s)) \/ MarkRow(r) \/ Released(r)
             \/ ResumePending(r)
    BY <2>3 DEF ReadClaimed, ReleaseClaims, MarkRow, Released, ResumePending
  <2> QED BY <1>1, <2>1, <2>2, <2>3 DEF TaskStep
<1>2. ASSUME NEW r \in Runs, Deliver(r) \/ Inject(r) PROVE WorldTypes'
  BY <1>2 DEF Deliver, Inject
<1>3. ASSUME NEW e \in EventIds, Decide(e) \/ HandlerStep(e) PROVE WorldTypes'
  <2>1. CASE Decide(e)
    <3>1. /\ \E to \in {"turn", "context"} : ingest' = [ingest EXCEPT ![e] = to]
          /\ UNCHANGED <<process, owner, counters, kept, late>>
      BY <2>1 DEF Decide
    <3> QED BY <3>1
  <2>2. CASE AdmitDecided(e)
    BY <2>2 DEF AdmitDecided
  <2>3. CASE WakeTask(e)
    BY <2>3 DEF WakeTask
  <2> QED BY <1>3, <2>1, <2>2, <2>3 DEF HandlerStep
<1>4. ASSUME NEW f \in Forces, ForceReply(f) PROVE WorldTypes'
  BY <1>4 DEF ForceReply
<1>5. CASE OwnerStep
  BY <1>5 DEF OwnerStep, WakeForced, DropTurns, DropTask, Unpause
<1>8. CASE Pause
  <2>1. Working \subseteq Runs
    BY JournalAssumption DEF Working, TaskTypes
  <2> QED BY <1>8, <2>1 DEF Pause, Handoff
<1>9. CASE StopForResume
  BY <1>9 DEF StopForResume
<1>6. CASE Close \/ Down \/ Start
  BY <1>6 DEF Close, Working, Down, Start
<1>7. CASE Surroundings \/ UNCHANGED rvars
  BY <1>7 DEF Surroundings, ModelChanges, ComesDue, rvars
<1> QED BY <1>1, <1>2, <1>3, <1>4, <1>5, <1>6, <1>7, <1>8, <1>9 DEF RuntimeNext

(* Rows, evidence and the two histories.                                     *)
LEMMA RunTypesKept ==
  ASSUME TaskTypes, CallbackTypes, RunTypes, [RuntimeNext]_rvars
  PROVE  RunTypes'
<1> USE JournalAssumption DEF RunTypes, runVars, historyVars, CancelTask, Working
<1>1. ASSUME NEW r \in Runs, TaskStep(r) PROVE RunTypes'
  <2>1. CASE Drive(r) \/ ClaimBatch(r) \/ BuildFails(r) \/ StartRow(r) \/ Invoked(r)
             \/ CompleteTurn(r) \/ FailTurn(r)
    BY <2>1 DEF Drive, ClaimBatch, BuildFails, Due, StartRow, Invoked, CompleteTurn, FailTurn
  <2>2. CASE Unwind(r) \/ FinishRow(r) \/ Interrupted(r) \/ Finished(r)
    BY <2>2 DEF Unwind, FinishRow, RowIs, Interrupted, Finished
  <2>3. CASE ReadClaimed(r) \/ (\E s \in Runs : ReleaseClaims(r, s)) \/ Released(r) \/ ResumePending(r)
    BY <2>3 DEF ReadClaimed, ReleaseClaims, Released, ResumePending
  <2>4. CASE MarkRow(r)
    BY <2>4 DEF MarkRow, RowIs, CallbackTypes
  <2> QED BY <1>1, <2>1, <2>2, <2>3, <2>4 DEF TaskStep
<1>2. ASSUME NEW r \in Runs, Deliver(r) \/ Inject(r) PROVE RunTypes'
  BY <1>2 DEF Deliver, Inject
<1>3. ASSUME NEW e \in EventIds, Decide(e) \/ HandlerStep(e) PROVE RunTypes'
  BY <1>3 DEF Decide, HandlerStep, AdmitDecided, WakeTask
<1>4. ASSUME NEW f \in Forces, ForceReply(f) PROVE RunTypes'
  BY <1>4 DEF ForceReply
<1>5. CASE OwnerStep \/ Pause \/ StopForResume
  BY <1>5 DEF OwnerStep, WakeForced, DropTurns, DropTask, Unpause, Pause, Handoff, StopForResume, TaskTypes
<1>6. CASE Close \/ Down
  BY <1>6 DEF Close, Working, Down, TaskTypes
<1>7. CASE Start
  <2>1. \A r \in Runs : Outcome(r) \in {"completed", "failed", "cancelled"}
    BY DEF Outcome
  <2> QED BY <1>7, <2>1 DEF Start
<1>8. CASE Surroundings \/ UNCHANGED rvars
  BY <1>8 DEF Surroundings, ModelChanges, ComesDue, rvars
<1> QED BY <1>1, <1>2, <1>3, <1>4, <1>5, <1>6, <1>7, <1>8 DEF RuntimeNext

-----------------------------------------------------------------------------
(* The process, and which runs have claimed.                                *)

DownIsEmpty ==
  process = "down" => /\ owner = "idle" /\ slot = None
                      /\ cancelled = {} /\ forced = {} /\ discarding = {}
                      /\ \A r \in Runs : pc[r] \in {"idle", "done"} /\ todo[r] = {} /\ marking[r] = None
                      /\ \A e \in EventIds : ingest[e] \in {"unseen", "seen"}

(* No step but Down leaves the process down.                                 *)
LEMMA OnlyDownEndsTheProcess ==
  ASSUME [RuntimeNext]_rvars, process' = "down"
  PROVE  Down \/ Surroundings \/ UNCHANGED rvars
<1> USE DEF processVars
<1>1. ASSUME NEW r \in Runs, TaskStep(r) PROVE FALSE
  <2>1. CASE Drive(r) \/ ClaimBatch(r) \/ BuildFails(r) \/ StartRow(r) \/ Invoked(r)
             \/ CompleteTurn(r) \/ FailTurn(r)
    BY <2>1 DEF Drive, ClaimBatch, BuildFails, Due, StartRow, Invoked, CompleteTurn, FailTurn,
                Proceeds, At
  <2>2. CASE Unwind(r) \/ FinishRow(r) \/ Interrupted(r) \/ Finished(r)
    BY <2>2 DEF Unwind, FinishRow, Interrupted, Finished, Proceeds, At
  <2>3. CASE ReadClaimed(r) \/ (\E s \in Runs : ReleaseClaims(r, s)) \/ MarkRow(r) \/ Released(r)
             \/ ResumePending(r)
    BY <2>3 DEF ReadClaimed, ReleaseClaims, MarkRow, Released, ResumePending, At
  <2> QED BY <1>1, <2>1, <2>2, <2>3 DEF TaskStep
<1>2. ASSUME NEW r \in Runs, Deliver(r) \/ Inject(r) PROVE FALSE
  BY <1>2 DEF Deliver, Inject, Proceeds, At
<1>3. ASSUME NEW e \in EventIds, Decide(e) \/ HandlerStep(e) PROVE FALSE
  BY <1>3 DEF Decide, HandlerStep, AdmitDecided, WakeTask
<1>4. ASSUME NEW f \in Forces, ForceReply(f) PROVE FALSE
  BY <1>4 DEF ForceReply
<1>5. CASE OwnerStep
  BY <1>5 DEF OwnerStep, WakeForced, DropTurns, DropTask, Unpause
<1>6. CASE Pause \/ StopForResume
  BY <1>6 DEF Pause, Handoff, StopForResume
<1>7. CASE Close \/ Start
  BY <1>7 DEF Close, Working, Start
<1> QED BY <1>1, <1>2, <1>3, <1>4, <1>5, <1>6, <1>7 DEF RuntimeNext

(* Nothing but rows survives the process.                                    *)
LEMMA DownStep ==
  ASSUME TaskTypes, WorldTypes, DownIsEmpty, [RuntimeNext]_rvars
  PROVE  DownIsEmpty'
<1>1. CASE process' # "down"
  BY <1>1 DEF DownIsEmpty
<1>2. CASE Down
  BY <1>2 DEF Down, Rest, DownIsEmpty, WorldTypes
<1>3. CASE Surroundings \/ UNCHANGED rvars
  BY <1>3 DEF Surroundings, ModelChanges, ComesDue, rvars, vars, taskVars, callbackVars, ownerVars,
     processVars, DownIsEmpty
<1> QED BY <1>1, <1>2, <1>3, OnlyDownEndsTheProcess

(* Only a claim starts a run.                                                *)
LEMMA OnlyClaimsStartRuns ==
  ASSUME [RuntimeNext]_rvars
  PROVE  \/ started' = started
         \/ \E r \in Runs, w \in WorkIds :
              /\ ClaimBatch(r) /\ ClaimReady(r, w) /\ Goes(r, "claimed")
              /\ answerers' = [answerers EXCEPT ![w] = @ \cup {r}]
<1> USE DEF vars
<1>1. ASSUME NEW r \in Runs, TaskStep(r)
      PROVE  \/ started' = started
             \/ \E w \in WorkIds : /\ ClaimBatch(r) /\ ClaimReady(r, w) /\ Goes(r, "claimed")
                                   /\ answerers' = [answerers EXCEPT ![w] = @ \cup {r}]
  <2>1. CASE Drive(r) \/ BuildFails(r) \/ StartRow(r) \/ Invoked(r) \/ CompleteTurn(r) \/ FailTurn(r)
    BY <2>1 DEF Drive, BuildFails, StartRow, Invoked, CompleteTurn, FailTurn, Complete, Fail
  <2>2. CASE Unwind(r) \/ FinishRow(r) \/ Interrupted(r) \/ Finished(r)
    BY <2>2 DEF Unwind, FinishRow, Interrupted, Finished, CancelClaimed, Release
  <2>3. CASE ReadClaimed(r) \/ (\E s \in Runs : ReleaseClaims(r, s)) \/ MarkRow(r) \/ Released(r)
             \/ ResumePending(r)
    BY <2>3 DEF ReadClaimed, ReleaseClaims, MarkRow, Released, ResumePending, CancelClaimed, Release
  <2>4. CASE ClaimBatch(r)
    BY <2>4 DEF ClaimBatch, Due
  <2> QED BY <1>1, <2>1, <2>2, <2>3, <2>4 DEF TaskStep
<1>2. ASSUME NEW r \in Runs, Deliver(r) \/ Inject(r) PROVE started' = started
  BY <1>2 DEF Deliver, Inject, ClaimInjection
<1>3. ASSUME NEW e \in EventIds, Decide(e) \/ HandlerStep(e) PROVE started' = started
  BY <1>3 DEF Decide, HandlerStep, AdmitDecided, WakeTask, AdmitTurn, AdmitCoalesced, AdmitContext
<1>4. ASSUME NEW f \in Forces, ForceReply(f) PROVE started' = started
  BY <1>4 DEF ForceReply, ScheduleForce
<1>5. CASE OwnerStep
  BY <1>5 DEF OwnerStep, WakeForced, DropTurns, DropTask, Unpause, CancelPendingTurns
<1>6. CASE Pause \/ StopForResume
  BY <1>6 DEF Pause, Handoff, StopForResume
<1>7. CASE Close \/ Down \/ Start
  BY <1>7 DEF Close, Working, Down, Start
<1>8. CASE Surroundings \/ UNCHANGED rvars
  BY <1>8 DEF Surroundings, ModelChanges, ComesDue, rvars
<1> QED BY <1>1, <1>2, <1>3, <1>4, <1>5, <1>6, <1>7, <1>8 DEF RuntimeNext

StartedTasks ==
  \A r \in Runs : /\ pc[r] \in {"idle"} \cup Before => r \notin started
                  /\ pc[r] \in {"done"} \cup Graph \cup Failing \cup Unwinding => r \in started
AnswerersStarted == \A w \in WorkIds : answerers[w] \subseteq started

(* A task is past its claim exactly when its run has started: the phases     *)
(* keep up with started.                                                     *)
LEMMA StartedTasksStep ==
  ASSUME TaskTypes, DownIsEmpty, StartedTasks, [RuntimeNext]_rvars
  PROVE  StartedTasks'
<1> USE DEF StartedTasks, TaskTypes, Before, Graph, Failing, Unwinding, Goes, taskVars
<1>1. CASE started' # started
  BY <1>1, OnlyClaimsStartRuns DEF ClaimReady
<1>2. ASSUME NEW r \in Runs, TaskStep(r), started' = started PROVE StartedTasks'
  <2>1. CASE Drive(r) \/ BuildFails(r) \/ StartRow(r) \/ Invoked(r)
    BY <1>2, <2>1 DEF Drive, BuildFails, StartRow, Invoked, Proceeds, At
  <2>2. CASE CompleteTurn(r) \/ FailTurn(r) \/ Unwind(r) \/ FinishRow(r) \/ Interrupted(r)
    BY <1>2, <2>2 DEF CompleteTurn, FailTurn, Unwind, FinishRow, Interrupted, Proceeds, At
  <2>3. CASE Finished(r)
    BY <1>2, <2>3 DEF Finished, Rest
  <2>4. CASE ReadClaimed(r) \/ (\E s \in Runs : ReleaseClaims(r, s)) \/ MarkRow(r) \/ Released(r)
    BY <1>2, <2>4 DEF ReadClaimed, ReleaseClaims, MarkRow, Released
  <2>5. CASE ResumePending(r)
    BY <1>2, <2>5 DEF ResumePending, EnsureTask, Rest
  <2>6. CASE ClaimBatch(r)
    BY <1>2, <2>6 DEF ClaimBatch, Due, ClaimReady
  <2> QED BY <1>2, <2>1, <2>2, <2>3, <2>4, <2>5, <2>6 DEF TaskStep
<1>3. ASSUME NEW r \in Runs, Deliver(r) \/ Inject(r), started' = started PROVE StartedTasks'
  BY <1>3 DEF Deliver, Inject
<1>4. ASSUME NEW e \in EventIds, Decide(e) \/ HandlerStep(e), started' = started PROVE StartedTasks'
  <2>1. CASE WakeTask(e)
    BY <1>4, <2>1 DEF WakeTask, EnsureTask
  <2> QED BY <1>4, <2>1 DEF Decide, HandlerStep, AdmitDecided
<1>5. ASSUME NEW f \in Forces, ForceReply(f), started' = started PROVE StartedTasks'
  BY <1>5 DEF ForceReply
<1>6. CASE OwnerStep /\ started' = started
  <2>1. CASE WakeForced
    BY <1>6, <2>1 DEF WakeForced, EnsureTask
  <2> QED BY <1>6, <2>1 DEF OwnerStep, DropTurns, DropTask, Unpause, CancelTask, Working
<1>7. CASE (Pause \/ StopForResume \/ Close) /\ started' = started
  BY <1>7 DEF Pause, Handoff, StopForResume, Close, CancelTask, Working
<1>8. CASE Down /\ started' = started
  BY <1>8 DEF Down, Rest
<1>9. CASE Start /\ started' = started
  BY <1>9 DEF Start, DownIsEmpty
<1>10. CASE Surroundings \/ UNCHANGED rvars
  BY <1>10 DEF Surroundings, ModelChanges, ComesDue, rvars, vars
<1> QED BY <1>1, <1>2, <1>3, <1>4, <1>5, <1>6, <1>7, <1>8, <1>9, <1>10 DEF RuntimeNext

(* The history of answerers grows only with a claim.                         *)
LEMMA OnlyClaimsAnswer ==
  ASSUME [RuntimeNext]_rvars, started' = started
  PROVE  answerers' = answerers
<1> USE DEF historyVars
<1>1. ASSUME NEW r \in Runs, TaskStep(r) PROVE answerers' = answerers
  <2>1. CASE Drive(r) \/ BuildFails(r) \/ StartRow(r) \/ Invoked(r)
             \/ CompleteTurn(r) \/ FailTurn(r) \/ Unwind(r)
    BY <2>1 DEF Drive, BuildFails, StartRow, Invoked, CompleteTurn, FailTurn, Unwind
  <2>2. CASE FinishRow(r) \/ Interrupted(r) \/ Finished(r)
    BY <2>2 DEF FinishRow, Interrupted, Finished
  <2>3. CASE ReadClaimed(r) \/ (\E s \in Runs : ReleaseClaims(r, s)) \/ MarkRow(r) \/ Released(r)
             \/ ResumePending(r)
    BY <2>3 DEF ReadClaimed, ReleaseClaims, MarkRow, Released, ResumePending
  <2>4. CASE ClaimBatch(r)
    BY <2>4 DEF ClaimBatch, Due, ClaimReady
  <2> QED BY <1>1, <2>1, <2>2, <2>3, <2>4 DEF TaskStep
<1>2. ASSUME NEW r \in Runs, Deliver(r) \/ Inject(r) PROVE answerers' = answerers
  BY <1>2 DEF Deliver, Inject
<1>3. ASSUME NEW e \in EventIds, Decide(e) \/ HandlerStep(e) PROVE answerers' = answerers
  BY <1>3 DEF Decide, HandlerStep, AdmitDecided, WakeTask
<1>4. ASSUME NEW f \in Forces, ForceReply(f) PROVE answerers' = answerers
  BY <1>4 DEF ForceReply
<1>5. CASE OwnerStep
  BY <1>5 DEF OwnerStep, WakeForced, DropTurns, DropTask, Unpause, CancelTask, Working
<1>6. CASE Pause \/ StopForResume \/ Close \/ Down \/ Start
  BY <1>6 DEF Pause, Handoff, StopForResume, CancelTask, Working, Close, Down, Start
<1>7. CASE Surroundings \/ UNCHANGED rvars
  BY <1>7 DEF Surroundings, ModelChanges, ComesDue, rvars
<1> QED BY <1>1, <1>2, <1>3, <1>4, <1>5, <1>6, <1>7 DEF RuntimeNext

LEMMA AnswerersStep ==
  ASSUME RunTypes, AnswerersStarted, [RuntimeNext]_rvars
  PROVE  AnswerersStarted'
<1> USE DEF RunTypes, AnswerersStarted
<1>1. CASE started' # started
  BY <1>1, OnlyClaimsStartRuns DEF ClaimReady
<1>2. CASE started' = started
  BY <1>2, OnlyClaimsAnswer
<1> QED BY <1>1, <1>2

-----------------------------------------------------------------------------
(* One task, and what a pause and a cancellation leave behind.              *)

(* The chat's task is the only one that nobody cancelled.                    *)
SlotHoldsTheTask == \A r \in Runs : Alive(r) /\ r \notin cancelled => slot = r

(* Whoever empties or takes the map has ended or cancelled the task in it.   *)
LEMMA SlotStep ==
  ASSUME TaskTypes, DownIsEmpty, SlotHoldsTheTask, [RuntimeNext]_rvars
  PROVE  SlotHoldsTheTask'
<1> USE JournalAssumption
    DEF SlotHoldsTheTask, Alive, TaskTypes, Before, Graph, Failing, Unwinding, Goes, taskVars
<1>1. ASSUME NEW r \in Runs, TaskStep(r) PROVE SlotHoldsTheTask'
  <2>1. CASE Drive(r) \/ ClaimBatch(r) \/ BuildFails(r) \/ StartRow(r) \/ Invoked(r)
    BY <2>1 DEF Drive, ClaimBatch, BuildFails, Due, StartRow, Invoked, Proceeds, At
  <2>2. CASE CompleteTurn(r) \/ FailTurn(r) \/ Unwind(r) \/ FinishRow(r) \/ Interrupted(r)
    BY <2>2 DEF CompleteTurn, FailTurn, Unwind, FinishRow, Interrupted, Proceeds, At
  <2>3. CASE Finished(r)
    BY <2>3 DEF Finished, Rest, At
  <2>4. CASE ReadClaimed(r) \/ (\E s \in Runs : ReleaseClaims(r, s)) \/ MarkRow(r) \/ Released(r)
    BY <2>4 DEF ReadClaimed, ReleaseClaims, MarkRow, Released, At
  <2>5. CASE ResumePending(r)
    BY <2>5 DEF ResumePending, EnsureTask, ActiveRun, Rest, At
  <2> QED BY <1>1, <2>1, <2>2, <2>3, <2>4, <2>5 DEF TaskStep
<1>2. ASSUME NEW r \in Runs, Deliver(r) \/ Inject(r) PROVE SlotHoldsTheTask'
  BY <1>2 DEF Deliver, Inject
<1>3. ASSUME NEW e \in EventIds, Decide(e) \/ HandlerStep(e) PROVE SlotHoldsTheTask'
  <2>1. CASE WakeTask(e)
    BY <2>1 DEF WakeTask, EnsureTask, ActiveRun
  <2> QED BY <1>3, <2>1 DEF Decide, HandlerStep, AdmitDecided
<1>4. ASSUME NEW f \in Forces, ForceReply(f) PROVE SlotHoldsTheTask'
  BY <1>4 DEF ForceReply
<1>5. CASE WakeForced
  BY <1>5 DEF WakeForced, EnsureTask, ActiveRun
<1>6. CASE DropTurns \/ Unpause \/ Pause
  BY <1>6 DEF DropTurns, Unpause, Pause, Handoff
<1>7. CASE DropTask \/ StopForResume
  BY <1>7 DEF DropTask, StopForResume, CancelTask, Working
<1>8. CASE Close \/ Down
  BY <1>8 DEF Close, Working, Down, Rest
<1>9. CASE Start
  BY <1>9 DEF Start, DownIsEmpty
<1>10. CASE Surroundings \/ UNCHANGED rvars
  BY <1>10 DEF Surroundings, ModelChanges, ComesDue, rvars
<1> QED BY <1>1, <1>2, <1>3, <1>4, <1>5, <1>6, <1>7, <1>8, <1>9, <1>10 DEF RuntimeNext, OwnerStep

(* The two steps of a pause (availability, then the task) leave no unforced  *)
(* task past its check.                                                      *)
LEMMA QuietStep ==
  ASSUME Flags, TaskTypes, WorldTypes, DownIsEmpty, SlotHoldsTheTask, PausedIsQuiet, [RuntimeNext]_rvars
  PROVE  PausedIsQuiet'
<1> USE JournalAssumption
    DEF PausedIsQuiet, Alive, TaskTypes, Before, Graph, Failing, Unwinding, Goes, taskVars, ownerVars
<1>1. ASSUME NEW r \in Runs, TaskStep(r) PROVE PausedIsQuiet'
  <2>1. CASE Drive(r)
    BY <2>1 DEF Drive, Proceeds, At
  <2>2. CASE ClaimBatch(r) \/ BuildFails(r) \/ StartRow(r) \/ Invoked(r)
    BY <2>2 DEF ClaimBatch, BuildFails, Due, StartRow, Invoked, Proceeds, At
  <2>3. CASE CompleteTurn(r) \/ FailTurn(r) \/ Unwind(r) \/ FinishRow(r) \/ Interrupted(r)
    BY <2>3 DEF CompleteTurn, FailTurn, Unwind, FinishRow, Interrupted, Proceeds, At
  <2>4. CASE Finished(r)
    BY <2>4 DEF Finished, Rest, At
  <2>5. CASE ReadClaimed(r) \/ (\E s \in Runs : ReleaseClaims(r, s)) \/ MarkRow(r) \/ Released(r)
    BY <2>5 DEF ReadClaimed, ReleaseClaims, MarkRow, Released, At
  <2>6. CASE ResumePending(r)
    BY <2>6 DEF ResumePending, EnsureTask, Rest, At
  <2> QED BY <1>1, <2>1, <2>2, <2>3, <2>4, <2>5, <2>6 DEF TaskStep
<1>2. ASSUME NEW r \in Runs, Deliver(r) \/ Inject(r) PROVE PausedIsQuiet'
  BY <1>2 DEF Deliver, Inject
<1>3. ASSUME NEW e \in EventIds, Decide(e) \/ HandlerStep(e) PROVE PausedIsQuiet'
  <2>1. CASE WakeTask(e)
    BY <2>1 DEF WakeTask, EnsureTask
  <2> QED BY <1>3, <2>1 DEF Decide, HandlerStep, AdmitDecided
<1>4. ASSUME NEW f \in Forces, ForceReply(f) PROVE PausedIsQuiet'
  BY <1>4 DEF ForceReply
<1>5. CASE WakeForced
  BY <1>5 DEF WakeForced, EnsureTask
<1>6. CASE DropTurns \/ Unpause \/ Pause \/ StopForResume
  <2>1. CASE Pause
    <3>1. \A r \in Runs : Alive(r) /\ r \notin cancelled => r \in Working
      BY DEF SlotHoldsTheTask, Working
    <3>2. UNCHANGED <<pc, cancelled, forced>>
      BY <2>1 DEF Pause, Handoff
    <3>3. owner' = "pausing" \/ kept' = kept \cup Working
      BY <2>1 DEF Pause, Handoff
    <3> QED BY <3>1, <3>2, <3>3
  <2> QED BY <1>6, <2>1 DEF DropTurns, Unpause, StopForResume
<1>7. CASE DropTask
  BY <1>7 DEF DropTask, CancelTask, Working, SlotHoldsTheTask
<1>8. CASE Close \/ Down
  BY <1>8 DEF Close, Working, Down, Rest
<1>9. CASE Start
  BY <1>9 DEF Start, DownIsEmpty
<1>10. CASE Surroundings \/ UNCHANGED rvars
  BY <1>10 DEF Surroundings, ModelChanges, ComesDue, rvars
<1> QED BY <1>1, <1>2, <1>3, <1>4, <1>5, <1>6, <1>7, <1>8, <1>9, <1>10 DEF RuntimeNext, OwnerStep

(* A task is cancelled only by hands that say so.                            *)
CancelledAreDisturbed ==
  /\ cancelled \subseteq disturbed
  /\ \A r \in Runs : pc[r] \in Unwinding => r \in cancelled

(* Only a cancelled task unwinds, and every cancelled task is on record as   *)
(* disturbed.                                                                *)
LEMMA CancelledStep ==
  ASSUME TaskTypes, RunTypes, DownIsEmpty, CancelledAreDisturbed, [RuntimeNext]_rvars
  PROVE  CancelledAreDisturbed'
<1> USE DEF CancelledAreDisturbed, TaskTypes, Unwinding, Goes, taskVars, historyVars
<1>1. ASSUME NEW r \in Runs, TaskStep(r) PROVE CancelledAreDisturbed'
  <2>1. CASE Drive(r) \/ ClaimBatch(r) \/ BuildFails(r) \/ StartRow(r) \/ Invoked(r)
    BY <2>1 DEF Drive, ClaimBatch, BuildFails, Due, StartRow, Invoked, Proceeds, At
  <2>2. CASE CompleteTurn(r) \/ FailTurn(r) \/ Unwind(r) \/ FinishRow(r) \/ Interrupted(r)
    BY <2>2 DEF CompleteTurn, FailTurn, Unwind, FinishRow, Interrupted, Proceeds, At
  <2>3. CASE Finished(r)
    BY <2>3 DEF Finished, Rest, At
  <2>4. CASE ReadClaimed(r) \/ (\E s \in Runs : ReleaseClaims(r, s)) \/ MarkRow(r) \/ Released(r)
    BY <2>4 DEF ReadClaimed, ReleaseClaims, MarkRow, Released, At
  <2>5. CASE ResumePending(r)
    BY <2>5 DEF ResumePending, EnsureTask, Rest, At
  <2> QED BY <1>1, <2>1, <2>2, <2>3, <2>4, <2>5 DEF TaskStep
<1>2. ASSUME NEW r \in Runs, Deliver(r) \/ Inject(r) PROVE CancelledAreDisturbed'
  BY <1>2 DEF Deliver, Inject
<1>3. ASSUME NEW e \in EventIds, Decide(e) \/ HandlerStep(e) PROVE CancelledAreDisturbed'
  <2>1. CASE WakeTask(e)
    BY <2>1 DEF WakeTask, EnsureTask
  <2> QED BY <1>3, <2>1 DEF Decide, HandlerStep, AdmitDecided
<1>4. ASSUME NEW f \in Forces, ForceReply(f) PROVE CancelledAreDisturbed'
  BY <1>4 DEF ForceReply
<1>5. CASE WakeForced
  BY <1>5 DEF WakeForced, EnsureTask
<1>6. CASE DropTurns \/ Unpause \/ Pause
  BY <1>6 DEF DropTurns, Unpause, Pause, Handoff
<1>7. CASE DropTask \/ StopForResume
  BY <1>7 DEF DropTask, StopForResume, CancelTask, Working
<1>8. CASE Close \/ Down
  BY <1>8 DEF Close, Working, Down, Rest
<1>9. CASE Start
  BY <1>9 DEF Start, DownIsEmpty
<1>10. CASE Surroundings \/ UNCHANGED rvars
  BY <1>10 DEF Surroundings, ModelChanges, ComesDue, rvars
<1> QED BY <1>1, <1>2, <1>3, <1>4, <1>5, <1>6, <1>7, <1>8, <1>9, <1>10 DEF RuntimeNext, OwnerStep

-----------------------------------------------------------------------------
(* Claims: who takes them, who settles them.                                *)

(* What a step of the runtime does to the claims: it leaves them, it takes   *)
(* one, it settles those of one run, or the process starts.                  *)
ClaimsUntouched ==
  \A w \in WorkIds : work[w].state \in {"claimed"} \cup Closed \/ work'[w].state = "claimed"
                       => work'[w] = work[w]
ClaimTaken(r, w) ==
  /\ ClaimBatch(r) /\ ClaimReady(r, w) /\ Goes(r, "claimed")
  /\ answerers' = [answerers EXCEPT ![w] = @ \cup {r}]
RunSettled(r) ==
  \A w \in WorkIds : IF w \in ClaimedWork(r) THEN work'[w].state \in Closed \cup {"pending"}
                     ELSE work'[w] = work[w]
Settling(r) == CompleteTurn(r) \/ FailTurn(r) \/ Unwind(r) \/ \E q \in Runs : ReleaseClaims(q, r)

(* Of settling, the runtime needs only what becomes of the claims.           *)
LEMMA SettledRun ==
  ASSUME TypeOK, NEW r \in Runs, Settled(r)
  PROVE  RunSettled(r)
<1>1. \A w \in WorkIds : work[w] \in WorkRow
  BY DEF TypeOK
<1> QED BY <1>1 DEF Settled, RunSettled, WorkRequeued, WorkClosed, Closed, WorkRow

LEMMA SettlingSettles ==
  ASSUME TypeOK, NEW r \in Runs, Settling(r)
  PROVE  RunSettled(r)
<1>1. CASE CompleteTurn(r)
  BY <1>1, SettlementsSettle, SettledRun DEF CompleteTurn
<1>2. CASE FailTurn(r)
  BY <1>2, SettlementsSettle, SettledRun DEF FailTurn
<1>3. CASE Unwind(r)
  BY <1>3, SettlementsSettle, SettledRun DEF Unwind
<1>4. CASE \E q \in Runs : ReleaseClaims(q, r)
  BY <1>4, SettlementsSettle, SettledRun DEF ReleaseClaims
<1> QED BY <1>1, <1>2, <1>3, <1>4 DEF Settling

(* Every step of the runtime falls under one of the four.                    *)
LEMMA ClaimSteps ==
  ASSUME TypeOK, [RuntimeNext]_rvars
  PROVE  \/ ClaimsUntouched
         \/ \E r \in Runs, w \in WorkIds : ClaimTaken(r, w)
         \/ \E r \in Runs : Settling(r)
         \/ Start
<1>0. UNCHANGED vars => ClaimsUntouched
  BY DEF vars, ClaimsUntouched
<1>1. ASSUME NEW r \in Runs, TaskStep(r)
      PROVE  \/ ClaimsUntouched \/ \E w \in WorkIds : ClaimTaken(r, w)
             \/ \E s \in Runs : Settling(s)
  <2>1. CASE Drive(r) \/ BuildFails(r) \/ StartRow(r) \/ Invoked(r)
             \/ FinishRow(r) \/ Interrupted(r) \/ Finished(r)
    BY <1>0, <2>1 DEF Drive, BuildFails, StartRow, Invoked, FinishRow, Interrupted, Finished
  <2>2. CASE ReadClaimed(r) \/ MarkRow(r) \/ Released(r) \/ ResumePending(r)
    BY <1>0, <2>2 DEF ReadClaimed, MarkRow, Released, ResumePending
  <2>3. CASE ClaimBatch(r)
    BY <1>0, <2>3 DEF ClaimBatch, Due, ClaimTaken
  <2>4. CASE CompleteTurn(r) \/ FailTurn(r) \/ Unwind(r) \/ \E s \in Runs : ReleaseClaims(r, s)
    BY <2>4 DEF Settling
  <2> QED BY <1>1, <2>1, <2>2, <2>3, <2>4 DEF TaskStep
<1>2. ASSUME NEW r \in Runs, Deliver(r) \/ Inject(r) PROVE ClaimsUntouched
  BY <1>0, <1>2 DEF Deliver, Inject, ClaimInjection, ClaimsUntouched
<1>3. ASSUME NEW e \in EventIds, Decide(e) \/ HandlerStep(e) PROVE ClaimsUntouched
  <2>1. CASE AdmitDecided(e)
    <3>1. ~Known(e) => work[e].state = "absent"
      BY DEF TypeOK
    <3>2. CASE AdmitTurn(e)
      BY <3>1, <3>2 DEF AdmitTurn, NewTurn, ClaimsUntouched, TypeOK, Closed, WorkIds
    <3>3. CASE AdmitCoalesced(e) \/ AdmitContext(e)
      BY <3>3 DEF AdmitCoalesced, AdmitContext, ClaimsUntouched
    <3> QED BY <2>1, <3>2, <3>3 DEF AdmitDecided
  <2> QED BY <1>0, <1>3, <2>1 DEF Decide, HandlerStep, WakeTask
<1>4. ASSUME NEW f \in Forces, ForceReply(f) PROVE ClaimsUntouched
  BY <1>4 DEF ForceReply, ScheduleForce, NewTurn, ClaimsUntouched, TypeOK, Closed, WorkIds
<1>5. CASE OwnerStep
  <2>1. CASE DropTurns
    BY <1>0, <2>1 DEF DropTurns, CancelPendingTurns, ClaimsUntouched, Closed, TypeOK, WorkRow
  <2> QED BY <1>0, <1>5, <2>1 DEF OwnerStep, WakeForced, DropTask, Unpause
<1>6. CASE Pause \/ StopForResume \/ Close \/ Down
  BY <1>0, <1>6 DEF Pause, Handoff, StopForResume, Close, Working, Down
<1>7. CASE Surroundings \/ UNCHANGED rvars
  BY <1>0, <1>7 DEF Surroundings, ModelChanges, ComesDue, rvars
<1> QED BY <1>1, <1>2, <1>3, <1>4, <1>5, <1>6, <1>7 DEF RuntimeNext

(* A claim takes one work and leaves what is claimed or closed.              *)
LEMMA TakenClaim ==
  ASSUME TypeOK, NEW r \in Runs, NEW w \in WorkIds, ClaimReady(r, w)
  PROVE  /\ r \notin started /\ work[w].state = "pending" /\ started' = started \cup {r}
         /\ work'[w].state = "claimed" /\ work'[w].run = r
         /\ \A v \in WorkIds \ {w} :
              work[v].state \in {"claimed"} \cup Closed \/ work'[v].state = "claimed"
                => work'[v] = work[v]
<1>1. \A v \in MergedInto(w) : work[v].state = "pending"
  BY DEF MergedInto, PendingTurns
<1>2. \A v \in WorkIds : work'[v] = IF v = w THEN [state |-> "claimed", run |-> r, cutoff |-> CutoffOf(w)]
                                    ELSE IF v \in MergedInto(w) THEN [work[v] EXCEPT !.state = "cancelled"]
                                    ELSE work[v]
  BY DEF ClaimReady
<1>3. \A v \in WorkIds : work[v] \in WorkRow
  BY DEF TypeOK
<1> QED BY <1>1, <1>2, <1>3 DEF ClaimReady, Closed, WorkRow

(* A start settles the claims of abandoned runs and no others.               *)
LEMMA StartedWork ==
  ASSUME TypeOK, RunTypes, Start
  PROVE  \A w \in WorkIds : IF work[w].state = "claimed" /\ work[w].run \in Abandoned
                            THEN work'[w].state \in Closed \cup {"pending"}
                            ELSE work'[w] = work[w]
<1>1. \A w \in WorkIds : work[w] \in WorkRow
  BY DEF TypeOK
<1>2. \A r \in Runs : Outcome(r) \in Closed
  BY DEF Outcome, Closed, RunTypes
<1>3. Abandoned \subseteq Runs
  BY DEF Abandoned, WithClaims
<1> QED BY <1>1, <1>2, <1>3 DEF Start, ReconciledWork, Closed, WorkRow

(* A started run that holds nothing never holds anything again.              *)
LEMMA NothingReturns ==
  ASSUME TypeOK, RunTypes, [RuntimeNext]_rvars, NEW r \in Runs, r \in started, ClaimedWork(r) = {}
  PROVE  ClaimedWork(r)' = {}
<1> USE DEF ClaimedWork
<1>1. CASE ClaimsUntouched
  BY <1>1 DEF ClaimsUntouched
<1>2. CASE \E s \in Runs, w \in WorkIds : ClaimTaken(s, w)
  BY <1>2, TakenClaim DEF ClaimTaken
<1>3. CASE \E s \in Runs : Settling(s)
  BY <1>3, SettlingSettles DEF RunSettled, Closed
<1>4. CASE Start
  BY <1>4, StartedWork DEF Closed
<1> QED BY <1>1, <1>2, <1>3, <1>4, ClaimSteps

-----------------------------------------------------------------------------
(* Runs that have settled hold nothing.                                     *)

(* Rows, callbacks and their lists name only runs that have claimed.         *)
StartedRows ==
  /\ \A r \in Runs : row[r] # "absent" => r \in started
  /\ \A r \in Runs : todo[r] \subseteq started
  /\ \A r \in Runs : marking[r] # None => marking[r] \in started

LEMMA StartedRowsStep ==
  ASSUME IInv, TaskTypes, CallbackTypes, RunTypes, StartedTasks, StartedRows, [RuntimeNext]_rvars
  PROVE  StartedRows'
<1>0. /\ started \subseteq started' /\ None \notin Runs
      /\ \A r \in WithClaims : r \in started
  BY OnlyClaimsStartRuns, JournalAssumption
     DEF ClaimReady, IInv, ClaimsOwned, WithClaims, ClaimedWork
<1> USE <1>0 DEF StartedRows, TaskTypes, CallbackTypes, RunTypes, callbackVars, runVars
<1>1. ASSUME NEW r \in Runs, TaskStep(r) PROVE StartedRows'
  <2>1. CASE Drive(r) \/ ClaimBatch(r) \/ BuildFails(r) \/ Invoked(r) \/ CompleteTurn(r) \/ FailTurn(r)
    BY <2>1 DEF Drive, ClaimBatch, BuildFails, Due, Invoked, CompleteTurn, FailTurn
  <2>2. CASE StartRow(r)
    BY <2>2 DEF StartRow, Proceeds, At, StartedTasks, Graph
  <2>3. CASE Unwind(r) \/ Interrupted(r) \/ Finished(r)
    BY <2>3 DEF Unwind, Interrupted, Finished
  <2>4. CASE FinishRow(r)
    BY <2>4 DEF FinishRow, RowIs
  <2>5. CASE ReadClaimed(r)
    BY <2>5 DEF ReadClaimed
  <2>6. ASSUME NEW s \in Runs, ReleaseClaims(r, s) PROVE StartedRows'
    BY <2>6 DEF ReleaseClaims
  <2>7. CASE MarkRow(r)
    BY <2>7 DEF MarkRow, RowIs
  <2>8. CASE Released(r) \/ ResumePending(r)
    BY <2>8 DEF Released, ResumePending
  <2> QED BY <1>1, <2>1, <2>2, <2>3, <2>4, <2>5, <2>6, <2>7, <2>8 DEF TaskStep
<1>2. ASSUME NEW r \in Runs, Deliver(r) \/ Inject(r) PROVE StartedRows'
  BY <1>2 DEF Deliver, Inject
<1>3. ASSUME NEW e \in EventIds, Decide(e) \/ HandlerStep(e) PROVE StartedRows'
  BY <1>3 DEF Decide, HandlerStep, AdmitDecided, WakeTask
<1>4. ASSUME NEW f \in Forces, ForceReply(f) PROVE StartedRows'
  BY <1>4 DEF ForceReply
<1>5. CASE OwnerStep
  BY <1>5 DEF OwnerStep, WakeForced, DropTurns, DropTask, Unpause
<1>6. CASE Pause \/ StopForResume \/ Close
  BY <1>6 DEF Pause, Handoff, StopForResume, Close, Working
<1>7. CASE Down
  BY <1>7 DEF Down
<1>8. CASE Start
  BY <1>8 DEF Start, Abandoned
<1>9. CASE Surroundings \/ UNCHANGED rvars
  BY <1>9 DEF Surroundings, ModelChanges, ComesDue, rvars
<1> QED BY <1>1, <1>2, <1>3, <1>4, <1>5, <1>6, <1>7, <1>8, <1>9 DEF RuntimeNext

(* A run that has just claimed has no row yet.                               *)
JustClaimedHasNoRow == \A r \in Runs : pc[r] = "claimed" => row[r] = "absent"

LEMMA JustClaimedStep ==
  ASSUME TaskTypes, CallbackTypes, RunTypes, StartedTasks, StartedRows, JustClaimedHasNoRow,
         [RuntimeNext]_rvars
  PROVE  JustClaimedHasNoRow'
<1> USE DEF JustClaimedHasNoRow, TaskTypes, CallbackTypes, RunTypes, Goes, taskVars, runVars
<1>1. ASSUME NEW r \in Runs, TaskStep(r) PROVE JustClaimedHasNoRow'
  <2>1. CASE Drive(r) \/ BuildFails(r) \/ StartRow(r) \/ Invoked(r) \/ CompleteTurn(r) \/ FailTurn(r)
    BY <2>1 DEF Drive, BuildFails, StartRow, Invoked, CompleteTurn, FailTurn
  <2>2. CASE ClaimBatch(r)
    <3>1. row[r] = "absent"
      BY <2>2 DEF ClaimBatch, Proceeds, At, StartedTasks, StartedRows, Before
    <3> QED BY <2>2, <3>1 DEF ClaimBatch, Due
  <2>3. CASE Unwind(r) \/ FinishRow(r) \/ Interrupted(r) \/ ReadClaimed(r) \/ Released(r)
    BY <2>3 DEF Unwind, FinishRow, RowIs, Interrupted, ReadClaimed, Released
  <2>4. CASE Finished(r)
    BY <2>4 DEF Finished, Rest
  <2>5. CASE (\E s \in Runs : ReleaseClaims(r, s)) \/ MarkRow(r)
    BY <2>5 DEF ReleaseClaims, MarkRow, RowIs
  <2>6. CASE ResumePending(r)
    BY <2>6 DEF ResumePending, EnsureTask, Rest
  <2> QED BY <1>1, <2>1, <2>2, <2>3, <2>4, <2>5, <2>6 DEF TaskStep
<1>2. ASSUME NEW r \in Runs, Deliver(r) \/ Inject(r) PROVE JustClaimedHasNoRow'
  BY <1>2 DEF Deliver, Inject
<1>3. ASSUME NEW e \in EventIds, Decide(e) \/ HandlerStep(e) PROVE JustClaimedHasNoRow'
  <2>1. CASE WakeTask(e)
    BY <2>1 DEF WakeTask, EnsureTask
  <2> QED BY <1>3, <2>1 DEF Decide, HandlerStep, AdmitDecided
<1>4. ASSUME NEW f \in Forces, ForceReply(f) PROVE JustClaimedHasNoRow'
  BY <1>4 DEF ForceReply
<1>5. CASE WakeForced
  BY <1>5 DEF WakeForced, EnsureTask
<1>6. CASE DropTurns \/ DropTask \/ Unpause \/ Pause \/ StopForResume \/ Close
  BY <1>6 DEF DropTurns, DropTask, Unpause, Pause, Handoff, StopForResume, CancelTask, Close
<1>7. CASE Down
  BY <1>7 DEF Down, Rest
<1>8. CASE Start
  BY <1>8 DEF Start, Abandoned
<1>9. CASE Surroundings \/ UNCHANGED rvars
  BY <1>9 DEF Surroundings, ModelChanges, ComesDue, rvars
<1> QED
  BY <1>1, <1>2, <1>3, <1>4, <1>5, <1>6, <1>7, <1>8, <1>9 DEF RuntimeNext, OwnerStep

(* A run whose turn was completed, failed or released holds no work, and so  *)
(* does one whose row is closed or about to be.                              *)
SettledTasksHoldNothing ==
  \A r \in Runs : pc[r] \in {"applied", "failed", "released"} => ClaimedWork(r) = {}
ClosedRowsHoldNothing ==
  \A r \in Runs : row[r] \notin {"absent", "running"} => ClaimedWork(r) = {}
MarkedRunsHoldNothing ==
  \A r \in Runs : marking[r] # None => ClaimedWork(marking[r]) = {}
SettledHoldNothing == SettledTasksHoldNothing /\ ClosedRowsHoldNothing /\ MarkedRunsHoldNothing

(* Which steps bring a run to these places.                                  *)
LEMMA NewlySettled ==
  ASSUME TaskTypes, CallbackTypes, RunTypes, DownIsEmpty, [RuntimeNext]_rvars, NEW r \in Runs
  PROVE  /\ pc'[r] \in {"applied", "failed", "released"} /\ pc[r] \notin {"applied", "failed", "released"}
              => Settling(r)
         /\ marking'[r] # None /\ marking'[r] # marking[r]
              => ReleaseClaims(r, marking'[r]) /\ marking'[r] \in Runs
         /\ row'[r] \notin {"absent", "running"} /\ row'[r] # row[r]
              => \/ pc[r] \in {"applied", "failed", "released"}
                 \/ \E q \in Runs : marking[q] = r
                 \/ Start /\ r \in Abandoned
<1> DEFINE Goal == /\ pc'[r] \in {"applied", "failed", "released"} /\ pc[r] \notin {"applied", "failed", "released"}
                        => Settling(r)
                   /\ marking'[r] # None /\ marking'[r] # marking[r]
                        => ReleaseClaims(r, marking'[r]) /\ marking'[r] \in Runs
                   /\ row'[r] \notin {"absent", "running"} /\ row'[r] # row[r]
                        => \/ pc[r] \in {"applied", "failed", "released"}
                           \/ \E q \in Runs : marking[q] = r
                           \/ Start /\ r \in Abandoned
<1> USE JournalAssumption DEF TaskTypes, CallbackTypes, RunTypes, Goes, taskVars, callbackVars, runVars
<1>1. ASSUME NEW q \in Runs, TaskStep(q) PROVE Goal
  <2>1. CASE Drive(q) \/ ClaimBatch(q) \/ BuildFails(q) \/ StartRow(q) \/ Invoked(q) \/ Interrupted(q)
    BY <2>1 DEF Drive, ClaimBatch, BuildFails, Due, StartRow, Invoked, Interrupted
  <2>2. CASE CompleteTurn(q) \/ FailTurn(q) \/ Unwind(q)
    <3>1. r = q => Settling(r)
      BY <2>2 DEF Settling
    <3> QED BY <2>2, <3>1 DEF CompleteTurn, FailTurn, Unwind
  <2>3. CASE FinishRow(q)
    BY <2>3 DEF FinishRow, RowIs, Proceeds, At
  <2>4. CASE Finished(q)
    BY <2>4 DEF Finished, Rest
  <2>5. CASE ReadClaimed(q) \/ Released(q)
    BY <2>5 DEF ReadClaimed, Released
  <2>6. ASSUME NEW s \in Runs, ReleaseClaims(q, s) PROVE Goal
    <3>1. marking' = [marking EXCEPT ![q] = s] /\ pc' = pc /\ row' = row
      BY <2>6 DEF ReleaseClaims
    <3> QED BY <2>6, <3>1
  <2>7. CASE MarkRow(q)
    BY <2>7 DEF MarkRow, RowIs
  <2>8. CASE ResumePending(q)
    BY <2>8 DEF ResumePending, EnsureTask, Rest
  <2> QED BY <1>1, <2>1, <2>2, <2>3, <2>4, <2>5, <2>6, <2>7, <2>8 DEF TaskStep
<1>2. ASSUME NEW q \in Runs, Deliver(q) \/ Inject(q) PROVE Goal
  BY <1>2 DEF Deliver, Inject
<1>3. ASSUME NEW e \in EventIds, Decide(e) \/ HandlerStep(e) PROVE Goal
  <2>1. CASE WakeTask(e)
    BY <2>1 DEF WakeTask, EnsureTask
  <2> QED BY <1>3, <2>1 DEF Decide, HandlerStep, AdmitDecided
<1>4. ASSUME NEW f \in Forces, ForceReply(f) PROVE Goal
  BY <1>4 DEF ForceReply
<1>5. CASE WakeForced
  BY <1>5 DEF WakeForced, EnsureTask
<1>6. CASE DropTurns \/ DropTask \/ Unpause
  BY <1>6 DEF DropTurns, DropTask, Unpause, CancelTask, Working
<1>7. CASE Pause \/ StopForResume \/ Close
  BY <1>7 DEF Pause, Handoff, StopForResume, Close, CancelTask, Working
<1>8. CASE Down
  BY <1>8 DEF Down, Rest
<1>9. CASE Start
  BY <1>9 DEF Start, DownIsEmpty
<1>10. CASE Surroundings \/ UNCHANGED rvars
  BY <1>10 DEF Surroundings, ModelChanges, ComesDue, rvars
<1> QED BY <1>1, <1>2, <1>3, <1>4, <1>5, <1>6, <1>7, <1>8, <1>9, <1>10 DEF RuntimeNext, OwnerStep

(* Settling empties the hands of a run, and NothingReturns keeps them        *)
(* empty.                                                                    *)
LEMMA SettledHoldNothingStep ==
  ASSUME IInv, TaskTypes, CallbackTypes, RunTypes, DownIsEmpty, StartedTasks, StartedRows,
         SettledHoldNothing, [RuntimeNext]_rvars
  PROVE  SettledHoldNothing'
<1>0. TypeOK
  BY DEF IInv
<1>1. ASSUME NEW r \in Runs, Settling(r) PROVE ClaimedWork(r)' = {}
  BY <1>0, <1>1, SettlingSettles DEF RunSettled, ClaimedWork, Closed
<1>2. SettledTasksHoldNothing'
  <2> SUFFICES ASSUME NEW r \in Runs, pc'[r] \in {"applied", "failed", "released"}
               PROVE  ClaimedWork(r)' = {}
    BY DEF SettledTasksHoldNothing
  <2>1. CASE pc[r] \in {"applied", "failed", "released"}
    <3>1. r \in started /\ ClaimedWork(r) = {}
      BY <2>1 DEF StartedTasks, Graph, Failing, Unwinding, SettledHoldNothing, SettledTasksHoldNothing
    <3> QED BY <1>0, <3>1, NothingReturns
  <2>2. CASE pc[r] \notin {"applied", "failed", "released"}
    BY <1>1, <2>2, NewlySettled
  <2> QED BY <2>1, <2>2
<1>3. MarkedRunsHoldNothing'
  <2> SUFFICES ASSUME NEW r \in Runs, marking'[r] # None
               PROVE  ClaimedWork(marking[r])' = {}
    BY DEF MarkedRunsHoldNothing
  <2>1. CASE marking'[r] = marking[r]
    <3>1. marking[r] \in started /\ marking[r] \in Runs /\ ClaimedWork(marking[r]) = {}
      BY <2>1 DEF StartedRows, CallbackTypes, SettledHoldNothing, MarkedRunsHoldNothing
    <3>2. PICK s \in Runs : s = marking[r] /\ s = marking'[r]
      BY <2>1, <3>1
    <3>3. ClaimedWork(s)' = {}
      BY <1>0, <3>1, <3>2, NothingReturns
    <3> QED BY <3>2, <3>3 DEF ClaimedWork
  <2>2. CASE marking'[r] # marking[r]
    <3>1. PICK s \in Runs : s = marking'[r] /\ Settling(s)
      BY <2>2, NewlySettled DEF Settling
    <3>2. ClaimedWork(s)' = {}
      BY <1>1, <3>1
    <3> QED BY <3>1, <3>2 DEF ClaimedWork
  <2> QED BY <2>1, <2>2
<1>4. ClosedRowsHoldNothing'
  <2> SUFFICES ASSUME NEW r \in Runs, row'[r] \notin {"absent", "running"}
               PROVE  ClaimedWork(r)' = {}
    BY DEF ClosedRowsHoldNothing
  <2>1. CASE row'[r] = row[r]
    <3>1. r \in started /\ ClaimedWork(r) = {}
      BY <2>1 DEF StartedRows, SettledHoldNothing, ClosedRowsHoldNothing
    <3> QED BY <1>0, <3>1, NothingReturns
  <2>2. CASE pc[r] \in {"applied", "failed", "released"}
    <3>1. r \in started /\ ClaimedWork(r) = {}
      BY <2>2 DEF StartedTasks, Graph, Failing, Unwinding, SettledHoldNothing, SettledTasksHoldNothing
    <3> QED BY <1>0, <3>1, NothingReturns
  <2>3. ASSUME NEW q \in Runs, marking[q] = r PROVE ClaimedWork(r)' = {}
    <3>1. r \in started /\ ClaimedWork(r) = {}
      BY <2>3, JournalAssumption DEF StartedRows, SettledHoldNothing, MarkedRunsHoldNothing
    <3> QED BY <1>0, <3>1, NothingReturns
  <2>4. CASE Start /\ r \in Abandoned
    BY <1>0, <2>4, StartedWork DEF ClaimedWork, Closed
  <2> QED BY <2>1, <2>2, <2>3, <2>4, NewlySettled
<1> QED BY <1>2, <1>3, <1>4 DEF SettledHoldNothing

-----------------------------------------------------------------------------
(* Claims are attended while the process lives.                             *)

(* How a run leaves the places where its claims are attended.                *)
LEMMA AttendanceMoves ==
  ASSUME TaskTypes, CallbackTypes, RunTypes, DownIsEmpty, [RuntimeNext]_rvars,
         process' = "up", ~Start, NEW r \in Runs
  PROVE  /\ process = "up"
         /\ row[r] = "absent" /\ row'[r] # "absent" => Alive(r)'
         /\ Alive(r) => \/ Alive(r)' \/ Interrupted(r) \/ BuildFails(r)
                        \/ pc[r] \in Before \cup {"applied", "failed", "released"}
         /\ pc[r] \in {"ended", "after"} /\ r \in cancelled
              => (pc'[r] \in {"ended", "after"} /\ r \in cancelled') \/ ReadClaimed(r)
         /\ \A s \in todo[r] : s \in todo'[r] \/ ReleaseClaims(r, s) \/ ReadClaimed(r)
<1> DEFINE Goal == /\ process = "up"
                   /\ row[r] = "absent" /\ row'[r] # "absent" => Alive(r)'
                   /\ Alive(r) => \/ Alive(r)' \/ Interrupted(r) \/ BuildFails(r)
                                  \/ pc[r] \in Before \cup {"applied", "failed", "released"}
                   /\ pc[r] \in {"ended", "after"} /\ r \in cancelled
                        => (pc'[r] \in {"ended", "after"} /\ r \in cancelled') \/ ReadClaimed(r)
                   /\ \A s \in todo[r] : s \in todo'[r] \/ ReleaseClaims(r, s) \/ ReadClaimed(r)
<1> USE JournalAssumption
    DEF TaskTypes, CallbackTypes, RunTypes, Goes, Alive, Before, Graph, Failing, Unwinding,
        taskVars, callbackVars, runVars, processVars
<1>1. ASSUME NEW q \in Runs, TaskStep(q) PROVE Goal
  <2>1. CASE Drive(q) \/ ClaimBatch(q) \/ StartRow(q) \/ Invoked(q)
    BY <2>1 DEF Drive, ClaimBatch, Due, StartRow, Invoked, Proceeds, At
  <2>2. CASE CompleteTurn(q) \/ FailTurn(q) \/ Unwind(q)
    BY <2>2 DEF CompleteTurn, FailTurn, Unwind, Proceeds, At
  <2>3. CASE FinishRow(q)
    BY <2>3 DEF FinishRow, RowIs, Proceeds, At
  <2>4. CASE Interrupted(q)
    <3>1. q # r => pc'[r] = pc[r]
      BY <2>4 DEF Interrupted
    <3> QED BY <2>4, <3>1 DEF Interrupted
  <2>5. CASE Finished(q)
    BY <2>5 DEF Finished, At
  <2>6. CASE ReadClaimed(q)
    <3>1. q # r => pc'[r] = pc[r] /\ todo'[r] = todo[r]
      BY <2>6 DEF ReadClaimed
    <3> QED BY <2>6, <3>1 DEF ReadClaimed, At
  <2>7. ASSUME NEW s \in Runs, ReleaseClaims(q, s) PROVE Goal
    <3>1. /\ todo' = [todo EXCEPT ![q] = @ \ {s}]
          /\ pc' = pc /\ row' = row /\ process' = process /\ cancelled' = cancelled
      BY <2>7 DEF ReleaseClaims
    <3> QED BY <2>7, <3>1
  <2>8. CASE MarkRow(q) \/ Released(q)
    BY <2>8 DEF MarkRow, RowIs, Released, At
  <2>9. CASE ResumePending(q)
    BY <2>9 DEF ResumePending, EnsureTask, Rest, At
  <2>10. CASE BuildFails(q)
    <3>1. q # r => pc'[r] = pc[r]
      BY <2>10 DEF BuildFails
    <3> QED BY <2>10, <3>1 DEF BuildFails, Proceeds, At
  <2> QED BY <1>1, <2>1, <2>2, <2>3, <2>4, <2>5, <2>6, <2>7, <2>8, <2>9, <2>10 DEF TaskStep
<1>2. ASSUME NEW q \in Runs, Deliver(q) \/ Inject(q) PROVE Goal
  BY <1>2 DEF Deliver, Inject
<1>3. ASSUME NEW e \in EventIds, Decide(e) \/ HandlerStep(e) PROVE Goal
  <2>1. CASE WakeTask(e)
    BY <2>1 DEF WakeTask, EnsureTask
  <2> QED BY <1>3, <2>1 DEF Decide, HandlerStep, AdmitDecided
<1>4. ASSUME NEW f \in Forces, ForceReply(f) PROVE Goal
  BY <1>4 DEF ForceReply
<1>5. CASE WakeForced
  BY <1>5 DEF WakeForced, EnsureTask
<1>6. CASE DropTurns \/ DropTask \/ Unpause
  BY <1>6 DEF DropTurns, DropTask, Unpause, CancelTask, Working
<1>7. CASE Pause \/ StopForResume \/ Close
  BY <1>7 DEF Pause, Handoff, StopForResume, Close, CancelTask, Working
<1>8. CASE Down
  BY <1>8 DEF Down
<1>9. CASE Surroundings \/ UNCHANGED rvars
  BY <1>9 DEF Surroundings, ModelChanges, ComesDue, rvars
<1> QED BY <1>1, <1>2, <1>3, <1>4, <1>5, <1>6, <1>7, <1>8, <1>9 DEF RuntimeNext, OwnerStep

(* A claim loses its attendant only to another one, or with the claim.       *)
LEMMA AttendedStep ==
  ASSUME IInv, TaskTypes, CallbackTypes, RunTypes, DownIsEmpty, StartedTasks,
         JustClaimedHasNoRow, SettledHoldNothing, ClaimsAreAttended, [RuntimeNext]_rvars
  PROVE  ClaimsAreAttended'
<1> SUFFICES ASSUME process' = "up", NEW r \in Runs, ClaimedWork(r)' # {}
             PROVE  Attended(r)' \/ row'[r] = "absent"
  BY DEF ClaimsAreAttended, WithClaims
<1>0. TypeOK
  BY DEF IInv
<1>1. CASE Start
  <2>1. ClaimedWork(r) # {} /\ r \notin Abandoned
    BY <1>0, <1>1, StartedWork DEF ClaimedWork, Closed
  <2>2. row[r] = "absent"
    BY <2>1 DEF Abandoned, WithClaims, SettledHoldNothing, ClosedRowsHoldNothing
  <2> QED BY <1>1, <2>1, <2>2 DEF Start
<1>2. CASE ~Start /\ ClaimedWork(r) = {}
  <2>1. ~ClaimsUntouched
    BY <1>2 DEF ClaimsUntouched, ClaimedWork
  <2>2. ASSUME NEW s \in Runs, Settling(s) PROVE FALSE
    BY <1>0, <1>2, <2>2, SettlingSettles DEF RunSettled, ClaimedWork, Closed
  <2>3. PICK s \in Runs, w \in WorkIds : ClaimTaken(s, w)
    BY <1>0, <1>2, <2>1, <2>2, ClaimSteps
  <2>4. s = r
    BY <1>0, <1>2, <2>3, TakenClaim DEF ClaimTaken, ClaimedWork
  <2> QED BY <2>3, <2>4 DEF ClaimTaken, Goes, TaskTypes, Attended, Alive, Graph
<1>3. CASE ~Start /\ ClaimedWork(r) # {}
  <2>1. process = "up" /\ r \in WithClaims
    BY <1>3, AttendanceMoves DEF WithClaims
  <2>2. CASE row[r] = "absent"
    BY <1>3, <2>2, AttendanceMoves DEF Attended
  <2>3. CASE Alive(r)
    <3>1. r \in started
      BY <1>3 DEF IInv, ClaimsOwned, ClaimedWork
    <3>2. pc[r] \notin Before \cup {"applied", "failed", "released"}
      BY <1>3, <3>1 DEF StartedTasks, SettledHoldNothing, SettledTasksHoldNothing
    <3>3. Alive(r)' \/ Interrupted(r) \/ BuildFails(r)
      BY <1>3, <2>3, <3>2, AttendanceMoves
    <3>4. Interrupted(r) => pc'[r] = "ended" /\ r \in cancelled'
      BY DEF Interrupted, Goes, TaskTypes
    <3>5. BuildFails(r) => row[r] = "absent"
      BY DEF BuildFails, Proceeds, At, JustClaimedHasNoRow
    <3> QED BY <2>2, <3>3, <3>4, <3>5 DEF Attended
  <2>4. ASSUME NEW s \in Runs, ReadClaimed(s) PROVE Attended(r)'
    <3>1. r \in todo'[s]
      BY <2>1, <2>4 DEF ReadClaimed, CallbackTypes
    <3> QED BY <3>1 DEF Attended
  <2>5. ASSUME NEW s \in Runs, pc[s] \in {"ended", "after"}, s \in cancelled PROVE Attended(r)'
    BY <1>3, <2>4, <2>5, AttendanceMoves DEF Attended
  <2>6. ASSUME NEW s \in Runs, r \in todo[s] PROVE Attended(r)'
    <3>1. ~ReleaseClaims(s, r)
      <4>1. ReleaseClaims(s, r) => RunSettled(r)
        BY <1>0, SettlingSettles DEF Settling
      <4> QED BY <4>1 DEF RunSettled, ClaimedWork, Closed
    <3>2. r \in todo'[s] \/ ReadClaimed(s)
      BY <1>3, <2>6, <3>1, AttendanceMoves
    <3> QED BY <2>4, <3>2 DEF Attended
  <2> QED BY <2>1, <2>2, <2>3, <2>5, <2>6 DEF ClaimsAreAttended, Attended
<1> QED BY <1>1, <1>2, <1>3

-----------------------------------------------------------------------------
(* One work, one answer.                                                    *)

(* A run that was left alone holds the work it claimed as long as its task   *)
(* has not settled it, and a work it has shown an effect for stays in its    *)
(* hand until it is closed.                                                  *)
Holding == {"claimed", "running", "answered", "failing"}
InHand(w, r) == work[w].state = "claimed" /\ work[w].run = r
HoldersHold ==
  \A w \in WorkIds : \A r \in answerers[w] \ disturbed : pc[r] \in Holding => InHand(w, r)
AnswersStand ==
  \A w \in WorkIds : \A r \in answerers[w] \ disturbed :
     evidence[r] # "none" => InHand(w, r) \/ work[w].state \in Closed

(* What a step can do to the histories, to evidence, and to the phases of a  *)
(* run at work.                                                              *)
LEMMA HistoryMoves ==
  ASSUME TaskTypes, RunTypes, DownIsEmpty, [RuntimeNext]_rvars, NEW r \in Runs
  PROVE  /\ disturbed \subseteq disturbed'
         /\ evidence'[r] = evidence[r] \/ Deliver(r)
         /\ pc'[r] \in Holding => pc[r] \in Holding \/ ClaimBatch(r)
<1> DEFINE Goal == /\ disturbed \subseteq disturbed'
                   /\ evidence'[r] = evidence[r] \/ Deliver(r)
                   /\ pc'[r] \in Holding => pc[r] \in Holding \/ ClaimBatch(r)
<1> USE DEF TaskTypes, RunTypes, Goes, Holding, taskVars, runVars, historyVars
<1>1. ASSUME NEW q \in Runs, TaskStep(q) PROVE Goal
  <2>1. CASE Drive(q) \/ BuildFails(q) \/ StartRow(q) \/ Invoked(q)
    BY <2>1 DEF Drive, BuildFails, StartRow, Invoked, Proceeds, At
  <2>2. CASE CompleteTurn(q) \/ FailTurn(q) \/ Unwind(q) \/ FinishRow(q) \/ Interrupted(q)
    BY <2>2 DEF CompleteTurn, FailTurn, Unwind, FinishRow, Interrupted
  <2>3. CASE Finished(q)
    BY <2>3 DEF Finished, Rest
  <2>4. CASE ReadClaimed(q) \/ (\E s \in Runs : ReleaseClaims(q, s)) \/ MarkRow(q) \/ Released(q)
    BY <2>4 DEF ReadClaimed, ReleaseClaims, MarkRow, Released
  <2>5. CASE ResumePending(q)
    BY <2>5 DEF ResumePending, EnsureTask, Rest
  <2>6. CASE ClaimBatch(q)
    <3>1. q # r => pc'[r] = pc[r]
      BY <2>6 DEF ClaimBatch, Due
    <3>2. disturbed' = disturbed /\ evidence' = evidence
      BY <2>6 DEF ClaimBatch, Due
    <3> QED BY <2>6, <3>1, <3>2
  <2> QED BY <1>1, <2>1, <2>2, <2>3, <2>4, <2>5, <2>6 DEF TaskStep
<1>2. ASSUME NEW q \in Runs, Deliver(q) PROVE Goal
  <2>1. q # r => evidence'[r] = evidence[r]
    BY <1>2 DEF Deliver
  <2>2. pc' = pc /\ disturbed' = disturbed
    BY <1>2 DEF Deliver
  <2> QED BY <1>2, <2>1, <2>2
<1>3. ASSUME NEW q \in Runs, Inject(q) PROVE Goal
  BY <1>3 DEF Inject
<1>4. ASSUME NEW e \in EventIds, Decide(e) \/ HandlerStep(e) PROVE Goal
  <2>1. CASE WakeTask(e)
    BY <2>1 DEF WakeTask, EnsureTask
  <2> QED BY <1>4, <2>1 DEF Decide, HandlerStep, AdmitDecided
<1>5. ASSUME NEW f \in Forces, ForceReply(f) PROVE Goal
  BY <1>5 DEF ForceReply
<1>6. CASE WakeForced
  BY <1>6 DEF WakeForced, EnsureTask
<1>7. CASE DropTurns \/ DropTask \/ Unpause \/ Pause \/ StopForResume \/ Close
  BY <1>7 DEF DropTurns, DropTask, Unpause, Pause, Handoff, StopForResume, Close, CancelTask, Working
<1>8. CASE Down
  BY <1>8 DEF Down, Rest
<1>9. CASE Start
  BY <1>9 DEF Start
<1>10. CASE Surroundings \/ UNCHANGED rvars
  BY <1>10 DEF Surroundings, ModelChanges, ComesDue, rvars
<1> QED BY <1>1, <1>2, <1>3, <1>4, <1>5, <1>6, <1>7, <1>8, <1>9, <1>10 DEF RuntimeNext, OwnerStep

(* Work in the hand of a run that is left alone leaves it only by that run's *)
(* own settlement, or at a start.                                            *)
LEMMA HandsKeep ==
  ASSUME TypeOK, [RuntimeNext]_rvars, NEW w \in WorkIds, NEW r \in Runs, InHand(w, r), ~InHand(w, r)'
  PROVE  Settling(r) \/ Start
<1> USE DEF InHand
<1>1. CASE ClaimsUntouched
  BY <1>1 DEF ClaimsUntouched
<1>2. CASE \E s \in Runs, v \in WorkIds : ClaimTaken(s, v)
  BY <1>2, TakenClaim DEF ClaimTaken
<1>3. ASSUME NEW s \in Runs, Settling(s) PROVE s = r
  BY <1>3, SettlingSettles DEF RunSettled, ClaimedWork
<1> QED BY <1>1, <1>2, <1>3, ClaimSteps

LEMMA ClosedStays ==
  ASSUME TypeOK, RunTypes, [RuntimeNext]_rvars, NEW w \in WorkIds, work[w].state \in Closed
  PROVE  work'[w].state \in Closed
<1> USE DEF Closed
<1>1. CASE ClaimsUntouched
  BY <1>1 DEF ClaimsUntouched
<1>2. CASE \E s \in Runs, v \in WorkIds : ClaimTaken(s, v)
  BY <1>2, TakenClaim DEF ClaimTaken
<1>3. CASE \E s \in Runs : Settling(s)
  BY <1>3, SettlingSettles DEF RunSettled, ClaimedWork
<1>4. CASE Start
  BY <1>4, StartedWork
<1> QED BY <1>1, <1>2, <1>3, <1>4, ClaimSteps

(* Who answers after a step: who answered before, or the run that claimed.   *)
LEMMA NewAnswerer ==
  ASSUME RunTypes, [RuntimeNext]_rvars, NEW w \in WorkIds, NEW r \in answerers'[w]
  PROVE  r \in answerers[w] \/ (ClaimTaken(r, w) /\ r \in Runs)
<1>1. CASE started' = started
  BY <1>1, OnlyClaimsAnswer
<1>2. CASE started' # started
  <2>1. PICK s \in Runs, v \in WorkIds : ClaimTaken(s, v)
    BY <1>2, OnlyClaimsStartRuns DEF ClaimTaken
  <2>2. answerers' = [answerers EXCEPT ![v] = @ \cup {s}]
    BY <2>1 DEF ClaimTaken
  <2> QED BY <2>1, <2>2 DEF RunTypes
<1> QED BY <1>1, <1>2

(* A run left alone loses no work before it settles.                         *)
LEMMA HoldersStep ==
  ASSUME TypeOK, TaskTypes, RunTypes, DownIsEmpty, StartedTasks, AnswerersStarted, HoldersHold,
         [RuntimeNext]_rvars
  PROVE  HoldersHold'
<1> SUFFICES ASSUME NEW w \in WorkIds, NEW r \in answerers'[w], r \notin disturbed', pc'[r] \in Holding
             PROVE  InHand(w, r)'
  BY DEF HoldersHold
<1>1. CASE ClaimTaken(r, w) /\ r \in Runs
  BY <1>1, TakenClaim DEF ClaimTaken, InHand
<1>2. CASE r \in answerers[w]
  <2>1. r \in Runs /\ r \in started
    BY <1>2 DEF RunTypes, AnswerersStarted
  <2>2. r \notin disturbed /\ pc[r] \in Holding
    BY <2>1, HistoryMoves DEF ClaimBatch, Due, Proceeds, At, StartedTasks, Before
  <2>3. InHand(w, r)
    BY <1>2, <2>2 DEF HoldersHold
  <2>4. ~Start
    BY <2>1, <2>2 DEF Start, DownIsEmpty, Holding
  <2>5. ~Settling(r)
    <3>1. ~(CompleteTurn(r) \/ FailTurn(r) \/ Unwind(r))
      BY <2>1 DEF CompleteTurn, FailTurn, Unwind, Goes, TaskTypes, Holding
    <3>2. ~\E q \in Runs : ReleaseClaims(q, r)
      BY DEF ReleaseClaims
    <3> QED BY <3>1, <3>2 DEF Settling
  <2> QED BY <2>1, <2>3, <2>4, <2>5, HandsKeep
<1> QED BY <1>1, <1>2, NewAnswerer

(* The work of a run that showed an effect ends closed: Release reaches      *)
(* only disturbed runs, and a start closes it.                               *)
LEMMA AnswersStep ==
  ASSUME TypeOK, TaskTypes, RunTypes, DownIsEmpty, AnswerersStarted, CancelledAreDisturbed,
         HoldersHold, AnswersStand, [RuntimeNext]_rvars
  PROVE  AnswersStand'
<1> SUFFICES ASSUME NEW w \in WorkIds, NEW r \in answerers'[w], r \notin disturbed', evidence'[r] # "none"
             PROVE  InHand(w, r)' \/ work'[w].state \in Closed
  BY DEF AnswersStand
<1>1. CASE ClaimTaken(r, w) /\ r \in Runs
  BY <1>1, TakenClaim DEF ClaimTaken, InHand
<1>2. CASE r \in answerers[w]
  <2>1. r \in Runs /\ r \notin disturbed
    BY <1>2, HistoryMoves DEF RunTypes
  <2>2. InHand(w, r) \/ work[w].state \in Closed
    <3>1. CASE Deliver(r)
      BY <1>2, <2>1, <3>1 DEF Deliver, Proceeds, At, HoldersHold, Holding
    <3>2. CASE evidence'[r] = evidence[r]
      BY <1>2, <2>1, <3>2 DEF AnswersStand
    <3> QED BY <2>1, <3>1, <3>2, HistoryMoves
  <2>3. CASE work[w].state \in Closed
    BY <2>3, ClosedStays
  <2>4. CASE InHand(w, r) /\ Start
    <3>1. evidence[r] \in {"succeeded", "unclear"}
      BY <2>1, <2>4 DEF Start, RunTypes
    <3>2. work[w] \in WorkRow /\ Outcome(r) \in Closed \ {"cancelled"}
      BY <3>1 DEF TypeOK, Outcome, Closed
    <3>3. work'[w] = IF r \in Abandoned THEN [work[w] EXCEPT !.state = Outcome(r)] ELSE work[w]
      BY <2>4, <3>2 DEF Start, ReconciledWork, InHand
    <3> QED BY <2>4, <3>2, <3>3 DEF InHand, WorkRow
  <2>5. CASE InHand(w, r) /\ (CompleteTurn(r) \/ FailTurn(r))
    <3>1. \E s \in Closed : work' = WorkClosed(r, s)
      BY <2>5 DEF CompleteTurn, FailTurn, Complete, Fail, Closed
    <3> QED BY <2>5, <3>1 DEF WorkClosed, InHand, ClaimedWork, TypeOK, WorkRow, Closed
  <2>6. ~Unwind(r)
    BY <2>1 DEF Unwind, At, CancelledAreDisturbed, Unwinding
  <2>7. ~\E q \in Runs : ReleaseClaims(q, r)
    BY DEF ReleaseClaims
  <2> QED BY <2>1, <2>2, <2>3, <2>4, <2>5, <2>6, <2>7, HandsKeep DEF Settling
<1> QED BY <1>1, <1>2, NewAnswerer

(* A second answer would need a second claim, and the work is held or        *)
(* closed.                                                                   *)
LEMMA RepliedStep ==
  ASSUME TypeOK, TaskTypes, RunTypes, DownIsEmpty, HoldersHold, AnswersStand, RepliedOnce,
         [RuntimeNext]_rvars
  PROVE  RepliedOnce'
<1> SUFFICES ASSUME NEW w \in WorkIds, NEW r \in answerers'[w], NEW s \in answerers'[w],
                    evidence'[r] # "none", evidence'[s] # "none", {r, s} \cap disturbed' = {}
             PROVE  r = s
  BY DEF RepliedOnce
<1>0. r \in Runs /\ s \in Runs
  BY NewAnswerer DEF RunTypes
<1>1. {r, s} \cap disturbed = {}
  BY <1>0, HistoryMoves
<1>2. ASSUME NEW p \in Runs, NEW q \in answerers[w], ClaimTaken(p, w), evidence'[q] # "none",
             q \notin disturbed
      PROVE  FALSE
  <2>1. evidence'[q] = evidence[q]
    BY <1>2 DEF ClaimTaken, ClaimBatch, Due, runVars
  <2>2. InHand(w, q) \/ work[w].state \in Closed
    BY <1>2, <2>1 DEF AnswersStand
  <2> QED BY <1>2, <2>2, TakenClaim DEF ClaimTaken, InHand, Closed
<1>3. CASE ClaimTaken(r, w) \/ ClaimTaken(s, w)
  <2>1. ClaimTaken(r, w) /\ ClaimTaken(s, w) => r = s
    BY <1>0, TakenClaim DEF ClaimTaken
  <2> QED BY <1>0, <1>1, <1>2, <1>3, <2>1, NewAnswerer
<1>4. CASE r \in answerers[w] /\ s \in answerers[w]
  <2>1. ASSUME NEW p \in answerers[w], NEW q \in answerers[w], p \notin disturbed, q \notin disturbed,
               Deliver(p), evidence[q] # "none"
        PROVE  p = q
    <3>1. InHand(w, p)
      BY <2>1 DEF Deliver, Proceeds, At, HoldersHold, Holding
    <3>2. InHand(w, q) \/ work[w].state \in Closed
      BY <2>1 DEF AnswersStand
    <3> QED BY <3>1, <3>2 DEF InHand, Closed
  <2>2. Deliver(r) /\ Deliver(s) => r = s
    <3>1. Deliver(r) /\ Deliver(s) => InHand(w, r) /\ InHand(w, s)
      BY <1>1, <1>4 DEF Deliver, Proceeds, At, HoldersHold, Holding
    <3> QED BY <3>1 DEF InHand
  <2>3. evidence'[r] = evidence[r] \/ Deliver(r)
    BY <1>0, HistoryMoves
  <2>4. evidence'[s] = evidence[s] \/ Deliver(s)
    BY <1>0, HistoryMoves
  <2>5. Deliver(s) /\ evidence[r] # "none" => s = r
    BY <1>1, <1>4, <2>1
  <2>6. Deliver(r) /\ evidence[s] # "none" => r = s
    BY <1>1, <1>4, <2>1
  <2>7. CASE evidence[r] # "none" /\ evidence[s] # "none"
    BY <1>1, <1>4, <2>7 DEF RepliedOnce
  <2> QED BY <2>2, <2>3, <2>4, <2>5, <2>6, <2>7
<1> QED BY <1>0, <1>3, <1>4, NewAnswerer

-----------------------------------------------------------------------------
(* The journal under the runtime, and the invariant that holds it together. *)

(* What a step of the runtime does to the journal is a step of the journal,  *)
(* save for a start, which settles every abandoned run at once.              *)
LEMMA JournalSteps == [RuntimeNext]_rvars => [Next]_vars \/ Start
<1> SUFFICES ASSUME [RuntimeNext]_rvars PROVE [Next]_vars \/ Start
  OBVIOUS
<1>1. ASSUME NEW r \in Runs, TaskStep(r) PROVE [Next]_vars
  <2>1. CASE Drive(r) \/ BuildFails(r) \/ StartRow(r) \/ Invoked(r)
             \/ FinishRow(r) \/ Interrupted(r) \/ Finished(r)
    BY <2>1 DEF Drive, BuildFails, StartRow, Invoked, FinishRow, Interrupted, Finished
  <2>2. CASE ReadClaimed(r) \/ MarkRow(r) \/ Released(r) \/ ResumePending(r)
    BY <2>2 DEF ReadClaimed, MarkRow, Released, ResumePending
  <2>3. CASE ClaimBatch(r)
    BY <2>3 DEF ClaimBatch, Due, Next
  <2>4. CASE CompleteTurn(r) \/ FailTurn(r) \/ Unwind(r)
    BY <2>4 DEF CompleteTurn, FailTurn, Unwind, Next
  <2>5. CASE \E s \in Runs : ReleaseClaims(r, s)
    BY <2>5 DEF ReleaseClaims, Next
  <2> QED
    BY <1>1, <2>1, <2>2, <2>3, <2>4, <2>5 DEF TaskStep
<1>2. ASSUME NEW r \in Runs, Deliver(r) \/ Inject(r) PROVE [Next]_vars
  BY <1>2 DEF Deliver, Inject, Next
<1>3. ASSUME NEW e \in EventIds, Decide(e) \/ HandlerStep(e) PROVE [Next]_vars
  BY <1>3 DEF Decide, HandlerStep, AdmitDecided, WakeTask, Next
<1>4. ASSUME NEW f \in Forces, ForceReply(f) PROVE [Next]_vars
  BY <1>4 DEF ForceReply, Next
<1>5. CASE OwnerStep
  BY <1>5 DEF OwnerStep, WakeForced, DropTurns, DropTask, Unpause, Next
<1>6. CASE Pause \/ StopForResume \/ Close \/ Down
  BY <1>6 DEF Pause, Handoff, StopForResume, Close, Working, Down
<1>7. CASE Surroundings \/ UNCHANGED rvars
  BY <1>7 DEF Surroundings, ModelChanges, ComesDue, rvars
<1> QED
  BY <1>1, <1>2, <1>3, <1>4, <1>5, <1>6, <1>7 DEF RuntimeNext

(* What a start does to the rows of abandoned runs, and to their work.       *)
LEMMA StartedRecords ==
  ASSUME IInv, RunTypes, Start
  PROVE  /\ events' \in Seq(Event) /\ Len(events') = Len(events)
         /\ \A i \in Seqs :
              /\ events'[i].id = events[i].id
              /\ events[i].context = "claimed" /\ events[i].run \in Abandoned
                   => \/ events'[i].context = "applied"
                      \/ events'[i].context = "unapplied" /\ events'[i].run = None
              /\ ~(events[i].context = "claimed" /\ events[i].run \in Abandoned)
                   => events'[i] = events[i]
<1>1. /\ Len(events) \in Nat /\ Seqs = 1..Len(events) /\ events \in Seq(Event)
      /\ \A i \in Seqs : events[i] \in Event
  BY TypedRows DEF IInv, TypeOK
<1>2. \A i \in Seqs : events'[i] =
        IF events[i].context # "claimed" \/ events[i].run \notin Abandoned THEN events[i]
        ELSE IF Outcome(events[i].run) = "cancelled"
        THEN [events[i] EXCEPT !.context = "unapplied", !.run = None]
        ELSE [events[i] EXCEPT !.context = "applied"]
  BY DEF Start, ReconciledEvents
<1>3. ASSUME NEW i \in Seqs PROVE events'[i] \in Event
  <2>1. /\ events[i] \in Event
        /\ [events[i] EXCEPT !.context = "unapplied", !.run = None] \in Event
        /\ [events[i] EXCEPT !.context = "applied"] \in Event
    BY <1>1 DEF Event
  <2> QED
    BY <1>2, <2>1
<1>4. events' = [i \in 1..Len(events) |-> events'[i]]
  <2>1. DOMAIN events' = Seqs /\ events' = [i \in DOMAIN events' |-> events'[i]]
    BY DEF Start, ReconciledEvents
  <2> QED
    BY <1>1, <2>1
<1>5. events' \in Seq(Event) /\ Len(events') = Len(events)
  BY <1>1, <1>3, <1>4, RowsInPlace
<1>6. ASSUME NEW i \in Seqs
      PROVE  /\ events'[i].id = events[i].id
             /\ events[i].context = "claimed" /\ events[i].run \in Abandoned
                  => \/ events'[i].context = "applied"
                     \/ events'[i].context = "unapplied" /\ events'[i].run = None
             /\ ~(events[i].context = "claimed" /\ events[i].run \in Abandoned)
                  => events'[i] = events[i]
  <2>1. events[i] \in Event
    BY <1>1
  <2>2. CASE events[i].context # "claimed" \/ events[i].run \notin Abandoned
    BY <1>2, <2>2
  <2>3. CASE events[i].context = "claimed" /\ events[i].run \in Abandoned
    <3>1. \/ events'[i] = [events[i] EXCEPT !.context = "unapplied", !.run = None]
          \/ events'[i] = [events[i] EXCEPT !.context = "applied"]
      BY <1>2, <2>3
    <3> QED
      BY <2>1, <2>3, <3>1 DEF Event
  <2> QED
    BY <2>2, <2>3
<1> QED
  BY <1>5, <1>6

LEMMA StartedQueue ==
  ASSUME IInv, RunTypes, Start
  PROVE  /\ work' \in [WorkIds -> WorkRow]
         /\ \A w \in WorkIds :
              /\ work'[w].cutoff = work[w].cutoff
              /\ work[w].state = "claimed" /\ work[w].run \in Abandoned
                   => \/ work'[w].state \in Closed
                      \/ work'[w].state = "pending" /\ work'[w].run = None
              /\ ~(work[w].state = "claimed" /\ work[w].run \in Abandoned)
                   => work'[w] = work[w]
<1>1. \A w \in WorkIds : work[w] \in WorkRow
  BY DEF IInv, TypeOK
<1>2. \A r \in Runs : Outcome(r) \in Closed
  BY DEF Outcome, Closed, RunTypes
<1>3. Abandoned \subseteq Runs
  BY DEF Abandoned, WithClaims
<1>4. work' = ReconciledWork
  BY DEF Start
<1> QED
  BY <1>1, <1>2, <1>3, <1>4 DEF ReconciledWork, Closed, WorkRow

(* The invariant of the journal and the growth of its context, under every   *)
(* step of the runtime.                                                      *)
LEMMA JournalKept ==
  ASSUME IInv, RunTypes, [RuntimeNext]_rvars
  PROVE  /\ IInv'
         /\ cursor <= cursor'
         /\ \A i \in Seqs : events[i].context = "applied" => events'[i].context = "applied"
         /\ \A w \in WorkIds : work[w].state \in Closed => work'[w] = work[w]
<1>1. CASE [Next]_vars
  BY <1>1, NextInvariant, ContextGrows
<1>2. CASE Start
  <2> DEFINE Rows == {i \in Seqs : events[i].context = "claimed" /\ events[i].run \in Abandoned}
             Works == {w \in WorkIds : work[w].state = "claimed" /\ work[w].run \in Abandoned}
  <2>1. /\ events' \in Seq(Event) /\ Len(events') = Len(events)
        /\ \A i \in Seqs :
             /\ events'[i].id = events[i].id
             /\ i \in Rows => \/ events'[i].context = "applied"
                              \/ events'[i].context = "unapplied" /\ events'[i].run = None
             /\ i \notin Rows => events'[i] = events[i]
             /\ events[i].context = "applied" => events'[i].context = "applied"
    BY <1>2, StartedRecords
  <2>2. /\ work' \in [WorkIds -> WorkRow]
        /\ \A w \in WorkIds :
             /\ work'[w].cutoff = work[w].cutoff
             /\ w \notin Works => work'[w] = work[w]
             /\ w \in Works => \/ work'[w].state \in Closed
                               \/ work'[w].state = "pending" /\ work'[w].run = None
    BY <1>2, StartedQueue
  <2>3. started' = started /\ cursor' = cursor /\ cursor \in Nat
    BY <1>2 DEF Start, IInv, TypeOK
  <2>4. /\ Rows \in SUBSET Seqs /\ Works \in SUBSET WorkIds
        /\ \A w \in Works : work[w].state = "claimed"
    OBVIOUS
  <2>5. \A w \in WorkIds : work[w].state \in Closed => w \notin Works
    BY DEF Closed
  <2> HIDE DEF Rows, Works
  <2>6. IInv'
    BY <2>1, <2>2, <2>3, <2>4, LetGoStep
  <2> QED
    BY <2>1, <2>2, <2>3, <2>5, <2>6
<1> QED
  BY <1>1, <1>2, JournalSteps

(* A start settles the abandoned runs in the ledger, each by its outcome.    *)
LEMMA StartSettles ==
  ASSUME IInv, IInv', RunTypes, Start
  PROVE  [Ledger!Next]_(Ledger!ledger)
<1> DEFINE outcome == [r \in Abandoned |-> IF Outcome(r) = "cancelled" THEN "unapplied" ELSE "applied"]
<1>1. Abandoned \in SUBSET Runs /\ outcome \in [Abandoned -> {"unapplied", "applied"}]
  BY DEF Abandoned, WithClaims
<1>2. Seqs' = Seqs /\ cursor' = cursor /\ cursor \in Nat
  BY StartedRecords DEF Start, Seqs, IInv, TypeOK
<1>3. /\ \A i \in Seqs : events[i] \in Event
      /\ \A i \in Seqs : LedgerHolder[i] = IF events[i].context = "claimed"
                                           THEN events[i].run ELSE None
  BY TypedRows, LedgerRows DEF IInv
<1>4. \A i \in Seqs : LedgerHolder[i] \in Abandoned
                      <=> events[i].context = "claimed" /\ events[i].run \in Abandoned
  BY <1>1, <1>3, JournalAssumption
<1>5. /\ \A i \in Seqs, r \in Abandoned : LedgerHolder[i] = r => events'[i].context = outcome[r]
      /\ \A i \in Seqs : LedgerHolder[i] \notin Abandoned => events'[i] = events[i]
  BY <1>1, <1>3, <1>4 DEF Start, ReconciledEvents, Event
<1>6. Ledger!FrontierMoves
  BY <1>2, FrontierFollows
<1> HIDE DEF outcome
<1>7. Ledger!Settle(outcome)
  BY <1>1, <1>2, <1>5, <1>6, LedgerSettles
<1> QED
  BY <1>1, <1>7 DEF Ledger!Next

-----------------------------------------------------------------------------
(* The inductive invariant of the runtime.                                   *)
RInv ==
  /\ IInv /\ RuntimeTypes /\ DownIsEmpty
  /\ StartedTasks /\ AnswerersStarted /\ StartedRows
  /\ SlotHoldsTheTask /\ PausedIsQuiet /\ CancelledAreDisturbed
  /\ JustClaimedHasNoRow /\ SettledHoldNothing /\ ClaimsAreAttended
  /\ HoldersHold /\ AnswersStand /\ RepliedOnce

LEMMA RuntimeInitInvariant == RuntimeInit => RInv
<1> SUFFICES ASSUME RuntimeInit PROVE RInv
  OBVIOUS
<1>1. IInv
  BY InitInvariant DEF RuntimeInit
<1>2. /\ started = {} /\ \A r \in Runs : ClaimedWork(r) = {}
      /\ \A w \in WorkIds : answerers[w] = {}
      /\ \A r \in Runs : pc[r] = "idle" /\ todo[r] = {} /\ marking[r] = None /\ row[r] = "absent"
      /\ \A e \in EventIds : ingest[e] = "unseen"
      /\ process = "down" /\ owner = "idle" /\ slot = None
      /\ cancelled = {} /\ forced = {} /\ discarding = {}
  BY DEF RuntimeInit, Init, ClaimedWork
<1>3. Flags
  BY Zenon DEF RuntimeInit, Flags
<1>4. TaskTypes /\ CallbackTypes /\ WorldTypes /\ RunTypes
  BY DEF RuntimeInit, TaskTypes, CallbackTypes, WorldTypes, RunTypes, Phases
<1>5. DownIsEmpty /\ StartedTasks /\ AnswerersStarted /\ StartedRows
  BY <1>2 DEF DownIsEmpty, StartedTasks, AnswerersStarted, StartedRows, Before, Graph, Failing, Unwinding
<1>6. SlotHoldsTheTask /\ PausedIsQuiet /\ CancelledAreDisturbed
  BY <1>2 DEF SlotHoldsTheTask, PausedIsQuiet, CancelledAreDisturbed, Alive, Before, Graph, Failing,
              Unwinding
<1>7. JustClaimedHasNoRow /\ SettledHoldNothing /\ ClaimsAreAttended
  BY <1>2 DEF JustClaimedHasNoRow, SettledHoldNothing, SettledTasksHoldNothing, ClosedRowsHoldNothing,
              MarkedRunsHoldNothing, ClaimsAreAttended, WithClaims
<1>8. HoldersHold /\ AnswersStand /\ RepliedOnce
  BY <1>2 DEF HoldersHold, AnswersStand, RepliedOnce
<1> QED
  BY <1>1, <1>3, <1>4, <1>5, <1>6, <1>7, <1>8 DEF RInv, RuntimeTypes

LEMMA RuntimeNextInvariant == RInv /\ [RuntimeNext]_rvars => RInv'
<1> SUFFICES ASSUME RInv, [RuntimeNext]_rvars PROVE RInv'
  OBVIOUS
<1> USE DEF RInv, RuntimeTypes
<1>0. TypeOK
  BY DEF IInv
<1>1. IInv'
  BY JournalKept
<1>2. RuntimeTypes'
  BY FlagsKept, TaskTypesKept, CallbackTypesKept, WorldTypesKept, RunTypesKept
<1>3. DownIsEmpty' /\ StartedTasks' /\ AnswerersStarted' /\ StartedRows'
  BY DownStep, StartedTasksStep, AnswerersStep, StartedRowsStep
<1>4. SlotHoldsTheTask' /\ PausedIsQuiet' /\ CancelledAreDisturbed'
  BY SlotStep, QuietStep, CancelledStep
<1>5. JustClaimedHasNoRow' /\ SettledHoldNothing' /\ ClaimsAreAttended'
  BY JustClaimedStep, SettledHoldNothingStep, AttendedStep
<1>6. HoldersHold' /\ AnswersStand' /\ RepliedOnce'
  BY <1>0, HoldersStep, AnswersStep, RepliedStep
<1> QED
  BY <1>1, <1>2, <1>3, <1>4, <1>5, <1>6

LEMMA RuntimeInvariance == RuntimeSpec => []RInv
<1>1. RInv /\ [RuntimeNext]_rvars => RInv'
  BY RuntimeNextInvariant
<1> QED
  BY <1>1, RuntimeInitInvariant, PTL DEF RuntimeSpec

(* Tasks, callbacks, handlers, owner and rows keep to their phases, and the  *)
(* journal under them to its types.                                          *)
THEOREM RuntimeIsTyped == RuntimeSpec => [](TypeOK /\ RuntimeTypes)
BY RuntimeInvariance, PTL DEF RInv, IInv

(* _ensure_task and the identity check of _finished keep a chat to one task  *)
(* that nobody cancelled, through every order of handlers and callbacks.     *)
THEOREM TaskIsAlone == RuntimeSpec => []OneUncancelledTask
<1>1. SlotHoldsTheTask => OneUncancelledTask
  BY DEF SlotHoldsTheTask, OneUncancelledTask
<1> QED
  BY <1>1, RuntimeInvariance, PTL DEF RInv

(* Once a pause is through, no unforced task is past the check of _drive but *)
(* the run that a handoff under (pause, keep_or_inject) left at work.        *)
THEOREM PauseIsQuiet == RuntimeSpec => []PausedIsQuiet
BY RuntimeInvariance, PTL DEF RInv

(* While the process is up, claims are in the hands of a task or a callback, *)
(* but for those of a run that ended before it had a row.                    *)
THEOREM ClaimsStayAttended == RuntimeSpec => []ClaimsAreAttended
BY RuntimeInvariance, PTL DEF RInv

(* Neither a second task, a late callback nor a restart lets two undisturbed *)
(* runs show an effect for one work.                                         *)
THEOREM AnswersAreSingle == RuntimeSpec => []RepliedOnce
BY RuntimeInvariance, PTL DEF RInv

(* The invariants of the journal, proved for callers left free, also hold    *)
(* under the runtime with its starts, which settle several runs at once.     *)
THEOREM RuntimeKeepsTheJournal ==
  RuntimeSpec => [](CursorSound /\ OneFreshTurn /\ ClaimCoversTrigger /\ ClaimsOwned)
BY RuntimeInvariance, PTL DEF RInv, IInv

(* Through starts, callbacks and handoffs the cursor never retreats, context *)
(* is never queued again, and closed work is never reopened.                 *)
THEOREM RuntimeKeepsContext == RuntimeSpec => CursorNeverRetreats /\ AppliedIsFinal
<1>1. RInv /\ [RuntimeNext]_rvars =>
        [cursor <= cursor']_vars
        /\ [/\ \A i \in Seqs : events[i].context = "applied" => events'[i].context = "applied"
            /\ \A w \in WorkIds : work[w].state \in Closed => work'[w] = work[w]]_vars
  BY JournalKept DEF RInv, RuntimeTypes
<1> QED
  BY <1>1, RuntimeInvariance, PTL DEF RuntimeSpec, CursorNeverRetreats, AppliedIsFinal

(* Under handlers, tasks and callbacks, and through crashes and starts that  *)
(* settle several runs at once, the chat's journal implements the ledger of  *)
(* context: an event is held by at most one run, only what a run held        *)
(* becomes context, and nothing leaves it.                                   *)
THEOREM RuntimeImplementsLedger == RuntimeSpec => ImplementsLedger
<1>1. RuntimeInit => Ledger!Init
  <2>1. Init => Len(events) = 0 /\ Seqs = {}
    BY DEF Init, Seqs
  <2> QED
    BY <2>1 DEF RuntimeInit, Init, Ledger!Init, LedgerStage, LedgerHolder
<1>2. RInv /\ RInv' /\ [RuntimeNext]_rvars => [Ledger!Next]_(Ledger!ledger)
  BY JournalSteps, LedgerStep, StartSettles DEF RInv, RuntimeTypes
<1> QED
  BY <1>1, <1>2, RuntimeInvariance, PTL DEF RuntimeSpec, ImplementsLedger, Ledger!Spec
==============================================================================
