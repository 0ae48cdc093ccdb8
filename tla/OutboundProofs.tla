---------------------------- MODULE OutboundProofs ----------------------------
(* Proofs about the ledger of outbound actions and about the approvals that  *)
(* use it, for any actions, drafts, texts, coroutines, retries and restarts. *)
(* The first part speaks of Spec, the ledger with callers that are left      *)
(* free; the second part of DraftSpec, which uses the ledger only through    *)
(* its operations, so the theorems of the first part hold for it.            *)
EXTENDS DraftApprovals, FiniteSetTheorems, TLAPS

Sending(a) == {c \in Calls : call[c].action = a /\ call[c].phase = "sending"}
Unclaimed(a) == IF action[a].state \in {"absent", "pending"} THEN 1 ELSE 0

(* Every send still to come is paid for: by the claim of a fresh row or by a *)
(* retry.                                                                    *)
SendsArePaid ==
  \A a \in ActionIds : sent[a] + Cardinality(Sending(a)) + Unclaimed(a) <= 1 + retried[a]

(* Whoever talks to Discord holds the row, unless the owner took it away.    *)
SendersHoldTheRow ==
  \A a \in ActionIds \ overruled : InFlight(a) # {} => action[a].state = "dispatching"

(* A coroutine only claims a success that Discord accepted.                  *)
AcceptedWasSent ==
  \A c \in Calls :
    call[c].phase = "delivered" \/ (call[c].phase = "answered" /\ call[c].record = "accepted")
      => sent[call[c].action] > 0

(* Owner names are never reused: a lease dates from a start already made.     *)
NoFutureLease == \A a \in ActionIds : action[a].owner # None => action[a].owner <= epoch

OInv ==
  /\ TypeOK /\ SendsArePaid /\ OneSenderUnlessOverruled /\ SendersHoldTheRow
  /\ LeaseIsOurs /\ NoFutureLease /\ AcceptedWasSent /\ SuccessWitnessed

LEMMA SendingIsFinite ==
  ASSUME NEW a \in ActionIds
  PROVE  IsFiniteSet(Sending(a)) /\ Cardinality(Sending(a)) \in Nat
<1>1. IsFiniteSet(Calls) /\ Sending(a) \subseteq Calls
  BY LedgerAssumption DEF Sending
<1> QED
  BY <1>1, FS_Subset, FS_CardinalityType

LEMMA InitOInv == Init => OInv
<1> SUFFICES ASSUME Init PROVE OInv
  OBVIOUS
<1> USE LedgerAssumption
<1>1. TypeOK
  BY DEF Init, TypeOK, Idle, States, Phases, Records
<1>2. \A a \in ActionIds : Sending(a) = {} /\ InFlight(a) = {}
  BY DEF Init, Sending, InFlight, Idle
<1>3. SendsArePaid
  <2>1. \A a \in ActionIds : Cardinality(Sending(a)) = 0
    BY <1>2, FS_EmptySet
  <2>2. \A a \in ActionIds : Unclaimed(a) = 1 /\ sent[a] = 0 /\ retried[a] = 0
    BY DEF Init, Unclaimed
  <2> QED
    BY <2>1, <2>2 DEF SendsArePaid
<1> QED
  BY <1>1, <1>2, <1>3 DEF Init, OInv, OneSenderUnlessOverruled, SendersHoldTheRow, LeaseIsOurs, NoFutureLease,
     AcceptedWasSent, SuccessWitnessed, Idle

(* What the types say of each row and each coroutine.                        *)
LEMMA TypedLedger ==
  ASSUME TypeOK
  PROVE  /\ \A a \in ActionIds : /\ action[a].state \in States /\ action[a].owner \in Nat \cup {None}
                                 /\ action[a] = Row(action[a].state, action[a].owner)
                                 /\ sent[a] \in Nat /\ retried[a] \in Nat
         /\ \A c \in Calls : /\ call[c].phase \in Phases /\ call[c].record \in Records \cup {None}
                             /\ call[c].phase # "idle" => call[c].action \in ActionIds /\ up
                             /\ call[c].phase = "answered" => call[c].record \in Records
BY DEF TypeOK, Row

-----------------------------------------------------------------------------
(* How one coroutine's step changes the set of senders of an action.         *)
LEMMA SendersAfter ==
  ASSUME NEW c \in Calls, \A d \in Calls \ {c} : call'[d] = call[d]
  PROVE  \A a \in ActionIds :
         /\ call'[c].phase = "sending" /\ call'[c].action = a => Sending(a)' = Sending(a) \cup {c}
         /\ ~(call'[c].phase = "sending" /\ call'[c].action = a) => Sending(a)' = Sending(a) \ {c}
         /\ call'[c].phase \in {"sending", "delivered", "answered"} /\ call'[c].action = a
              => InFlight(a)' = InFlight(a) \cup {c}
         /\ ~(call'[c].phase \in {"sending", "delivered", "answered"} /\ call'[c].action = a)
              => InFlight(a)' = InFlight(a) \ {c}
BY DEF Sending, InFlight

(* Counting the senders after one joins or leaves.                           *)
LEMMA SenderCount ==
  ASSUME NEW a \in ActionIds, NEW c \in Calls
  PROVE  /\ Cardinality(Sending(a) \cup {c}) =
              IF c \in Sending(a) THEN Cardinality(Sending(a)) ELSE Cardinality(Sending(a)) + 1
         /\ Cardinality(Sending(a) \ {c}) =
              IF c \in Sending(a) THEN Cardinality(Sending(a)) - 1 ELSE Cardinality(Sending(a))
BY SendingIsFinite, FS_AddElement, FS_RemoveElement

(* A claim pays for one send with the fresh or reopened row.                 *)
LEMMA ClaimStep ==
  ASSUME OInv, NEW c \in Calls, NEW a \in ActionIds, up,
         call[c].phase \in {"idle", "reopened"}, Claimed(c, a),
         UNCHANGED <<up, epoch, history>>
  PROVE  OInv'
<1> USE LedgerAssumption
<1>1. /\ \A b \in ActionIds : /\ action[b].state \in States
                              /\ sent[b] \in Nat /\ retried[b] \in Nat
      /\ epoch \in Nat
  BY TypedLedger DEF OInv, TypeOK
<1> DEFINE v == call'[c]
<1>2. /\ call' = [call EXCEPT ![c] = v] /\ v.action = a
      /\ \A d \in Calls \ {c} : call'[d] = call[d]
      /\ \/ /\ action[a].state \in {"absent", "pending"}
            /\ v = [phase |-> "sending", action |-> a, record |-> None]
            /\ action' = [action EXCEPT ![a] = Row("dispatching", epoch)]
         \/ /\ action[a].state \notin {"absent", "pending"}
            /\ v = [phase |-> "returned", action |-> a, record |-> RecordOf(action[a].state)]
            /\ action' = action
  BY DEF Claimed, OInv, TypeOK
<1>3. c \notin InFlight(a) /\ \A b \in ActionIds : c \notin Sending(b) /\ c \notin InFlight(b)
  BY DEF InFlight, Sending
<1>4. UNCHANGED <<up, epoch, sent, retried, overruled, confirmed, dropped>>
  BY DEF history
<1>5. TypeOK'
  <2>1. v \in [phase : Phases, action : ActionIds \cup {None}, record : Records \cup {None}]
    BY <1>2 DEF Phases, Records, RecordOf
  <2>2. action' \in [ActionIds -> [state : States, owner : Nat \cup {None}]]
    BY <1>1, <1>2 DEF OInv, TypeOK, Row, States
  <2>3. v.phase # "answered"
    BY <1>2
  <2> HIDE DEF v
  <2> QED
    BY <1>2, <1>4, <2>1, <2>2, <2>3 DEF OInv, TypeOK
<1>6. \A b \in ActionIds :
        /\ Sending(b)' = IF b = a /\ v.phase = "sending" THEN Sending(b) \cup {c} ELSE Sending(b)
        /\ InFlight(b)' = IF b = a /\ v.phase = "sending" THEN InFlight(b) \cup {c} ELSE InFlight(b)
  <2>1. v.phase \in {"sending", "returned"} /\ v.action = a
    BY <1>2
  <2>2. \A b \in ActionIds : Sending(b) \ {c} = Sending(b) /\ InFlight(b) \ {c} = InFlight(b)
    BY <1>3
  <2>3. CASE v.phase = "sending"
    BY <1>2, <2>1, <2>2, <2>3, SendersAfter
  <2>4. CASE v.phase = "returned"
    BY <1>2, <2>1, <2>2, <2>4, SendersAfter
  <2> QED
    BY <2>1, <2>3, <2>4
<1> HIDE DEF v
<1>7. CASE v.phase = "sending"
  <2>1. /\ action[a].state \in {"absent", "pending"}
        /\ action' = [action EXCEPT ![a] = Row("dispatching", epoch)]
    BY <1>2, <1>7
  <2>2. /\ action'[a] = Row("dispatching", epoch) /\ \A b \in ActionIds \ {a} : action'[b] = action[b]
    BY <2>1 DEF OInv, TypeOK
  <2>3. \A b \in ActionIds :
          /\ Sending(b)' = IF b = a THEN Sending(b) \cup {c} ELSE Sending(b)
          /\ InFlight(b)' = IF b = a THEN InFlight(b) \cup {c} ELSE InFlight(b)
    BY <1>7, <1>6
  <2>4. SendsArePaid'
    <3>1. \A b \in ActionIds : Cardinality(Sending(b)') =
            IF b = a THEN Cardinality(Sending(b)) + 1 ELSE Cardinality(Sending(b))
      BY <1>3, <2>3, SenderCount
    <3>2. Unclaimed(a) = 1 /\ Unclaimed(a)' = 0
      BY <2>1, <2>2 DEF Unclaimed, Row
    <3>3. \A b \in ActionIds \ {a} : Unclaimed(b)' = Unclaimed(b)
      BY <2>2 DEF Unclaimed
    <3>4. \A b \in ActionIds : Cardinality(Sending(b)) \in Nat
      BY SendingIsFinite
    <3> QED
      BY <1>1, <1>4, <3>1, <3>2, <3>3, <3>4 DEF SendsArePaid, OInv
  <2>5. OneSenderUnlessOverruled' /\ SendersHoldTheRow'
    <3>1. a \notin overruled => InFlight(a) = {}
      BY <2>1 DEF OInv, SendersHoldTheRow
    <3> QED
      BY <1>4, <2>2, <2>3, <3>1 DEF OInv, OneSenderUnlessOverruled, SendersHoldTheRow, Row
  <2>6. LeaseIsOurs' /\ NoFutureLease'
    BY <1>1, <1>4, <2>2 DEF OInv, LeaseIsOurs, NoFutureLease, Row
  <2>7. AcceptedWasSent' /\ SuccessWitnessed'
    BY <1>2, <1>4, <1>7, <2>2 DEF OInv, TypeOK, AcceptedWasSent, SuccessWitnessed, Row
  <2> QED
    BY <1>5, <2>4, <2>5, <2>6, <2>7 DEF OInv
<1>8. CASE v.phase # "sending"
  <2>1. action' = action /\ v.phase = "returned"
    BY <1>2, <1>8
  <2>2. \A b \in ActionIds : Sending(b)' = Sending(b) /\ InFlight(b)' = InFlight(b)
    BY <1>8, <1>6
  <2>3. \A b \in ActionIds : Unclaimed(b)' = Unclaimed(b)
    BY <2>1 DEF Unclaimed
  <2>4. SendsArePaid'
    BY <1>4, <2>2, <2>3 DEF OInv, SendsArePaid
  <2>5. OneSenderUnlessOverruled' /\ SendersHoldTheRow'
    BY <1>4, <2>1, <2>2 DEF OInv, OneSenderUnlessOverruled, SendersHoldTheRow
  <2>6. LeaseIsOurs' /\ NoFutureLease' /\ SuccessWitnessed'
    BY <1>4, <2>1 DEF OInv, LeaseIsOurs, NoFutureLease, SuccessWitnessed
  <2>7. AcceptedWasSent'
    BY <1>2, <1>4, <2>1 DEF OInv, TypeOK, AcceptedWasSent
  <2> QED
    BY <1>5, <2>4, <2>5, <2>6, <2>7 DEF OInv
<1> QED
  BY <1>7, <1>8

(* A step by which no coroutine starts to send, and whose new unclaimed rows *)
(* are paid for by retries, keeps the accounts and adds no rival.            *)
LEMMA NoNewSender ==
  ASSUME OInv,
         \A a \in ActionIds : Sending(a)' \subseteq Sending(a) /\ InFlight(a)' \subseteq InFlight(a),
         \A a \in ActionIds : Unclaimed(a)' + retried[a] <= Unclaimed(a) + retried'[a],
         sent' = sent, overruled \subseteq overruled', retried' \in [ActionIds -> Nat]
  PROVE  SendsArePaid' /\ OneSenderUnlessOverruled'
<1>1. \A a \in ActionIds : /\ Cardinality(Sending(a)') <= Cardinality(Sending(a))
                           /\ Cardinality(Sending(a)') \in Nat /\ Cardinality(Sending(a)) \in Nat
  BY SendingIsFinite, FS_Subset, FS_CardinalityType
<1>2. \A a \in ActionIds : /\ sent[a] \in Nat /\ retried[a] \in Nat /\ retried'[a] \in Nat
                           /\ Unclaimed(a) \in Nat /\ Unclaimed(a)' \in Nat
  BY DEF OInv, TypeOK, Unclaimed
<1>3. SendsArePaid'
  BY <1>1, <1>2 DEF OInv, SendsArePaid
<1>4. OneSenderUnlessOverruled'
  BY DEF OInv, OneSenderUnlessOverruled
<1> QED
  BY <1>3, <1>4

(* A coroutine that stops sending, or goes on to its answer.                 *)
LEMMA QuietStep ==
  ASSUME OInv, NEW c \in Calls, \A d \in Calls \ {c} : call'[d] = call[d],
         call'[c].phase # "sending",
         call'[c].phase \in {"delivered", "answered"}
           => call'[c].action = call[c].action /\ c \in InFlight(call[c].action),
         UNCHANGED <<action, up, epoch, sent, retried, overruled, confirmed>>,
         TypeOK', AcceptedWasSent'
  PROVE  OInv'
<1>1. \A a \in ActionIds : Sending(a)' \subseteq Sending(a)
  BY DEF Sending
<1>2. \A a \in ActionIds : InFlight(a)' \subseteq InFlight(a)
  BY DEF InFlight
<1>3. \A a \in ActionIds : Unclaimed(a)' = Unclaimed(a) /\ Unclaimed(a) \in Nat /\ retried[a] \in Nat
  BY DEF Unclaimed, OInv, TypeOK
<1>4. SendsArePaid' /\ OneSenderUnlessOverruled'
  <2>1. \A a \in ActionIds : Unclaimed(a)' + retried[a] <= Unclaimed(a) + retried'[a]
    BY <1>3
  <2>2. retried' \in [ActionIds -> Nat]
    BY DEF OInv, TypeOK
  <2> QED
    BY <1>1, <1>2, <2>1, <2>2, NoNewSender
<1>5. SendersHoldTheRow' /\ LeaseIsOurs' /\ NoFutureLease' /\ SuccessWitnessed'
  BY <1>2 DEF OInv, SendersHoldTheRow, LeaseIsOurs, NoFutureLease, SuccessWitnessed
<1> QED
  BY <1>4, <1>5 DEF OInv

LEMMA AnswerStep ==
  ASSUME OInv, NEW c \in Calls, NEW r \in Records, Answer(c, r)
  PROVE  OInv'
<1>1. /\ UNCHANGED <<action, up, epoch, sent, retried, overruled, confirmed, dropped>>
      /\ r \in AnswerOf(call[c].phase) /\ call[c].phase \in {"sending", "delivered"}
  BY DEF Answer, history
<1>2. /\ call' = [call EXCEPT ![c].phase = "answered", ![c].record = r]
      /\ call'[c].phase = "answered" /\ call'[c].record = r /\ call'[c].action = call[c].action
      /\ \A d \in Calls \ {c} : call'[d] = call[d]
  BY DEF Answer, OInv, TypeOK
<1>3. TypeOK'
  <2>1. call[c].action # None /\ up
    BY <1>1 DEF OInv, TypeOK
  <2> QED
    BY <1>1, <1>2, <2>1 DEF OInv, TypeOK, Phases
<1>4. AcceptedWasSent'
  <2>1. r = "accepted" => call[c].phase = "delivered"
    BY <1>1 DEF AnswerOf
  <2> QED
    BY <1>1, <1>2, <2>1 DEF OInv, AcceptedWasSent
<1> QED
  BY <1>1, <1>2, <1>3, <1>4, QuietStep DEF InFlight

LEMMA LeaveStep ==
  ASSUME OInv, NEW c \in Calls, Return(c) \/ CancelCall(c)
  PROVE  OInv'
<1>1. /\ UNCHANGED <<action, up, epoch, sent, retried, overruled, confirmed>>
      /\ call' = [call EXCEPT ![c] = Idle]
  BY DEF Return, CancelCall, history
<1>2. call'[c] = Idle /\ \A d \in Calls \ {c} : call'[d] = call[d]
  BY <1>1 DEF OInv, TypeOK
<1>3. dropped' \subseteq ActionIds
  BY TypedLedger DEF OInv, Return, CancelCall, history, TypeOK
<1>4. TypeOK'
  BY <1>1, <1>2, <1>3 DEF OInv, TypeOK, Idle, Phases
<1>5. AcceptedWasSent'
  BY <1>1, <1>2 DEF OInv, AcceptedWasSent, Idle
<1> QED
  BY <1>1, <1>2, <1>4, <1>5, QuietStep DEF Idle

(* A delivery spends what the claim paid for.                                *)
LEMMA DeliverStep ==
  ASSUME OInv, NEW c \in Calls, Deliver(c)
  PROVE  OInv'
<1>0. PICK a \in ActionIds : a = call[c].action
  BY TypedLedger DEF OInv, Deliver
<1>1. /\ UNCHANGED <<action, up, epoch, retried, overruled, confirmed, dropped>>
      /\ call[c].phase = "sending"
  BY DEF Deliver
<1>2. /\ call'[c].phase = "delivered" /\ call'[c].record = call[c].record /\ call'[c].action = a
      /\ call' \in [Calls -> [phase : Phases, action : ActionIds \cup {None},
                           record : Records \cup {None}]]
      /\ \A d \in Calls \ {c} : call'[d] = call[d]
  BY <1>0 DEF Deliver, OInv, TypeOK, Phases
<1>3. /\ sent' \in [ActionIds -> Nat] /\ sent'[a] = sent[a] + 1 /\ sent[a] \in Nat
      /\ \A b \in ActionIds \ {a} : sent'[b] = sent[b]
  BY <1>0, <1>1 DEF Deliver, OInv, TypeOK
<1>4. TypeOK'
  BY <1>0, <1>1, <1>2, <1>3, LedgerAssumption DEF OInv, TypeOK
<1>5. \A b \in ActionIds : InFlight(b)' = InFlight(b)
  BY <1>0, <1>1, <1>2 DEF InFlight
<1>6. \A b \in ActionIds : Sending(b)' = IF b = a THEN Sending(b) \ {c} ELSE Sending(b)
  BY <1>0, <1>1, <1>2 DEF Sending
<1>7. SendsArePaid'
  <2>1. /\ c \in Sending(a)
        /\ Cardinality(Sending(a)') = Cardinality(Sending(a)) - 1
    <3>1. c \in Sending(a)
      BY <1>0, <1>1 DEF Sending
    <3> QED
      BY <1>1, <1>6, <3>1, SenderCount
  <2>2. \A b \in ActionIds : /\ Cardinality(Sending(b)) \in Nat
                             /\ Unclaimed(b)' = Unclaimed(b) /\ Unclaimed(b) \in Nat
                             /\ retried[b] \in Nat
    BY <1>1, SendingIsFinite DEF Unclaimed, OInv, TypeOK
  <2>3. \A b \in ActionIds \ {a} : Sending(b)' = Sending(b)
    BY <1>6
  <2> QED
    BY <1>1, <1>3, <2>1, <2>2, <2>3 DEF OInv, SendsArePaid
<1>8. OneSenderUnlessOverruled' /\ SendersHoldTheRow' /\ LeaseIsOurs' /\ NoFutureLease'
  BY <1>1, <1>5 DEF OInv, OneSenderUnlessOverruled, SendersHoldTheRow, LeaseIsOurs, NoFutureLease
<1>9. AcceptedWasSent' /\ SuccessWitnessed'
  <2>1. \A b \in ActionIds : sent[b] > 0 => sent'[b] > 0
    BY <1>3
  <2>2. SuccessWitnessed'
    BY <1>1, <2>1 DEF OInv, SuccessWitnessed
  <2>3. sent'[a] > 0
    BY <1>3
  <2>4. \A d \in Calls \ {c} : call[d].phase \in {"delivered", "answered"} => call[d].action \in ActionIds
    BY TypedLedger DEF OInv
  <2>5. AcceptedWasSent'
    BY <1>2, <2>1, <2>3, <2>4 DEF OInv, AcceptedWasSent
  <2> QED
    BY <2>2, <2>5
<1> QED
  BY <1>4, <1>7, <1>8, <1>9 DEF OInv

(* The outcome goes to the row that is still dispatched.                     *)
LEMMA FinishStep ==
  ASSUME OInv, NEW c \in Calls, Finish(c)
  PROVE  OInv'
<1>0. PICK a \in ActionIds : a = call[c].action
  BY TypedLedger DEF OInv, Finish
<1>1. /\ UNCHANGED <<up, epoch, sent, retried, overruled, confirmed, dropped>>
      /\ call[c].phase = "answered" /\ call[c].record \in Records
  BY TypedLedger DEF Finish, history, OInv
<1>2. /\ call'[c].phase \in {"returned", "raised"} /\ call'[c].action = a /\ a # None /\ up
      /\ call' \in [Calls -> [phase : Phases, action : ActionIds \cup {None},
                           record : Records \cup {None}]]
      /\ \A d \in Calls \ {c} : call'[d] = call[d]
  BY <1>0, <1>1, LedgerAssumption DEF Finish, OInv, TypeOK, Phases
<1>3. AcceptedWasSent'
  BY <1>1, <1>2 DEF OInv, AcceptedWasSent
<1>4. CASE action' = action
  <2>1. TypeOK'
    BY <1>0, <1>1, <1>2, <1>4 DEF OInv, TypeOK
  <2> QED
    BY <1>1, <1>2, <1>3, <1>4, <2>1, QuietStep
<1>5. CASE action' # action
  <2>1. /\ action[a] = Row("dispatching", epoch)
        /\ action' = [action EXCEPT ![a] = Row(StateOf(call[c].record), None)]
    BY <1>0, <1>5 DEF Finish
  <2>2. /\ action'[a] = Row(StateOf(call[c].record), None)
        /\ \A b \in ActionIds \ {a} : action'[b] = action[b]
        /\ StateOf(call[c].record) \in {"succeeded", "failed", "ambiguous"}
        /\ StateOf(call[c].record) = "succeeded" => call[c].record = "accepted"
    BY <1>0, <1>1, <2>1 DEF OInv, TypeOK, StateOf
  <2>3. TypeOK'
    <3>1. action' \in [ActionIds -> [state : States, owner : Nat \cup {None}]]
      BY <2>1, <2>2 DEF OInv, TypeOK, Row, States
    <3> QED
      BY <1>0, <1>1, <1>2, <3>1 DEF OInv, TypeOK
  <2>4. \A b \in ActionIds : Sending(b)' \subseteq Sending(b) /\ InFlight(b)' \subseteq InFlight(b)
    BY <1>2 DEF Sending, InFlight
  <2>5. SendsArePaid' /\ OneSenderUnlessOverruled'
    <3>1. \A b \in ActionIds : Unclaimed(b)' + retried[b] <= Unclaimed(b) + retried'[b]
      <4>1. \A b \in ActionIds : /\ Unclaimed(b)' <= Unclaimed(b)
                                 /\ Unclaimed(b)' \in Nat /\ Unclaimed(b) \in Nat
        BY <2>1, <2>2 DEF Unclaimed, Row
      <4>2. \A b \in ActionIds : retried[b] \in Nat
        BY DEF OInv, TypeOK
      <4> QED
        BY <1>1, <4>1, <4>2
    <3>2. retried' \in [ActionIds -> Nat]
      BY <1>1 DEF OInv, TypeOK
    <3> QED
      BY <1>1, <2>4, <3>1, <3>2, NoNewSender
  <2>6. SendersHoldTheRow'
    <3>1. a \notin overruled => InFlight(a)' = {}
      <4>1. c \in InFlight(a) /\ c \notin InFlight(a)'
        BY <1>0, <1>1, <1>2 DEF InFlight
      <4> QED
        BY <1>1, <2>4, <4>1 DEF OInv, OneSenderUnlessOverruled
    <3> QED
      BY <1>1, <2>2, <2>4, <3>1 DEF OInv, SendersHoldTheRow
  <2>7. LeaseIsOurs' /\ NoFutureLease'
    BY <1>1, <2>2 DEF OInv, LeaseIsOurs, NoFutureLease, Row
  <2>8. SuccessWitnessed'
    <3>1. StateOf(call[c].record) = "succeeded" => sent[a] > 0
      BY <1>0, <1>1, <2>2 DEF OInv, AcceptedWasSent
    <3> QED
      BY <1>1, <2>2, <3>1 DEF OInv, SuccessWitnessed, Row
  <2> QED
    BY <1>3, <2>3, <2>5, <2>6, <2>7, <2>8 DEF OInv
<1> QED
  BY <1>4, <1>5

(* A retry pays for the send that may follow; nobody held the row.           *)
LEMMA ReopenStep ==
  ASSUME OInv, NEW c \in Calls, NEW a \in ActionIds, Reopen(c, a)
  PROVE  OInv'
<1>1. /\ UNCHANGED <<up, epoch, sent, overruled, confirmed, dropped>>
      /\ up /\ call[c].phase = "idle" /\ action[a].state \in {"ambiguous", "failed"}
  BY DEF Reopen
<1>2. /\ call'[c].phase = "reopened" /\ call'[c].action = a /\ a # None
      /\ call' \in [Calls -> [phase : Phases, action : ActionIds \cup {None},
                              record : Records \cup {None}]]
      /\ \A d \in Calls \ {c} : call'[d] = call[d]
  BY LedgerAssumption DEF Reopen, OInv, TypeOK, Phases
<1>3. /\ action'[a] = Row("pending", None)
      /\ \A b \in ActionIds \ {a} : action'[b] = action[b]
      /\ action' \in [ActionIds -> [state : States, owner : Nat \cup {None}]]
  BY DEF Reopen, OInv, TypeOK, Row, States
<1>4. /\ retried' \in [ActionIds -> Nat] /\ retried'[a] = retried[a] + 1
      /\ \A b \in ActionIds \ {a} : retried'[b] = retried[b]
      /\ \A b \in ActionIds : retried[b] \in Nat
  BY DEF Reopen, OInv, TypeOK
<1>5. TypeOK'
  <2>1. \A d \in Calls : call'[d].phase # "idle" => call'[d].action # None /\ up'
    BY <1>1, <1>2 DEF OInv, TypeOK
  <2>2. \A d \in Calls : call'[d].phase = "answered" => call'[d].record \in Records
    BY <1>2 DEF OInv, TypeOK
  <2> QED
    BY <1>1, <1>2, <1>3, <1>4, <2>1, <2>2 DEF OInv, TypeOK
<1>6. \A b \in ActionIds : Sending(b)' \subseteq Sending(b) /\ InFlight(b)' \subseteq InFlight(b)
  BY <1>2 DEF Sending, InFlight
<1>7. \A b \in ActionIds : Unclaimed(b)' + retried[b] <= Unclaimed(b) + retried'[b]
  <2>1. Unclaimed(a)' = 1 /\ Unclaimed(a) = 0
    BY <1>1, <1>3 DEF Unclaimed, Row
  <2>2. \A b \in ActionIds \ {a} : Unclaimed(b)' = Unclaimed(b) /\ Unclaimed(b) \in Nat
    BY <1>3 DEF Unclaimed
  <2> QED
    BY <1>4, <2>1, <2>2
<1>8. SendsArePaid' /\ OneSenderUnlessOverruled'
  BY <1>1, <1>4, <1>6, <1>7, NoNewSender
<1>9. SendersHoldTheRow' /\ LeaseIsOurs' /\ NoFutureLease' /\ AcceptedWasSent' /\ SuccessWitnessed'
  <2>1. SendersHoldTheRow'
    BY <1>1, <1>3, <1>6 DEF OInv, SendersHoldTheRow
  <2>2. LeaseIsOurs' /\ NoFutureLease' /\ SuccessWitnessed'
    BY <1>1, <1>3 DEF OInv, LeaseIsOurs, NoFutureLease, SuccessWitnessed, Row
  <2>3. AcceptedWasSent'
    BY <1>1, <1>2 DEF OInv, AcceptedWasSent
  <2> QED
    BY <2>1, <2>2, <2>3
<1> QED
  BY <1>5, <1>8, <1>9 DEF OInv

(* The owner's verdict: the row is closed, and a sender it took the row from *)
(* is remembered.                                                            *)
LEMMA ResolveStep ==
  ASSUME OInv, NEW a \in ActionIds, NEW v \in {"succeeded", "failed"}, Resolve(a, v)
  PROVE  OInv'
<1>1. /\ UNCHANGED <<call, up, epoch, sent, retried, dropped>>
      /\ action[a].state \in {"ambiguous", "dispatching"}
      /\ overruled' = IF action[a].state = "dispatching" THEN overruled \cup {a} ELSE overruled
      /\ confirmed' = IF v = "succeeded" THEN confirmed \cup {a} ELSE confirmed
  BY DEF Resolve
<1>2. /\ action'[a] = Row(v, None)
      /\ \A b \in ActionIds \ {a} : action'[b] = action[b]
      /\ action' \in [ActionIds -> [state : States, owner : Nat \cup {None}]]
  BY DEF Resolve, OInv, TypeOK, Row, States
<1>3. TypeOK'
  BY <1>1, <1>2 DEF OInv, TypeOK
<1>4. \A b \in ActionIds : Sending(b)' = Sending(b) /\ InFlight(b)' = InFlight(b)
  BY <1>1 DEF Sending, InFlight
<1>5. \A b \in ActionIds : Unclaimed(b)' + retried[b] <= Unclaimed(b) + retried'[b]
  <2>1. \A b \in ActionIds : Unclaimed(b)' = Unclaimed(b) /\ Unclaimed(b) \in Nat
    BY <1>1, <1>2 DEF Unclaimed, Row
  <2> QED
    BY <1>1, <2>1 DEF OInv, TypeOK
<1>6. SendsArePaid' /\ OneSenderUnlessOverruled'
  <2>1. retried' \in [ActionIds -> Nat]
    BY <1>1 DEF OInv, TypeOK
  <2> QED
    BY <1>1, <1>4, <1>5, <2>1, NoNewSender
<1>7. SendersHoldTheRow'
  <2>1. action[a].state = "ambiguous" => a \in overruled \/ InFlight(a) = {}
    BY DEF OInv, SendersHoldTheRow
  <2> QED
    BY <1>1, <1>2, <1>4, <2>1 DEF OInv, SendersHoldTheRow
<1>8. LeaseIsOurs' /\ NoFutureLease' /\ AcceptedWasSent' /\ SuccessWitnessed'
  BY <1>1, <1>2 DEF OInv, LeaseIsOurs, NoFutureLease, AcceptedWasSent, SuccessWitnessed, Row
<1> QED
  BY <1>3, <1>6, <1>7, <1>8 DEF OInv

(* A process that stops takes its senders with it.                           *)
LEMMA CrashStep ==
  ASSUME OInv, Crash
  PROVE  OInv'
<1>1. /\ UNCHANGED <<action, epoch, sent, retried, overruled, confirmed, dropped>> /\ up' = FALSE
      /\ call' = [c \in Calls |-> Idle]
  BY DEF Crash, history
<1>2. TypeOK'
  BY <1>1 DEF OInv, TypeOK, Idle, Phases
<1>3. \A b \in ActionIds : Sending(b)' = {} /\ InFlight(b)' = {}
  BY <1>1 DEF Sending, InFlight, Idle
<1>4. SendsArePaid' /\ OneSenderUnlessOverruled'
  <2>1. \A b \in ActionIds : Unclaimed(b)' = Unclaimed(b) /\ Unclaimed(b) \in Nat
    BY <1>1 DEF Unclaimed
  <2>2. retried' \in [ActionIds -> Nat]
        /\ \A b \in ActionIds : Unclaimed(b)' + retried[b] <= Unclaimed(b) + retried'[b]
    BY <1>1, <2>1 DEF OInv, TypeOK
  <2> QED
    BY <1>1, <1>3, <2>2, NoNewSender
<1>5. SendersHoldTheRow' /\ LeaseIsOurs' /\ NoFutureLease' /\ SuccessWitnessed' /\ AcceptedWasSent'
  BY <1>1, <1>3 DEF OInv, SendersHoldTheRow, LeaseIsOurs, NoFutureLease, SuccessWitnessed, AcceptedWasSent, Idle
<1> QED
  BY <1>2, <1>4, <1>5 DEF OInv

(* No coroutine survives into a new process, so every row that was being     *)
(* dispatched becomes ambiguous.                                             *)
LEMMA StartStep ==
  ASSUME OInv, Start
  PROVE  OInv'
<1>1. /\ UNCHANGED <<call, sent, retried, overruled, confirmed>> /\ dropped' = {}
      /\ ~up /\ up' = TRUE /\ epoch' = epoch + 1
      /\ action' = Reconciled(epoch')
  BY DEF Start
<1>2. \A a \in ActionIds : \/ action'[a] = Row("ambiguous", None) /\ action[a].state = "dispatching"
                           \/ action'[a] = action[a] /\ action[a].state # "dispatching"
  <2>1. epoch \in Nat
    BY DEF OInv, TypeOK
  <2>2. \A a \in ActionIds : action[a].state = "dispatching" => action[a].owner # epoch'
    <3>1. \A a \in ActionIds : action[a].owner \in Nat => action[a].owner <= epoch
      BY LedgerAssumption DEF OInv, NoFutureLease
    <3>2. \A a \in ActionIds : action[a].owner = epoch' => action[a].owner \in Nat
      BY <1>1 DEF OInv, TypeOK
    <3> QED
      BY <1>1, <2>1, <3>1, <3>2
  <2> QED
    BY <1>1, <2>2 DEF Reconciled
<1>3. TypeOK'
  <2>1. action' \in [ActionIds -> [state : States, owner : Nat \cup {None}]]
    <3>1. \A a \in ActionIds : action'[a] \in [state : States, owner : Nat \cup {None}]
      BY <1>2 DEF OInv, TypeOK, Row, States
    <3> QED
      BY <1>1, <3>1 DEF Reconciled
  <2> QED
    BY <1>1, <2>1 DEF OInv, TypeOK
<1>4. \A a \in ActionIds : Sending(a)' = {} /\ Sending(a) = {} /\ InFlight(a)' = {}
  BY <1>1 DEF OInv, TypeOK, Sending, InFlight
<1>5. SendsArePaid' /\ OneSenderUnlessOverruled'
  <2>1. \A a \in ActionIds : Unclaimed(a)' = Unclaimed(a) /\ Unclaimed(a) \in Nat
    BY <1>2 DEF Unclaimed, Row
  <2>2. \A a \in ActionIds : Unclaimed(a)' + retried[a] <= Unclaimed(a) + retried'[a]
    BY <1>1, <2>1 DEF OInv, TypeOK
  <2>3. retried' \in [ActionIds -> Nat] /\ overruled \subseteq overruled'
    BY <1>1 DEF OInv, TypeOK
  <2> QED
    BY <1>1, <1>4, <2>2, <2>3, NoNewSender
<1>6. SendersHoldTheRow'
  BY <1>4 DEF SendersHoldTheRow
<1>7. LeaseIsOurs' /\ NoFutureLease'
  <2>1. epoch \in Nat /\ epoch' \in Nat /\ epoch < epoch'
    BY <1>1 DEF OInv, TypeOK
  <2>2. \A a \in ActionIds : /\ action'[a].state # "dispatching"
                             /\ action'[a].owner = None
    BY <1>2 DEF OInv, LeaseIsOurs, Row
  <2> QED
    BY <2>2 DEF LeaseIsOurs, NoFutureLease
<1>8. AcceptedWasSent' /\ SuccessWitnessed'
  BY <1>1, <1>2 DEF OInv, AcceptedWasSent, SuccessWitnessed, Row
<1> QED
  BY <1>3, <1>5, <1>6, <1>7, <1>8 DEF OInv

-----------------------------------------------------------------------------
LEMMA NextOInv == OInv /\ [Next]_vars => OInv'
<1> SUFFICES ASSUME OInv, [Next]_vars PROVE OInv'
  OBVIOUS
<1>1. ASSUME NEW c \in Calls, NEW a \in ActionIds, Publish(c, a) PROVE OInv'
  BY <1>1, ClaimStep DEF Publish
<1>2. ASSUME NEW c \in Calls, NEW a \in ActionIds, Reopen(c, a) PROVE OInv'
  BY <1>2, ReopenStep
<1>3. ASSUME NEW c \in Calls, ClaimReopened(c) PROVE OInv'
  <2>1. PICK a \in ActionIds : a = call[c].action
    BY <1>3, TypedLedger DEF OInv, ClaimReopened
  <2>2. up
    BY <1>3, TypedLedger DEF OInv, ClaimReopened
  <2> QED
    BY <1>3, <2>1, <2>2, ClaimStep DEF ClaimReopened
<1>4. ASSUME NEW c \in Calls, Deliver(c) PROVE OInv'
  BY <1>4, DeliverStep
<1>5. ASSUME NEW c \in Calls, Finish(c) PROVE OInv'
  BY <1>5, FinishStep
<1>6. ASSUME NEW c \in Calls, Return(c) \/ CancelCall(c) PROVE OInv'
  BY <1>6, LeaveStep
<1>7. ASSUME NEW c \in Calls, NEW r \in Records, Answer(c, r) PROVE OInv'
  BY <1>7, AnswerStep
<1>8. ASSUME NEW a \in ActionIds, NEW v \in {"succeeded", "failed"}, Resolve(a, v) PROVE OInv'
  BY <1>8, ResolveStep
<1>9. CASE Crash
  BY <1>9, CrashStep
<1>10. CASE Start
  BY <1>10, StartStep
<1>11. CASE UNCHANGED vars
  <2>1. UNCHANGED <<action, call, up, epoch, sent, retried, overruled, confirmed, dropped>>
    BY <1>11 DEF vars
  <2>2. \A a \in ActionIds : /\ Sending(a)' = Sending(a) /\ InFlight(a)' = InFlight(a)
                             /\ Unclaimed(a)' = Unclaimed(a)
    BY <2>1 DEF Sending, InFlight, Unclaimed
  <2>3. TypeOK' /\ LeaseIsOurs' /\ NoFutureLease' /\ AcceptedWasSent' /\ SuccessWitnessed'
    BY <2>1 DEF OInv, TypeOK, LeaseIsOurs, NoFutureLease, AcceptedWasSent, SuccessWitnessed
  <2>4. SendsArePaid' /\ OneSenderUnlessOverruled' /\ SendersHoldTheRow'
    BY <2>1, <2>2 DEF OInv, SendsArePaid, OneSenderUnlessOverruled, SendersHoldTheRow
  <2> QED
    BY <2>3, <2>4 DEF OInv
<1> QED
  BY <1>1, <1>2, <1>3, <1>4, <1>5, <1>6, <1>7, <1>8, <1>9, <1>10, <1>11 DEF Next

LEMMA LedgerInvariant == Spec => []OInv
  BY InitOInv, NextOInv, PTL DEF Spec

(* The types of the ledger: every row is in a state the table allows and     *)
(* every coroutine that does anything has an action and a living process.    *)
THEOREM LedgerTypes == Spec => []TypeOK
<1>1. OInv => TypeOK
  BY DEF OInv
<1> QED
  BY <1>1, LedgerInvariant, PTL

(* Idempotent dispatch: Discord accepts an action at most once more than it  *)
(* was retried, whatever is re-entered, cancelled, crashed or overruled.     *)
THEOREM SendsAreBounded == Spec => []SentOncePerPermission
<1>1. OInv => SentOncePerPermission
  <2> SUFFICES ASSUME OInv, NEW a \in ActionIds PROVE sent[a] <= 1 + retried[a]
    BY DEF SentOncePerPermission
  <2>1. Cardinality(Sending(a)) \in Nat /\ Unclaimed(a) \in Nat
    BY SendingIsFinite DEF Unclaimed
  <2>2. sent[a] \in Nat /\ retried[a] \in Nat
    BY DEF OInv, TypeOK
  <2>3. sent[a] + Cardinality(Sending(a)) + Unclaimed(a) <= 1 + retried[a]
    BY DEF OInv, SendsArePaid
  <2> QED
    BY <2>1, <2>2, <2>3
<1> QED
  BY <1>1, LedgerInvariant, PTL

(* At most one coroutine talks to Discord for an action, except after the    *)
(* owner resolved it in the middle of a dispatch.                            *)
THEOREM SendersAreExclusive == Spec => []OneSenderUnlessOverruled
<1>1. OInv => OneSenderUnlessOverruled
  BY DEF OInv
<1> QED
  BY <1>1, LedgerInvariant, PTL

(* A lease marks exactly the rows that are dispatched, and while a process   *)
(* runs it is that process's.                                                *)
THEOREM LeasesAreOurs == Spec => []LeaseIsOurs
<1>1. OInv => LeaseIsOurs
  BY DEF OInv
<1> QED
  BY <1>1, LedgerInvariant, PTL

(* A recorded success was accepted by Discord or confirmed by the owner.     *)
THEOREM SuccessesAreWitnessed == Spec => []SuccessWitnessed
<1>1. OInv => SuccessWitnessed
  BY DEF OInv
<1> QED
  BY <1>1, LedgerInvariant, PTL

(* A row that records a success is left alone by every operation.            *)
LEMMA SuccessStays ==
  ASSUME OInv, [Next]_vars, NEW a \in ActionIds, action[a].state = "succeeded"
  PROVE  action'[a] = action[a]
<1>1. action \in [ActionIds -> [state : States, owner : Nat \cup {None}]]
  BY DEF OInv, TypeOK
<1>2. action[a] # Row("dispatching", epoch)
  BY DEF Row
<1>3. CASE \E c \in Calls, b \in ActionIds : Publish(c, b) \/ Reopen(c, b)
  BY <1>1, <1>3 DEF Publish, Claimed, Reopen
<1>4. CASE \E c \in Calls :
             ClaimReopened(c) \/ Deliver(c) \/ Finish(c) \/ Return(c) \/ CancelCall(c)
  BY <1>1, <1>2, <1>4 DEF ClaimReopened, Claimed, Deliver, Finish, Return, CancelCall
<1>5. CASE \E c \in Calls, r \in Records : Answer(c, r)
  BY <1>5 DEF Answer
<1>6. CASE \E b \in ActionIds, v \in {"succeeded", "failed"} : Resolve(b, v)
  BY <1>1, <1>6 DEF Resolve
<1>7. CASE Crash \/ UNCHANGED vars
  BY <1>7 DEF Crash, vars
<1>8. CASE Start
  BY <1>1, <1>8 DEF Start, Reconciled
<1> QED
  BY <1>3, <1>4, <1>5, <1>6, <1>7, <1>8 DEF Next

(* No step reopens, retries or overwrites a recorded success.                *)
THEOREM SuccessesAreFinal == Spec => SuccessIsFinal
<1>1. OInv /\ [Next]_vars
        => [\A a \in ActionIds : action[a].state = "succeeded" => action'[a] = action[a]]_vars
  BY SuccessStays
<1> QED
  BY <1>1, LedgerInvariant, PTL DEF Spec, SuccessIsFinal

-----------------------------------------------------------------------------
(* A request that has something to do works for a draft of the journal.      *)
LEMMA HandlersHaveDrafts ==
  ASSUME DraftTypes
  PROVE  \A c \in Calls : /\ handler[c].stage # "none" => /\ handler[c].draft \in ActionIds /\ up
                                                       /\ handler[c].text \in Texts
                          /\ call[c].phase # "idle" => /\ handler[c].stage \in {"approving", "asking"}
                                                       /\ call[c].action = handler[c].draft
BY DEF DraftTypes

(* Every step of an approval is a step of the ledger, or none of it.         *)
LEMMA StepsOfTheLedger ==
  ASSUME DraftTypes, [DraftNext]_allVars
  PROVE  [Next]_vars
<1>1. ASSUME NEW d \in ActionIds, NEW t \in Texts, NEW s \in {"pending", "recorded"},
             RecordDraft(d, t, s)
      PROVE  [Next]_vars
  BY <1>1 DEF RecordDraft
<1>2. ASSUME NEW c \in Calls, NEW d \in ActionIds, NEW t \in Texts, TakeDraft(c, d, t)
      PROVE  [Next]_vars
  BY <1>2 DEF TakeDraft
<1>3. ASSUME NEW c \in Calls, NEW d \in ActionIds, AskRetry(c, d)
      PROVE  [Next]_vars
  BY <1>3 DEF AskRetry, Next
<1>4. ASSUME NEW c \in Calls, DeliverText(c)
      PROVE  [Next]_vars
  BY <1>4 DEF DeliverText, Next
<1>5. ASSUME NEW c \in Calls, HandlerStep(c)
      PROVE  [Next]_vars
  <2>1. CASE LookUpAction(c)
    BY <2>1 DEF LookUpAction
  <2>2. CASE RetryDraft(c)
    <3>1. handler[c].draft \in ActionIds
      BY <2>2, HandlersHaveDrafts DEF RetryDraft
    <3> QED
      BY <2>2, <3>1 DEF RetryDraft, Next
  <2>3. CASE PublishDraft(c)
    <3>1. handler[c].draft \in ActionIds
      BY <2>3, HandlersHaveDrafts DEF PublishDraft
    <3> QED
      BY <2>3, <3>1 DEF PublishDraft, Next
  <2>4. CASE ClaimRetry(c)
    <3>1. ClaimReopened(c) \/ CancelCall(c)
      BY <2>4 DEF ClaimRetry, CancelCall, history
    <3> QED
      BY <3>1 DEF Next
  <2>5. CASE AnswerText(c) \/ FinishText(c)
    BY <2>5 DEF AnswerText, FinishText, Next
  <2>6. CASE Conclude(c) \/ FailToRecord(c) \/ ReturnRetry(c)
    BY <2>6 DEF Conclude, FailToRecord, ReturnRetry, Next
  <2> QED
    BY <1>5, <2>1, <2>2, <2>3, <2>4, <2>5, <2>6 DEF HandlerStep
<1>6. ASSUME NEW d \in ActionIds, NEW v \in {"succeeded", "failed"}, ResolveAction(d, v)
      PROVE  [Next]_vars
  BY <1>6 DEF ResolveAction, Next
<1>7. ASSUME NEW d \in ActionIds, Reject(d) \/ Expire(d)
      PROVE  [Next]_vars
  BY <1>7 DEF Reject, Expire
<1>8. CASE CrashDrafts
  BY <1>8 DEF CrashDrafts, Next
<1>9. CASE StartDrafts
  BY <1>9 DEF StartDrafts, Next
<1>10. CASE UNCHANGED allVars
  BY <1>10 DEF allVars
<1> QED
  BY <1>1, <1>2, <1>3, <1>4, <1>5, <1>6, <1>7, <1>8, <1>9, <1>10 DEF DraftNext
(* A step of one request that changes no draft.                              *)
HandlerTypes == [stage : Stages, draft : ActionIds \cup {None}, text : Texts \cup {None}]
LEMMA RequestTypes ==
  ASSUME DraftTypes, NEW c \in Calls,
         handler' \in [Calls -> HandlerTypes],
         \A b \in Calls \ {c} : handler'[b] = handler[b] /\ call'[b] = call[b],
         handler'[c].stage # "none" => up /\ handler'[c].draft # None /\ handler'[c].text # None,
         call'[c].phase # "idle" => /\ handler'[c].stage \in {"approving", "asking"}
                                    /\ call'[c].action = handler'[c].draft,
         UNCHANGED <<draft, up, approved, asked, texts>>,
         payload' \in [ActionIds -> Texts \cup {None}],
         \A d \in ActionIds : action'[d].state # "absent" => payload'[d] # None,
         stranded' \subseteq ActionIds
  PROVE  DraftTypes'
BY DEF DraftTypes, HandlerTypes

(* The types of the drafts and of their requests survive every step.         *)
LEMMA TypesStep ==
  ASSUME TypeOK, DraftTypes, [DraftNext]_allVars
  PROVE  DraftTypes'
<1> USE LedgerAssumption, DraftAssumption
<1>1. ASSUME NEW d \in ActionIds, NEW t \in Texts, NEW s \in {"pending", "recorded"},
             RecordDraft(d, t, s)
      PROVE  DraftTypes'
  BY <1>1 DEF RecordDraft, DraftTypes, DraftStates, vars
<1>2. ASSUME NEW c \in Calls, NEW d \in ActionIds, NEW t \in Texts, TakeDraft(c, d, t)
      PROVE  DraftTypes'
  BY <1>2 DEF TakeDraft, Idling, DraftTypes, DraftStates, Stages, vars
<1>3. ASSUME NEW c \in Calls, NEW d \in ActionIds, AskRetry(c, d)
      PROVE  DraftTypes'
  BY <1>3 DEF AskRetry, Idling, Reopen, DraftTypes, TypeOK, Stages, Row
<1>4. ASSUME NEW c \in Calls, DeliverText(c)
      PROVE  DraftTypes'
  <2>1. PICK d \in ActionIds, t \in Texts : d = handler[c].draft /\ t = handler[c].text
    BY <1>4, HandlersHaveDrafts DEF DeliverText, Deliver
  <2> QED
    BY <1>4, <2>1 DEF DeliverText, Deliver, DraftTypes, TypeOK
<1>5. ASSUME NEW c \in Calls, LookUpAction(c)
      PROVE  DraftTypes'
  <2>1. PICK d \in ActionIds, t \in Texts : d = handler[c].draft /\ t = handler[c].text
    BY <1>5, HandlersHaveDrafts DEF LookUpAction
  <2> QED
    BY <1>5, <2>1 DEF LookUpAction, DraftTypes, Stages, vars
<1>6. ASSUME NEW c \in Calls, RetryDraft(c)
      PROVE  DraftTypes'
  <2>1. PICK d \in ActionIds, t \in Texts : d = handler[c].draft /\ t = handler[c].text
    BY <1>6, HandlersHaveDrafts DEF RetryDraft
  <2>2. /\ UNCHANGED <<draft, up, payload, approved, asked, texts, stranded>>
        /\ \A b \in Calls \ {c} : handler'[b] = handler[b] /\ call'[b] = call[b]
        /\ handler[c].stage = "retrying" /\ call[c].phase = "idle" /\ up
    BY <1>6 DEF RetryDraft, Reopen, DraftTypes, TypeOK, vars
  <2>3. CASE Retryable(d)
    <3>1. payload[d] \in Texts
      BY <2>3 DEF DraftTypes, Retryable
    <3>2. /\ handler' \in [Calls -> HandlerTypes]
          /\ handler'[c].stage = "approving" /\ handler'[c].draft = d /\ handler'[c].text = payload[d]
      <4>1. handler' = [handler EXCEPT ![c].stage = "approving", ![c].text = payload[d]]
        BY <1>6, <2>1, <2>3 DEF RetryDraft, Retryable
      <4>2. handler \in [Calls -> HandlerTypes]
        BY DEF DraftTypes, HandlerTypes
      <4> QED
        BY <2>1, <3>1, <4>1, <4>2 DEF HandlerTypes, Stages
    <3>3. /\ call'[c].action = d
          /\ \A b \in ActionIds : action'[b].state # "absent" => action[b].state # "absent"
      BY <1>6, <2>1, <2>3 DEF RetryDraft, Reopen, Retryable, TypeOK, Row
    <3> QED
      BY <2>2, <3>1, <3>2, <3>3, RequestTypes DEF DraftTypes
  <2>4. CASE ~Retryable(d)
    <3>1. /\ handler' \in [Calls -> HandlerTypes]
          /\ handler'[c].stage = "unanswered" /\ handler'[c].draft = d /\ handler'[c].text = t
      BY <1>6, <2>1, <2>4 DEF RetryDraft, DraftTypes, HandlerTypes, Stages
    <3> QED
      BY <1>6, <2>1, <2>2, <2>4, <3>1, RequestTypes DEF RetryDraft, DraftTypes, vars
  <2> QED
    BY <2>3, <2>4
<1>7. ASSUME NEW c \in Calls, PublishDraft(c)
      PROVE  DraftTypes'
  <2>1. PICK d \in ActionIds, t \in Texts : d = handler[c].draft /\ t = handler[c].text
    BY <1>7, HandlersHaveDrafts DEF PublishDraft
  <2>2. /\ UNCHANGED <<draft, up, approved, asked, texts>>
        /\ handler[c].stage = "publishing" /\ call[c].phase = "idle" /\ up
    BY <1>7 DEF PublishDraft, Publish, DraftTypes, vars
  <2>3. CASE action[d].state = "absent" \/ payload[d] = t
    <3>1. /\ handler' \in [Calls -> HandlerTypes]
          /\ handler'[c].stage = "approving" /\ handler'[c].draft = d /\ handler'[c].text = t
          /\ \A b \in Calls \ {c} : handler'[b] = handler[b]
      BY <1>7, <2>1, <2>3 DEF PublishDraft, DraftTypes, HandlerTypes, Stages
    <3>2. /\ call'[c].action = d
          /\ \A b \in Calls \ {c} : call'[b] = call[b]
          /\ \A b \in ActionIds : action'[b].state # "absent" => b = d \/ action[b].state # "absent"
      BY <1>7, <2>1, <2>3 DEF PublishDraft, Publish, Claimed, TypeOK
    <3>3. /\ payload' \in [ActionIds -> Texts \cup {None}]
          /\ payload'[d] = t /\ \A b \in ActionIds \ {d} : payload'[b] = payload[b]
          /\ stranded' = stranded
      BY <1>7, <2>1, <2>3 DEF PublishDraft, DraftTypes
    <3>4. /\ \A b \in ActionIds : action'[b].state # "absent" => payload'[b] # None
          /\ stranded' \subseteq ActionIds
      BY <3>2, <3>3 DEF DraftTypes
    <3> QED
      BY <2>2, <3>1, <3>2, <3>3, <3>4, RequestTypes
  <2>4. CASE ~(action[d].state = "absent" \/ payload[d] = t)
    <3>1. /\ handler' = [handler EXCEPT ![c] = NoHandler] /\ stranded' = stranded \cup {d}
          /\ UNCHANGED <<call, action, payload>>
      BY <1>7, <2>1, <2>2, <2>4 DEF PublishDraft, Raised, vars
    <3>2. /\ handler' \in [Calls -> HandlerTypes] /\ handler'[c].stage = "none"
          /\ \A b \in Calls \ {c} : handler'[b] = handler[b]
      BY <3>1 DEF NoHandler, DraftTypes, HandlerTypes, Stages
    <3>3. /\ call'[c].phase = "idle" /\ \A b \in Calls \ {c} : call'[b] = call[b]
          /\ payload' \in [ActionIds -> Texts \cup {None}] /\ stranded' \subseteq ActionIds
          /\ \A b \in ActionIds : action'[b].state # "absent" => payload'[b] # None
      BY <2>2, <3>1 DEF DraftTypes
    <3> QED
      BY <2>2, <3>2, <3>3, RequestTypes
  <2> QED
    BY <2>3, <2>4
<1>8. ASSUME NEW c \in Calls, ClaimRetry(c)
      PROVE  DraftTypes'
  <2>1. PICK d \in ActionIds, t \in Texts : d = handler[c].draft /\ t = handler[c].text
    BY <1>8, HandlersHaveDrafts DEF ClaimRetry
  <2>2. /\ UNCHANGED <<draft, up, payload, approved, asked, texts>>
        /\ call[c].phase = "reopened" /\ call[c].action = d
        /\ \A b \in Calls \ {c} : handler'[b] = handler[b] /\ call'[b] = call[b]
    BY <1>8, <2>1, HandlersHaveDrafts
       DEF ClaimRetry, Raised, ClaimReopened, Claimed, DraftTypes, TypeOK
  <2>3. CASE payload[d] = t
    <3>1. UNCHANGED <<handler, stranded>> /\ ClaimReopened(c)
      BY <1>8, <2>1, <2>3 DEF ClaimRetry
    <3>2. /\ call'[c].action = d
          /\ \A b \in ActionIds : action'[b].state # "absent" => b = d \/ action[b].state # "absent"
      BY <2>2, <3>1 DEF ClaimReopened, Claimed, TypeOK
    <3> QED
      BY <2>1, <2>2, <2>3, <3>1, <3>2, RequestTypes DEF DraftTypes, HandlerTypes
  <2>4. CASE payload[d] # t
    <3>1. /\ handler' = [handler EXCEPT ![c] = NoHandler] /\ stranded' \subseteq stranded \cup {d}
          /\ call'[c].phase = "idle" /\ action' = action
      BY <1>8, <2>1, <2>4 DEF ClaimRetry, Raised, Idle, TypeOK
    <3> QED
      BY <2>2, <3>1, RequestTypes DEF DraftTypes, HandlerTypes, NoHandler, Stages
  <2> QED
    BY <2>3, <2>4
<1>9. ASSUME NEW c \in Calls, AnswerText(c) \/ FinishText(c)
      PROVE  DraftTypes'
  <2>1. /\ UNCHANGED <<draft, up, handler, payload, approved, asked, texts, stranded>>
        /\ call[c].phase # "idle" /\ call'[c].action = call[c].action
        /\ \A b \in Calls \ {c} : call'[b] = call[b]
    BY <1>9 DEF AnswerText, FinishText, Answer, Finish, TypeOK, draftVars
  <2>2. \A b \in ActionIds : action'[b].state # "absent" => action[b].state # "absent"
    <3>1. CASE FinishText(c)
      <4>1. PICK d \in ActionIds : d = call[c].action
        BY <3>1, HandlersHaveDrafts DEF FinishText, Finish
      <4>2. action' = action \/ action[d] = Row("dispatching", epoch)
        BY <3>1, <4>1 DEF FinishText, Finish
      <4>3. \A b \in ActionIds \ {d} : action'[b] = action[b]
        BY <3>1, <4>1 DEF FinishText, Finish, TypeOK
      <4> QED
        BY <4>2, <4>3 DEF Row
    <3> QED
      BY <1>9, <3>1 DEF AnswerText, Answer
  <2> QED
    BY <2>1, <2>2, HandlersHaveDrafts, RequestTypes DEF DraftTypes, HandlerTypes
<1>10. ASSUME NEW c \in Calls, Conclude(c) \/ FailToRecord(c) \/ ReturnRetry(c)
      PROVE  DraftTypes'
  <2>1. PICK d \in ActionIds : d = handler[c].draft
    BY <1>10, HandlersHaveDrafts DEF Conclude, FailToRecord, ReturnRetry
  <2>2. /\ handler' = [handler EXCEPT ![c] = NoHandler]
        /\ UNCHANGED <<action, up, payload, approved, asked, texts>>
        /\ stranded' \subseteq stranded \cup {d}
    BY <1>10, <2>1 DEF Conclude, FailToRecord, ReturnRetry, Raised, Return, vars
  <2>3. /\ call'[c].phase = "idle"
        /\ \A b \in Calls \ {c} : call'[b] = call[b]
    BY <1>10 DEF Conclude, FailToRecord, ReturnRetry, Return, Idle, vars, DraftTypes, TypeOK
  <2>4. draft' \in [ActionIds -> [state : DraftStates, text : Texts \cup {None}]]
    BY <1>10, <2>1 DEF Conclude, FailToRecord, ReturnRetry, Decided, DraftStateOf, DraftTypes,
       DraftStates
  <2> QED
    BY <2>2, <2>3, <2>4 DEF DraftTypes, NoHandler, Stages
<1>11. ASSUME NEW d \in ActionIds, NEW v \in {"succeeded", "failed"}, ResolveAction(d, v)
      PROVE  DraftTypes'
  BY <1>11 DEF ResolveAction, Resolve, DraftTypes, draftVars, TypeOK, Row
<1>12. ASSUME NEW d \in ActionIds, Reject(d) \/ Expire(d)
      PROVE  DraftTypes'
  BY <1>12 DEF Reject, Expire, DraftTypes, DraftStates, vars
<1>13. CASE CrashDrafts
  BY <1>13 DEF CrashDrafts, Crash, Idle, NoHandler, DraftTypes, Stages
<1>14. CASE StartDrafts
  <2>1. \A d \in ActionIds : action'[d].state # "absent" => action[d].state # "absent"
    BY <1>14 DEF StartDrafts, Start, Reconciled
  <2>2. draft' \in [ActionIds -> [state : DraftStates, text : Texts \cup {None}]]
    BY <1>14 DEF StartDrafts, ReconciledDrafts, DraftTypes, DraftStates
  <2> QED
    BY <1>14, <2>1, <2>2 DEF StartDrafts, Start, DraftTypes
<1>15. CASE UNCHANGED allVars
  BY <1>15 DEF allVars, vars, draftVars, DraftTypes
<1> QED
  BY <1>1, <1>2, <1>3, <1>4, <1>5, <1>6, <1>7, <1>8, <1>9, <1>10, <1>11, <1>12, <1>13, <1>14,
     <1>15 DEF DraftNext, HandlerStep

-----------------------------------------------------------------------------
(* A caller that was told of a success finds it in the ledger.               *)
RecordsAreTrue ==
  \A c \in Calls : call[c].phase = "returned" /\ call[c].record = "accepted"
                     => action[call[c].action].state = "succeeded"

Held == {"absent", "pending", "recorded", "rejected"}

(* Whatever a request works on was approved once, and an approval works on a *)
(* draft that is dispatching.                                                *)
HandlersAreApproved ==
  \A c \in Calls : handler[c].stage # "none" => draft[handler[c].draft].state \notin Held
ApproversHoldTheDraft ==
  \A c \in Calls : handler[c].stage \in Decisions => draft[handler[c].draft].state = "dispatching"
ApproversDiffer ==
  \A b, c \in Calls : /\ handler[b].stage \in Decisions /\ handler[c].stage \in Decisions
                      /\ handler[b].draft = handler[c].draft
                      => b = c

DInv ==
  /\ OInv /\ DraftTypes /\ RecordsAreTrue /\ DeliveredIsSucceeded /\ HeldUntilApproved
  /\ HandlersAreApproved /\ ApproversHoldTheDraft /\ ApproversDiffer

LEMMA InitDInv == DraftInit => DInv
<1> SUFFICES ASSUME DraftInit PROVE DInv
  OBVIOUS
<1>1. OInv
  BY InitOInv DEF DraftInit
<1>2. DraftTypes
  BY DEF DraftInit, Init, DraftTypes, DraftStates, Stages, NoHandler, Idle
<1> QED
  BY <1>1, <1>2 DEF DraftInit, Init, DInv, RecordsAreTrue, DeliveredIsSucceeded, HeldUntilApproved,
     HandlersAreApproved, ApproversHoldTheDraft, ApproversDiffer, NoHandler, Idle, Decisions

(* An outcome handed to a caller is on record, and stays.                    *)
LEMMA RecordsStep ==
  ASSUME OInv, RecordsAreTrue, [Next]_vars
  PROVE  RecordsAreTrue'
<1>1. \A a \in ActionIds : action[a].state = "succeeded" => action'[a].state = "succeeded"
  BY SuccessStays
<1> USE DEF RecordsAreTrue
<1>2. ASSUME NEW c \in Calls, NEW a \in ActionIds, Publish(c, a) \/ Reopen(c, a)
      PROVE  RecordsAreTrue'
  <2>1. \A b \in Calls \ {c} : call'[b] = call[b]
    BY <1>2 DEF Publish, Claimed, Reopen, OInv, TypeOK
  <2>2. call'[c].phase = "returned" /\ call'[c].record = "accepted"
          => action[a].state = "succeeded" /\ call'[c].action = a
    BY <1>2 DEF Publish, Claimed, Reopen, RecordOf, OInv, TypeOK
  <2> QED
    BY <1>1, <2>1, <2>2, TypedLedger DEF OInv
<1>3. ASSUME NEW c \in Calls, ClaimReopened(c)
      PROVE  RecordsAreTrue'
  <2>1. PICK a \in ActionIds : a = call[c].action
    BY <1>3, TypedLedger DEF OInv, ClaimReopened
  <2>2. \A b \in Calls \ {c} : call'[b] = call[b]
    BY <1>3 DEF ClaimReopened, Claimed, OInv, TypeOK
  <2>3. call'[c].phase = "returned" /\ call'[c].record = "accepted"
          => action[a].state = "succeeded" /\ call'[c].action = a
    BY <1>3, <2>1 DEF ClaimReopened, Claimed, RecordOf, OInv, TypeOK
  <2> QED
    BY <1>1, <2>1, <2>2, <2>3, TypedLedger DEF OInv
<1>4. ASSUME NEW c \in Calls, Finish(c)
      PROVE  RecordsAreTrue'
  <2>1. PICK a \in ActionIds : a = call[c].action
    BY <1>4, TypedLedger DEF OInv, Finish
  <2>2. \A b \in Calls \ {c} : call'[b] = call[b]
    BY <1>4 DEF Finish, OInv, TypeOK
  <2>3. call'[c].phase = "returned" /\ call'[c].record = "accepted"
          => action'[a].state = "succeeded" /\ call'[c].action = a
    BY <1>4, <2>1 DEF Finish, Row, StateOf, OInv, TypeOK
  <2> QED
    BY <1>1, <2>1, <2>2, <2>3, TypedLedger DEF OInv
<1>5. ASSUME NEW c \in Calls, Deliver(c) \/ Return(c) \/ CancelCall(c)
      PROVE  RecordsAreTrue'
  <2>1. \A b \in Calls \ {c} : call'[b] = call[b]
    BY <1>5 DEF Deliver, Return, CancelCall, OInv, TypeOK
  <2>2. call'[c].phase # "returned"
    BY <1>5 DEF Deliver, Return, CancelCall, Idle, OInv, TypeOK
  <2> QED
    BY <1>1, <2>1, <2>2, TypedLedger DEF OInv
<1>6. ASSUME NEW c \in Calls, NEW r \in Records, Answer(c, r)
      PROVE  RecordsAreTrue'
  <2>1. \A b \in Calls \ {c} : call'[b] = call[b]
    BY <1>6 DEF Answer, OInv, TypeOK
  <2>2. call'[c].phase = "answered"
    BY <1>6 DEF Answer, OInv, TypeOK
  <2> QED
    BY <1>1, <2>1, <2>2, TypedLedger DEF OInv
<1>7. CASE \E a \in ActionIds, v \in {"succeeded", "failed"} : Resolve(a, v)
  BY <1>1, <1>7, TypedLedger DEF OInv, Resolve
<1>8. CASE Crash
  BY <1>8 DEF Crash, Idle
<1>9. CASE Start
  BY <1>1, <1>9, TypedLedger DEF OInv, Start
<1>10. CASE UNCHANGED vars
  BY <1>10 DEF vars
<1> QED
  BY <1>2, <1>3, <1>4, <1>5, <1>6, <1>7, <1>8, <1>9, <1>10 DEF Next

(* A request that is under way goes on with its draft or leaves it.          *)
LEMMA RequestsGoOnOrLeave ==
  ASSUME DraftTypes, NEW c \in Calls, HandlerStep(c)
  PROVE  /\ \A b \in Calls : /\ handler'[b].stage # "none" => /\ handler[b].stage # "none"
                                                              /\ handler'[b].draft = handler[b].draft
                             /\ handler'[b].stage \in Decisions => handler[b].stage \in Decisions
         /\ \/ draft' = draft
            \/ \E d \in ActionIds, r \in {call[c].record, "ambiguous"} :
                 /\ Conclude(c) /\ draft' = Decided(d, r) /\ handler'[c].stage = "none"
                 /\ d = handler[c].draft /\ handler[c].stage \in Decisions
                 /\ r = "ambiguous" \/ call[c].phase = "returned"
<1> DEFINE GoesOn == \A b \in Calls :
             /\ handler'[b].stage # "none" => /\ handler[b].stage # "none"
                                              /\ handler'[b].draft = handler[b].draft
             /\ handler'[b].stage \in Decisions => handler[b].stage \in Decisions
<1>0. handler \in [Calls -> HandlerTypes]
  BY DEF DraftTypes, HandlerTypes
<1>1. ASSUME handler' = [handler EXCEPT ![c] = NoHandler]
      PROVE  GoesOn /\ handler'[c].stage = "none"
  BY <1>0, <1>1 DEF NoHandler, Decisions, HandlerTypes
<1>2. CASE LookUpAction(c)
  BY <1>0, <1>2 DEF LookUpAction, Decisions, HandlerTypes
<1>3. CASE RetryDraft(c)
  BY <1>0, <1>3 DEF RetryDraft, Decisions, HandlerTypes
<1>4. CASE PublishDraft(c)
  <2>1. CASE handler' = [handler EXCEPT ![c].stage = "approving"]
    BY <1>0, <1>4, <2>1 DEF PublishDraft, Decisions, HandlerTypes
  <2> QED
    BY <1>1, <1>4, <2>1 DEF PublishDraft, Raised
<1>5. CASE ClaimRetry(c)
  BY <1>1, <1>5 DEF ClaimRetry, Raised
<1>6. CASE AnswerText(c) \/ FinishText(c)
  BY <1>6 DEF AnswerText, FinishText, draftVars
<1>7. CASE Conclude(c)
  <2>1. PICK d \in ActionIds : d = handler[c].draft
    BY <1>7, HandlersHaveDrafts DEF Conclude
  <2>2. GoesOn /\ handler'[c].stage = "none"
    BY <1>1, <1>7 DEF Conclude
  <2> QED
    BY <1>7, <2>1, <2>2 DEF Conclude, Decisions
<1>8. CASE FailToRecord(c) \/ ReturnRetry(c)
  BY <1>1, <1>8 DEF FailToRecord, ReturnRetry, Raised
<1> QED
  BY <1>2, <1>3, <1>4, <1>5, <1>6, <1>7, <1>8 DEF HandlerStep

(* Approvals of one draft exclude each other, because an approval takes its  *)
(* draft out of the states that can be approved.                             *)
LEMMA ApproversStep ==
  ASSUME DraftTypes, ApproversHoldTheDraft, ApproversDiffer, [DraftNext]_allVars
  PROVE  ApproversHoldTheDraft' /\ ApproversDiffer'
<1> USE DEF ApproversHoldTheDraft, ApproversDiffer
<1>1. ASSUME NEW d \in ActionIds, NEW t \in Texts, NEW s \in {"pending", "recorded"},
             RecordDraft(d, t, s)
      PROVE  ApproversHoldTheDraft' /\ ApproversDiffer'
  BY <1>1, HandlersHaveDrafts DEF RecordDraft, DraftTypes, Decisions
<1>2. ASSUME NEW c \in Calls, NEW d \in ActionIds, NEW t \in Texts, TakeDraft(c, d, t)
      PROVE  ApproversHoldTheDraft' /\ ApproversDiffer'
  <2>1. /\ handler'[c].draft = d /\ draft'[d].state = "dispatching"
        /\ draft[d].state # "dispatching"
        /\ \A b \in Calls \ {c} : handler'[b] = handler[b]
        /\ \A e \in ActionIds \ {d} : draft'[e] = draft[e]
    BY <1>2 DEF TakeDraft, Open, DraftTypes
  <2> QED
    BY <2>1, HandlersHaveDrafts DEF Decisions
<1>3. ASSUME NEW c \in Calls, NEW d \in ActionIds, AskRetry(c, d)
      PROVE  ApproversHoldTheDraft' /\ ApproversDiffer'
  <2>1. /\ handler'[c].stage = "asking" /\ draft' = draft
        /\ \A b \in Calls \ {c} : handler'[b] = handler[b]
    BY <1>3 DEF AskRetry, DraftTypes
  <2> QED
    BY <2>1 DEF Decisions
<1>4. ASSUME NEW c \in Calls, HandlerStep(c)
      PROVE  ApproversHoldTheDraft' /\ ApproversDiffer'
  <2>1. \A b \in Calls : /\ handler'[b].stage \in Decisions => handler[b].stage \in Decisions
                         /\ handler'[b].stage \in Decisions => handler'[b].draft = handler[b].draft
    BY <1>4, RequestsGoOnOrLeave DEF Decisions
  <2>2. CASE draft' = draft
    BY <2>1, <2>2
  <2>3. CASE draft' # draft
    <3>1. PICK d \in ActionIds, r \in {call[c].record, "ambiguous"} :
            /\ draft' = Decided(d, r) /\ handler'[c].stage = "none"
            /\ d = handler[c].draft /\ handler[c].stage \in Decisions
      BY <1>4, <2>3, RequestsGoOnOrLeave
    <3>2. \A e \in ActionIds \ {d} : draft'[e] = draft[e]
      BY <3>1 DEF Decided, DraftTypes
    <3>3. \A b \in Calls : handler'[b].stage \in Decisions => handler[b].draft # d
      BY <2>1, <3>1 DEF Decisions
    <3> QED
      BY <2>1, <3>2, <3>3, HandlersHaveDrafts DEF Decisions
  <2> QED
    BY <2>2, <2>3
<1>5. ASSUME NEW c \in Calls, DeliverText(c)
      PROVE  ApproversHoldTheDraft' /\ ApproversDiffer'
  BY <1>5 DEF DeliverText
<1>6. ASSUME NEW d \in ActionIds, NEW v \in {"succeeded", "failed"}, ResolveAction(d, v)
      PROVE  ApproversHoldTheDraft' /\ ApproversDiffer'
  BY <1>6 DEF ResolveAction, draftVars
<1>7. ASSUME NEW d \in ActionIds, Reject(d) \/ Expire(d)
      PROVE  ApproversHoldTheDraft' /\ ApproversDiffer'
  <2>1. /\ handler' = handler /\ draft[d].state # "dispatching"
        /\ \A e \in ActionIds \ {d} : draft'[e] = draft[e]
    BY <1>7 DEF Reject, Expire, Open, DraftTypes
  <2> QED
    BY <2>1, HandlersHaveDrafts DEF Decisions
<1>8. CASE CrashDrafts
  BY <1>8 DEF CrashDrafts, NoHandler, Decisions
<1>9. CASE StartDrafts
  BY <1>9, HandlersHaveDrafts DEF StartDrafts, Start, Decisions
<1>10. CASE UNCHANGED allVars
  BY <1>10 DEF allVars, draftVars
<1> QED
  BY <1>1, <1>2, <1>3, <1>4, <1>5, <1>6, <1>7, <1>8, <1>9, <1>10 DEF DraftNext

(* No draft goes back to waiting for its first approval.                     *)
LEMMA HeldIsEarly ==
  ASSUME DraftTypes, [DraftNext]_allVars
  PROVE  \A d \in ActionIds : draft'[d].state \in Held => draft[d].state \in Held
<1>1. CASE \E d \in ActionIds, t \in Texts, s \in {"pending", "recorded"} : RecordDraft(d, t, s)
  BY <1>1 DEF RecordDraft, Held, DraftTypes
<1>2. CASE \E c \in Calls, d \in ActionIds, t \in Texts : TakeDraft(c, d, t)
  BY <1>2 DEF TakeDraft, Held, DraftTypes
<1>3. CASE \E c \in Calls, d \in ActionIds : AskRetry(c, d)
  BY <1>3 DEF AskRetry
<1>4. ASSUME NEW c \in Calls, HandlerStep(c)
      PROVE  \A d \in ActionIds : draft'[d].state \in Held => draft[d].state \in Held
  <2>1. draft' = draft \/ \E d \in ActionIds, r \in {call[c].record, "ambiguous"} : draft' = Decided(d, r)
    BY <1>4, RequestsGoOnOrLeave
  <2> QED
    BY <2>1 DEF Decided, DraftStateOf, Held, DraftTypes
<1>5. CASE \E c \in Calls : DeliverText(c)
  BY <1>5 DEF DeliverText
<1>6. CASE \E d \in ActionIds, v \in {"succeeded", "failed"} : ResolveAction(d, v)
  BY <1>6 DEF ResolveAction, draftVars
<1>7. CASE \E d \in ActionIds : Reject(d) \/ Expire(d)
  <2>1. PICK d \in ActionIds : Reject(d) \/ Expire(d)
    BY <1>7
  <2>2. \A e \in ActionIds \ {d} : draft'[e] = draft[e]
    BY <2>1 DEF Reject, Expire, DraftTypes
  <2>3. draft'[d].state = "expired" \/ draft[d].state = "pending"
    BY <2>1 DEF Reject, Expire, DraftTypes
  <2> QED
    BY <2>2, <2>3 DEF Held
<1>8. CASE CrashDrafts \/ UNCHANGED allVars
  BY <1>8 DEF CrashDrafts, allVars, draftVars
<1>9. CASE StartDrafts
  <2>1. \A d \in ActionIds : \/ draft'[d] = draft[d]
                              \/ draft'[d].state \in {"delivered", "failed"}
    BY <1>9 DEF StartDrafts, ReconciledDrafts, DraftTypes
  <2> QED
    BY <2>1 DEF Held
<1> QED
  BY <1>1, <1>2, <1>3, <1>4, <1>5, <1>6, <1>7, <1>8, <1>9 DEF DraftNext

(* Only an approved draft is published, so a held one stays unknown to the   *)
(* ledger and to Discord.                                                    *)
LEMMA HeldStep ==
  ASSUME TypeOK, DraftTypes, HeldUntilApproved, HandlersAreApproved, [DraftNext]_allVars
  PROVE  HeldUntilApproved' /\ HandlersAreApproved'
<1>1. \A d \in ActionIds : draft'[d].state \in Held => draft[d].state \in Held
  BY HeldIsEarly
<1>2. \A d \in ActionIds : draft[d].state \in Held => action[d].state = "absent" /\ sent[d] = 0
  BY DEF HeldUntilApproved, Held
<1>3. \A d \in ActionIds : draft[d].state \in Held => action'[d].state = "absent" /\ sent'[d] = 0
  <2>1. CASE \/ \E d \in ActionIds, t \in Texts, s \in {"pending", "recorded"} : RecordDraft(d, t, s)
             \/ \E c \in Calls, d \in ActionIds, t \in Texts : TakeDraft(c, d, t)
             \/ \E d \in ActionIds : Reject(d) \/ Expire(d)
    BY <1>2, <2>1 DEF RecordDraft, TakeDraft, Reject, Expire, vars, history
  <2>2. CASE \E c \in Calls, d \in ActionIds : AskRetry(c, d)
    BY <1>2, <2>2 DEF AskRetry, Reopen, TypeOK
  <2>3. ASSUME NEW c \in Calls, HandlerStep(c) \/ DeliverText(c)
        PROVE  \A d \in ActionIds : draft[d].state \in Held
                                      => action'[d].state = "absent" /\ sent'[d] = 0
    <3>1. handler[c].stage # "none"
      BY <2>3, HandlersHaveDrafts DEF HandlerStep, DeliverText, Deliver, LookUpAction, RetryDraft,
         PublishDraft, ClaimRetry, AnswerText, Answer, FinishText, Finish, Conclude, FailToRecord,
         ReturnRetry
    <3>2. PICK e \in ActionIds : e = handler[c].draft /\ draft[e].state \notin Held
      BY <3>1, HandlersHaveDrafts DEF HandlersAreApproved
    <3>3. call[c].phase # "idle" => call[c].action = e
      BY <3>2, HandlersHaveDrafts
    <3>4. \A d \in ActionIds \ {e} : action'[d] = action[d] /\ sent'[d] = sent[d]
      <4>1. CASE LookUpAction(c) \/ Conclude(c) \/ FailToRecord(c) \/ ReturnRetry(c)
        BY <4>1 DEF LookUpAction, Conclude, FailToRecord, ReturnRetry, Return, vars, history
      <4>2. CASE RetryDraft(c)
        BY <3>2, <4>2 DEF RetryDraft, Reopen, vars, history, TypeOK
      <4>3. CASE PublishDraft(c)
        BY <3>2, <4>3 DEF PublishDraft, Publish, Claimed, vars, history, TypeOK
      <4>4. CASE ClaimRetry(c)
        BY <3>3, <4>4 DEF ClaimRetry, ClaimReopened, Claimed, history, TypeOK
      <4>5. CASE AnswerText(c)
        BY <4>5 DEF AnswerText, Answer, history
      <4>6. CASE FinishText(c)
        BY <3>3, <4>6 DEF FinishText, Finish, history, TypeOK
      <4>7. CASE DeliverText(c)
        BY <3>3, <4>7 DEF DeliverText, Deliver, TypeOK
      <4> QED
        BY <2>3, <4>1, <4>2, <4>3, <4>4, <4>5, <4>6, <4>7 DEF HandlerStep
    <3> QED
      BY <1>2, <3>2, <3>4
  <2>4. CASE \E d \in ActionIds, v \in {"succeeded", "failed"} : ResolveAction(d, v)
    BY <1>2, <2>4 DEF ResolveAction, Resolve, TypeOK
  <2>5. CASE CrashDrafts
    BY <1>2, <2>5 DEF CrashDrafts, Crash, history
  <2>6. CASE StartDrafts
    BY <1>2, <2>6 DEF StartDrafts, Start, Reconciled
  <2>7. CASE UNCHANGED allVars
    BY <1>2, <2>7 DEF allVars, vars
  <2> QED
    BY <2>1, <2>2, <2>3, <2>4, <2>5, <2>6, <2>7 DEF DraftNext
<1>4. HeldUntilApproved'
  BY <1>1, <1>3 DEF HeldUntilApproved, Held
<1>5. HandlersAreApproved'
  <2>1. ASSUME NEW c \in Calls, NEW d \in ActionIds, NEW t \in Texts, TakeDraft(c, d, t)
        PROVE  HandlersAreApproved'
    <3>1. /\ handler'[c].draft = d /\ draft'[d].state = "dispatching"
          /\ \A b \in Calls \ {c} : handler'[b] = handler[b]
      BY <2>1 DEF TakeDraft, DraftTypes
    <3> QED
      BY <1>1, <3>1, HandlersHaveDrafts DEF HandlersAreApproved, Held
  <2>2. ASSUME NEW c \in Calls, NEW d \in ActionIds, AskRetry(c, d)
        PROVE  HandlersAreApproved'
    <3>1. /\ handler'[c].draft = d /\ action[d].state # "absent"
          /\ \A b \in Calls \ {c} : handler'[b] = handler[b]
      BY <2>2 DEF AskRetry, Reopen, DraftTypes
    <3> QED
      BY <1>1, <1>2, <3>1, HandlersHaveDrafts DEF HandlersAreApproved
  <2>3. ASSUME NEW c \in Calls, HandlerStep(c)
        PROVE  HandlersAreApproved'
    BY <1>1, <2>3, RequestsGoOnOrLeave, HandlersHaveDrafts DEF HandlersAreApproved
  <2>4. CASE handler' = handler
    BY <1>1, <2>4, HandlersHaveDrafts DEF HandlersAreApproved
  <2>5. CASE CrashDrafts
    BY <2>5 DEF CrashDrafts, NoHandler, HandlersAreApproved
  <2> QED
    BY <2>1, <2>2, <2>3, <2>4, <2>5 DEF DraftNext, RecordDraft, DeliverText, ResolveAction, Reject,
       Expire, StartDrafts, draftVars, allVars
<1> QED
  BY <1>4, <1>5

(* A draft is delivered by a recorded success, which is final.               *)
LEMMA DeliveredStep ==
  ASSUME DInv, [DraftNext]_allVars, [Next]_vars
  PROVE  DeliveredIsSucceeded'
<1>1. \A d \in ActionIds : draft[d].state = "delivered" => action'[d].state = "succeeded"
  BY SuccessStays DEF DInv, DeliveredIsSucceeded
<1>2. \A d \in ActionIds : draft'[d].state = "delivered"
                             => draft[d].state = "delivered" \/ action'[d].state = "succeeded"
  <2>1. CASE \/ \E d \in ActionIds, t \in Texts, s \in {"pending", "recorded"} : RecordDraft(d, t, s)
             \/ \E c \in Calls, d \in ActionIds, t \in Texts : TakeDraft(c, d, t)
             \/ \E d \in ActionIds : Reject(d) \/ Expire(d)
    BY <2>1 DEF RecordDraft, TakeDraft, Reject, Expire, DInv, DraftTypes
  <2>2. ASSUME NEW c \in Calls, HandlerStep(c), draft' # draft
        PROVE  \A d \in ActionIds : draft'[d].state = "delivered"
                                      => draft[d].state = "delivered" \/ action'[d].state = "succeeded"
    <3>1. PICK d \in ActionIds, r \in {call[c].record, "ambiguous"} :
            /\ Conclude(c) /\ draft' = Decided(d, r) /\ d = handler[c].draft
            /\ r = "ambiguous" \/ call[c].phase = "returned"
      BY <2>2, RequestsGoOnOrLeave DEF DInv
    <3>2. action' = action
      BY <3>1 DEF Conclude, Return, vars
    <3>3. r = "accepted" => action[d].state = "succeeded"
      BY <3>1, HandlersHaveDrafts DEF DInv, RecordsAreTrue
    <3> QED
      BY <3>1, <3>2, <3>3 DEF Decided, DraftStateOf, DInv, DraftTypes
  <2>3. CASE StartDrafts
    BY <2>3 DEF StartDrafts, ReconciledDrafts, DInv, DraftTypes
  <2>4. CASE draft' = draft
    BY <2>4
  <2> QED
    BY <2>1, <2>2, <2>3, <2>4 DEF DraftNext, AskRetry, DeliverText, ResolveAction, CrashDrafts,
       draftVars, allVars
<1> QED
  BY <1>1, <1>2 DEF DeliveredIsSucceeded

-----------------------------------------------------------------------------
LEMMA NextDInv == DInv /\ [DraftNext]_allVars => DInv' /\ [Next]_vars
<1> SUFFICES ASSUME DInv, [DraftNext]_allVars PROVE DInv' /\ [Next]_vars
  OBVIOUS
<1>1. TypeOK
  BY DEF DInv, OInv
<1>2. [Next]_vars
  BY StepsOfTheLedger DEF DInv
<1>3. OInv' /\ RecordsAreTrue'
  BY <1>2, NextOInv, RecordsStep DEF DInv
<1>4. DraftTypes'
  BY <1>1, TypesStep DEF DInv
<1>5. ApproversHoldTheDraft' /\ ApproversDiffer'
  BY ApproversStep DEF DInv
<1>6. HeldUntilApproved' /\ HandlersAreApproved'
  BY <1>1, HeldStep DEF DInv
<1>7. DeliveredIsSucceeded'
  BY <1>2, DeliveredStep
<1> QED
  BY <1>2, <1>3, <1>4, <1>5, <1>6, <1>7 DEF DInv

LEMMA DraftInvariant == DraftSpec => []DInv
  BY InitDInv, NextDInv, PTL DEF DraftSpec

(* The types of drafts and requests.                                         *)
THEOREM DraftsAreTyped == DraftSpec => []DraftTypes
<1>1. DInv => DraftTypes
  BY DEF DInv
<1> QED
  BY <1>1, DraftInvariant, PTL

(* Refinement: approvals use the ledger only through its operations, so      *)
(* every theorem of the ledger holds for them.                               *)
THEOREM ApprovalsUseTheLedger == DraftSpec => UsesTheLedger
<1>1. DraftInit => Init
  BY DEF DraftInit
<1> QED
  BY <1>1, DraftInvariant, NextDInv, PTL DEF DraftSpec, Spec, UsesTheLedger

(* What the ledger promises of every action, here for the action of a draft: *)
(* approvals, edits and repeated approvals never send it more often than it  *)
(* was retried, plus once.                                                   *)
THEOREM DraftSendsAreBounded == DraftSpec => []SentOncePerPermission
  BY ApprovalsUseTheLedger, SendsAreBounded DEF UsesTheLedger

(* A draft shown as delivered has a successful action.                       *)
THEOREM DeliveredDraftsSucceeded == DraftSpec => []DeliveredIsSucceeded
<1>1. DInv => DeliveredIsSucceeded
  BY DEF DInv
<1> QED
  BY <1>1, DraftInvariant, PTL

(* Nothing reaches Discord without an approval.                              *)
THEOREM DraftsAreHeld == DraftSpec => []HeldUntilApproved
<1>1. DInv => HeldUntilApproved
  BY DEF DInv
<1> QED
  BY <1>1, DraftInvariant, PTL

(* Two approvals never work on the same draft.                               *)
THEOREM ApprovalsAreExclusive == DraftSpec => []OneApprover
<1>1. DInv => OneApprover
  BY DEF DInv, ApproversDiffer, OneApprover, Approvers
<1> QED
  BY <1>1, DraftInvariant, PTL

-----------------------------------------------------------------------------
(* What Discord is sent, and what it accepted, is the text on record, unless *)
(* the owner closed the action under its sender.                             *)
InFlightPhases == {"sending", "delivered", "answered"}
SendersCarryThePayload ==
  \A c \in Calls : call[c].phase \in InFlightPhases /\ handler[c].draft \notin overruled
                     => payload[handler[c].draft] = handler[c].text
DeliveredTextsAreKept ==
  \A c \in Calls :
    call[c].phase = "delivered" \/ (call[c].phase = "answered" /\ call[c].record = "accepted")
      => handler[c].text \in texts[handler[c].draft]
AuditInv == DInv /\ SendersCarryThePayload /\ DeliveredTextsAreKept /\ AuditedAsSent

(* A step that neither starts nor answers a call and leaves the payloads.    *)
LEMMA AuditUndisturbed ==
  ASSUME AuditInv,
         \A c \in Calls : call'[c].phase \in InFlightPhases
                            => call'[c] = call[c] /\ handler'[c] = handler[c],
         UNCHANGED <<payload, texts>>,
         overruled \subseteq overruled', confirmed \subseteq confirmed',
         \A a \in ActionIds : action'[a].state = "succeeded"
                                => action[a].state = "succeeded" \/ a \in confirmed'
  PROVE  SendersCarryThePayload' /\ DeliveredTextsAreKept' /\ AuditedAsSent'
BY DEF AuditInv, SendersCarryThePayload, DeliveredTextsAreKept, AuditedAsSent, InFlightPhases

LEMMA AuditStep ==
  ASSUME AuditInv, [DraftNext]_allVars
  PROVE  SendersCarryThePayload' /\ DeliveredTextsAreKept' /\ AuditedAsSent'
<1> DEFINE Goal == SendersCarryThePayload' /\ DeliveredTextsAreKept' /\ AuditedAsSent'
<1>0. /\ TypeOK /\ DraftTypes /\ SendersHoldTheRow
      /\ handler \in [Calls -> HandlerTypes]
      /\ SendersCarryThePayload /\ DeliveredTextsAreKept /\ AuditedAsSent
  BY DEF AuditInv, DInv, OInv, DraftTypes, HandlerTypes
(* Only an action that nobody dispatches changes its payload.                *)
<1>1. ASSUME NEW c \in Calls, NEW d \in ActionIds, call[c].phase \in InFlightPhases,
             handler[c].draft = d, d \notin overruled
      PROVE  action[d].state = "dispatching"
  BY <1>0, <1>1, HandlersHaveDrafts DEF InFlight, InFlightPhases, SendersHoldTheRow
<1>2. ASSUME NEW d \in ActionIds, NEW t \in Texts, NEW s \in {"pending", "recorded"},
             RecordDraft(d, t, s)
      PROVE  Goal
  BY <1>2, AuditUndisturbed DEF RecordDraft, vars
<1>3. ASSUME NEW c \in Calls, NEW d \in ActionIds, NEW t \in Texts, TakeDraft(c, d, t)
      PROVE  Goal
  BY <1>0, <1>3, AuditUndisturbed DEF TakeDraft, Idling, vars, InFlightPhases
<1>4. ASSUME NEW c \in Calls, NEW d \in ActionIds, AskRetry(c, d)
      PROVE  Goal
  <2>1. /\ \A b \in Calls \ {c} : call'[b] = call[b] /\ handler'[b] = handler[b]
        /\ call'[c].phase = "reopened" /\ UNCHANGED <<payload, texts, overruled, confirmed>>
        /\ \A a \in ActionIds : action'[a].state = "succeeded" => action[a].state = "succeeded"
    BY <1>0, <1>4 DEF AskRetry, Reopen, Row, TypeOK
  <2> QED
    BY <2>1, AuditUndisturbed DEF InFlightPhases
<1>5. ASSUME NEW c \in Calls, DeliverText(c)
      PROVE  Goal
  <2>1. PICK d \in ActionIds, t \in Texts : d = handler[c].draft /\ t = handler[c].text
    BY <1>0, <1>5, HandlersHaveDrafts DEF DeliverText, Deliver
  <2>2. /\ \A b \in Calls \ {c} : call'[b] = call[b]
        /\ call[c].phase = "sending" /\ call'[c].phase = "delivered"
        /\ texts' = [texts EXCEPT ![d] = @ \cup {t}]
        /\ UNCHANGED <<action, handler, payload, overruled, confirmed>>
    BY <1>0, <1>5, <2>1 DEF DeliverText, Deliver, TypeOK
  <2>3. \A e \in ActionIds : texts[e] \subseteq texts'[e]
    BY <1>0, <2>2 DEF DraftTypes
  <2>4. SendersCarryThePayload'
    BY <1>0, <2>2 DEF SendersCarryThePayload, InFlightPhases
  <2>5. DeliveredTextsAreKept'
    <3>1. handler[c].text \in texts'[handler[c].draft]
      BY <1>0, <2>1, <2>2 DEF DraftTypes
    <3>2. \A b \in Calls \ {c} : call[b].phase # "idle" => texts[handler[b].draft] \subseteq texts'[handler[b].draft]
      BY <1>0, <2>3, HandlersHaveDrafts
    <3> QED
      BY <1>0, <2>2, <3>1, <3>2 DEF DeliveredTextsAreKept
  <2>6. AuditedAsSent'
    BY <1>0, <2>2, <2>3 DEF AuditedAsSent
  <2> QED
    BY <2>4, <2>5, <2>6
<1>6. ASSUME NEW c \in Calls, LookUpAction(c)
      PROVE  Goal
  <2>1. PICK d \in ActionIds, t \in Texts : d = handler[c].draft /\ t = handler[c].text
    BY <1>0, <1>6, HandlersHaveDrafts DEF LookUpAction
  <2>2. /\ UNCHANGED <<action, call, texts, overruled, confirmed>> /\ call[c].phase = "idle"
        /\ \A b \in Calls \ {c} : handler'[b] = handler[b]
        /\ \A e \in ActionIds : payload'[e] # payload[e] => e = d /\ Retryable(d)
    BY <1>0, <1>6, <2>1 DEF LookUpAction, DraftTypes, vars
  <2>3. SendersCarryThePayload'
    BY <1>0, <1>1, <2>2, HandlersHaveDrafts DEF SendersCarryThePayload, Retryable, InFlightPhases
  <2>4. DeliveredTextsAreKept' /\ AuditedAsSent'
    BY <1>0, <2>2 DEF DeliveredTextsAreKept, AuditedAsSent, Retryable
  <2> QED
    BY <2>3, <2>4
<1>7. ASSUME NEW c \in Calls, RetryDraft(c)
      PROVE  Goal
  <2>0. handler[c].stage = "retrying" /\ call[c].phase = "idle"
    BY <1>0, <1>7 DEF RetryDraft, DraftTypes
  <2>1. /\ UNCHANGED <<payload, texts, overruled, confirmed>>
        /\ \A b \in Calls \ {c} : call'[b] = call[b] /\ handler'[b] = handler[b]
        /\ call'[c].phase \in {"idle", "reopened"}
    BY <1>0, <1>7, <2>0 DEF RetryDraft, Reopen, TypeOK, vars
  <2>2. \A a \in ActionIds : action'[a].state = "succeeded" => action[a].state = "succeeded"
    BY <1>0, <1>7, HandlersHaveDrafts DEF RetryDraft, Reopen, TypeOK, Row, vars
  <2> QED
    BY <2>1, <2>2, AuditUndisturbed DEF InFlightPhases
<1>8. ASSUME NEW c \in Calls, PublishDraft(c)
      PROVE  Goal
  <2>1. PICK d \in ActionIds, t \in Texts : d = handler[c].draft /\ t = handler[c].text
    BY <1>0, <1>8, HandlersHaveDrafts DEF PublishDraft
  <2>2. CASE action[d].state = "absent" \/ payload[d] = t
    <3>0. /\ Publish(c, d) /\ handler' = [handler EXCEPT ![c].stage = "approving"]
          /\ UNCHANGED texts
      BY <1>8, <2>1, <2>2 DEF PublishDraft
    <3>1. /\ \A b \in Calls \ {c} : call'[b] = call[b] /\ handler'[b] = handler[b]
          /\ handler'[c].draft = d /\ handler'[c].text = t
          /\ UNCHANGED <<texts, overruled, confirmed>>
          /\ call'[c].phase \in {"sending", "returned"}
      <4>1. handler'[c].draft = d /\ handler'[c].text = t
        BY <1>0, <2>1, <3>0 DEF HandlerTypes
      <4> QED
        BY <1>0, <3>0, <4>1 DEF Publish, Claimed, history, TypeOK
    <3>2. /\ payload'[d] = t
          /\ \A e \in ActionIds : payload'[e] # payload[e] => e = d /\ action[d].state = "absent"
      <4>1. payload' = [payload EXCEPT ![d] = t]
        BY <1>8, <2>1, <2>2 DEF PublishDraft
      <4> QED
        BY <1>0, <2>2, <4>1 DEF DraftTypes
    <3>3. \A e \in ActionIds : action'[e].state = "succeeded" => action[e].state = "succeeded"
      BY <1>0, <3>0 DEF Publish, Claimed, Row, TypeOK
    <3>4. SendersCarryThePayload'
      BY <1>0, <1>1, <3>1, <3>2, HandlersHaveDrafts DEF SendersCarryThePayload, InFlightPhases
    <3>5. DeliveredTextsAreKept'
      BY <1>0, <3>1 DEF DeliveredTextsAreKept
    <3>6. AuditedAsSent'
      BY <1>0, <3>1, <3>2, <3>3 DEF AuditedAsSent
    <3> QED
      BY <3>4, <3>5, <3>6
  <2>3. CASE ~(action[d].state = "absent" \/ payload[d] = t)
    <3>1. UNCHANGED <<vars, payload, texts>> /\ \A b \in Calls \ {c} : handler'[b] = handler[b]
      BY <1>0, <1>8, <2>1, <2>3 DEF PublishDraft, Raised, DraftTypes
    <3>2. call[c].phase = "idle"
      BY <1>0, <1>8 DEF PublishDraft, DraftTypes
    <3> QED
      BY <3>1, <3>2, AuditUndisturbed DEF vars, InFlightPhases
  <2> QED
    BY <2>2, <2>3
<1>9. ASSUME NEW c \in Calls, ClaimRetry(c)
      PROVE  Goal
  <2>1. PICK d \in ActionIds, t \in Texts : d = handler[c].draft /\ t = handler[c].text
    BY <1>0, <1>9, HandlersHaveDrafts DEF ClaimRetry
  <2>2. /\ UNCHANGED <<payload, texts, overruled, confirmed>>
        /\ \A b \in Calls \ {c} : call'[b] = call[b] /\ handler'[b] = handler[b]
        /\ call'[c].phase \in {"sending", "returned", "idle"}
        /\ call'[c].phase = "sending" => payload[d] = t /\ handler'[c] = handler[c]
    <3>1. CASE payload[d] = t
      BY <1>0, <1>9, <2>1, <3>1 DEF ClaimRetry, ClaimReopened, Claimed, history, TypeOK
    <3>2. CASE payload[d] # t
      BY <1>0, <1>9, <2>1, <3>2 DEF ClaimRetry, Raised, Idle, history, TypeOK
    <3> QED
      BY <3>1, <3>2
  <2>3. \A e \in ActionIds : action'[e].state = "succeeded" => action[e].state = "succeeded"
    BY <1>0, <1>9, HandlersHaveDrafts DEF ClaimRetry, ClaimReopened, Claimed, Row, TypeOK
  <2>4. SendersCarryThePayload'
    BY <1>0, <2>1, <2>2 DEF SendersCarryThePayload, InFlightPhases
  <2>5. DeliveredTextsAreKept' /\ AuditedAsSent'
    BY <1>0, <2>2, <2>3 DEF DeliveredTextsAreKept, AuditedAsSent
  <2> QED
    BY <2>4, <2>5
<1>10. ASSUME NEW c \in Calls, AnswerText(c)
      PROVE  Goal
  <2>1. PICK r \in Records : Answer(c, r)
    BY <1>10 DEF AnswerText
  <2>2. /\ UNCHANGED <<action, handler, payload, texts, overruled, confirmed>>
        /\ \A b \in Calls \ {c} : call'[b] = call[b]
        /\ call[c].phase \in InFlightPhases /\ call'[c].phase = "answered"
        /\ call'[c].record = "accepted" => call[c].phase = "delivered"
    BY <1>0, <1>10, <2>1 DEF AnswerText, Answer, AnswerOf, draftVars, history, TypeOK, InFlightPhases
  <2> QED
    BY <1>0, <2>2 DEF SendersCarryThePayload, DeliveredTextsAreKept, AuditedAsSent, InFlightPhases
<1>11. ASSUME NEW c \in Calls, FinishText(c)
      PROVE  Goal
  <2>1. PICK d \in ActionIds : d = handler[c].draft /\ d = call[c].action
    BY <1>0, <1>11, HandlersHaveDrafts DEF FinishText, Finish
  <2>2. /\ UNCHANGED <<handler, payload, texts, overruled, confirmed>>
        /\ \A b \in Calls \ {c} : call'[b] = call[b]
        /\ call[c].phase = "answered" /\ call'[c].phase \in {"returned", "raised"}
    BY <1>0, <1>11 DEF FinishText, Finish, draftVars, history, TypeOK
  <2>3. /\ \A e \in ActionIds \ {d} : action'[e] = action[e]
        /\ action'[d].state = "succeeded" => action[d].state = "succeeded" \/ call[c].record = "accepted"
    BY <1>0, <1>11, <2>1 DEF FinishText, Finish, StateOf, Row, TypeOK
  <2>4. call[c].record = "accepted" /\ d \notin overruled => payload[d] \in texts[d]
    BY <1>0, <2>1, <2>2 DEF SendersCarryThePayload, DeliveredTextsAreKept, InFlightPhases
  <2> QED
    BY <1>0, <2>2, <2>3, <2>4
       DEF SendersCarryThePayload, DeliveredTextsAreKept, AuditedAsSent, InFlightPhases
<1>12. ASSUME NEW c \in Calls, Conclude(c) \/ FailToRecord(c) \/ ReturnRetry(c)
      PROVE  Goal
  <2>1. /\ UNCHANGED <<action, payload, texts, overruled, confirmed>>
        /\ \A b \in Calls \ {c} : call'[b] = call[b] /\ handler'[b] = handler[b]
        /\ call'[c].phase = "idle"
    BY <1>0, <1>12 DEF Conclude, FailToRecord, ReturnRetry, Return, Raised, Idle, vars, history,
       TypeOK, DraftTypes
  <2> QED
    BY <2>1, AuditUndisturbed DEF InFlightPhases
<1>13. ASSUME NEW d \in ActionIds, NEW v \in {"succeeded", "failed"}, ResolveAction(d, v)
      PROVE  Goal
  <2>1. /\ UNCHANGED <<call, handler, payload, texts>>
        /\ overruled \subseteq overruled' /\ confirmed \subseteq confirmed'
        /\ \A a \in ActionIds : action'[a].state = "succeeded"
                                  => action[a].state = "succeeded" \/ a \in confirmed'
    BY <1>0, <1>13 DEF ResolveAction, Resolve, draftVars, Row, TypeOK
  <2> QED
    BY <2>1, AuditUndisturbed
<1>14. ASSUME NEW d \in ActionIds, Reject(d) \/ Expire(d)
      PROVE  Goal
  BY <1>14, AuditUndisturbed DEF Reject, Expire, vars
<1>15. CASE CrashDrafts
  BY <1>15, AuditUndisturbed DEF CrashDrafts, Crash, Idle, history, InFlightPhases
<1>16. CASE StartDrafts
  <2>1. /\ \A c \in Calls : call'[c].phase = "idle"
        /\ UNCHANGED <<payload, texts, overruled, confirmed>>
        /\ \A a \in ActionIds : action'[a].state = "succeeded" => action[a].state = "succeeded"
    BY <1>0, <1>16 DEF StartDrafts, Start, Reconciled, Row, TypeOK
  <2> QED
    BY <2>1, AuditUndisturbed DEF InFlightPhases
<1>17. CASE UNCHANGED allVars
  BY <1>17, AuditUndisturbed DEF allVars, vars, draftVars
<1> QED
  BY <1>2, <1>3, <1>4, <1>5, <1>6, <1>7, <1>8, <1>9, <1>10, <1>11, <1>12, <1>13, <1>14, <1>15,
     <1>16, <1>17 DEF DraftNext, HandlerStep

(* A success the owner did not decide was accepted with the text on record.  *)
THEOREM AuditsAreTrue == DraftSpec => []AuditedAsSent
<1>1. DraftInit => AuditInv
  BY InitDInv DEF DraftInit, Init, AuditInv, SendersCarryThePayload, DeliveredTextsAreKept,
     AuditedAsSent, InFlightPhases, Idle
<1>2. AuditInv /\ [DraftNext]_allVars => AuditInv'
  BY NextDInv, AuditStep DEF AuditInv
<1>3. AuditInv => AuditedAsSent
  BY DEF AuditInv
<1> QED
  BY <1>1, <1>2, <1>3, PTL DEF DraftSpec
=============================================================================
