---------------------------- MODULE ContextLedger ----------------------------
(***************************************************************************)
(* What the journal of a chat promises, without work items, turns or       *)
(* cutoffs: events arrive in an order, a run may hold events nobody holds, *)
(* what a run holds either becomes context or goes back, and the frontier  *)
(* of the context only moves over events that already are context.         *)
(***************************************************************************)
EXTENDS Integers, Sequences

CONSTANTS Holders, NoHolder

VARIABLES stage, holder, frontier

ledger == <<stage, holder, frontier>>

Stages == {"unapplied", "claimed", "applied"}

Init == stage = <<>> /\ holder = <<>> /\ frontier = 0

(* The frontier may catch up with the context, never pass it.              *)
FrontierMoves ==
  /\ frontier' \in Nat
  /\ frontier <= frontier' /\ frontier' <= Len(stage')
  /\ \A i \in 1..frontier' : stage'[i] = "applied"

Arrive ==
  /\ \E s \in {"unapplied", "applied"} : stage' = Append(stage, s)
  /\ holder' = Append(holder, NoHolder)
  /\ FrontierMoves

(* A run takes some of the events that nobody holds.                       *)
Take(h) ==
  \E taken \in SUBSET {i \in DOMAIN stage : stage[i] = "unapplied"} :
    /\ stage' = [i \in DOMAIN stage |-> IF i \in taken THEN "claimed" ELSE stage[i]]
    /\ holder' = [i \in DOMAIN stage |-> IF i \in taken THEN h ELSE holder[i]]
    /\ UNCHANGED frontier

(* Runs settle: all that one of them holds leaves its hands at once, in    *)
(* one direction.  Several may settle in a step, as when a process starts. *)
Settle(outcome) ==
  /\ stage' = [i \in DOMAIN stage |->
                 IF holder[i] \in DOMAIN outcome THEN outcome[holder[i]] ELSE stage[i]]
  /\ holder' = [i \in DOMAIN stage |->
                  IF holder[i] \in DOMAIN outcome THEN NoHolder ELSE holder[i]]
  /\ IF \E h \in DOMAIN outcome : outcome[h] = "applied" THEN FrontierMoves ELSE UNCHANGED frontier

Next ==
  \/ Arrive
  \/ \E h \in Holders : Take(h)
  \/ \E settling \in SUBSET Holders :
       \E outcome \in [settling -> {"unapplied", "applied"}] : Settle(outcome)

Spec == Init /\ [][Next]_ledger
=============================================================================
