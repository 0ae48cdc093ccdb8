---------------------------- MODULE FollowupTimer ----------------------------
(***************************************************************************)
(* What wait_before_followup promises the run that calls it, without rows, *)
(* wake work, tasks or checkpoints: its timers are set one after another,  *)
(* none rings before its time has come, the run goes on past a timer only  *)
(* after its time and when it is over, and one that was called off never   *)
(* rings or is answered again.                                             *)
(***************************************************************************)
EXTENDS Integers

CONSTANT Last          \* timers of the run

VARIABLES timer,       \* what each timer is doing
          due,         \* its time has come
          gone         \* timers the run has gone past

timers == <<timer, due, gone>>

Timers == 1..Last
Over == {"answered", "off"}
Becomes(n, state) == timer' = [timer EXCEPT ![n] = state]

Init ==
  /\ timer = [n \in Timers |-> "unset"]
  /\ due = [n \in Timers |-> FALSE]
  /\ gone = 0

(* The run sets the next timer only when it has gone past the one before.  *)
SetNext ==
  /\ gone < Last /\ timer[gone + 1] = "unset" /\ Becomes(gone + 1, "set")
  /\ UNCHANGED <<due, gone>>

(* The deadline passes, or new input takes its place.                      *)
Elapse(n) ==
  /\ timer[n] \in {"set", "ringing"} /\ due' = [due EXCEPT ![n] = TRUE]
  /\ UNCHANGED <<timer, gone>>

Ring(n) ==
  /\ timer[n] = "set" /\ due[n] /\ Becomes(n, "ringing")
  /\ UNCHANGED <<due, gone>>
Answer(n) ==
  /\ timer[n] = "ringing" /\ Becomes(n, "answered")
  /\ UNCHANGED <<due, gone>>

(* The owner, a failure or a restart; an answer, too, may be taken back.   *)
CallOff(n) ==
  /\ timer[n] # "unset" /\ Becomes(n, "off")
  /\ UNCHANGED <<due, gone>>

GoOn ==
  /\ gone < Last /\ due[gone + 1] /\ timer[gone + 1] \in Over /\ gone' = gone + 1
  /\ UNCHANGED <<timer, due>>

Next ==
  \/ SetNext \/ GoOn
  \/ \E n \in Timers : Elapse(n) \/ Ring(n) \/ Answer(n) \/ CallOff(n)
Spec == Init /\ [][Next]_timers
=============================================================================
