--------------------------- MODULE FollowupWaitsProofs ---------------------------
(***************************************************************************)
(* The three records of a wait agree, for any number of waits, restarts    *)
(* and cancellations.  What carries the argument is the position of the    *)
(* checkpoint: waits behind it are over, waits ahead of it are not armed,  *)
(* and the one at it is the only one that may be active.                   *)
(***************************************************************************)
EXTENDS FollowupWaits, TLAPS

After == {"returned", "settling", "completing", "finishing"}   \* ainvoke has returned
Behind == {"completed"} \cup Final

AtCheckpoint ==
  /\ \A n \in Waits : n <= passed => wait[n] \notin Active
  /\ \A n \in Waits : n > passed + 1 => wait[n] = "absent"
  /\ interrupt \in {NoWait, passed + 1}

(* What the task does is about the wait at the checkpoint, or behind it.   *)
TaskAtCheckpoint ==
  /\ task \in {"armed", "resolving", "passing"} => passed < MaxWaits
  /\ task \in {"resolving", "passing"} => resumed = passed + 1
  /\ task = "passing" => wait[passed + 1] \notin Active
  /\ interrupted => task \in After /\ interrupt = passed + 1
  /\ resumed \in Waits => wait[resumed] \in {"resuming"} \cup Behind

Wakes == \A n \in Waits : wait[n] \in {"arming", "scheduled"} => wake[n] = "pending"

Agreement == AtCheckpoint /\ TaskAtCheckpoint /\ Wakes /\ ResumableIsSaved

Inv == TypeOK /\ Agreement

LEMMA FlagsKept == Flags /\ [Next]_vars => Flags'
<1> SUFFICES ASSUME Flags, [Next]_vars PROVE Flags'
  OBVIOUS
<1> USE Zenon DEF Flags, run, coroutine, request, world, Goes, Over, Stopping
<1>1. CASE TaskStep
  <2>1. CASE Arm \/ Interrupt \/ ResolveInTool \/ Pass \/ EndGraph \/ RaiseGraph
    BY <2>1 DEF Arm, Interrupt, ResolveInTool, Pass, EndGraph, RaiseGraph
  <2>2. CASE Schedule \/ Settle \/ Complete \/ Finish \/ FailWait \/ FailWork \/ FailRow
    BY <2>2 DEF Schedule, Settle, Complete, Finish, FailWait, FailWork, FailRow
  <2>3. CASE Unwind \/ Unwound \/ Drop \/ Release \/ Mark
    BY <2>3 DEF Unwind, Unwound, Drop, Release, Mark
  <2> QED BY <1>1, <2>1, <2>2, <2>3 DEF TaskStep
<1>2. CASE Publish
  BY <1>2 DEF Publish
<1>3. CASE OwnerStep
  BY <1>3 DEF OwnerStep, LookUp, CancelWait, ReleaseRun, MarkRun, DropTurns, DropTask
<1>4. ASSUME NEW n \in Waits, Elapse(n) \/ Drive(n) PROVE Flags'
  BY <1>4 DEF Elapse, Drive
<1>5. CASE NotifierEnds \/ StopTask \/ Crash \/ Start
  BY <1>5 DEF NotifierEnds, StopTask, Crash, Start
<1>6. ASSUME NEW what \in {"pause", "cancel"}, Ask(what) PROVE Flags'
  BY <1>6 DEF Ask
<1>7. CASE UNCHANGED vars
  BY <1>7 DEF vars
<1> QED BY <1>1, <1>2, <1>3, <1>4, <1>5, <1>6, <1>7 DEF Next, Poll, Poke

LEMMA Initially == Init => Inv
<1> SUFFICES ASSUME Init PROVE Inv
  OBVIOUS
<1> USE WaitAssumption DEF Init, Waits, NoWait
<1>1. Flags
  BY Zenon DEF Flags
<1>2. TypeOK
  BY <1>1 DEF TypeOK, WorkStates, InGraph
<1>3. AtCheckpoint /\ TaskAtCheckpoint /\ Wakes /\ ResumableIsSaved
  BY DEF AtCheckpoint, TaskAtCheckpoint, Wakes, ResumableIsSaved, Active
<1> QED BY <1>2, <1>3 DEF Inv, Agreement

LEMMA TypesKept == TypeOK /\ TaskAtCheckpoint /\ [Next]_vars => TypeOK'
<1> SUFFICES ASSUME TypeOK, TaskAtCheckpoint, [Next]_vars PROVE TypeOK'
  OBVIOUS
<1>0. Flags'
  BY FlagsKept DEF TypeOK, Inv
<1> USE <1>0, WaitAssumption
    DEF TypeOK, TaskAtCheckpoint, Waits, NoWait, Active, Final, WorkStates, InGraph, At, Goes,
        tables, graph, run, coroutine, request, world
<1>1. CASE Arm
  BY <1>1 DEF Arm
<1>2. CASE Interrupt
  BY <1>2 DEF Interrupt
<1>3. CASE ResolveInTool
  BY <1>3 DEF ResolveInTool, Resolve, Moved
<1>4. CASE Pass
  BY <1>4 DEF Pass
<1>5. CASE EndGraph
  BY <1>5 DEF EndGraph
<1>6. CASE RaiseGraph
  BY <1>6 DEF RaiseGraph
<1>7. CASE Schedule
  BY <1>7 DEF Schedule
<1>8. CASE Settle
  <2>1. wait' \in [Waits -> {"absent", "completed"} \cup Active \cup Final]
    BY <1>8 DEF Settle, Resolve, Moved
  <2> QED BY <1>8, <2>1 DEF Settle
<1>9. CASE Complete
  BY <1>9 DEF Complete, WorkBecomes, WakesClosed
<1>10. CASE Finish
  BY <1>10 DEF Finish, RowOf, Over
<1>11. CASE FailWait
  BY <1>11 DEF FailWait, Moved
<1>12. CASE FailWork
  BY <1>12 DEF FailWork, WorkBecomes, WakesClosed
<1>13. CASE FailRow
  BY <1>13 DEF FailRow, Over
<1>14. CASE Unwind
  BY <1>14 DEF Unwind, WorkBecomes, WakesClosed
<1>15. CASE Unwound
  BY <1>15 DEF Unwound
<1>16. CASE Drop
  BY <1>16 DEF Drop, Over
<1>17. CASE Release
  BY <1>17 DEF Release, WorkBecomes, WakesClosed
<1>18. CASE Mark
  BY <1>18 DEF Mark
<1>19. CASE Publish
  BY <1>19 DEF Publish
<1>20. CASE LookUp
  BY <1>20 DEF LookUp, AfterCancel, ActiveWaits, Incomplete, Stopping
<1>21. CASE CancelWait
  BY <1>21 DEF CancelWait, AfterCancel, Cancellable
<1>22. CASE ReleaseRun
  BY <1>22 DEF ReleaseRun, WorkBecomes, WakesClosed
<1>23. CASE MarkRun
  BY <1>23 DEF MarkRun, AfterCancel
<1>24. CASE DropTurns
  BY <1>24 DEF DropTurns
<1>25. CASE DropTask
  BY <1>25 DEF DropTask, Stopping
<1>26. CASE NotifierEnds
  BY <1>26 DEF NotifierEnds
<1>27. CASE StopTask
  BY <1>27 DEF StopTask, Stopping
<1>28. CASE Crash
  BY <1>28 DEF Crash, Over
<1>29. CASE Start
  BY <1>29 DEF Start, Reconciled, Persisted, WakesClosed
<1>30. ASSUME NEW n \in Waits, Elapse(n) PROVE TypeOK'
  BY <1>30 DEF Elapse
<1>31. ASSUME NEW n \in Waits, Drive(n) PROVE TypeOK'
  BY <1>31 DEF Drive, Drives, DrivesScheduled, Moved, Incomplete
<1>32. ASSUME NEW what \in {"pause", "cancel"}, Ask(what) PROVE TypeOK'
  BY <1>32 DEF Ask
<1>33. CASE UNCHANGED vars
  BY <1>33 DEF vars
<1> QED
  BY <1>1, <1>2, <1>3, <1>4, <1>5, <1>6, <1>7, <1>8, <1>9, <1>10,
     <1>11, <1>12, <1>13, <1>14, <1>15, <1>16, <1>17, <1>18, <1>19, <1>20,
     <1>21, <1>22, <1>23, <1>24, <1>25, <1>26, <1>27, <1>28, <1>29, <1>30,
     <1>31, <1>32, <1>33
     DEF Next, TaskStep, OwnerStep, Poll, Poke

(* Requests of the owner, time and the marks on rows.                      *)
LEMMA Untouched ==
  ASSUME Agreement, UNCHANGED <<wait, wake, interrupt, passed, task, resumed, interrupted>>
  PROVE  Agreement'
  BY DEF Agreement, AtCheckpoint, TaskAtCheckpoint, Wakes, ResumableIsSaved

LEMMA AgreementKept == TypeOK /\ Agreement /\ [Next]_vars => Agreement'
<1> SUFFICES ASSUME TypeOK, Agreement, [Next]_vars PROVE Agreement'
  OBVIOUS
<1>0. /\ wait \in [Waits -> {"absent", "completed"} \cup Active \cup Final]
      /\ wake \in [Waits -> {"absent"} \cup WorkStates]
      /\ passed \in 0..MaxWaits /\ interrupt \in 0..MaxWaits /\ resumed \in 0..MaxWaits
      /\ MaxWaits \in Nat /\ MaxWaits > 0 /\ Waits = 1..MaxWaits /\ NoWait = 0
  BY WaitAssumption DEF TypeOK, Waits, NoWait
<1> USE <1>0 DEF Agreement, AtCheckpoint, TaskAtCheckpoint, Wakes, ResumableIsSaved,
                 Active, Final, After, Behind, InGraph, At, Goes, tables, graph, run, coroutine, request, world
<1>1. CASE Arm
  BY <1>1 DEF Arm
<1>2. CASE Interrupt
  BY <1>2 DEF Interrupt
<1>3. CASE ResolveInTool
  BY <1>3 DEF ResolveInTool, Resolve, Moved
<1>4. CASE Pass
  BY <1>4 DEF Pass
<1>5. CASE EndGraph
  BY <1>5 DEF EndGraph
<1>6. CASE RaiseGraph
  BY <1>6 DEF RaiseGraph
<1>7. CASE Schedule
  BY <1>7 DEF Schedule
<1>8. CASE Settle
  BY <1>8 DEF Settle, Resolve, Moved
<1>9. CASE Complete
  BY <1>9 DEF Complete, WorkBecomes, WakesClosed
<1>10. CASE Finish
  BY <1>10 DEF Finish, Over
<1>11. CASE FailWait
  BY <1>11 DEF FailWait, Moved
<1>12. CASE FailWork
  BY <1>12 DEF FailWork, WorkBecomes, WakesClosed
<1>13. CASE FailRow
  BY <1>13 DEF FailRow, Over
<1>14. CASE Unwind
  BY <1>14 DEF Unwind, WorkBecomes, WakesClosed
<1>15. CASE Unwound
  BY <1>15 DEF Unwound
<1>16. CASE Drop
  BY <1>16 DEF Drop, Over
<1>17. CASE Release
  BY <1>17 DEF Release, WorkBecomes, WakesClosed
<1>18. CASE ReleaseRun
  BY <1>18 DEF ReleaseRun, WorkBecomes, WakesClosed
<1>19. CASE CancelWait
  <2>1. CASE ~Cancellable(target)
    BY <1>19, <2>1, Untouched DEF CancelWait
  <2>2. CASE Cancellable(target)
    <3>0. /\ wait' = [wait EXCEPT ![target] = "cancelled"]
          /\ wake' = [wake EXCEPT ![target] = IF @ \in {"pending", "claimed"} THEN "cancelled" ELSE @]
      BY <1>19, <2>2 DEF CancelWait
    <3>1. \A n \in Waits : /\ wait'[n] = IF n = target THEN "cancelled" ELSE wait[n]
                           /\ n # target => wake'[n] = wake[n]
      BY <3>0
    <3>2. target \in Waits => wait[target] \in Active \/ wait[target] = "completed"
      BY <2>2 DEF Cancellable, Incomplete
    <3>3. UNCHANGED <<interrupt, passed, task, resumed, interrupted>>
      BY <1>19 DEF CancelWait
    <3> QED BY <3>1, <3>2, <3>3
  <2> QED BY <2>1, <2>2
<1>20. CASE Crash
  BY <1>20 DEF Crash, Over
<1>21. CASE Start
  BY <1>21 DEF Start, Reconciled, Persisted, WakesClosed
<1>22. ASSUME NEW n \in Waits, Drive(n) PROVE Agreement'
  BY <1>22 DEF Drive, Drives, DrivesScheduled, Moved, Incomplete, Alive
<1>23. CASE Publish \/ Mark \/ MarkRun \/ NotifierEnds \/ StopTask \/ UNCHANGED vars
  BY <1>23, Untouched DEF Publish, Mark, MarkRun, NotifierEnds, StopTask, vars
<1>24. CASE LookUp \/ DropTurns \/ DropTask
  BY <1>24, Untouched DEF LookUp, DropTurns, DropTask
<1>25. ASSUME NEW n \in Waits, Elapse(n) PROVE Agreement'
  BY <1>25, Untouched DEF Elapse
<1>26. ASSUME NEW what \in {"pause", "cancel"}, Ask(what) PROVE Agreement'
  BY <1>26, Untouched DEF Ask
<1> QED
  BY <1>1, <1>2, <1>3, <1>4, <1>5, <1>6, <1>7, <1>8, <1>9, <1>10,
     <1>11, <1>12, <1>13, <1>14, <1>15, <1>16, <1>17, <1>18, <1>19, <1>20,
     <1>21, <1>22, <1>23, <1>24, <1>25, <1>26
     DEF Next, TaskStep, OwnerStep, Poll, Poke

LEMMA Invariance == Spec => []Inv
<1>1. Inv /\ [Next]_vars => Inv'
  BY TypesKept, AgreementKept DEF Inv, Agreement
<1> QED BY Initially, <1>1, PTL DEF Spec

(* No step reopens a wait that was cancelled or failed.                    *)
LEMMA ClosedStep ==
  TypeOK /\ [Next]_vars => \A n \in Waits : wait[n] \in Final => wait'[n] \in Final
<1> SUFFICES ASSUME TypeOK, [Next]_vars, NEW n \in Waits, wait[n] \in Final PROVE wait'[n] \in Final
  OBVIOUS
<1>0. wait \in [Waits -> {"absent", "completed"} \cup Active \cup Final]
  BY DEF TypeOK
<1> USE <1>0 DEF Active, Final, tables, graph
<1>1. CASE Arm \/ Interrupt \/ Pass \/ EndGraph \/ RaiseGraph
  BY <1>1 DEF Arm, Interrupt, Pass, EndGraph, RaiseGraph
<1>2. CASE ResolveInTool \/ Schedule \/ Settle \/ FailWait
  BY <1>2 DEF ResolveInTool, Resolve, Schedule, Settle, FailWait, Moved
<1>3. CASE Complete \/ Finish \/ FailWork \/ FailRow
  BY <1>3 DEF Complete, Finish, FailWork, FailRow
<1>4. CASE Unwind \/ Unwound \/ Drop \/ Release \/ Mark
  BY <1>4 DEF Unwind, Unwound, Drop, Release, Mark
<1>5. CASE CancelWait
  BY <1>5 DEF CancelWait
<1>6. CASE LookUp \/ ReleaseRun \/ MarkRun \/ DropTurns \/ DropTask
  BY <1>6 DEF LookUp, ReleaseRun, MarkRun, DropTurns, DropTask
<1>7. ASSUME NEW m \in Waits, Elapse(m) \/ Drive(m) PROVE wait'[n] \in Final
  BY <1>7 DEF Elapse, Drive, Moved
<1>8. CASE Publish \/ NotifierEnds \/ StopTask \/ Crash
  BY <1>8 DEF Publish, NotifierEnds, StopTask, Crash
<1>9. CASE Start
  BY <1>9 DEF Start, Reconciled
<1>10. ASSUME NEW what \in {"pause", "cancel"}, Ask(what) PROVE wait'[n] \in Final
  BY <1>10 DEF Ask
<1>11. CASE UNCHANGED vars
  BY <1>11 DEF vars
<1> QED
  BY <1>1, <1>2, <1>3, <1>4, <1>5, <1>6, <1>7, <1>8, <1>9, <1>10, <1>11
     DEF Next, TaskStep, OwnerStep, Poll, Poke

(* Every variable keeps its type, through restarts and cancellations.      *)
THEOREM WaitTypes == Spec => []TypeOK
<1>1. Inv => TypeOK
  BY DEF Inv
<1> QED BY <1>1, Invariance, PTL

(* A run never has two active waits: the unique index is never hit.        *)
THEOREM OneWaitIsActive == Spec => []OneActiveWait
<1>1. Inv => OneActiveWait
  <2> SUFFICES ASSUME Inv, NEW m \in ActiveWaits, NEW n \in ActiveWaits PROVE m = n
    BY DEF OneActiveWait
  <2>1. passed \in Nat /\ m \in Nat /\ n \in Nat /\ m \in Waits /\ n \in Waits
    BY WaitAssumption DEF Inv, TypeOK, ActiveWaits, Waits
  <2>2. \A w \in ActiveWaits : ~(w <= passed) /\ ~(w > passed + 1)
    BY DEF Inv, Agreement, AtCheckpoint, ActiveWaits, Active
  <2> QED BY <2>1, <2>2
<1> QED BY <1>1, Invariance, PTL

(* The wake work of a scheduled wait is still pending.                     *)
THEOREM ScheduledWaitsCanWake == Spec => []ScheduledCanWake
<1>1. Inv => ScheduledCanWake
  BY DEF Inv, Agreement, Wakes, ScheduledCanWake
<1> QED BY <1>1, Invariance, PTL

(* What a resume answers is in the checkpoint.                             *)
THEOREM ResumableWaitsAreSaved == Spec => []ResumableIsSaved
<1>1. Inv => ResumableIsSaved
  BY DEF Inv, Agreement
<1> QED BY <1>1, Invariance, PTL

(* A wait that was cancelled or failed stays so.                           *)
THEOREM ClosedWaitsStayClosed == Spec => ClosedWaitsStay
<1>1. Inv => TypeOK
  BY DEF Inv
<1>2. TypeOK /\ [Next]_vars => [\A n \in Waits : wait[n] \in Final => wait'[n] \in Final]_vars
  BY ClosedStep
<1> QED BY <1>1, <1>2, Invariance, PTL DEF Spec, ClosedWaitsStay

-----------------------------------------------------------------------------
(* A wait that was resumed, and the one the task resumes, is past its time.*)
TimeCame ==
  /\ \A n \in Waits : wait[n] \in {"resuming", "completed"} => due[n]
  /\ resumed \in Waits => due[resumed]

LEMMA TimeCameInitially == Init => TimeCame
  BY WaitAssumption DEF Init, TimeCame, Waits, NoWait

LEMMA TimeStays ==
  ASSUME TypeOK, TimeCame, due' = due, resumed' \in {resumed, NoWait},
         \A n \in Waits : wait'[n] \in {"resuming", "completed"}
                            => wait[n] \in {"resuming", "completed"}
  PROVE  TimeCame'
  BY WaitAssumption DEF TypeOK, TimeCame, Waits, NoWait

LEMMA TimeCameKept == TypeOK /\ TimeCame /\ [Next]_vars => TimeCame'
<1> SUFFICES ASSUME TypeOK, TimeCame, [Next]_vars PROVE TimeCame'
  OBVIOUS
<1>0. /\ wait \in [Waits -> {"absent", "completed"} \cup Active \cup Final]
      /\ due \in [Waits -> BOOLEAN] /\ resumed \in 0..MaxWaits
      /\ passed \in 0..MaxWaits /\ MaxWaits \in Nat /\ Waits = 1..MaxWaits /\ NoWait = 0
  BY WaitAssumption DEF TypeOK, Waits, NoWait
<1> USE <1>0, TimeStays DEF Active, Final, At, Goes, Over, tables, graph, coroutine
<1>1. CASE Arm
  BY <1>1 DEF Arm
<1>2. CASE ResolveInTool \/ Schedule \/ Settle \/ FailWait
  BY <1>2 DEF ResolveInTool, Resolve, Schedule, Settle, FailWait, Moved
<1>3. CASE Interrupt \/ Pass \/ EndGraph \/ RaiseGraph
  BY <1>3 DEF Interrupt, Pass, EndGraph, RaiseGraph
<1>4. CASE Complete \/ Finish \/ FailWork \/ FailRow
  BY <1>4 DEF Complete, Finish, FailWork, FailRow
<1>5. CASE Unwind \/ Unwound \/ Drop \/ Release \/ Mark
  BY <1>5 DEF Unwind, Unwound, Drop, Release, Mark
<1>6. CASE CancelWait
  BY <1>6 DEF CancelWait
<1>7. CASE LookUp \/ ReleaseRun \/ MarkRun \/ DropTurns \/ DropTask
  BY <1>7 DEF LookUp, ReleaseRun, MarkRun, DropTurns, DropTask
<1>8. ASSUME NEW n \in Waits, Elapse(n) PROVE TimeCame'
  BY <1>8 DEF Elapse, TimeCame
<1>9. ASSUME NEW n \in Waits, Drive(n) PROVE TimeCame'
  <2>1. due[n]
    BY <1>9 DEF Drive, Drives, DrivesScheduled, Incomplete, TimeCame
  <2> QED BY <1>9, <2>1 DEF Drive, Moved, TimeCame
<1>10. CASE Publish \/ NotifierEnds \/ StopTask \/ Crash
  BY <1>10 DEF Publish, NotifierEnds, StopTask, Crash
<1>11. CASE Start
  BY <1>11 DEF Start, Reconciled
<1>12. ASSUME NEW what \in {"pause", "cancel"}, Ask(what) PROVE TimeCame'
  BY <1>12 DEF Ask
<1>13. CASE UNCHANGED vars
  BY <1>13 DEF vars
<1> QED
  BY <1>1, <1>2, <1>3, <1>4, <1>5, <1>6, <1>7, <1>8, <1>9, <1>10, <1>11, <1>12, <1>13
     DEF Next, TaskStep, OwnerStep, Poll, Poke

(* The timer that the row of a wait stands for, before and after a step.   *)
Reads(n) ==
  /\ wait[n] = "absent" => TimerOf(n) = "unset"
  /\ wait[n] \in {"arming", "scheduled"} => TimerOf(n) = "set"
  /\ wait[n] = "resuming" => TimerOf(n) = "ringing"
  /\ wait[n] = "completed" => TimerOf(n) = "answered"
  /\ wait[n] \in Final => TimerOf(n) = "off"

LEMMA TimerReads == \A n \in Waits : Reads(n)
<1> SUFFICES ASSUME NEW n \in Waits PROVE Reads(n)
  OBVIOUS
<1> USE DEF Reads, TimerOf, Final
<1>1. CASE wait[n] = "absent"
  BY <1>1
<1>2. CASE wait[n] = "arming"
  BY <1>2
<1>3. CASE wait[n] = "scheduled"
  BY <1>3
<1>4. CASE wait[n] = "resuming"
  BY <1>4
<1>5. CASE wait[n] = "completed"
  BY <1>5
<1>6. CASE wait[n] \in Final
  BY <1>6
<1> QED BY <1>1, <1>2, <1>3, <1>4, <1>5, <1>6

LEMMA TimerReadsNext == \A n \in Waits : Reads(n)'
<1>1. (\A n \in Waits : Reads(n))'
  BY TimerReads, PTL
<1> QED BY <1>1 DEF Waits

(* What the steps of the rows are to the timer.                            *)
TimerStep == [Timer!Next]_(Timer!timers)

LEMMA TimerRests ==
  ASSUME UNCHANGED <<due, passed>>, \A n \in Waits : TimerOf(n)' = TimerOf(n)
  PROVE  TimerStep
  BY DEF TimerStep, Timer!timers

LEMMA TimerBecomes ==
  ASSUME NEW n \in Waits, NEW state, TimerOf(n)' = state,
         \A m \in Waits : m # n => TimerOf(m)' = TimerOf(m)
  PROVE  Timer!Becomes(n, state)
  BY DEF Timer!Becomes

LEMMA TimerIsSet ==
  ASSUME TypeOK, UNCHANGED <<due, passed>>, passed < MaxWaits,
         TimerOf(passed + 1) = "unset", TimerOf(passed + 1)' = "set",
         \A m \in Waits : m # passed + 1 => TimerOf(m)' = TimerOf(m)
  PROVE  TimerStep
<1>1. passed + 1 \in Waits
  BY WaitAssumption DEF TypeOK, Waits
<1>2. Timer!Becomes(passed + 1, "set")
  BY <1>1 DEF Timer!Becomes
<1>3. Timer!SetNext
  BY <1>1, <1>2 DEF Timer!SetNext
<1> QED BY <1>3 DEF TimerStep, Timer!Next

LEMMA TimerRings ==
  ASSUME UNCHANGED <<due, passed>>, NEW n \in Waits, due[n],
         TimerOf(n) = "set", TimerOf(n)' = "ringing",
         \A m \in Waits : m # n => TimerOf(m)' = TimerOf(m)
  PROVE  TimerStep
<1>1. Timer!Becomes(n, "ringing")
  BY TimerBecomes
<1>2. Timer!Ring(n)
  BY <1>1 DEF Timer!Ring
<1> QED BY <1>2 DEF TimerStep, Timer!Next, Timer!Timers, Waits

LEMMA TimerIsAnswered ==
  ASSUME UNCHANGED <<due, passed>>, NEW n \in Waits,
         TimerOf(n) = "ringing", TimerOf(n)' = "answered",
         \A m \in Waits : m # n => TimerOf(m)' = TimerOf(m)
  PROVE  TimerStep
<1>1. Timer!Becomes(n, "answered")
  BY TimerBecomes
<1>2. Timer!Answer(n)
  BY <1>1 DEF Timer!Answer
<1> QED BY <1>2 DEF TimerStep, Timer!Next, Timer!Timers, Waits

LEMMA TimerIsOff ==
  ASSUME UNCHANGED <<due, passed>>, NEW n \in Waits,
         TimerOf(n) # "unset", TimerOf(n)' = "off",
         \A m \in Waits : m # n => TimerOf(m)' = TimerOf(m)
  PROVE  TimerStep
<1>1. Timer!Becomes(n, "off")
  BY TimerBecomes
<1>2. Timer!CallOff(n)
  BY <1>1 DEF Timer!CallOff
<1> QED BY <1>2 DEF TimerStep, Timer!Next, Timer!Timers, Waits

(* A step of the run, of the owner or of a restart is a step of the timer  *)
(* or leaves it alone.                                                     *)
LEMMA StepOfTheTimer == Inv /\ TimeCame /\ [Next]_vars => TimerStep
<1> SUFFICES ASSUME Inv, TimeCame, [Next]_vars PROVE TimerStep
  OBVIOUS
<1>0. /\ wait \in [Waits -> {"absent", "completed"} \cup Active \cup Final]
      /\ due \in [Waits -> BOOLEAN] /\ TypeOK /\ AtCheckpoint /\ TaskAtCheckpoint /\ Wakes
      /\ passed \in 0..MaxWaits /\ interrupt \in 0..MaxWaits /\ resumed \in 0..MaxWaits
      /\ MaxWaits \in Nat /\ MaxWaits > 0 /\ Waits = 1..MaxWaits /\ NoWait = 0
  BY WaitAssumption DEF Inv, Agreement, TypeOK, Waits, NoWait
<1> DEFINE Kept == UNCHANGED <<due, passed>>
           Same(n) == \A m \in Waits : m # n => TimerOf(m)' = TimerOf(m)
<1> USE <1>0 DEF tables, graph, At, Goes
<1>1. CASE Arm
  <2> DEFINE n == passed + 1
  <2>1. n \in Waits /\ Kept /\ passed < MaxWaits
    BY <1>1 DEF Arm
  <2>2. CASE wait[n] = "absent"
    <3>1. \A m \in Waits : wait'[m] = IF m = n THEN "arming" ELSE wait[m]
      BY <1>1, <2>2, <2>1 DEF Arm
    <3>2. TimerOf(n) = "unset" /\ TimerOf(n)' = "set" /\ Same(n)
      <4>1. TimerOf(n) = "unset" /\ TimerOf(n)' = "set"
        BY <2>1, <2>2, <3>1, TimerReads, TimerReadsNext DEF Reads
      <4>2. Same(n)
        BY <3>1 DEF TimerOf
      <4> QED BY <4>1, <4>2
    <3> QED BY <2>1, <3>2, TimerIsSet
  <2>3. CASE wait[n] # "absent"
    <3>1. \A m \in Waits : TimerOf(m)' = TimerOf(m)
      BY <1>1, <2>3 DEF Arm, TimerOf
    <3> QED BY <2>1, <3>1, TimerRests
  <2> QED BY <2>2, <2>3
<1>2. CASE Pass
  <2> DEFINE n == passed + 1
  <2>1. n \in Waits /\ passed < MaxWaits /\ resumed = n
    BY <1>2 DEF Pass, TaskAtCheckpoint
  <2>2. due[n] /\ wait[n] \in {"completed"} \cup Final
    BY <1>2, <2>1 DEF Pass, TaskAtCheckpoint, TimeCame, Behind, Active
  <2>3. TimerOf(n) \in Timer!Over
    BY <2>2 DEF TimerOf, Timer!Over, Final
  <2>4. passed' = n /\ due' = due /\ \A m \in Waits : TimerOf(m)' = TimerOf(m)
    BY <1>2 DEF Pass, TimerOf
  <2>5. Timer!GoOn
    BY <2>1, <2>2, <2>3, <2>4 DEF Timer!GoOn
  <2> QED BY <2>5 DEF TimerStep, Timer!Next
<1>3. ASSUME NEW n \in Waits, wait' = Moved(n, {"resuming"}, "completed"), Kept PROVE TimerStep
  <2>1. \A m \in Waits : m # n => wait'[m] = wait[m]
    BY <1>3 DEF Moved
  <2>2. Same(n)
    BY <2>1 DEF TimerOf
  <2>3. CASE wait[n] = "resuming"
    <3>1. wait'[n] = "completed"
      BY <1>3, <2>3 DEF Moved
    <3>2. TimerOf(n) = "ringing" /\ TimerOf(n)' = "answered"
      BY <2>3, <3>1, TimerReads, TimerReadsNext DEF Reads
    <3> QED BY <1>3, <2>2, <3>2, TimerIsAnswered
  <2>4. CASE wait[n] # "resuming"
    <3>1. wait' = wait
      BY <1>3, <2>4 DEF Moved
    <3>2. \A m \in Waits : TimerOf(m)' = TimerOf(m)
      BY <3>1 DEF TimerOf
    <3> QED BY <1>3, <3>2, TimerRests
  <2> QED BY <2>3, <2>4
<1>4. CASE ResolveInTool
  <2>1. passed + 1 \in Waits /\ Kept
    BY <1>4 DEF ResolveInTool, TaskAtCheckpoint
  <2> QED BY <1>3, <1>4, <2>1 DEF ResolveInTool, Resolve
<1>5. CASE Settle
  <2>1. CASE resumed \in Waits
    BY <1>3, <1>5, <2>1 DEF Settle, Resolve
  <2>2. CASE resumed \notin Waits
    <3>1. wait' = wait
      BY <1>5, <2>2 DEF Settle, Resolve, Moved
    <3>2. Kept /\ \A m \in Waits : TimerOf(m)' = TimerOf(m)
      BY <1>5, <3>1 DEF Settle, TimerOf
    <3> QED BY <3>2, TimerRests
  <2> QED BY <2>1, <2>2
<1>6. CASE Schedule
  <2>1. \A m \in Waits : wait'[m] = wait[m] \/ (wait[m] = "arming" /\ wait'[m] = "scheduled")
    BY <1>6 DEF Schedule
  <2>2. Kept /\ \A m \in Waits : TimerOf(m)' = TimerOf(m)
    <3>1. \A m \in Waits : wait'[m] = wait[m] => TimerOf(m)' = TimerOf(m)
      BY DEF TimerOf
    <3>2. \A m \in Waits : wait[m] = "arming" /\ wait'[m] = "scheduled" => TimerOf(m)' = TimerOf(m)
      BY TimerReads, TimerReadsNext DEF Reads
    <3> QED BY <1>6, <2>1, <3>1, <3>2 DEF Schedule
  <2> QED BY <2>2, TimerRests
(* A wait that is failed or cancelled.                                     *)
<1>7. ASSUME NEW n \in Waits, wait[n] # "absent", wait'[n] \in Final,
             \A m \in Waits : m # n => wait'[m] = wait[m], Kept
      PROVE  TimerStep
  <2>1. TimerOf(n) # "unset" /\ TimerOf(n)' = "off" /\ Same(n)
    BY <1>7 DEF TimerOf, Final, Active
  <2> QED BY <1>7, <2>1, TimerIsOff
<1>8. CASE FailWait
  <2>1. CASE resumed \in Waits /\ wait[resumed] \in Active \cup {"completed"}
    <3>1. \A m \in Waits : wait'[m] = IF m = resumed THEN "failed" ELSE wait[m]
      BY <1>8, <2>1 DEF FailWait, Moved
    <3>2. wait[resumed] # "absent" /\ wait'[resumed] \in Final /\ Kept
      BY <1>8, <2>1, <3>1 DEF FailWait, Final, Active
    <3> QED BY <1>7, <2>1, <3>1, <3>2
  <2>2. CASE ~(resumed \in Waits /\ wait[resumed] \in Active \cup {"completed"})
    <3>1. Kept /\ \A m \in Waits : wait'[m] = wait[m]
      BY <1>8, <2>2 DEF FailWait, Moved
    <3>2. \A m \in Waits : TimerOf(m)' = TimerOf(m)
      BY <3>1 DEF TimerOf
    <3> QED BY <3>1, <3>2, TimerRests
  <2> QED BY <2>1, <2>2
<1>9. CASE CancelWait
  <2>1. CASE target \in Waits /\ Cancellable(target)
    <3>1. \A m \in Waits : wait'[m] = IF m = target THEN "cancelled" ELSE wait[m]
      BY <1>9, <2>1 DEF CancelWait
    <3>2. wait[target] # "absent" /\ wait'[target] \in Final /\ Kept
      BY <1>9, <2>1, <3>1 DEF CancelWait, Cancellable, Incomplete, Final, Active
    <3> QED BY <1>7, <2>1, <3>1, <3>2
  <2>2. CASE ~(target \in Waits /\ Cancellable(target))
    <3>1. Kept /\ \A m \in Waits : wait'[m] = wait[m]
      BY <1>9, <2>2 DEF CancelWait
    <3>2. \A m \in Waits : TimerOf(m)' = TimerOf(m)
      BY <3>1 DEF TimerOf
    <3> QED BY <3>1, <3>2, TimerRests
  <2> QED BY <2>1, <2>2
<1>10. CASE Start
  <2> DEFINE n == passed + 1
  <2>1. Kept /\ \A m \in Waits : wait'[m] = Reconciled(m)
    BY <1>10 DEF Start
  <2>2. \A m \in Waits : m # n => wait[m] # "arming"
    BY DEF AtCheckpoint, Active
  <2>3. \A m \in Waits : m # n => wait'[m] = wait[m]
    BY <2>1, <2>2 DEF Reconciled
  <2>4. CASE n \in Waits /\ wait'[n] = "cancelled" /\ wait[n] # "absent"
    BY <1>7, <2>1, <2>3, <2>4 DEF Final
  <2> HIDE DEF n
  <2>5. CASE ~(n \in Waits /\ wait'[n] = "cancelled" /\ wait[n] # "absent")
    <3>1. n \in Waits => wait'[n] = wait[n] \/ (wait[n] = "arming" /\ wait'[n] = "scheduled")
      BY <2>1, <2>5 DEF Reconciled
    <3>2. \A m \in Waits : TimerOf(m)' = TimerOf(m)
      <4>1. \A m \in Waits : wait'[m] = wait[m] => TimerOf(m)' = TimerOf(m)
        BY DEF TimerOf
      <4>2. \A m \in Waits : wait[m] = "arming" /\ wait'[m] = "scheduled" => TimerOf(m)' = TimerOf(m)
        BY TimerReads, TimerReadsNext DEF Reads
      <4>3. ASSUME NEW m \in Waits PROVE TimerOf(m)' = TimerOf(m)
        <5>1. CASE m = n
          BY <3>1, <4>1, <4>2, <5>1
        <5>2. CASE m # n
          BY <2>3, <4>1, <5>2
        <5> QED BY <5>1, <5>2
      <4> QED BY <4>3
    <3> QED BY <2>1, <3>2, TimerRests
  <2> QED BY <2>4, <2>5
<1>11. ASSUME NEW n \in Waits, Elapse(n) PROVE TimerStep
  <2>1. CASE wait[n] \in Active
    <3>1. due' = [due EXCEPT ![n] = TRUE] /\ passed' = passed /\ wait' = wait
      BY <1>11 DEF Elapse
    <3>2. TimerOf(n) \in {"set", "ringing"}
      BY <2>1, TimerReads DEF Reads, Active
    <3>3. \A m \in Waits : TimerOf(m)' = TimerOf(m)
      BY <3>1 DEF TimerOf
    <3>4. Timer!Elapse(n)
      BY <3>1, <3>2, <3>3 DEF Timer!Elapse
    <3> QED BY <3>4 DEF TimerStep, Timer!Next, Timer!Timers
  <2> QED BY <1>11, <2>1 DEF Elapse
<1>12. ASSUME NEW n \in Waits, Drive(n) PROVE TimerStep
  <2>1. Kept /\ \A m \in Waits : m # n => wait'[m] = wait[m]
    BY <1>12 DEF Drive, Moved
  <2>2. Same(n)
    BY <2>1 DEF TimerOf
  <2>3. CASE wait[n] = "scheduled"
    <3>1. due[n] /\ wait'[n] = "resuming"
      BY <1>12, <2>3 DEF Drive, Drives, DrivesScheduled, Incomplete, Moved
    <3>2. TimerOf(n) = "set" /\ TimerOf(n)' = "ringing"
      BY <2>3, <3>1, TimerReads, TimerReadsNext DEF Reads
    <3> QED BY <2>1, <2>2, <3>1, <3>2, TimerRings
  <2>4. CASE wait[n] # "scheduled"
    <3>1. wait'[n] = wait[n]
      BY <1>12, <2>4 DEF Drive, Moved
    <3>2. \A m \in Waits : TimerOf(m)' = TimerOf(m)
      BY <2>2, <3>1 DEF TimerOf
    <3> QED BY <2>1, <3>2, TimerRests
  <2> QED BY <2>3, <2>4
(* Everything else leaves waits, their times and the checkpoint alone.     *)
<1>13. ASSUME UNCHANGED <<wait, due, passed>> PROVE TimerStep
  <2>1. \A m \in Waits : TimerOf(m)' = TimerOf(m)
    BY <1>13 DEF TimerOf
  <2> QED BY <1>13, <2>1, TimerRests
<1>14. CASE Interrupt \/ EndGraph \/ RaiseGraph \/ Complete \/ Finish \/ FailWork \/ FailRow
  BY <1>13, <1>14 DEF Interrupt, EndGraph, RaiseGraph, Complete, Finish, FailWork, FailRow
<1>15. CASE Unwind \/ Unwound \/ Drop \/ Release \/ Mark \/ Publish
  BY <1>13, <1>15 DEF Unwind, Unwound, Drop, Release, Mark, Publish
<1>16. CASE LookUp \/ ReleaseRun \/ MarkRun \/ DropTurns \/ DropTask
  BY <1>13, <1>16 DEF LookUp, ReleaseRun, MarkRun, DropTurns, DropTask
<1>17. CASE NotifierEnds \/ StopTask \/ Crash \/ UNCHANGED vars
  BY <1>13, <1>17 DEF NotifierEnds, StopTask, Crash, vars
<1>18. ASSUME NEW what \in {"pause", "cancel"}, Ask(what) PROVE TimerStep
  BY <1>13, <1>18 DEF Ask
<1> QED
  BY <1>1, <1>2, <1>4, <1>5, <1>6, <1>8, <1>9, <1>10, <1>11, <1>12, <1>14, <1>15, <1>16, <1>17,
     <1>18 DEF Next, TaskStep, OwnerStep, Poll, Poke

(* The waits of a run implement its timer: across crashes, cancellations   *)
(* and failures no wait is resumed before its time, and the graph goes on  *)
(* only past one whose time came and that is over.                         *)
THEOREM WaitsImplementTimer == Spec => ImplementsTimer
<1>1. Init => Timer!Init
  BY TimerReads DEF Init, Timer!Init, Timer!Timers, Waits, NoWait, Reads
<1>2. Inv /\ TimeCame /\ [Next]_vars => [Timer!Next]_(Timer!timers)
  BY StepOfTheTimer DEF TimerStep
<1>3. TypeOK /\ TimeCame /\ [Next]_vars => TimeCame'
  BY TimeCameKept
<1>4. Inv => TypeOK
  BY DEF Inv
<1> QED
  BY <1>1, <1>2, <1>3, <1>4, TimeCameInitially, Invariance, PTL
     DEF Spec, ImplementsTimer, Timer!Spec
=============================================================================
