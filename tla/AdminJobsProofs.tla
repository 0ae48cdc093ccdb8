---------------------------- MODULE AdminJobsProofs ----------------------------
(* Proofs about the administrative jobs, for any jobs, types, idempotency    *)
(* keys, number of slots and number of starts.                               *)
EXTENDS AdminJobs, TLAPS

(* The one attempt of a job that must not run twice is still to come while   *)
(* the job waits, and never comes back.                                      *)
OneAttemptOnly ==
  \A j \in Jobs : TypeOf[j] \notin Retryable =>
    /\ job[j].status \in {"absent", "queued"} => job[j].attempts = 0
    /\ job[j].attempts <= 1

JInv == TypeOK /\ TaskHoldsLease /\ RunningIsWorkedOn /\ OneActivePerKey /\ OneAttemptOnly

(* What one row and its task must satisfy.                                   *)
RowTyped(j) ==
  /\ job[j] \in [status : {"absent"} \cup Active \cup Closed, owner : Nat \cup {None}, attempts : Nat]
  /\ job[j].owner # None <=> job[j].status \in Leased
  /\ job[j].owner # None => job[j].owner <= epoch
  /\ task[j] \in TaskStates

RowSound(j) ==
  /\ task[j] \in Alive => up /\ Ours(j)
  /\ up /\ Ours(j) /\ job[j].status = "running" => task[j] \in {"handling", "succeeding", "failing"}
  /\ TypeOf[j] \notin Retryable =>
       /\ job[j].status \in {"absent", "queued"} => job[j].attempts = 0
       /\ job[j].attempts <= 1

LEMMA ByRows ==
  JInv <=> /\ job \in [Jobs -> [status : {"absent"} \cup Active \cup Closed, owner : Nat \cup {None},
                                attempts : Nat]]
           /\ task \in [Jobs -> TaskStates]
           /\ up \in BOOLEAN /\ epoch \in Nat
           /\ \A j \in Jobs : RowTyped(j) /\ RowSound(j)
           /\ OneActivePerKey
BY DEF JInv, TypeOK, TaskHoldsLease, RunningIsWorkedOn, OneAttemptOnly, RowTyped, RowSound

LEMMA InitJInv == Init => JInv
<1> SUFFICES ASSUME Init PROVE JInv
  OBVIOUS
<1>1. \A j \in Jobs : /\ job[j] = [status |-> "absent", owner |-> None, attempts |-> 0]
                      /\ job[j].status \notin Leased /\ job[j].status \notin Active
                      /\ task[j] = "none" /\ task[j] \notin Alive
  BY DEF Init, Row, Leased, Active, Alive
<1>2. TypeOK
  <2>1. job \in [Jobs -> [status : {"absent"} \cup Active \cup Closed, owner : Nat \cup {None}, attempts : Nat]]
    BY DEF Init, Row
  <2>2. task \in [Jobs -> TaskStates] /\ up \in BOOLEAN /\ epoch \in Nat
    BY DEF Init, TaskStates
  <2>3. \A j \in Jobs : job[j].owner = None /\ job[j].status \notin Leased
    BY <1>1
  <2> QED
    BY <2>1, <2>2, <2>3 DEF TypeOK
<1>3. \A j \in Jobs : ~Ours(j)
  BY <1>1 DEF Ours
<1> QED
  BY <1>1, <1>2, <1>3 DEF JInv, TaskHoldsLease, RunningIsWorkedOn, OneActivePerKey, OneAttemptOnly

(* A step that rewrites the row of one job and its task, within a process,   *)
(* keeps the invariant if it keeps that job's part of it, and only wakes a   *)
(* job whose key is free.                                                    *)
LEMMA OneJobStep ==
  ASSUME JInv, NEW j \in Jobs, UNCHANGED <<up, epoch>>,
         NEW s \in {"absent"} \cup Active \cup Closed, NEW o \in Nat \cup {None}, NEW n \in Nat,
         NEW t \in TaskStates,
         job' = [job EXCEPT ![j] = Row(s, o, n)], task' = [task EXCEPT ![j] = t],
         o # None <=> s \in Leased,
         o # None => o <= epoch,
         t \in Alive => up /\ o = epoch /\ s \in Leased,
         up /\ o = epoch /\ s = "running" => t \in {"handling", "succeeding", "failing"},
         TypeOf[j] \notin Retryable => (s \in {"absent", "queued"} => n = 0) /\ n <= 1,
         s \in Active => job[j].status \in Active \/ ~Clashes(j)
  PROVE  JInv'
<1> DEFINE R == [status : {"absent"} \cup Active \cup Closed, owner : Nat \cup {None}, attempts : Nat]
<1>1. job \in [Jobs -> R] /\ task \in [Jobs -> TaskStates]
  BY DEF JInv, TypeOK
<1>2. /\ \A k \in Jobs \ {j} : job'[k] = job[k] /\ task'[k] = task[k]
      /\ job'[j] = Row(s, o, n) /\ task'[j] = t
  BY <1>1
<1>3. job'[j].status = s /\ job'[j].owner = o /\ job'[j].attempts = n
  BY <1>2 DEF Row
<1>4. Row(s, o, n) \in R
  BY DEF Row
<1>5. job' \in [Jobs -> R] /\ task' \in [Jobs -> TaskStates]
  BY <1>1, <1>4
<1>6. TypeOK'
  BY <1>2, <1>3, <1>5 DEF JInv, TypeOK
<1>7. TaskHoldsLease' /\ RunningIsWorkedOn' /\ OneAttemptOnly'
  BY <1>2, <1>3 DEF JInv, TaskHoldsLease, RunningIsWorkedOn, OneAttemptOnly, Ours
<1>8. OneActivePerKey'
  <2> SUFFICES ASSUME NEW k \in Jobs, NEW l \in Jobs, job'[k].status \in Active, job'[l].status \in Active,
                      KeyOf[k] = KeyOf[l], KeyOf[k] # None
               PROVE  k = l
    BY DEF OneActivePerKey
  <2>1. CASE job[j].status \in Active
    <3>1. job[k].status \in Active /\ job[l].status \in Active
      BY <1>2, <2>1
    <3> QED
      BY <3>1 DEF JInv, OneActivePerKey
  <2>2. CASE job[j].status \notin Active
    <3>1. s \in Active => \A m \in Jobs : KeyOf[m] = KeyOf[j] /\ KeyOf[j] # None
                                            => job[m].status \notin Active
      BY <2>2 DEF Clashes
    <3> QED
      BY <1>2, <1>3, <2>2, <3>1 DEF JInv, OneActivePerKey
  <2> QED
    BY <2>1, <2>2
<1> QED
  BY <1>6, <1>7, <1>8 DEF JInv

(* An update of the status, as an update of the row.                         *)
LEMMA Written ==
  ASSUME JInv, NEW j \in Jobs, NEW s
  PROVE  /\ [job EXCEPT ![j].status = s] = [job EXCEPT ![j] = Row(s, job[j].owner, job[j].attempts)]
         /\ task = [task EXCEPT ![j] = task[j]]
<1>1. job \in [Jobs -> [status : {"absent"} \cup Active \cup Closed, owner : Nat \cup {None}, attempts : Nat]]
      /\ task \in [Jobs -> TaskStates]
  BY DEF JInv, TypeOK
<1>2. job[j] \in [status : {"absent"} \cup Active \cup Closed, owner : Nat \cup {None}, attempts : Nat]
  BY <1>1
<1>3. [job[j] EXCEPT !.status = s] = Row(s, job[j].owner, job[j].attempts)
  BY <1>2 DEF Row
<1>5. [job EXCEPT ![j].status = s] = [job EXCEPT ![j] = Row(s, job[j].owner, job[j].attempts)]
  BY <1>1, <1>3
<1> QED
  BY <1>1, <1>5

(* The records of job and task, for the steps below.                         *)
LEMMA TypedJob ==
  ASSUME JInv, NEW j \in Jobs
  PROVE  /\ job[j].status \in {"absent"} \cup Active \cup Closed
         /\ job[j].owner \in Nat \cup {None} /\ job[j].attempts \in Nat
         /\ job[j] = [status |-> job[j].status, owner |-> job[j].owner, attempts |-> job[j].attempts]
         /\ task[j] \in TaskStates
         /\ up \in BOOLEAN /\ epoch \in Nat
         /\ RowTyped(j) /\ RowSound(j)
BY ByRows

(* A job that is given back to the queue or closed, by a worker that has just *)
(* started: no task exists, and no lease is from this start.                  *)
LEMMA StartStep ==
  ASSUME JInv, NEW expired \in SUBSET Jobs, Start(expired)
  PROVE  JInv'
<1>1. \A j \in Jobs :
        /\ job'[j] = IF j \notin expired THEN job[j]
                     ELSE Row(IF TypeOf[j] \in Retryable THEN "queued" ELSE "failed", None, job[j].attempts)
        /\ task'[j] = task[j]
  BY DEF Start, Recovered
<1>2. \A j \in expired : job[j].status \in Leased
  BY DEF Start
<1>3. epoch' = epoch + 1 /\ epoch \in Nat /\ epoch' \in Nat /\ ~up /\ up'
  BY DEF Start, JInv, TypeOK
<1>4. \A j \in Jobs : RowTyped(j)' /\ RowSound(j)'
  <2> SUFFICES ASSUME NEW j \in Jobs PROVE RowTyped(j)' /\ RowSound(j)'
    OBVIOUS
  <2>1. task[j] \in TaskStates /\ task[j] \notin Alive
    BY <1>3, TypedJob DEF RowSound
  <2>2. job[j].owner \in Nat => job[j].owner <= epoch
    BY TypedJob, JobsAssumption DEF RowTyped
  <2>3. CASE j \in expired
    <3>1. PICK st \in {"queued", "failed"} :
            /\ st = IF TypeOf[j] \in Retryable THEN "queued" ELSE "failed"
            /\ job'[j] = Row(st, None, job[j].attempts)
      BY <1>1, <2>3
    <3>2. job'[j].status = st /\ job'[j].owner = None /\ job'[j].attempts = job[j].attempts
      BY <3>1 DEF Row
    <3>3. st \in {"absent"} \cup Active \cup Closed /\ st \notin Leased /\ st # "running"
      BY <3>1 DEF Active, Closed, Leased
    <3>4. RowTyped(j)'
      BY <1>1, <2>1, <3>1, <3>2, <3>3, TypedJob DEF RowTyped, Row
    <3>5. TypeOf[j] \notin Retryable => job[j].attempts <= 1 /\ st = "failed"
      BY <3>1, TypedJob DEF RowSound
    <3>6. RowSound(j)'
      BY <1>1, <2>1, <3>2, <3>3, <3>5 DEF RowSound, Ours
    <3> QED
      BY <3>4, <3>6
  <2>4. CASE j \notin expired
    <3>1. job[j].owner # epoch'
      BY <1>3, <2>2, JobsAssumption
    <3>a. job'[j] = job[j] /\ task'[j] = task[j] /\ RowTyped(j) /\ job[j].owner \in Nat \cup {None}
      BY <1>1, <2>4, TypedJob
    <3>2. RowTyped(j)'
      <4>1. job[j].owner # None => job[j].owner <= epoch'
        BY <1>3, <2>2, <3>a
      <4> QED
        BY <3>a, <4>1 DEF RowTyped
    <3> QED
      BY <1>1, <1>3, <2>1, <2>4, <3>1, <3>2, TypedJob DEF RowSound, Ours
  <2> QED
    BY <2>3, <2>4
<1>5. OneActivePerKey'
  <2>1. \A j \in Jobs : job'[j].status \in Active => job[j].status \in Active
    BY <1>1, <1>2 DEF Active, Leased
  <2> QED
    BY <2>1 DEF JInv, OneActivePerKey
<1>6. /\ job' \in [Jobs -> [status : {"absent"} \cup Active \cup Closed, owner : Nat \cup {None}, attempts : Nat]]
      /\ task' \in [Jobs -> TaskStates]
  <2>1. job' = [j \in Jobs |-> job'[j]]
    BY DEF Start, Recovered
  <2>2. \A j \in Jobs : job'[j] \in [status : {"absent"} \cup Active \cup Closed, owner : Nat \cup {None}, attempts : Nat]
    BY <1>4 DEF RowTyped
  <2> QED
    BY <2>1, <2>2, <1>1 DEF Start, JInv, TypeOK
<1> QED
  BY <1>3, <1>4, <1>5, <1>6
     DEF JInv, TypeOK, TaskHoldsLease, RunningIsWorkedOn, OneAttemptOnly, RowTyped, RowSound

(* The tasks of a process that stops are gone; its leases stay.              *)
LEMMA StopStep ==
  ASSUME JInv, Stop
  PROVE  JInv'
<1>1. \A j \in Jobs : task'[j] = "none" /\ job'[j] = job[j]
  BY DEF Stop
<1>2. task' \in [Jobs -> TaskStates] /\ up' = FALSE
  BY DEF Stop, TaskStates
<1> QED
  BY <1>1, <1>2
     DEF Stop, JInv, TypeOK, TaskHoldsLease, RunningIsWorkedOn, OneAttemptOnly, OneActivePerKey,
         Alive, Ours

(* The steps of one job.                                                     *)
LEMMA JobStep ==
  ASSUME JInv, NEW j \in Jobs,
         \/ Enqueue(j) \/ Claim(j) \/ Record(j) \/ RequestCancel(j) \/ CancelTask(j) \/ Reap(j)
         \/ \E o \in {"succeeding", "failing"} : HandlerEnds(j, o)
  PROVE  JInv'
<1> USE JobsAssumption
<1>a. /\ job[j].status \in {"absent"} \cup Active \cup Closed
      /\ job[j].owner \in Nat \cup {None} /\ job[j].attempts \in Nat /\ task[j] \in TaskStates
      /\ epoch \in Nat
  BY TypedJob
<1>b. /\ job[j].owner # None <=> job[j].status \in Leased
      /\ job[j].owner # None => job[j].owner <= epoch
      /\ TypeOf[j] \notin Retryable =>
           (job[j].status \in {"absent", "queued"} => job[j].attempts = 0) /\ job[j].attempts <= 1
      /\ task[j] \in Alive => up /\ job[j].owner = epoch /\ job[j].status \in Leased
      /\ up /\ job[j].owner = epoch /\ job[j].status = "running" => task[j] \in {"handling", "succeeding", "failing"}
  BY TypedJob DEF RowTyped, RowSound, Ours, Leased
<1>c. /\ {"queued", "running", "cancellation_requested"} = Active
      /\ {"running", "cancellation_requested"} = Leased
      /\ {"succeeded", "failed", "cancelled"} = Closed
      /\ {"handling", "succeeding", "failing", "cancelling", "none", "ended"} = TaskStates
      /\ {"handling", "succeeding", "failing", "cancelling"} = Alive
  BY DEF Active, Leased, Closed, TaskStates, Alive
<1>1. CASE Enqueue(j)
  <2>1. job[j].status = "absent" /\ ~Clashes(j) /\ UNCHANGED <<up, epoch>>
    BY <1>1 DEF Enqueue
  <2>2. /\ job' = [job EXCEPT ![j] = Row("queued", job[j].owner, job[j].attempts)]
        /\ task' = [task EXCEPT ![j] = task[j]]
    BY <1>1, Written DEF Enqueue
  <2>3. job[j].owner = None /\ task[j] \notin Alive
    BY <1>b, <1>c, <2>1
  <2> QED
    BY <1>a, <1>b, <1>c, <2>1, <2>2, <2>3, OneJobStep
<1>2. CASE Claim(j)
  <2>1. job[j].status = "queued" /\ UNCHANGED <<up, epoch>> /\ up
    BY <1>2 DEF Claim
  <2>2. /\ job' = [job EXCEPT ![j] = Row("running", epoch, job[j].attempts + 1)]
        /\ task' = [task EXCEPT ![j] = "handling"]
    BY <1>2, Written DEF Claim
  <2>3. TypeOf[j] \notin Retryable => job[j].attempts + 1 <= 1
    BY <1>b, <2>1
  <2>4. "running" \in Leased /\ "running" \in Active /\ "queued" \in Active /\ "handling" \in TaskStates
    BY <1>c
  <2>5. epoch # None /\ epoch <= epoch /\ job[j].attempts + 1 \in Nat
    BY <1>a
  <2> QED
    BY <1>a, <2>1, <2>2, <2>3, <2>4, <2>5, OneJobStep
<1>3. CASE Record(j)
  <2>1. /\ UNCHANGED <<up, epoch>> /\ task[j] \in Alive
        /\ task' = [task EXCEPT ![j] = "ended"]
    BY <1>3, <1>c DEF Record
  <2>2. Ours(j)
    BY <1>b, <2>1 DEF Ours
  <2>3. \E s \in Closed : job' = Recorded(j, s)
    <3>1. task[j] = "cancelling" => job[j].status = "cancellation_requested"
      BY <1>b, <1>c, <2>1
    <3> QED
      BY <1>3, <1>c, <2>2, <3>1 DEF Record
  <2>4. PICK s \in Closed : job' = Recorded(j, s)
    BY <2>3
  <2>5. job' = [job EXCEPT ![j] = Row(s, None, job[j].attempts)]
    BY <2>4, Written DEF Recorded
  <2>6. s \notin Leased /\ s \notin Active /\ s \notin {"absent", "queued", "running"}
    BY <1>c
  <2> QED
    BY <1>a, <1>b, <1>c, <2>1, <2>5, <2>6, OneJobStep
<1>4. CASE RequestCancel(j)
  <2>1. UNCHANGED <<up, epoch, task>> /\ job' = Requested(j) /\ task' = [task EXCEPT ![j] = task[j]]
    BY <1>4, Written DEF RequestCancel
  <2>2. CASE job[j].status = "queued"
    <3>1. job' = [job EXCEPT ![j] = Row("cancelled", job[j].owner, job[j].attempts)]
      BY <2>1, <2>2, Written DEF Requested
    <3>2. job[j].owner = None /\ task[j] \notin Alive
      BY <1>b, <1>c, <2>2
    <3>3. "cancelled" \in Closed /\ "cancelled" \notin Leased /\ "cancelled" \notin Active
      BY <1>c
    <3> QED
      BY <1>a, <1>b, <2>1, <3>1, <3>2, <3>3, OneJobStep
  <2>3. CASE job[j].status = "running"
    <3>1. job' = [job EXCEPT ![j] = Row("cancellation_requested", job[j].owner, job[j].attempts)]
      BY <2>1, <2>3, Written DEF Requested
    <3> QED
      BY <1>a, <1>b, <1>c, <2>1, <2>3, <3>1, OneJobStep
  <2>4. CASE job[j].status \notin {"queued", "running"}
    BY <2>1, <2>4
       DEF Requested, JInv, TypeOK, TaskHoldsLease, RunningIsWorkedOn, OneActivePerKey, OneAttemptOnly, Ours
  <2> QED
    BY <2>2, <2>3, <2>4
<1>5. CASE \E t \in TaskStates :
             /\ UNCHANGED <<job, up, epoch>> /\ task' = [task EXCEPT ![j] = t]
             /\ t \in Alive => task[j] \in Alive
             /\ job[j].status = "running" /\ task[j] \in {"handling", "succeeding", "failing"}
                  => t \in {"handling", "succeeding", "failing"}
  <2>1. PICK t \in TaskStates :
             /\ UNCHANGED <<job, up, epoch>> /\ task' = [task EXCEPT ![j] = t]
             /\ t \in Alive => task[j] \in Alive
             /\ job[j].status = "running" /\ task[j] \in {"handling", "succeeding", "failing"}
                  => t \in {"handling", "succeeding", "failing"}
    BY <1>5
  <2>2. task'[j] = t /\ \A k \in Jobs \ {j} : task'[k] = task[k]
    BY <2>1 DEF JInv, TypeOK
  <2>3. /\ TaskHoldsLease' /\ RunningIsWorkedOn'
    BY <2>1, <2>2 DEF JInv, TaskHoldsLease, RunningIsWorkedOn, Ours
  <2>4. TypeOK' /\ OneActivePerKey' /\ OneAttemptOnly'
    BY <2>1 DEF JInv, TypeOK, OneActivePerKey, OneAttemptOnly
  <2> QED
    BY <2>3, <2>4 DEF JInv
<1>6. CASE CancelTask(j)
  <2>1. job[j].status = "cancellation_requested" /\ task[j] \in Alive
    BY <1>6 DEF CancelTask
  <2>2. "cancelling" \in TaskStates /\ "ended" \in TaskStates
    BY DEF TaskStates, Alive
  <2>3. \E t \in {"cancelling", "ended"} : task' = [task EXCEPT ![j] = t]
    BY <1>6 DEF CancelTask
  <2> QED
    BY <1>5, <1>6, <2>1, <2>2, <2>3 DEF CancelTask
<1>7. CASE Reap(j)
  <2>1. "none" \in TaskStates /\ "none" \notin Alive
    BY DEF TaskStates, Alive
  <2> QED
    BY <1>5, <1>7, <2>1 DEF Reap
<1>8. CASE \E o \in {"succeeding", "failing"} : HandlerEnds(j, o)
  <2>1. {"handling", "succeeding", "failing"} \subseteq Alive /\ Alive \subseteq TaskStates
    BY DEF TaskStates, Alive
  <2> QED
    BY <1>5, <1>8, <2>1 DEF HandlerEnds
<1> QED
  BY <1>1, <1>2, <1>3, <1>4, <1>6, <1>7, <1>8

LEMMA NextJInv == JInv /\ [Next]_vars => JInv'
<1> SUFFICES ASSUME JInv, [Next]_vars PROVE JInv'
  OBVIOUS
<1>1. CASE UNCHANGED vars
  BY <1>1 DEF vars, JInv, TypeOK, TaskHoldsLease, RunningIsWorkedOn, OneActivePerKey, OneAttemptOnly, Ours
<1>2. CASE Next
  BY <1>2, JobStep, StopStep, StartStep DEF Next
<1> QED
  BY <1>1, <1>2

THEOREM Inductive == Spec => []JInv
BY InitJInv, NextJInv, PTL DEF Spec

-----------------------------------------------------------------------------
(* Every row and task has its type, and a row has an owner exactly while it  *)
(* is leased (claim, succeed, fail, mark_cancelled, recover_expired).              *)
THEOREM JobTypes == Spec => []TypeOK
BY Inductive, PTL DEF JInv

(* No cancellation, recovery or other job takes the lease from a task that   *)
(* still works, so its outcome is always written.                            *)
THEOREM TasksHoldTheirLease == Spec => []TaskHoldsLease
BY Inductive, PTL DEF JInv

(* Under any number of restarts and requests, a job that runs under the      *)
(* current worker and is not to be cancelled has a task.                     *)
THEOREM RunningJobsAreWorkedOn == Spec => []RunningIsWorkedOn
BY Inductive, PTL DEF JInv

(* A job whose type must not run again is claimed once at most, for any      *)
(* number of stops, recoveries and jobs.                                     *)
THEOREM NonRetryableJobsRunOnce == Spec => []NonRetryableRunsOnce
<1>1. JInv => NonRetryableRunsOnce
  BY DEF JInv, OneAttemptOnly, NonRetryableRunsOnce
<1> QED
  BY <1>1, Inductive, PTL

(* An idempotency key has one active job at a time, for any jobs and keys.   *)
THEOREM KeysAreExclusive == Spec => []OneActivePerKey
BY Inductive, PTL DEF JInv

(* No task, request or recovery rewrites a closed job.                       *)
THEOREM ClosedJobsAreFinal == Spec => ClosedIsFinal
<1>1. JInv /\ [Next]_vars => [\A j \in Jobs : job[j].status \in Closed => job'[j] = job[j]]_vars
  <2> SUFFICES ASSUME JInv, Next, NEW k \in Jobs, job[k].status \in Closed PROVE job'[k] = job[k]
    BY DEF ClosedIsFinal, vars
  <2>1. job \in [Jobs -> [status : {"absent"} \cup Active \cup Closed, owner : Nat \cup {None}, attempts : Nat]]
    BY DEF JInv, TypeOK
  <2>2. job[k].status \notin {"absent", "queued", "running", "cancellation_requested"}
    BY DEF Closed
  <2>3. ASSUME NEW j \in Jobs, Enqueue(j) \/ Claim(j) \/ RequestCancel(j) PROVE job'[k] = job[k]
    BY <2>1, <2>2, <2>3 DEF Enqueue, Claim, RequestCancel, Requested
  <2>4. ASSUME NEW j \in Jobs, Record(j) PROVE job'[k] = job[k]
    BY <2>1, <2>2, <2>4 DEF Record, Recorded, Ours, Leased
  <2>5. ASSUME NEW expired \in SUBSET Jobs, Start(expired) PROVE job'[k] = job[k]
    BY <2>2, <2>5 DEF Start, Recovered, Leased
  <2> QED
    BY <2>3, <2>4, <2>5 DEF Next, HandlerEnds, CancelTask, Reap, Stop
<1> QED
  BY <1>1, Inductive, PTL DEF Spec, ClosedIsFinal
===============================================================================
