------------------------------ MODULE AdminJobs ------------------------------
(***************************************************************************)
(* The administrative jobs: the durable queue (AdminJobRepository), the    *)
(* requests of the dashboard (AdminJobService) and the worker of the       *)
(* process (AdminJobWorker), with its loop, one task per claimed job, and  *)
(* the recovery of leases at the start of the next process.                *)
(*                                                                         *)
(* Leases expire by the wall clock, which is read at one place only, when  *)
(* a worker starts.  Which leases of earlier workers have expired by then  *)
(* is a free choice: a restart may be quicker than the 30 s of a lease.    *)
(* progress and the heartbeat only renew leases.  The queue's order by     *)
(* request time is left free.                                              *)
(***************************************************************************)
EXTENDS Integers, FiniteSets

CONSTANTS
  Jobs,          \* ids of admin_jobs, one for each request to enqueue
  KeyOf,         \* idempotency key of each request, or None
  TypeOf,        \* type of each job
  Retryable,     \* types that may run again (JobDefinition.retryable)
  Concurrency,   \* tasks of a worker at a time
  PerType,       \* JobDefinition.max_concurrency, the same for every type
  MaxStarts,     \* bound on starts of the process
  None           \* SQL NULL

ASSUME JobsAssumption ==
  /\ IsFiniteSet(Jobs)
  /\ Concurrency \in Nat \ {0} /\ PerType \in Nat \ {0} /\ MaxStarts \in Nat
  /\ None \notin Nat

VARIABLES
  job,         \* admin_jobs: status, lease_owner and attempt_count of each row
  task,        \* what the worker's task of each job is doing
  up,          \* the process runs
  epoch        \* number of starts; stands for the owner name of the worker

vars == <<job, task, up, epoch>>

Leased == {"running", "cancellation_requested"}
Active == Leased \cup {"queued"}
Closed == {"succeeded", "failed", "cancelled"}

(* A task runs its handler, writes the outcome, or writes the cancellation;*)
(* it ends with its row written or not.                                    *)
Alive == {"handling", "succeeding", "failing", "cancelling"}
TaskStates == Alive \cup {"none", "ended"}

Row(status, owner, attempts) == [status |-> status, owner |-> owner, attempts |-> attempts]
Slots == {j \in Jobs : task[j] # "none"}
Ours(j) == job[j].owner = epoch /\ job[j].status \in Leased

-----------------------------------------------------------------------------
Init ==
  /\ job = [j \in Jobs |-> Row("absent", None, 0)]
  /\ task = [j \in Jobs |-> "none"]
  /\ up = FALSE
  /\ epoch = 0

(* enqueue: a job whose key belongs to an active job is that job.          *)
ClashesUncancelled(j) ==
  KeyOf[j] # None /\ \E k \in Jobs : KeyOf[k] = KeyOf[j] /\ job[k].status \in {"queued", "running"}
Clashes(j) ==
  KeyOf[j] # None /\ \E k \in Jobs : KeyOf[k] = KeyOf[j] /\ job[k].status \in Active
Enqueue(j) ==
  /\ up
  /\ job[j].status = "absent"
  /\ ~Clashes(j)
  /\ job' = [job EXCEPT ![j].status = "queued"]
  /\ UNCHANGED <<task, up, epoch>>

(* claim, in the worker's loop: a queued job of a type with a free slot    *)
(* gets a lease and a task.  Ended tasks count until the loop reaps them.  *)
Claim(j) ==
  /\ up
  /\ Cardinality(Slots) < Concurrency
  /\ Cardinality({k \in Slots : TypeOf[k] = TypeOf[j]}) < PerType
  /\ job[j].status = "queued"
  /\ job' = [job EXCEPT ![j] = Row("running", epoch, @.attempts + 1)]
  /\ task' = [task EXCEPT ![j] = "handling"]
  /\ UNCHANGED <<up, epoch>>

(* The handler returns or raises.                                          *)
HandlerEnds(j, outcome) ==
  /\ task[j] = "handling"
  /\ task' = [task EXCEPT ![j] = outcome]
  /\ UNCHANGED <<job, up, epoch>>

(* succeed, fail and mark_cancelled: the row is closed if it is still ours.*)
Recorded(j, status) == [job EXCEPT ![j] = Row(status, None, @.attempts)]
Record(j) ==
  /\ \/ task[j] = "succeeding" /\ job' = IF Ours(j) THEN Recorded(j, "succeeded") ELSE job
     \/ task[j] = "failing" /\ job' = IF Ours(j) THEN Recorded(j, "failed") ELSE job
     \/ /\ task[j] = "cancelling"
        /\ job' = IF Ours(j) /\ job[j].status = "cancellation_requested"
                  THEN Recorded(j, "cancelled") ELSE job
  /\ task' = [task EXCEPT ![j] = "ended"]
  /\ UNCHANGED <<up, epoch>>

(* request_cancel: a queued job is cancelled at once, a running one is     *)
(* asked to stop.                                                          *)
RequestedAnyway(j) ==
  IF job[j].status = "queued" THEN [job EXCEPT ![j].status = "cancelled"]
  ELSE [job EXCEPT ![j].status = "cancellation_requested"]
RequestedAtOnce(j) ==
  IF job[j].status \in {"queued", "running"}
  THEN [job EXCEPT ![j] = Row("cancelled", None, @.attempts)] ELSE job
Requested(j) ==
  IF job[j].status = "queued" THEN [job EXCEPT ![j].status = "cancelled"]
  ELSE IF job[j].status = "running" THEN [job EXCEPT ![j].status = "cancellation_requested"]
  ELSE job
RequestCancel(j) ==
  /\ up
  /\ job[j].status # "absent"
  /\ job' = Requested(j)
  /\ UNCHANGED <<task, up, epoch>>

(* A task learns that its job is to be cancelled: the loop cancels it      *)
(* (_reap_and_cancel), or its handler asks (progress, checkpoint).  The    *)
(* loop may find the job already writing its outcome; the interrupted      *)
(* transaction is rolled back and the task ends with nothing written.      *)
CancelTaskUnasked(j) ==
  /\ task[j] \in Alive
  /\ Ours(j)
  /\ task' = [task EXCEPT ![j] = IF @ = "handling" THEN "cancelling" ELSE "ended"]
  /\ UNCHANGED <<job, up, epoch>>
CancelTask(j) ==
  /\ task[j] \in Alive
  /\ Ours(j) /\ job[j].status = "cancellation_requested"
  /\ task' = [task EXCEPT ![j] = IF @ = "handling" THEN "cancelling" ELSE "ended"]
  /\ UNCHANGED <<job, up, epoch>>

ReapNever(j) == FALSE /\ UNCHANGED vars
Reap(j) ==
  /\ task[j] = "ended"
  /\ task' = [task EXCEPT ![j] = "none"]
  /\ UNCHANGED <<job, up, epoch>>

(* The process stops, in order or not: close writes no outcome, so the     *)
(* tasks are gone and the leases stay.                                     *)
Stop ==
  /\ up
  /\ epoch < MaxStarts
  /\ up' = FALSE
  /\ task' = [j \in Jobs |-> "none"]
  /\ UNCHANGED <<job, epoch>>

(* start, with recover_expired: jobs whose lease has expired are queued    *)
(* again if their type allows it, and failed otherwise.  The others stay.  *)
RecoveredAlways(expired) ==
  [j \in Jobs |-> IF j \notin expired THEN job[j]
                  ELSE Row("queued", None, job[j].attempts)]
RecoveredKeepingLease(expired) ==
  [j \in Jobs |-> IF j \notin expired THEN job[j]
                  ELSE Row(IF TypeOf[j] \in Retryable THEN "queued" ELSE "failed",
                           job[j].owner, job[j].attempts)]
Recovered(expired) ==
  [j \in Jobs |-> IF j \notin expired THEN job[j]
                  ELSE Row(IF TypeOf[j] \in Retryable THEN "queued" ELSE "failed", None, job[j].attempts)]
Start(expired) ==
  /\ ~up
  /\ epoch < MaxStarts
  /\ expired \subseteq {j \in Jobs : job[j].status \in Leased}
  /\ up' = TRUE
  /\ epoch' = epoch + 1
  /\ job' = Recovered(expired)
  /\ UNCHANGED task

Next ==
  \/ \E j \in Jobs : Enqueue(j) \/ Claim(j) \/ Record(j) \/ RequestCancel(j)
  \/ \E j \in Jobs, o \in {"succeeding", "failing"} : HandlerEnds(j, o)
  \/ \E j \in Jobs : CancelTask(j) \/ Reap(j)
  \/ Stop
  \/ \E expired \in SUBSET Jobs : Start(expired)

(* The loop of the worker runs again at every wake and every 2 s, handlers *)
(* end (their provider calls have timeouts), SQLite answers, and a stopped *)
(* process is started again.  Requests and stops promise nothing.          *)
Fairness ==
  /\ \A j \in Jobs : /\ SF_vars(Claim(j)) /\ WF_vars(Record(j)) /\ WF_vars(Reap(j))
                     /\ WF_vars(CancelTask(j) \/ \E o \in {"succeeding", "failing"} : HandlerEnds(j, o))
  /\ WF_vars(\E expired \in SUBSET Jobs : Start(expired))

Spec == Init /\ [][Next]_vars
FairSpec == Spec /\ Fairness

-----------------------------------------------------------------------------
(* Types; a row has an owner exactly while it is leased.                   *)
TypeOK ==
  /\ job \in [Jobs -> [status : {"absent"} \cup Active \cup Closed, owner : Nat \cup {None},
                       attempts : Nat]]
  /\ \A j \in Jobs : job[j].owner # None <=> job[j].status \in Leased
  /\ task \in [Jobs -> TaskStates]
  /\ up \in BOOLEAN
  /\ epoch \in Nat
  /\ \A j \in Jobs : job[j].owner # None => job[j].owner <= epoch

(* A task that works holds the lease of its job, whatever the dashboard    *)
(* and other jobs do meanwhile: no outcome is thrown away for want of it.  *)
TaskHoldsLease == \A j \in Jobs : task[j] \in Alive => up /\ Ours(j)

(* A job that runs under this worker, and that nobody wants to cancel, is  *)
(* being worked on.  A running job without a task would stay running until *)
(* a restart.                                                              *)
RunningIsWorkedOn ==
  \A j \in Jobs : up /\ Ours(j) /\ job[j].status = "running"
                    => task[j] \in {"handling", "succeeding", "failing"}

(* A job that must not run twice never does, across stops and recoveries   *)
(* (JobDefinition.retryable).                                              *)
NonRetryableRunsOnce ==
  \A j \in Jobs : TypeOf[j] \notin Retryable => job[j].attempts <= 1

(* At most one job of an idempotency key is active, recovered jobs and     *)
(* jobs under cancellation included.                                       *)
OneActivePerKey ==
  \A j, k \in Jobs : /\ job[j].status \in Active /\ job[k].status \in Active
                     /\ KeyOf[j] = KeyOf[k] /\ KeyOf[j] # None
                     => j = k

(* A closed job is never reopened or rewritten, by a late task, a          *)
(* cancellation or a recovery.                                             *)
ClosedIsFinal == [][\A j \in Jobs : job[j].status \in Closed => job'[j] = job[j]]_vars

(* Nobody works on the job and nobody will before the next start: its      *)
(* lease outlived a quick restart, or its task was cancelled while it      *)
(* wrote the outcome.                                                      *)
Orphaned(j) ==
  /\ up /\ job[j].status \in Leased
  /\ job[j].owner # epoch \/ (job[j].status = "cancellation_requested" /\ task[j] \notin Alive)

(* Every job that waits or runs is closed in the end, whatever other jobs  *)
(* do with the slots, unless it is orphaned.                               *)
JobsSettle ==
  \A j \in Jobs : (job[j].status \in Active) ~> (job[j].status \in Closed \/ Orphaned(j))
=============================================================================
