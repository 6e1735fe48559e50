---------------------------- MODULE AnalysisJobs ----------------------------
(***************************************************************************)
(* POST /error-groups/{id}/analyze and the Celery task behind it.  At most *)
(* one job per group may be active: create_job looks for one, and a        *)
(* partial unique index backs the look-up.  The task adds a pending        *)
(* analysis, asks the AI provider, and writes the answer into whatever     *)
(* analysis of the group is then the latest.                               *)
(*                                                                         *)
(* The granularity and the delivery of messages are those of BulkIngestion.*)
(***************************************************************************)
EXTENDS JobTable, FiniteSets

CONSTANTS
  Requests,    \* the POST calls; a job is named by the call that inserts it
  NoJob,       \* the job of a worker that holds no message
  Groups, GroupOf,   \* the error group each request asks about
  Workers,
  MaxRetries,  \* LoggedTask.max_retries
  MaxFaults, MaxCrashes, MaxRedeliveries   \* budgets of disturbances

ASSUME GroupAssumption ==
  NoJob \notin Requests /\ GroupOf \in [Requests -> Groups]

ASSUME BudgetAssumption ==
  /\ MaxRetries \in Nat /\ MaxFaults \in Nat
  /\ MaxCrashes \in Nat /\ MaxRedeliveries \in Nat

VARIABLES
  api,        \* per request: where its handler is
  jobs,       \* table background_jobs
  analyses,   \* table error_analyses
  clock,      \* transactions begun by executions: the order of created_at
  queue,      \* per message: how many copies wait for delivery
  run,        \* per worker: the task execution in progress
  spent       \* faults, refusals, crashes and redeliveries so far

vars == <<api, jobs, analyses, clock, queue, run, spent>>

Messages == [job : Requests, retries : 0..MaxRetries]

AnalysisStatuses == {"pending", "completed", "failed"}

\* created_at defaults to now(), which is when the transaction began.  job is
\* the job of the execution that added the row (the table does not keep it).
Analyses == [created_at : Nat, group : Groups, job : Requests,
             status : AnalysisStatuses]

\* began: when the transaction of the first read began; latest, seen: the
\* created_at and the status of the analysis this execution will write to.
Runs == [pc : {"idle", "load", "mark", "collect", "call", "republish", "ack"},
         job : Requests \cup {NoJob}, retries : 0..MaxRetries,
         loaded : Row(1), began : Nat, latest : Nat, seen : AnalysisStatuses]

IdleRun == [pc |-> "idle", job |-> NoJob, retries |-> 0, loaded |-> AbsentRow,
            began |-> 0, latest |-> 0, seen |-> "pending"]

Init ==
  /\ api = [r \in Requests |-> "lookup"]
  /\ jobs = [r \in Requests |-> AbsentRow]
  /\ analyses = {}
  /\ clock = 0
  /\ queue = [m \in Messages |-> 0]
  /\ run = [w \in Workers |-> IdleRun]
  /\ spent = [faults |-> 0, refusals |-> 0, crashes |-> 0, redeliveries |-> 0]

-----------------------------------------------------------------------------
(* The API process *)

\* get_active_by_scope, and what the partial unique index refuses.
ActiveJobs(group) ==
  {j \in Requests : /\ GroupOf[j] = group
                    /\ jobs[j].status \in ActiveStatuses}

\* The scope check of create_job; 409 while a job of the group is active.
Lookup(r) ==
  /\ api[r] = "lookup"
  /\ api' = [api EXCEPT ![r] = IF ActiveJobs(GroupOf[r]) = {}
                               THEN "insert" ELSE "conflict"]
  /\ UNCHANGED <<jobs, analyses, clock, queue, run, spent>>

\* The insert; a job that became active in the meantime makes it a 500.
Insert(r) ==
  /\ api[r] = "insert"
  /\ IF ActiveJobs(GroupOf[r]) = {}
     THEN /\ jobs' = [jobs EXCEPT ![r] = PendingRow]
          /\ api' = [api EXCEPT ![r] = "publish"]
     ELSE /\ api' = [api EXCEPT ![r] = "error"]
          /\ UNCHANGED jobs
  /\ UNCHANGED <<analyses, clock, queue, run, spent>>

Send(m) == queue' = [queue EXCEPT ![m] = @ + 1]

\* run_error_group_analysis_task.delay
Publish(r) ==
  /\ api[r] = "publish"
  /\ Send([job |-> r, retries |-> 0])
  /\ api' = [api EXCEPT ![r] = "accepted"]
  /\ UNCHANGED <<jobs, analyses, clock, run, spent>>

\* The process dies or the broker refuses between the commit and the publish.
PublishFails(r) ==
  /\ api[r] = "publish"
  /\ spent.crashes < MaxCrashes
  /\ spent' = [spent EXCEPT !.crashes = @ + 1]
  /\ api' = [api EXCEPT ![r] = "error"]
  /\ UNCHANGED <<jobs, analyses, clock, queue, run>>

-----------------------------------------------------------------------------
(* A worker process *)

Message(w) == [job |-> run[w].job, retries |-> run[w].retries]

Group(w) == GroupOf[run[w].job]

Receive(w) ==
  /\ run[w].pc = "idle"
  /\ \E m \in Messages :
       /\ queue[m] > 0
       /\ queue' = [queue EXCEPT ![m] = @ - 1]
       /\ run' = [run EXCEPT ![w] = [IdleRun EXCEPT !.pc = "load",
                                                    !.job = m.job,
                                                    !.retries = m.retries]]
  /\ UNCHANGED <<api, jobs, analyses, clock, spent>>

\* A variant of Load: a finished job is run again.
LoadAlways(w) ==
  /\ run[w].pc = "load"
  /\ clock' = clock + 1
  /\ run' = [run EXCEPT ![w] = [@ EXCEPT !.pc = "mark",
                                         !.loaded = jobs[run[w].job],
                                         !.began = clock + 1]]
  /\ UNCHANGED <<api, jobs, analyses, queue, spent>>

\* The first read begins a transaction.  A failed job is run again.
Load(w) ==
  /\ run[w].pc = "load"
  /\ LET row == jobs[run[w].job]
     IN  IF row.status \in ShortCircuitStatuses \cup {"absent"}
         THEN /\ run' = [run EXCEPT ![w].pc = "ack"]
              /\ UNCHANGED clock
         ELSE /\ clock' = clock + 1
              /\ run' = [run EXCEPT ![w] = [@ EXCEPT !.pc = "mark",
                                                     !.loaded = row,
                                                     !.began = clock + 1]]
  /\ UNCHANGED <<api, jobs, analyses, queue, spent>>

\* A variant of AfterFault: autoretry_for does not cover the exception.
NeverRetried(w) == "ack"

\* Where an execution goes when an exception leaves the task.
AfterFault(w) == IF run[w].retries < MaxRetries THEN "republish" ELSE "ack"

\* A variant of ScopeTaken: the unique index covers pending jobs only.
ScopeTakenByPending(w) ==
  \E j \in ActiveJobs(Group(w)) \ {run[w].job} : jobs[j].status = "pending"

\* mark_running would make a second job of the group active.
ScopeTaken(w) ==
  ActiveJobs(Group(w)) \ {run[w].job} # {}

\* mark_running and create_pending_analysis, committed together.  The unique
\* index may refuse the update, and then the task fails (a refusal).  The code
\* also ends a job whose group is not there, which is left out: nothing deletes a
\* group, and the request that made the job has found it.
Begin(w) ==
  /\ run[w].pc = "mark"
  /\ LET row == Flush(MarkRunning(run[w].loaded), run[w].loaded,
                      jobs[run[w].job])
     IN  IF row.status \in ActiveStatuses /\ ScopeTaken(w)
         THEN /\ run' = [run EXCEPT ![w].pc = AfterFault(w)]
              /\ spent' = [spent EXCEPT !.refusals = @ + 1]
              /\ UNCHANGED <<jobs, analyses>>
         ELSE /\ jobs' = [jobs EXCEPT ![run[w].job] = row]
              /\ analyses' = analyses \cup
                   {[created_at |-> run[w].began, group |-> Group(w),
                     job |-> run[w].job, status |-> "pending"]}
              /\ run' = [run EXCEPT ![w] = [@ EXCEPT !.pc = "collect",
                                                     !.loaded = row]]
              /\ UNCHANGED spent
  /\ UNCHANGED <<api, clock, queue>>

\* get_latest_for_group
IsLatest(a) ==
  /\ a \in analyses
  /\ \A b \in analyses : b.group = a.group => b.created_at <= a.created_at

\* A variant of Collect: the query for the latest analysis has no order.
CollectAny(w) ==
  /\ run[w].pc = "collect"
  /\ \E a \in analyses :
       /\ a.group = Group(w)
       /\ run' = [run EXCEPT ![w] = [@ EXCEPT !.pc = "call",
                                              !.latest = a.created_at,
                                              !.seen = a.status]]
  /\ UNCHANGED <<api, jobs, analyses, clock, queue, spent>>

\* Reads the logs and the latest analysis.  The job stays the copy of Begin;
\* the analysis that Begin added is not kept by the session and is read afresh.
Collect(w) ==
  /\ run[w].pc = "collect"
  /\ \E a \in analyses :
       /\ a.group = Group(w) /\ IsLatest(a)
       /\ run' = [run EXCEPT ![w] = [@ EXCEPT !.pc = "call",
                                              !.latest = a.created_at,
                                              !.seen = a.status]]
  /\ UNCHANGED <<api, jobs, analyses, clock, queue, spent>>

\* The provider's answer, or its failure, in one transaction: the analysis,
\* the progress (flushed and refreshed) and the final status of the job.
Conclude(w, analysis, success, failure) ==
  /\ run[w].pc = "call"
  /\ analyses' =
       {IF a.created_at = run[w].latest
        THEN [a EXCEPT !.status = Column(analysis, run[w].seen, @)]
        ELSE a : a \in analyses}
  /\ jobs' = [jobs EXCEPT ![run[w].job] =
                MarkCompleted(Flush(UpdateProgress(run[w].loaded, 1, success,
                                                   failure),
                                    run[w].loaded, @), analysis)]
  /\ run' = [run EXCEPT ![w].pc = "ack"]
  /\ UNCHANGED <<api, clock, queue, spent>>

\* A variant of Succeed: two items where total_items is one.
SucceedTwice(w) == Conclude(w, "completed", 2, 0)

Succeed(w) == Conclude(w, "completed", 1, 0)

\* The provider raised: the failure is recorded, and the task ends normally.
RecordFailure(w) == Conclude(w, "failed", 0, 1)

\* An exception leaves the task.
Fault(w) ==
  /\ run[w].pc \in {"load", "mark", "collect", "call"}
  /\ spent.faults < MaxFaults
  /\ spent' = [spent EXCEPT !.faults = @ + 1]
  /\ run' = [run EXCEPT ![w].pc = AfterFault(w)]
  /\ UNCHANGED <<api, jobs, analyses, clock, queue>>

Republish(w) ==
  /\ run[w].pc = "republish"
  /\ Send([Message(w) EXCEPT !.retries = @ + 1])
  /\ run' = [run EXCEPT ![w].pc = "ack"]
  /\ UNCHANGED <<api, jobs, analyses, clock, spent>>

Ack(w) ==
  /\ run[w].pc = "ack"
  /\ run' = [run EXCEPT ![w] = IdleRun]
  /\ UNCHANGED <<api, jobs, analyses, clock, queue, spent>>

\* A variant of WorkerCrash: messages were acknowledged on receipt.
WorkerCrashEarlyAck(w) ==
  /\ run[w].pc # "idle"
  /\ spent.crashes < MaxCrashes
  /\ spent' = [spent EXCEPT !.crashes = @ + 1]
  /\ run' = [run EXCEPT ![w] = IdleRun]
  /\ UNCHANGED <<api, jobs, analyses, clock, queue>>

\* The worker process is lost: its unacknowledged message is requeued.
WorkerCrash(w) ==
  /\ run[w].pc # "idle"
  /\ spent.crashes < MaxCrashes
  /\ spent' = [spent EXCEPT !.crashes = @ + 1]
  /\ Send(Message(w))
  /\ run' = [run EXCEPT ![w] = IdleRun]
  /\ UNCHANGED <<api, jobs, analyses, clock>>

\* The broker's visibility timeout passes while the task runs.
Redeliver(w) ==
  /\ run[w].pc # "idle"
  /\ spent.redeliveries < MaxRedeliveries
  /\ spent' = [spent EXCEPT !.redeliveries = @ + 1]
  /\ Send(Message(w))
  /\ UNCHANGED <<api, jobs, analyses, clock, run>>

-----------------------------------------------------------------------------

WorkerStep(w) ==
  \/ Receive(w) \/ Load(w) \/ Begin(w) \/ Collect(w) \/ Succeed(w)
  \/ RecordFailure(w) \/ Republish(w) \/ Ack(w)

ApiStep(r) == Lookup(r) \/ Insert(r) \/ Publish(r)

Disturbance ==
  \/ \E r \in Requests : PublishFails(r)
  \/ \E w \in Workers : Fault(w) \/ WorkerCrash(w) \/ Redeliver(w)

Next ==
  \/ \E r \in Requests : ApiStep(r)
  \/ \E w \in Workers : WorkerStep(w)
  \/ Disturbance

Spec == Init /\ [][Next]_vars

\* A worker process that is up goes on, and the provider call returns or
\* times out.  Nothing is assumed of clients, faults or crashes.
FairSpec == Spec /\ \A w \in Workers : WF_vars(WorkerStep(w))

-----------------------------------------------------------------------------
(* Properties *)

TypeOK ==
  /\ api \in [Requests -> {"lookup", "insert", "publish", "accepted",
                           "conflict", "error"}]
  /\ jobs \in [Requests -> Row(1)]
  /\ \A a \in analyses : a \in Analyses
  /\ clock \in Nat
  /\ queue \in [Messages -> Nat]
  /\ run \in [Workers -> Runs]
  /\ \A w \in Workers : run[w].pc # "idle" => run[w].job \in Requests
  /\ spent \in [faults : Nat, refusals : Nat, crashes : Nat, redeliveries : Nat]

\* At most one job of a group is pending or running, also when a delivery of
\* a failed job takes it up again while a newer job of the group is active.
OneActiveJobPerGroup ==
  \A g \in Groups : Cardinality(ActiveJobs(g)) <= 1

\* A message of the job waits, or an execution that will go on with it is
\* under way.
Carried(r) ==
  \/ \E m \in Messages : m.job = r /\ queue[m] > 0
  \/ \E w \in Workers :
       /\ run[w].job = r
       /\ run[w].pc \in {"load", "mark", "collect", "call", "republish"}

\* Each fault and each refusal by the unique index takes one retry.
RetriesSuffice == spent.faults + spent.refusals <= MaxRetries

\* An accepted job that is still active is carried, so the group it locks is
\* not locked for ever, unless its retries were used up.
ActiveJobsAreCarried ==
  \A r \in Requests :
    /\ api[r] = "accepted" /\ jobs[r].status \in ActiveStatuses
    /\ RetriesSuffice
    => Carried(r)

\* No execution of job r has found it unfinished and is still going to write.
Quiet(r) ==
  \A w \in Workers : run[w].job = r => run[w].pc \notin {"mark", "collect", "call"}

CompletedForGood(r) == jobs[r].status = "completed" /\ Quiet(r)

\* A completed job on which nobody works is not taken up again by a later
\* delivery and its row stays as it is.
CompletedIsFinal ==
  [][\A r \in Requests :
       CompletedForGood(r) => CompletedForGood(r)' /\ jobs'[r] = jobs[r]]_vars

\* When no job of a group is active or being run, the analysis that readers
\* get is settled, and it says what its job says.  True of deliveries that do
\* not overlap.
LatestAnalysisMatchesJob ==
  \A a \in analyses :
    /\ IsLatest(a)
    /\ ActiveJobs(a.group) = {}
    => a.status = jobs[a.job].status

\* Every accepted job ends up finished for good, unless the retries were used
\* up, so the group it locks is free again.
AcceptedJobsFinish ==
  <>[](\A r \in Requests : api[r] = "accepted" /\ RetriesSuffice =>
         jobs[r].status \in TerminalStatuses)

=============================================================================
