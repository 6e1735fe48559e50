---------------------------- MODULE BulkIngestion ----------------------------
(***************************************************************************)
(* POST /logs/bulk and the Celery task behind it: the API stores a job and *)
(* publishes its id; workers receive the id, store the job's log items one *)
(* transaction each, and record the outcome in the job's row.              *)
(*                                                                         *)
(* One action is one database transaction, one single read, or one message *)
(* operation: what runs between two of them is invisible to others.        *)
(* Delivery is at least once: a message is acknowledged after the task     *)
(* ends, returns to the queue when its worker dies, and may be delivered   *)
(* again while its first delivery is still being worked on.                *)
(***************************************************************************)
EXTENDS JobTable, FiniteSets

CONSTANTS
  Requests,       \* the POST calls; a job is named by the call that inserts it
  NoJob,          \* the job of a worker that holds no message
  Keys, NoKey,    \* idempotency keys, and a request without one
  KeyOf,          \* the key each request sends
  Bodies, BodyOf, \* the logs each request sends, as told apart by request_hash
  NumItems,       \* logs in a request
  Workers,        \* worker processes
  MaxRetries,     \* LoggedTask.max_retries
  MaxFaults, MaxCrashes, MaxRedeliveries  \* budgets of disturbances

ASSUME RequestsAssumption ==
  /\ NoJob \notin Requests
  /\ NoKey \notin Keys
  /\ KeyOf \in [Requests -> Keys \cup {NoKey}]
  /\ BodyOf \in [Requests -> Bodies]

\* BulkIngestRequest.logs has min_length 1.
ASSUME NumItemsAssumption == NumItems \in Nat \ {0}

ASSUME BudgetAssumption ==
  /\ MaxRetries \in Nat
  /\ MaxFaults \in Nat
  /\ MaxCrashes \in Nat
  /\ MaxRedeliveries \in Nat

VARIABLES
  api,        \* per request: where its handler is and the job it answers with
  jobs,       \* table background_jobs
  queue,      \* per message: how many copies wait for delivery
  run,        \* per worker: the task execution in progress
  stored,     \* per job and item: committed inserts of the item's log
  spent       \* faults, crashes and redeliveries so far

vars == <<api, jobs, queue, run, stored, spent>>

Items == 1..NumItems

\* A message carries the job id and the number of retries that led to it.
Messages == [job : Requests, retries : 0..MaxRetries]

ApiStates == [pc : {"lookup", "insert", "publish", "accepted", "conflict",
                    "error"},
              job : Requests]

\* idx, ok, bad: items done, stored and rejected by this execution.
Runs == [pc : {"idle", "load", "mark", "items", "republish", "ack"},
         job : Requests \cup {NoJob}, retries : 0..MaxRetries,
         loaded : Row(NumItems),
         idx : 0..NumItems, ok : 0..NumItems, bad : 0..NumItems]

IdleRun == [pc |-> "idle", job |-> NoJob, retries |-> 0,
            loaded |-> AbsentRow, idx |-> 0, ok |-> 0, bad |-> 0]

Init ==
  /\ api = [r \in Requests |-> [pc |-> "lookup", job |-> r]]
  /\ jobs = [r \in Requests |-> AbsentRow]
  /\ queue = [m \in Messages |-> 0]
  /\ run = [w \in Workers |-> IdleRun]
  /\ stored = [r \in Requests |-> [i \in Items |-> 0]]
  /\ spent = [faults |-> 0, crashes |-> 0, redeliveries |-> 0]

-----------------------------------------------------------------------------
(* The API process *)

\* The jobs in the table that carry the key of request r.
JobsWithKeyOf(r) ==
  {j \in Requests : /\ jobs[j].status # "absent"
                    /\ KeyOf[r] # NoKey
                    /\ KeyOf[j] = KeyOf[r]}

\* create_job's read by idempotency key: answer with the job found if it was
\* made from the same logs, refuse if it was not, else go on to insert.
Lookup(r) ==
  /\ api[r].pc = "lookup"
  /\ \/ /\ JobsWithKeyOf(r) = {}
        /\ api' = [api EXCEPT ![r].pc = "insert"]
     \/ \E j \in JobsWithKeyOf(r) :
          api' = [api EXCEPT ![r] =
                    IF BodyOf[j] = BodyOf[r]
                    THEN [pc |-> "publish", job |-> j]
                    ELSE [pc |-> "conflict", job |-> r]]
  /\ UNCHANGED <<jobs, queue, run, stored, spent>>

\* A variant of Insert: without the unique index.
InsertUnchecked(r) ==
  /\ api[r].pc = "insert"
  /\ jobs' = [jobs EXCEPT ![r] = PendingRow]
  /\ api' = [api EXCEPT ![r] = [pc |-> "publish", job |-> r]]
  /\ UNCHANGED <<queue, run, stored, spent>>

\* create_job's insert and commit.  A second row with the key violates the
\* unique index; the IntegrityError is not handled and becomes a 500.
Insert(r) ==
  /\ api[r].pc = "insert"
  /\ IF JobsWithKeyOf(r) = {}
     THEN /\ jobs' = [jobs EXCEPT ![r] = PendingRow]
          /\ api' = [api EXCEPT ![r] = [pc |-> "publish", job |-> r]]
     ELSE /\ api' = [api EXCEPT ![r].pc = "error"]
          /\ UNCHANGED jobs
  /\ UNCHANGED <<queue, run, stored, spent>>

Send(m) == queue' = [queue EXCEPT ![m] = @ + 1]

\* process_bulk_ingestion_job_task.delay: also for a job found by its key.
Publish(r) ==
  /\ api[r].pc = "publish"
  /\ Send([job |-> api[r].job, retries |-> 0])
  /\ api' = [api EXCEPT ![r].pc = "accepted"]
  /\ UNCHANGED <<jobs, run, stored, spent>>

\* The process dies or the broker refuses between the commit and the publish.
PublishFails(r) ==
  /\ api[r].pc = "publish"
  /\ spent.crashes < MaxCrashes
  /\ spent' = [spent EXCEPT !.crashes = @ + 1]
  /\ api' = [api EXCEPT ![r].pc = "error"]
  /\ UNCHANGED <<jobs, queue, run, stored>>

-----------------------------------------------------------------------------
(* A worker process *)

Message(w) == [job |-> run[w].job, retries |-> run[w].retries]

Receive(w) ==
  /\ run[w].pc = "idle"
  /\ \E m \in Messages :
       /\ queue[m] > 0
       /\ queue' = [queue EXCEPT ![m] = @ - 1]
       /\ run' = [run EXCEPT ![w] = [IdleRun EXCEPT !.pc = "load",
                                                    !.job = m.job,
                                                    !.retries = m.retries]]
  /\ UNCHANGED <<api, jobs, stored, spent>>

\* A variant of Load: a finished job is run again.
LoadAlways(w) ==
  /\ run[w].pc = "load"
  /\ run' = [run EXCEPT ![w] = [@ EXCEPT !.pc = "mark",
                                         !.loaded = jobs[run[w].job]]]
  /\ UNCHANGED <<api, jobs, queue, stored, spent>>

\* Reads the row.  A missing or completed job ends the task at once.
Load(w) ==
  /\ run[w].pc = "load"
  /\ LET row == jobs[run[w].job]
     IN  run' = [run EXCEPT ![w] =
                   IF row.status \in ShortCircuitStatuses \cup {"absent"}
                   THEN [@ EXCEPT !.pc = "ack"]
                   ELSE [@ EXCEPT !.pc = "mark", !.loaded = row]]
  /\ UNCHANGED <<api, jobs, queue, stored, spent>>

\* Worker w changes its copy of the row to new, flushes, refreshes, commits,
\* and goes on as state next.
Commit(w, new, next) ==
  LET row == Flush(new, run[w].loaded, jobs[run[w].job])
  IN  /\ jobs' = [jobs EXCEPT ![run[w].job] = row]
      /\ run' = [run EXCEPT ![w] = [next EXCEPT !.loaded = row]]

\* mark_running.  The execution always starts again at the first item.
Start(w) ==
  /\ run[w].pc = "mark"
  /\ Commit(w, MarkRunning(run[w].loaded),
            [run[w] EXCEPT !.pc = "items", !.idx = 0, !.ok = 0, !.bad = 0])
  /\ UNCHANGED <<api, queue, stored, spent>>

\* The progress update that ends the transaction of one item.
CommitItem(w, ok, bad) ==
  Commit(w, UpdateProgress(run[w].loaded, run[w].idx + 1, ok, bad),
         [run[w] EXCEPT !.idx = @ + 1, !.ok = ok, !.bad = bad])

\* _persist_log succeeds in its savepoint.
StoreItem(w) ==
  /\ run[w].pc = "items"
  /\ run[w].idx < NumItems
  /\ stored' = [stored EXCEPT ![run[w].job][run[w].idx + 1] = @ + 1]
  /\ CommitItem(w, run[w].ok + 1, run[w].bad)
  /\ UNCHANGED <<api, queue, spent>>

\* Variants of RejectItem: an item too many, and a failure counted as success.
RejectItemPastEnd(w) ==
  /\ run[w].pc = "items"
  /\ run[w].idx <= NumItems
  /\ CommitItem(w, run[w].ok, run[w].bad + 1)
  /\ UNCHANGED <<api, queue, stored, spent>>

RejectItemAsStored(w) ==
  /\ run[w].pc = "items"
  /\ run[w].idx < NumItems
  /\ CommitItem(w, run[w].ok + 1, run[w].bad)
  /\ UNCHANGED <<api, queue, stored, spent>>

\* _persist_log raises: the savepoint is rolled back, the failure recorded.
RejectItem(w) ==
  /\ run[w].pc = "items"
  /\ run[w].idx < NumItems
  /\ CommitItem(w, run[w].ok, run[w].bad + 1)
  /\ UNCHANGED <<api, queue, stored, spent>>

\* A variant of Outcome: without the special case.
OutcomeUnadjusted(ok, bad) == FinalStatus(ok, bad)

\* A bulk job whose items all failed is recorded as partially completed.
Outcome(ok, bad) ==
  LET status == FinalStatus(ok, bad)
  IN  IF status = "failed" THEN "partially_completed" ELSE status

Finish(w) ==
  /\ run[w].pc = "items"
  /\ run[w].idx = NumItems
  /\ Commit(w, MarkCompleted(run[w].loaded, Outcome(run[w].ok, run[w].bad)),
            [run[w] EXCEPT !.pc = "ack"])
  /\ UNCHANGED <<api, queue, stored, spent>>

\* A variant of Fault: autoretry_for does not cover the exception.
FaultNotRetried(w) ==
  /\ run[w].pc \in {"load", "mark", "items"}
  /\ spent.faults < MaxFaults
  /\ spent' = [spent EXCEPT !.faults = @ + 1]
  /\ run' = [run EXCEPT ![w].pc = "ack"]
  /\ UNCHANGED <<api, jobs, queue, stored>>

\* An exception leaves the task (the database is gone, say): the open
\* transaction is rolled back; the task is retried, or given up for good.
Fault(w) ==
  /\ run[w].pc \in {"load", "mark", "items"}
  /\ spent.faults < MaxFaults
  /\ spent' = [spent EXCEPT !.faults = @ + 1]
  /\ run' = [run EXCEPT ![w].pc =
               IF run[w].retries < MaxRetries THEN "republish" ELSE "ack"]
  /\ UNCHANGED <<api, jobs, queue, stored>>

\* A variant of Republish: the retry is published twice.
RepublishTwice(w) ==
  /\ run[w].pc = "republish"
  /\ queue' = [queue EXCEPT ![[Message(w) EXCEPT !.retries = @ + 1]] = @ + 2]
  /\ run' = [run EXCEPT ![w].pc = "ack"]
  /\ UNCHANGED <<api, jobs, stored, spent>>

\* Task.retry publishes the next attempt before the current one is
\* acknowledged.
Republish(w) ==
  /\ run[w].pc = "republish"
  /\ Send([Message(w) EXCEPT !.retries = @ + 1])
  /\ run' = [run EXCEPT ![w].pc = "ack"]
  /\ UNCHANGED <<api, jobs, stored, spent>>

Ack(w) ==
  /\ run[w].pc = "ack"
  /\ run' = [run EXCEPT ![w] = IdleRun]
  /\ UNCHANGED <<api, jobs, queue, stored, spent>>

\* A variant of WorkerCrash: messages were acknowledged on receipt.
WorkerCrashEarlyAck(w) ==
  /\ run[w].pc # "idle"
  /\ spent.crashes < MaxCrashes
  /\ spent' = [spent EXCEPT !.crashes = @ + 1]
  /\ run' = [run EXCEPT ![w] = IdleRun]
  /\ UNCHANGED <<api, jobs, queue, stored>>

\* The worker process is lost: its unacknowledged message is requeued.
WorkerCrash(w) ==
  /\ run[w].pc # "idle"
  /\ spent.crashes < MaxCrashes
  /\ spent' = [spent EXCEPT !.crashes = @ + 1]
  /\ Send(Message(w))
  /\ run' = [run EXCEPT ![w] = IdleRun]
  /\ UNCHANGED <<api, jobs, stored>>

\* The broker's visibility timeout passes while the message is being worked
\* on: it is put back in the queue and the worker does not notice.
Redeliver(w) ==
  /\ run[w].pc # "idle"
  /\ spent.redeliveries < MaxRedeliveries
  /\ spent' = [spent EXCEPT !.redeliveries = @ + 1]
  /\ Send(Message(w))
  /\ UNCHANGED <<api, jobs, run, stored>>

-----------------------------------------------------------------------------

ApiStep(r) == Lookup(r) \/ Insert(r) \/ Publish(r)

WorkerStep(w) ==
  \/ Receive(w) \/ Load(w) \/ Start(w) \/ StoreItem(w) \/ RejectItem(w)
  \/ Finish(w) \/ Republish(w) \/ Ack(w)

Disturbance ==
  \/ \E r \in Requests : PublishFails(r)
  \/ \E w \in Workers : Fault(w) \/ WorkerCrash(w) \/ Redeliver(w)

Next ==
  \/ \E r \in Requests : ApiStep(r)
  \/ \E w \in Workers : WorkerStep(w)
  \/ Disturbance

Spec == Init /\ [][Next]_vars

\* A worker process that is up goes on: it takes a waiting message and runs
\* the task to its end.  Nothing is assumed of clients, faults or crashes.
Fairness == \A w \in Workers : WF_vars(WorkerStep(w))

FairSpec == Spec /\ Fairness

-----------------------------------------------------------------------------
(* Properties *)

TypeOK ==
  /\ api \in [Requests -> ApiStates]
  /\ jobs \in [Requests -> Row(NumItems)]
  /\ queue \in [Messages -> Nat]
  /\ run \in [Workers -> Runs]
  /\ \A w \in Workers : run[w].pc # "idle" => run[w].job \in Requests
  /\ stored \in [Requests -> [Items -> Nat]]
  /\ spent \in [faults : Nat, crashes : Nat, redeliveries : Nat]

\* Requests that were answered with a job (or are about to be) and sent the
\* same idempotency key were answered with the same job, which is in the table
\* and was made from the same logs, however the calls interleaved: the lookup
\* of create_job, the unique index and the hash comparison together.
IdempotentAcceptance ==
  \A r, s \in Requests :
    /\ api[r].pc \in {"publish", "accepted"}
    /\ api[s].pc \in {"publish", "accepted"}
    => /\ jobs[api[r].job].status # "absent"
       /\ KeyOf[r] # NoKey /\ KeyOf[r] = KeyOf[s]
          => api[r].job = api[s].job /\ BodyOf[r] = BodyOf[s]

\* A message never names a job that is not committed: a worker cannot find
\* its job missing, because the API publishes after the commit.
MessagesNameCommittedJobs ==
  /\ \A m \in Messages : queue[m] > 0 => jobs[m.job].status # "absent"
  /\ \A w \in Workers : run[w].pc # "idle" => jobs[run[w].job].status # "absent"

\* A job reported as completed has every one of its items in the log table,
\* whatever was crashed, retried, redelivered or run twice at once (with the
\* column-wise merge of two workers' writes to the row).
CompletedMeansStored ==
  \A r \in Requests :
    jobs[r].status = "completed" => \A i \in Items : stored[r][i] > 0

\* No item is stored more often than the deliveries the disturbances explain:
\* one per accepted request, and one more per fault, crash or redelivery.
StoredOncePerDelivery ==
  \A r \in Requests, i \in Items :
    stored[r][i] <= Cardinality({s \in Requests : /\ api[s].pc = "accepted"
                                                  /\ api[s].job = r})
                      + spent.faults + spent.crashes + spent.redeliveries

\* An accepted job that is not finished is never forgotten: one of its messages
\* waits, or an execution that will go on with it is under way.  The faults must
\* not have used up the retries.
UnfinishedJobsAreCarried ==
  \A r \in Requests :
    /\ jobs[r].status \in ActiveStatuses
    /\ \E s \in Requests : api[s].pc = "accepted" /\ api[s].job = r
    /\ spent.faults <= MaxRetries
    => \/ \E m \in Messages : m.job = r /\ queue[m] > 0
       \/ \E w \in Workers : /\ run[w].job = r
                             /\ run[w].pc \in {"load", "mark", "items", "republish"}

\* No execution of job r has found it unfinished and is still going to write.
Quiet(r) ==
  \A w \in Workers : run[w].job = r => run[w].pc \notin {"mark", "items"}

Settled(r) == jobs[r].status \in TerminalStatuses /\ Quiet(r)

LeavesSettledAlone ==
  \A r \in Requests :
    Settled(r) => Settled(r)' /\ jobs'[r] = jobs[r] /\ stored'[r] = stored[r]

\* Once a job is finished and nobody works on it, later deliveries of its
\* messages change neither its row nor its logs.
SettledIsFinal == [][LeavesSettledAlone]_vars

\* Every accepted job ends up finished for good.  With faults no more than the
\* retries, since a task that used up its retries is not run again.
AcceptedJobsFinish ==
  <>[](\A r \in Requests : api[r].pc = "accepted" =>
         jobs[api[r].job].status \in TerminalStatuses)

-----------------------------------------------------------------------------
(* What readers of a job see *)

\* The items of each job that were stored at least once.
PresentItems == [r \in Requests |-> {i \in Items : stored[r][i] > 0}]

Contract == INSTANCE JobContract
              WITH Jobs <- Requests, Items <- Items, present <- PresentItems,
                   status <- [r \in Requests |-> jobs[r].status]

\* One worker process, which takes one message at a time, keeps the job
\* contract through crashes, retries and redeliveries: deliveries of one job
\* may repeat, but they do not overlap.
KeepsContract == Contract!Spec

=============================================================================
