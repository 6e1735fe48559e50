------------------------------ MODULE JobTable ------------------------------
(***************************************************************************)
(* The rows of table background_jobs and the writes that                   *)
(* BackgroundJobRepository makes to them.                                  *)
(*                                                                         *)
(* A worker holds a copy of the row (the ORM instance).  Every repository  *)
(* method flushes the copy and then refreshes it, which makes it equal to  *)
(* the row as this transaction sees it.                                    *)
(***************************************************************************)
EXTENDS Naturals, Orm

Statuses == {"absent", "pending", "running", "completed",
             "partially_completed", "failed"}

\* The statuses in which the unique index on the scope counts a job as active.
ActiveStatuses == {"pending", "running"}

TerminalStatuses == {"completed", "partially_completed", "failed"}

\* The statuses in which a worker returns without running the job.
ShortCircuitStatuses == {"completed", "partially_completed"}

\* Timestamps are kept as "is set"; the payload, the task id and the error
\* summary are left out.  A row with status "absent" is a row not inserted.
Row(N) == [status : Statuses, started : BOOLEAN, completed : BOOLEAN,
           processed : 0..N, success : 0..N, failure : 0..N]

RowWith(status) == [status |-> status, started |-> FALSE, completed |-> FALSE,
                    processed |-> 0, success |-> 0, failure |-> 0]

AbsentRow == RowWith("absent")

PendingRow == RowWith("pending")

Flush(new, loaded, current) ==
  [status    |-> Column(new.status, loaded.status, current.status),
   started   |-> Column(new.started, loaded.started, current.started),
   completed |-> Column(new.completed, loaded.completed, current.completed),
   processed |-> Column(new.processed, loaded.processed, current.processed),
   success   |-> Column(new.success, loaded.success, current.success),
   failure   |-> Column(new.failure, loaded.failure, current.failure)]

\* started_at is set only when the copy has none, so it is never moved.
MarkRunning(row) == [row EXCEPT !.started = TRUE, !.status = "running"]

UpdateProgress(row, processed, success, failure) ==
  [row EXCEPT !.processed = processed, !.success = success,
              !.failure = failure]

\* mark_completed, and mark_failed which is mark_completed with "failed".
MarkCompleted(row, status) ==
  [row EXCEPT !.status = status, !.completed = TRUE]

\* JobService.final_status.
FinalStatus(success, failure) ==
  IF failure = 0 THEN "completed"
  ELSE IF success = 0 THEN "failed"
  ELSE "partially_completed"

=============================================================================
