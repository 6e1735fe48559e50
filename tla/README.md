# LogLens API: TLA+ models, model checks and proofs

LogLens collects logs over HTTP, groups errors by fingerprint, and runs
background jobs (bulk ingestion, AI analysis of an error group, cleanup of old
logs, analytics). The API processes (FastAPI) and the worker processes (Celery)
share PostgreSQL, and Redis as broker, cache and store of the login counters.
This directory holds TLA+ models of the parts of it in which several processes
meet, the TLC runs that check them on small instances, and theorems about them
that TLAPS checks for every value of the constants.

`PROJECT.json` lists the components, the runs, a mutant for every property
(a variant of one definition, as a plausible bug would have it, which TLC must
find to violate the property), the source lines of every definition, the
divergences found, and the hazards.

To check a run: `tlc -config BulkConcurrent.cfg MCBulkIngestion`; to check the
proofs: `tlapm BulkIngestionProofs.tla`.

## 1. Inventory

Paths are under `src/app/`.

### Background job table (`services/jobs.py`, `repositories/background_job.py`)
- *State*: rows of `background_jobs`: status, `started_at`, `completed_at`,
  three counters, idempotency key, scope key.
- *Operations*: look up by key, look up active by scope, insert, `mark_running`,
  `update_progress`, `mark_completed`, `mark_failed`.
- *Interactions*: the API inserts rows, workers write them, both through ORM
  copies. Two partial unique indexes (key; scope while pending or running),
  which only the migration creates, back the look-ups.
- *Hard*: check-then-insert races; a worker's copy of the row gets stale, and a
  flush writes only the columns it has changed.
- *Correct when*: one key gives one job; one scope has one active job; the
  status says what happened.

### Bulk ingestion (`api/routes/logs.py`, `services/logs.py`, `workers/tasks/log_tasks.py`)
- *State*: the request's handler, the queue, a worker's execution, the logs
  stored for each job.
- *Operations*: accept (look up, insert and commit, publish); execute (load,
  mark running, one transaction per item with a savepoint around the insert,
  finish); retry.
- *Interactions*: the API publishes the job id after the commit; Celery delivers
  it at least once (`task_acks_late`, `task_reject_on_worker_lost`, Redis
  visibility timeout) and `LoggedTask` retries up to five times.
- *Hard*: executions of a job that overlap; a crash between two items; a publish
  that fails after the commit; exhausted retries.
- *Correct when*: completed means stored; nothing accepted is forgotten; a
  finished job is left alone.

### Error-group analysis (`services/analysis.py`, `workers/tasks/analysis_tasks.py`)
- *State*: the job row with its scope, rows of `error_analyses`.
- *Operations*: accept with a scope check; mark running and add a pending
  analysis; collect logs and the latest analysis; call the provider; write the
  outcome.
- *Hard*: all of the above, and: a failed job may be taken up again while a newer
  job of the group is active; the analysis that is written is "the latest",
  ordered by the time its transaction began.
- *Correct when*: one active job per group; no group is locked for ever; a
  completed job has its analysis.

### Log store, error groups, cleanup (`services/logs.py`, `repositories/error_group.py`, `services/error_groups.py`, `workers/tasks/cleanup_tasks.py`)
- *State*: rows of `logs` and `error_groups`.
- *Operations*: ingest (upsert of the group, insert of the log), delete a log,
  set status, set assignee, clean up in batches.
- *Hard*: overlapping upserts, rollbacks, two writers of one row, overlapping
  cleanups, crashes between batches, the boundary of the retention.
- *Correct when*: `occurrence_count` is exact, no answered change is lost,
  cleanup deletes all of what is due and nothing else, and ends.

### Login rate limit (`core/rate_limit.py`, `services/auth.py`)
- *State*: one Redis counter with an expiry per address and email.
- *Operations*: GET, INCR then EXPIRE, DEL, each a command of its own; a Redis
  error lets the login through.
- *Hard*: overlapping logins; a fault between INCR and EXPIRE.
- *Correct when*: the overshoot is bounded and a limit that was reached is
  lifted.

### Registration and user administration (`services/auth.py`, `services/users.py`, `repositories/user.py`)
- *State*: rows of `users`: email, password hash, role, `is_active`.
- *Operations*: register (look up, insert under the unique index of the email),
  set the role, set the status; a login reads the row.
- *Interactions*: what the row says decides which Redis command a login sends
  next.
- *Hard*: registrations of one email that overlap; a role and a status set from
  copies of the same row.
- *Correct when*: one registration wins and its password works; no answered edit
  is lost.

### Sessions (`services/auth.py`, `repositories/refresh_token.py`)
- *State*: rows of `refresh_tokens`, `users.is_active`.
- *Operations*: login, refresh (exchange, reuse detection), logout, logout-all,
  deactivate.
- *Hard*: calls that overlap between their reads and their commit; a mass
  revocation while refreshes add rows.
- *Correct when*: a family has one live token, or as many as refreshes of one
  token overlapped; a family that saw reuse is dead; an exchanged token stays
  recognisable; a logout-all leaves nothing live but what calls that overlapped it
  issued.

### Lists (`services/logs.py`, `services/error_groups.py`, `repositories/log.py`)
- *State*: none of their own; a client remembers which page it is on.
- *Operations*: count the matching rows, select a page by ORDER BY, LIMIT and
  OFFSET: two statements, two snapshots.
- *Interactions*: every writer of the store moves rows between pages.
- *Hard*: rows that come, go or change their sort key between count and page,
  and between pages.
- *Correct when*: a client misses or repeats no more rows than were written
  meanwhile, and none if nothing was.

### Analytics summary (`workers/tasks/analytics_tasks.py`, `services/analytics.py`)
- *State*: the figures that an execution has read so far; the Redis key with its
  expiry.
- *Operations*: eight statements, then SET with an expiry; a GET of the key by
  the API, which serves an empty summary when it is gone.
- *Hard*: figures read under different snapshots; retries; an expiry as long as
  the period of the schedule.
- *Correct when*: figures contradict each other by no more than was written
  meanwhile; a summary that expired is replaced.

### Fingerprints (`services/fingerprint.py`, `services/logs.py`)
- *State*: none of their own; a chain of substitutions on a text, then a hash of
  four texts joined by bars, which with service and environment is the key of a
  group.
- *Hard*: each substitution works on what the ones before it left; a bar may
  stand in any of the texts.
- *Correct when*: occurrences of an error that differ in incidental values get
  one fingerprint, words are kept, and different errors are not merged.

### Not modelled
- *Metrics, tracing, logging, Sentry*: not read by the program, and each process
  has its own (section 6 has the gauge of active jobs).
- *Routing, middleware, error envelopes, health checks, schemas*: no state.
- *Reading one log, group, job, user or analysis by id*: one statement.
- *Which of two overlapping summary executions is served*: they share nothing
  but the key, and nothing orders them.
- *AI providers, prompt*: input and output; the two outcomes are in
  `AnalysisJobs`.
- *Eager mode*: the task runs inside the request; used by tests.
- *Regular expressions, SHA-256*: `Fingerprint` has classes of tokens, and
  `Grouping` the text that is hashed.
- *Deployment, load tests, seed script, migrations* other than the indexes.

## 2. Modules

| module | models | extends / instantiates |
|---|---|---|
| `Orm` | one column of a flush by the ORM session | |
| `JobTable` | a row of `background_jobs` and the repository's writes | `Orm` |
| `BulkIngestion` | `POST /logs/bulk`, delivery, the bulk task | `JobTable`; instantiates `JobContract` |
| `JobContract` | what a reader of a bulk job's status may rely on | |
| `AnalysisJobs` | `POST /error-groups/{id}/analyze`, its task, the analyses | `JobTable` |
| `StoreRows` | a row of `logs` and of `error_groups`, and the upsert | |
| `CommittedStore` | what readers see of the two tables: whole transactions | `StoreRows` |
| `LogStore` | the transactions themselves: ingestion, patches, deletion, cleanup | `StoreRows`, `Orm`; instantiates `CommittedStore` |
| `Listing` | a client that goes through a list page by page | `CommittedStore` |
| `Summary` | the task that computes the analytics summary, and its cache | `CommittedStore` |
| `StoreReaders` | one of these two readers beside the writers of the store | `Listing`, `Summary` |
| `Fingerprint` | the substitutions on a message or a line of a trace | |
| `Grouping` | the text that is hashed, and which logs share a group by it | `Fingerprint` |
| `LoginRateLimit` | the Redis counter of failed logins | |
| `Accounts` | the row of a user: registration, role, status, and the logins | `LoginRateLimit`, `Orm` |
| `Sessions` | refresh tokens and their families | `Orm` |
| `MC...` | constants, symmetry, and properties taken from the documents | the module |
| `BulkIngestionProofs`, `AnalysisJobsProofs` | theorems | the module, `TLAPS` |
| `FingerprintProofs` | theorems about texts of any length | `Grouping`, `TLAPS` |
| `CommittedStoreProofs`, `SessionsProofs`, `AccountsProofs` | theorems; `AccountsProofs` has those about `LoginRateLimit` and its refinement | the module, `TLAPS` |
| `LogStoreProofs` | the refinement, and theorems | `LogStore`; instantiates `CommittedStoreProofs` |
| `StoreReadersProofs` | theorems about the readers | `StoreReaders`, `CommittedStoreProofs` |

One action is one database transaction, one read, one Redis command or one
message operation: what an `async` handler does between two of these is
invisible to other processes, and everything may happen between two actions.
Definitions named "a variant of" another are plausible bugs; no specification
uses them.

**`Orm`, `JobTable`.** A worker keeps a copy of the row. `Column` is what a
flush does to a column: it is written if the copy changed it since it was
loaded, and otherwise keeps what is in the table. `Flush` does that for a row.
`MarkRunning`, `UpdateProgress` and `MarkCompleted` are the repository's methods
on the copy. Timestamps are kept as "is set"; payload, task id and error summary
are left out.

**`BulkIngestion`.** `api[r]` is the handler of request `r`: `Lookup`, `Insert`
(with the unique index; the handler does not catch its error), `Publish`, or
`PublishFails`. `queue` counts the copies of each message, a job id with a retry
number. `run[w]` is the execution of worker `w`, with its copy of the row:
`Receive`, `Load` (return at once if the job is finished), `Start`
(`mark_running` and commit), `StoreItem` and `RejectItem` (one item, and the
progress, in one commit), `Finish`, and `Ack`. `Fault` is an exception that
leaves the task, after which `Republish` sends the message with the next retry
number, or the task ends for good. `WorkerCrash` returns the message to the
queue; `Redeliver` is the broker's visibility timeout. `stored[r][i]` counts the
commits that inserted item `i`.

**`AnalysisJobs`.** The same life, with a scope check in `Lookup` and `Insert`
and the partial unique index also in `Begin`, where taking up a failed job again
can be refused (`spent.refusals`). `clock` numbers the transactions, since
`created_at` is the time a transaction began and "latest" is decided by it.
`Collect` reads the latest analysis of the group, `Succeed` and `RecordFailure`
write the outcome into that one, and the job's row with it.

**`LogStore`.** `Persist` opens an ingestion: the upsert locks the row of the
group until `CommitLog` or `Rollback`. `LoadGroup` and `WriteGroup` are a PATCH
of status or assignee, from a copy. `StartCleanup`, `SelectBatch`, `DeleteBatch`
and `CleanupCrash` are the cleanup loop; `DeleteLog` is the admin's deletion.
Time passes by `Tick`. `Seen` and `View` say what of that a statement of another
transaction sees (read committed), and `KeepsCommittedView` that this changes as
`CommittedStore` allows.

**`CommittedStore`.** The store as its readers know it: `Ingest` (a log and its
count together), `DeleteLogs`, `SetStatus`, `Assign`.

**`StoreReaders`.** `CountRows` and `SelectPage` are the two statements of a page,
`Read` is one of the eight statements of the summary (`Statements` has them in
the order of the code), `Refresh` the SET, `Retry` an error or a lost worker,
`CacheAges` Redis's clock. `WriteMeanwhile` is a step of `CommittedStore` by
somebody else. The readers stand on `CommittedStore` and not on `LogStore`
because a statement never sees more of it; that it never does is what the
refinement says. Readers write no table, so each behaviour has one.
Of the filters time and status are modelled; severity, assignee, title and
exception type of a group change as well, and a row enters and leaves a list by
them as it does by its status.

**`Fingerprint`.** A text is a sequence of tokens, each of a class that the
patterns tell apart: a word, a label, a UUID, a hexadecimal number, a separator.
`Substitute` is `re.sub`; each step applies the next of the `Substitutions` of a
message or of a line of a trace, to a text and to its twin, which has other
values in the same places. `WordsSurvive` compares the words and small numbers of
a normalized text with those of its source, as sequences; only labelled numbers
and what may stand in the value of a request id are excepted.

**`Grouping`.** The message of a log goes through the passes of `Fingerprint`;
then `Persist` joins service, message, exception type and trace (`Join`), stores
the log with the result as its fingerprint, and the next message comes.
`Messages` bounds which messages belong to a log; the other messages and the lines
come alone, and only their normalization is followed. A bar may
stand in each of the texts, since the schema accepts any string. Exception types
and traces are taken as they are after `lower()` and normalization, which like
the substitutions neither add a bar nor remove one from a word. Two logs are in
one group (`InOneGroup`) if they agree in service and fingerprint; all are of one
environment.

**`LoginRateLimit`.** One key. `Check` is GET, `Increment` is INCR, `Expire` is
EXPIRE, `Clear` is DEL, `Tick` is Redis's own clock. `RedisError` lets a login
pass the check and loses the other commands; `Crash` loses the process.

**`Accounts`.** `CheckEmail` and `CreateUser` are a registration, `LoadUser` and
`WriteUser` a PATCH of role or status. `Verify` is where a login of
`LoginRateLimit` meets the row: no user, another password, inactive or good.

**`Sessions`.** A token is named by the call that issued it. `Refresh` and
`Logout` read the token's row, `ReadUser` the user's; `Rotate` revokes and
issues in one transaction; `FindFamily`, `FindAll` and `Revoke` are the
UPDATE of a mass revocation, which sees the rows committed when it began and
skips those revoked by the time it gets to them. `overlaps` is a history
variable: per call, the calls that were in progress at the same time. The
properties allow an anomaly only where such an overlap explains it. A refresh or
logout whose token was expired when it came is refused by its signature before a
row is read; that call changes nothing and is left out. `expired` in a row stands
for a token that expired after that check, and the model lets any token do so.

## 3. Properties and runs

Each run checks the type invariant of its module, where another does not have it
already. The runs, with distinct states:

| run | instance | states | shows |
|---|---|---|---|
| `bulk_concurrent` | 3 requests under one key (one with other logs), 2 items, 2 workers, 1 fault, 1 crash, 1 retry | 1.5 M | `IdempotentAcceptance`, `CompletedMeansStored`, `StoredOncePerDelivery`, `UnfinishedJobsAreCarried`, `SettledIsFinal` |
| `bulk_sequential` | 2 jobs, 2 items, 1 worker, 1 fault, 1 crash, 1 redelivery | 100 k | refinement `KeepsContract`, liveness `AcceptedJobsFinish` |
| `bulk_restart_violation` | 1 job, 2 items, 1 crash | | counterexample to `ItemsStoredOnce` |
| `analysis_concurrent` | 2 requests for one group, 2 workers, 1 fault, 1 crash, 1 redelivery | 1.3 M | `OneActiveJobPerGroup`, `ActiveJobsAreCarried`, `CompletedIsFinal` |
| `analysis_sequential` | the same with 1 worker | 57 k | `LatestAnalysisMatchesJob`, liveness `AcceptedJobsFinish` |
| `analysis_overwrite_violation` | 2 jobs, 2 workers, 1 crash | | counterexample to `AnalysisOutputPersists` |
| `store_ingestion` | 4 ingestions, 3 into one group, 2 patches, deletions | 436 k | `CountIsOccurrences`, `PatchesSurvive`, refinement `KeepsCommittedView` |
| `store_cleanup` | 3 logs, batches of 2, 2 cleanups, 1 crash, clock to 2 | 481 k | `CleanupIsComplete`, `CleanupSparesRecent`, `ReportIsBounded` |
| `store_readers` | 3 logs in 2 groups, 6 queries, pages of 1, 2 writes while a client reads, 1 while the task does, 1 fault | 900 k | `PagingIsBounded`, `PageFitsTotal`, `FiguresAgree`, liveness `SummaryReturns` |
| `fingerprint` | messages of up to 5 tokens, lines of up to 4, of 7 kinds; 2 logs with messages of up to 2 tokens, 3 exception types, 3 traces, bars in all | 1.8 M | `ValuesDoNotSplit`, `WordsSurvive`, `OnlyBarsMerge` |
| `accounts` | 2 registrations of one email, 2 edits, 3 logins, limit 2, window 2, 2 faults | 194 k | `RegisteredPasswordWorks`, `EditsSurvive`, `OvershootIsBounded`, liveness `LockoutEndsWithoutFaults` |
| `sessions` | 4 calls, 2 of them overlapping, 2 users | 553 k | `ReplacementIsIssued`, `RevocationIsComplete`, `ReuseStaysDetectable`, `LiveTokensAreForks`, `ReusedFamilyIsDead` |

**Why one worker and two.** The code takes no lock on a job, and two executions
of one job may overlap after a redelivery. Some things hold all the same
(completed means stored); others do not, and are claimed only for executions
that do not overlap, which is what one worker process gives: a status that only
moves forward (`KeepsContract`), an analysis that says what its job says. Stating
them for two workers would be false: the slower execution, with the pending row
as its copy, sets a finished job back to running.

**Why the bounds are enough.** Two executions are what it takes to overlap, two
items what it takes to stop in the middle, one key with three requests what it
takes for a repeat and a conflict to race with an insert. One disturbance of
each kind gives a first delivery, one that is cut short, and one that meets its
result. Three logs with batches of two give a full and a partial batch. Pages of
one row put a boundary between any two rows, so a row may cross it both ways; two
groups are what it takes to change places. Two writes while a client reads are a
row that leaves before it is met and one that enters. The store that a reader
finds is not bounded by them: it is any that writers can make of three logs. Five
tokens are a label, its separators and value, and what follows; the kinds that
are left out (timestamp, date, email, address) are replaced as UUIDs are. A bar
may be any of the tokens; two tokens are a bar and a word beside it, which is what
a collision takes. Four
calls are a login, two refreshes of its token and one more call. Where theorems
say the same for every value of the constants (section 5), the bounds are of no
consequence.

**Bounded, not forbidden.** Lists and the summary read without a common snapshot,
so skipped rows, repeated rows and figures that disagree are what the code does.
`PagingIsBounded`, `PageFitsTotal` and `FiguresAgree` say how far: each anomaly is
paid for by a write that somebody made meanwhile. That is what fails when the
order of a list is not total, an offset is off by one, or a statement counts its
24 hours from another moment. In the same way `LiveTokensAreForks` allows a
second live token of a family only for a refresh that overlapped another of the
same token. `RevocationIsComplete` and `ReusedFamilyIsDead` allow a live token
only where a call that overlapped the revocation issued one: an UPDATE does not
see what another transaction commits after it has begun. `OnlyBarsMerge` allows
two errors in one group only if a bar stands in the message or exception type of
one of them.

**Deadlock** is checked in `store_cleanup`, `sessions` and `accounts`. The other
instances have finite sets of requests, logs or tokens, which are served in the
end; there the system really stops.

**Symmetry** is used in runs without liveness only, over identifiers that no
definition tells apart. `sessions` has none over users, of which one is chosen
for rows that are not there.

## 4. Fairness

`AcceptedJobsFinish` assumes weak fairness of each worker's steps: a process
that is up takes a waiting message and goes on with its task (Celery's loop), and
the provider call returns or times out (its client has a timeout). Clients need
not call, faults and crashes need not happen, and the budgets bound how many do.
It does not claim that a job is finished whose publish failed, nor one whose
retries were used up.

`SummaryReturns` assumes weak fairness of the task's own steps: beat goes on
sending it, and a worker that has begun goes on with its statements. Writers,
faults and the expiry of the key are not fair; faults are bounded by their budget.

`LockoutEndsWithoutFaults` assumes that time passes in Redis and that a login
which has reached a command gets it done; nobody has to log in again.


## 5. Proofs

All theorems hold for every value of the constants within the named assumptions
of the modules: sentinels differ from the values beside them (`RequestsAssumption`,
`RowsAssumption`), a bulk request has an item (`NumItemsAssumption`, the schema's
`min_length`), budgets are naturals (`BudgetAssumption`), logins and logs are
finitely many (`ClientsAssumption`, `RowsAssumption`), `NoToken` is no call and
there is a user (`CallsAssumption`), the limit, the window and
the batch size are positive (`SettingsAssumption`), a patch names a group, a
column and a value of it (`PatchesAssumption`), ids tell the rows of a table
apart and a page has a row (`ListingAssumption`, `SummaryAssumption`). Two
theorems have a hypothesis of their own, `OneWorker`: executions do not overlap.
It is the claim's condition and not a convenience of the proof; section 3 has
what goes wrong with two.

`BulkIngestionProofs`:
- `TypeCorrect`. `TypeOK` is not inductive: that counters stay within the number
  of items needs `Tally` (an execution has stored or rejected each item it has
  done), and that a retried message is a message needs `RetriesLeft`. `TypeInv`
  is the three together; every later proof starts from it.
- `CompletedJobsAreStored`. The status can become completed only by a flush of an
  execution that rejected nothing, or by staying what it is, so the invariant is
  that such an execution has stored each item it has done (`DoneItemsStored`).
  Nothing is said of the row's counters: with overlapping executions they may be
  a mixture, and the theorem does not depend on them.
- `AcceptanceIsIdempotent` and `MessagesAreOfCommittedJobs`, from
  `AcceptanceInv`: the answer of a request is a committed job with its key and
  logs (`Answered`), keys are unique in the table (`UniqueKeys`), an id that is
  not inserted yet is not there (`FreshIds`), and messages and executions name
  rows of the table.
- `FinishedJobsAreLeftAlone`, an action property. A bulk job is never marked
  failed (`NeverFailed`), so each finished one is short-circuited by `Load`
  (`QuietStep`), and only a writing execution touches its row and logs
  (`SettledStep`).
- `UnfinishedJobsStayCarried`. It is not enough that the job has an execution:
  the copy which that has of the row must say unfinished, or its last flush would
  leave the status alone (`Carries`). And a message may be dropped for want of
  retries, so the invariant counts that every retry on the way was caused by a
  fault (`RetriesAreFaults`).
- `ItemsAreStoredOncePerDelivery`. `Explained` is a balance for each item: the
  times it was stored, the copies of the job that are under way, and the
  executions that have the item before them, are together no more than the
  acceptances and the disturbances. Each step moves weight within the left side,
  or adds one to both sides.
- `OneWorkerKeepsContract`, the refinement of `JobContract`. With one worker its
  copy of the row is the row (`CopyIsCurrent`), so a flush writes what the
  execution means; each step of the module is a step of the contract or a
  stutter.

`AnalysisJobsProofs`:
- `TypeCorrect`, inductive together with `RetriesLeft`.
- `OneJobPerGroup`. The invariant is `UniqueActive`, the unique index stated
  without counting: two active rows of one group are the same row. A row becomes
  active only where no other of its group is (`OneMoreActive`): by an insert, or
  when a failed job is taken up again and the index does not refuse it. The
  other write of a row gives it a final status.
- `CompletedJobsAreLeftAlone`. Rows are written by inserts and by executions past
  `Load` (`RowsWritten`), and `Load` is how an execution gets there
  (`EntersWork`), which a completed row does not let it. The invariant
  `KnownJobs` excludes that the id of a completed job is inserted again.
- `ActiveJobsStayCarried`, as for bulk jobs; a refusal by the unique index takes
  a retry like a fault (`RetriesAreTaken`).
- `OneWorkerLatestMatches`. No two analyses have one date (`Dated`), and from the
  commit that takes a job up to the one that concludes it, the job runs and its
  own pending analysis is the last of the table (`Begun`): so "the latest" is the
  one the execution added, which is what two workers break.

`CommittedStoreProofs`: `StoreTypeCorrect`, and `CountsMatchLogs`, inductive with
it: an ingestion adds one log and one count, and deletions keep a log among those
ever committed.

`LogStoreProofs`:
- `TypeCorrect`. `WriteInv` adds to `TypeOK` what the open transactions and the
  loaded copies have to do with the committed rows: one open ingestion per group
  (the lock), whose upsert is the committed row with one more count, and a patch
  that is to be written has found its group.
- `ImplementsCommittedStore`, the refinement: `NextImplementsWrite` maps each step
  to a step of `CommittedStore` or to a stutter. Committing an ingestion is
  `Ingest` because its upsert is current (`UpsertIsCounted`); writing a patch
  changes one column of the committed row, whatever was in the copy
  (`FlushWritesColumn`); a batch of which nothing is left is a stutter. `Store`
  and `Committed` are the same specification, with and without its lemmas
  (`SameSpecification`).
- `CountsAreOccurrences` follows from the refinement and `CountsMatchLogs`: the
  abstract invariant becomes one of the detailed specification.
- `AnsweredPatchesSurvive`. `TriageInv` says that the committed column of a patch
  that is alone on it is still the one in its copy until it writes, since commits
  keep the other columns of a group that is there (`CommitKeepsColumns`).
- For any number of overlapping cleanups: `RecentLogsAreSpared`,
  `CleanupEndsComplete` and `CleanupReportIsBounded`, from `CleanupInv`. Its
  heart is that a log that was committed keeps its timestamp and does not come back (`LogsAge`), so whatever an execution has chosen stays past
  its retention while others delete it (`OldStaysOld`, `OthersKeepInv`). The
  report is bounded because what an execution has counted is a set of logs that
  are gone, apart from the batch it is about to delete (`ReportedIsGone`).

`AccountsProofs`, about `LoginRateLimit` first:
- `TypeInvariant`, `NoStrayExpiry` (there is no expiry without a key) and
  `ExpiryIsComing` (without faults a key without an expiry is about to get one),
  each inductive together with the type invariant.
- `OvershootBound`, whose step case weighs what a failure adds to the counter
  against the login it takes out of `Admitted`, by lemmas on cardinalities.
- `AccountsKeepTheLimit`: `Accounts` implements `LoginRateLimit`, the row only
  deciding which of its outcomes a login has. `AccountsOvershootBound` follows.
- `AccountsTypeInvariant`, `EditsAreKept` and `RegisteredCanLogIn`, from
  `AccountsInv`: a row that exists has the password of the registration that won
  (`RowIsOwned`), and the column that an edit has loaded is still the committed
  one until it writes, the other column being none of its flush (`EditsKeepUp`,
  `WriteEffect`).

`SessionsProofs`, for any number of calls that overlap in any way:
- `TypeCorrect`, `ExchangesAreRecorded` and `ReuseIsNotForgotten`, from
  `SessionInv`. What a call has copied of its token goes stale, and the proof
  says what of it does not: user, family, expiry (`CopyHolds`), and that a call
  which is about to exchange or revoke has a copy without a replacement
  (`UnspentCopy`), so that its flush cannot write an older one. A call that has
  issued a token is over (`IssuersAreDone`), so no row is added twice.
  `RowsAge` says what any step leaves of a row.
- `ReuseKillsTheFamily`. The invariant follows the family through the detection.
  While the UPDATE waits, each live token of the family has been found by it or
  is of a call that overlaps it (`DetectionReaches`); once it is over, a live
  token, or a refresh that is still to add one, has an excuse among the calls
  that overlapped (`DetectionHolds`). Two calls in progress know of each other
  (`CallsHaveMet`), and a family is named by a token that is in the table, so a
  later login does not revive it (`FamiliesHaveBegun`).
- `MassRevocationIsComplete`, on top of that: while the UPDATE of a logout-all
  waits, each live token of its user has been found by it or is of a call that
  overlaps it (`UserIsReached`); its last step revokes what was found. No row
  becomes live again, since a flush of a copy writes no column back to NULL.
- `LiveTokensComeFromOverlaps`. A family is a tree, an exchanged token having
  below it those issued for it (`FamilyTree`), and only leaves are live. A new
  token takes the place of its parent among the leaves, or joins siblings, and
  then all of these overlapped (`SiblingsHaveMet`); so there are no more leaves
  than forks (`LeavesAreForks`). The property alone is not inductive, since a
  leaf that is revoked still has to be counted.

`StoreReadersProofs`, for any rows, queries, page sizes and writes:
- `ReadersUseTheStore`: the readers beside the writers implement `CommittedStore`,
  whose theorems hold here too.
- `PagesMissLittle`. What was read is the first rows of a list by its order
  (`First`), and a write that takes rows out of the list, adds some and moves some
  changes this part by no more than these (`FirstChanges`). `PagingInv` keeps the
  account: lasting rows that came into the part that was read without having been
  shown (`Missed`), and shown rows that were pushed out of it and will be shown
  again (`Pushed`).
- `PagesFitTotals`, from `TotalIsNear`: between the count and the SELECT the total
  is off by the rows that came or went; and from `PagesReachTotal`, the arithmetic
  of the last page.
- `ReadersTypeCorrect`.
- `FiguresAgreeNearly`. `FiguresInv` has a part for each figure that was read: how
  far it is from what its statement would return now (`TotalHolds` and so on).
  Writes move the figures by the rows they change (`WritesMoveFigures`). The sum
  of a breakdown is the number of logs that it counts (`PartsAddUp`), and a sum of
  counts is at most their number times the first of the most frequent groups'
  (`SumBound`, `FirstIsMostFrequent`).
  The library's sum is a fold, which is defined by recursion on sets; that it adds
  up is proved by a least counterexample (`LeastNumber`, `SumsExist`), since the
  induction theorems cannot be applied.

`FingerprintProofs`, for messages and lines of any length and of any kinds of
token, and for any number of logs. `FingerprintAssumption` and
`GroupingAssumption` say only what type the constants have: all texts may have
bars, and `Messages` may be all messages there are.
- `OnlyBarsMergeErrors`. No substitution brings a bar into a text that has none
  (`ApplyTypeIn`, for the tokens without the bar), so a message without one is
  normalized to a text without one, which `LogsTell` keeps for every log that is
  stored. Two joined texts that are equal begin with the same service, that being
  in the key of the group, and a text without a bar ends where the next bar is
  (`BeforeBar`); so message and exception type are found in them again, and the
  rest is the trace (`JoinTells`).
- `WordsAreKept` and `ValuesStayTogether` are about one text on its way (`Spec`); in
  `GroupingSpec`, which the run checks, each message goes this way.
- `WordsAreKept`. `Tracks` says for every token of the text which token of the
  source it is, in order, and that no owed word is missing: one that is neither
  labelled nor in reach of a request label. It is not inductive alone. That a
  pattern takes a labelled number only, and not one that has come to stand behind
  a label, needs that neighbours of the text were neighbours in the source,
  except behind a placeholder (`Tight`); of this there remains, when the gaps have
  been collapsed, that a colon before a number was before it (`Loose`). Each
  substitution is shown to be `Harmless`.
- `ValuesStayTogether`. That a text and its twin become the same says nothing of
  them before, so the invariant `TwinInv` says how far they may differ on the way
  (`Twins`): the twin is the text with one space for each gap (`Aligned`), and
  where their tokens are not the same the text's `Awaits` a substitution that is
  left: it is a value that its own pattern will take, or it is claimed by the
  label, the request label, the frame or the colon before it. Each pattern matches
  in both texts at the same places (`EndsAgree`), puts the same there (`Mates`),
  and leaves what others await (`Carries`). This depends on the order of the
  substitutions, and `InOrderOf` is what it depends on: timestamps before dates,
  UUIDs before numbers, request ids before labels, both before colons, and gaps
  only when nothing but colons is left. In the end nothing is awaited and no gap
  is left, and twins without either are the same (`TwinnedAreSame`).
- `Substitute` is a recursive function on positions. That it has a value is
  proved from a least counterexample, and so is what it returns: a walk through
  the text that at each position keeps a token or takes a match (`Walks`). The
  library's induction theorems, which take an operator, are not needed.

Only model-checked: liveness (`AcceptedJobsFinish`, `LockoutEndsWithoutFaults`,
`SummaryReturns`), of which TLAPS proves none under fairness. Every safety
property that a passing run checks is a theorem.

## 6. Disagreements between the code and its documents

The first two have a run whose counterexample is the scenario; the others were
met while modelling.

1. `ARCHITECTURE.md:79` calls the processing of bulk chunks idempotent. An
   execution starts at the first item whatever was committed before, so a retry or
   a redelivery stores logs again and counts them again
   (`bulk_restart_violation`).
2. `README.md:236`: an analysis job that completes persists its output. A failed
   job that is delivered again, while another job of the group completes, can
   turn that job's completed analysis into a failed one, because the outcome is
   written into the latest analysis (`analysis_overwrite_violation`).
3. `tests/unit/test_fingerprint_service.py:57`: unrelated errors are separated.
   The four texts are joined with a bar, and a bar that is in them is not escaped
   (`services/fingerprint.py:86`; `schemas/log.py:17-22` accepts any string). The
   message `a` with the exception type `b|`, and the message `a|b` with none, are
   joined to the same text, get one fingerprint and are counted in one group. That
   is why `OnlyBarsMerge` has its exception; without it, the run `fingerprint` finds
   the collision.
4. `ARCHITECTURE.md:144` promises failure records when the retries are used up.
   `on_failure` only logs, and nothing calls `set_job_failed`; the job stays
   pending or running.
5. `core/exceptions.py:74` tells the client to try again later. When EXPIRE is
   lost after the first INCR the key never expires, and later failures do not
   repair it. That is why `LockoutEndsWithoutFaults` has its condition.
6. `ARCHITECTURE.md:160` has jobs go from pending over running to a final status.
   Of two overlapping executions the slower can set a finished job back to
   running, and a failed analysis job that is delivered again does so by design.
7. `services/jobs.py:51` refuses a request because a job is running. The job may
   have been committed and never published; then nothing runs, and its group is
   locked until someone edits the row.
8. `observability/metrics.py:60` describes a gauge of active jobs. The API process
   increases its own, the worker its own is decreased, and only the API's is
   served, so it never goes down.
9. `services/logs.py:192`: a client that stops after `total_pages` may miss a row
   that was inserted between the count and the page, although it is there when
   the page is read.
10. `services/fingerprint.py`: a request id that is a UUID has become `<uuid>`
   before its own pattern is tried and is normalized differently from others;
   `WordsSurvive` therefore excepts whatever the value of a request id may reach,
   not only what it takes. To normalize twice is not the same as once.

## 7. Plan

1. *Done*: all components that keep state, or read it in several statements;
   three refinements (`JobContract`, `CommittedStore`, `LoginRateLimit`), each
   proved; every safety property that a passing run checks, as a theorem.
2. *More of the system*: bulk ingestion composed with the log store, so that an
   item's savepoint and the group's lock meet; two executions of the summary that
   overlap, once it is decided which should be served.
