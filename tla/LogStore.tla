------------------------------ MODULE LogStore ------------------------------
(***************************************************************************)
(* Tables logs and error_groups, and who writes to them: an ingestion      *)
(* stores a log and counts it in its error group in one transaction; an    *)
(* admin deletes a log; a developer sets the status or the assignee of a   *)
(* group; the cleanup task deletes, batch by batch, what is past its       *)
(* retention.                                                              *)
(*                                                                         *)
(* An ingestion is two steps, since its upsert holds the row of the group  *)
(* until the commit.  The other transactions are one step after their read.*)
(***************************************************************************)
EXTENDS StoreRows, Orm

CONSTANTS
  Patches, PatchOf, \* the PATCH calls: which group, column and value
  Cleaners,         \* executions of the cleanup task that may overlap
  Retention,        \* log_retention_days
  BatchSize,        \* cleanup_batch_size
  MaxCrashes        \* budget of lost cleanup executions

PatchType ==
  [group : Groups, column : {"status"}, value : GroupStatuses \ {"absent"}]
  \cup [group : Groups, column : {"assigned"}, value : Users \cup {NoUser}]

ASSUME PatchesAssumption == PatchOf \in [Patches -> PatchType]

ASSUME SettingsAssumption ==
  /\ Retention \in Nat /\ BatchSize \in Nat \ {0}
  /\ MaxCrashes \in Nat

VARIABLES
  now,      \* the clock
  logs,     \* per log: what became of it, and its timestamp
  groups,   \* table error_groups, as committed
  upsert,   \* per log: the row of its group as its open transaction left it
  patch,    \* per PATCH call: where it is, and the copy of the row it loaded
  cleaner,  \* per cleanup execution: where it is
  crashes

vars == <<now, logs, groups, upsert, patch, cleaner, crashes>>

LogStates == [state : {"new", "open", "stored", "failed", "deleted", "expired"},
              timestamp : Times]

\* due and removed only serve the properties: the logs past their retention
\* when the execution began, and those that it deleted.
CleanerStates == [pc : {"idle", "select", "delete", "done"}, began : Times,
                  batch : SUBSET Logs, deleted : Nat,
                  due : SUBSET Logs, removed : SUBSET Logs]

IdleCleaner == [pc |-> "idle", began |-> 0, batch |-> {}, deleted |-> 0,
                due |-> {}, removed |-> {}]

Init ==
  /\ now = 0
  /\ logs = [l \in Logs |-> [state |-> "new", timestamp |-> 0]]
  /\ groups = [g \in Groups |-> AbsentGroup]
  /\ upsert = [l \in Logs |-> AbsentGroup]
  /\ patch = [p \in Patches |-> [pc |-> "load", loaded |-> AbsentGroup]]
  /\ cleaner = [c \in Cleaners |-> IdleCleaner]
  /\ crashes = 0

Tick ==
  /\ now < MaxTime
  /\ now' = now + 1
  /\ UNCHANGED <<logs, groups, upsert, patch, cleaner, crashes>>

-----------------------------------------------------------------------------
(* Ingestion *)

\* An open transaction has written the row of the group: other writers wait.
Locked(g) ==
  g # NoGroup /\ \E l \in Logs : logs[l].state = "open" /\ GroupOf[l] = g

\* A variant of Persist: the count is computed from a row read without a lock.
PersistUnlocked(l) ==
  /\ logs[l].state = "new"
  /\ \E t \in Times :
       /\ logs' = [logs EXCEPT ![l] = [state |-> "open", timestamp |-> t]]
       /\ upsert' = IF GroupOf[l] = NoGroup THEN upsert
                    ELSE [upsert EXCEPT ![l] = Counted(groups[GroupOf[l]], t)]
  /\ UNCHANGED <<now, groups, patch, cleaner, crashes>>

\* _persist_log: the upsert of the group, then the insert of the log.
Persist(l) ==
  /\ logs[l].state = "new"
  /\ ~ Locked(GroupOf[l])
  /\ \E t \in Times :
       /\ logs' = [logs EXCEPT ![l] = [state |-> "open", timestamp |-> t]]
       /\ upsert' = IF GroupOf[l] = NoGroup THEN upsert
                    ELSE [upsert EXCEPT ![l] = Counted(groups[GroupOf[l]], t)]
  /\ UNCHANGED <<now, groups, patch, cleaner, crashes>>

CommitLog(l) ==
  /\ logs[l].state = "open"
  /\ logs' = [logs EXCEPT ![l].state = "stored"]
  /\ groups' = IF GroupOf[l] = NoGroup THEN groups
               ELSE [groups EXCEPT ![GroupOf[l]] = upsert[l]]
  /\ UNCHANGED <<now, upsert, patch, cleaner, crashes>>

\* The insert, the commit or the process fails: all of it is rolled back.
Rollback(l) ==
  /\ logs[l].state = "open"
  /\ logs' = [logs EXCEPT ![l].state = "failed"]
  /\ UNCHANGED <<now, groups, upsert, patch, cleaner, crashes>>

\* A variant of DeleteLog: the log is taken off the count of its group.
DeleteAndUncount(l) ==
  /\ logs[l].state = "stored"
  /\ logs' = [logs EXCEPT ![l].state = "deleted"]
  /\ groups' = IF GroupOf[l] = NoGroup THEN groups
               ELSE [groups EXCEPT ![GroupOf[l]].count = @ - 1]
  /\ UNCHANGED <<now, upsert, patch, cleaner, crashes>>

\* DELETE /logs/{id}.  The group keeps its count.
DeleteLog(l) ==
  /\ logs[l].state = "stored"
  /\ logs' = [logs EXCEPT ![l].state = "deleted"]
  /\ UNCHANGED <<now, groups, upsert, patch, cleaner, crashes>>

-----------------------------------------------------------------------------
(* Triage: PATCH /error-groups/{id}/status and /assignment *)

LoadGroup(p) ==
  /\ patch[p].pc = "load"
  /\ LET row == groups[PatchOf[p].group]
     IN  patch' = [patch EXCEPT ![p] =
                     [pc |-> IF row.status = "absent" THEN "missing" ELSE "write",
                      loaded |-> row]]
  /\ UNCHANGED <<now, logs, groups, upsert, cleaner, crashes>>

\* A variant of FlushGroup: the UPDATE writes every column of the copy.
FlushWholeRow(new, loaded, current) == new

FlushGroup(new, loaded, current) ==
  [column \in DOMAIN current |->
     Column(new[column], loaded[column], current[column])]

\* A variant of WriteGroup: both endpoints write the assignee.
WriteAssignee(p) ==
  /\ patch[p].pc = "write"
  /\ ~ Locked(PatchOf[p].group)
  /\ groups' = [groups EXCEPT ![PatchOf[p].group].assigned = PatchOf[p].value]
  /\ patch' = [patch EXCEPT ![p].pc = "done"]
  /\ UNCHANGED <<now, logs, upsert, cleaner, crashes>>

\* update_status, update_assignment: flush and commit, once the row is free.
WriteGroup(p) ==
  /\ patch[p].pc = "write"
  /\ LET g == PatchOf[p].group
         new == [patch[p].loaded EXCEPT ![PatchOf[p].column] = PatchOf[p].value]
     IN  /\ ~ Locked(g)
         /\ groups' = [groups EXCEPT ![g] = FlushGroup(new, patch[p].loaded, @)]
  /\ patch' = [patch EXCEPT ![p].pc = "done"]
  /\ UNCHANGED <<now, logs, upsert, cleaner, crashes>>

-----------------------------------------------------------------------------
(* The cleanup task *)

\* A variant of PastRetention: a log goes at the end of its retention, not after.
AtRetention(t) ==
  {l \in Logs : logs[l].state = "stored" /\ logs[l].timestamp + Retention <= t}

\* Log.timestamp < threshold, for an execution that began at time t.
PastRetention(t) ==
  {l \in Logs : logs[l].state = "stored" /\ logs[l].timestamp + Retention < t}

\* A dry run, which only counts, changes nothing and is left out.
StartCleanup(c) ==
  /\ cleaner[c].pc \in {"idle", "done"}
  /\ cleaner' = [cleaner EXCEPT ![c] =
                   [IdleCleaner EXCEPT !.pc = "select", !.began = now,
                                       !.due = PastRetention(now)]]
  /\ UNCHANGED <<now, logs, groups, upsert, patch, crashes>>

\* Reads the ids of a batch, or ends when there are none.  Which of the ids
\* come first is left open.
SelectBatch(c) ==
  /\ cleaner[c].pc = "select"
  /\ LET found == PastRetention(cleaner[c].began)
         size  == IF Cardinality(found) < BatchSize THEN Cardinality(found)
                  ELSE BatchSize
     IN  IF found = {}
         THEN cleaner' = [cleaner EXCEPT ![c].pc = "done"]
         ELSE \E ids \in SUBSET found :
                /\ Cardinality(ids) = size
                /\ cleaner' = [cleaner EXCEPT ![c] =
                                 [@ EXCEPT !.pc = "delete", !.batch = ids]]
  /\ UNCHANGED <<now, logs, groups, upsert, patch, crashes>>

\* Variants of DeleteBatch: the loop is left after one batch; the report counts
\* full batches; the DELETE is not committed.
DeleteOneBatch(c) ==
  /\ cleaner[c].pc = "delete"
  /\ logs' = [l \in Logs |-> IF l \in cleaner[c].batch
                             THEN [logs[l] EXCEPT !.state = "expired"]
                             ELSE logs[l]]
  /\ cleaner' = [cleaner EXCEPT ![c].pc = "done"]
  /\ UNCHANGED <<now, groups, upsert, patch, crashes>>

DeleteFullBatch(c) ==
  /\ cleaner[c].pc = "delete"
  /\ logs' = [l \in Logs |-> IF l \in cleaner[c].batch
                             THEN [logs[l] EXCEPT !.state = "expired"]
                             ELSE logs[l]]
  /\ cleaner' = [cleaner EXCEPT ![c] =
                   [@ EXCEPT !.pc = "select", !.batch = {},
                             !.deleted = @ + BatchSize,
                             !.removed = @ \cup cleaner[c].batch]]
  /\ UNCHANGED <<now, groups, upsert, patch, crashes>>

\* Deletes what is left of the batch, and counts all of it as deleted.
DeleteBatch(c) ==
  /\ cleaner[c].pc = "delete"
  /\ LET batch == cleaner[c].batch
         left  == {l \in batch : logs[l].state = "stored"}
         after == [cleaner[c] EXCEPT !.pc = "select", !.batch = {},
                                     !.deleted = @ + Cardinality(batch),
                                     !.removed = @ \cup left]
     IN  /\ logs' = [l \in Logs |-> IF l \in left
                                   THEN [logs[l] EXCEPT !.state = "expired"]
                                   ELSE logs[l]]
         /\ cleaner' = [cleaner EXCEPT ![c] = after]
  /\ UNCHANGED <<now, groups, upsert, patch, crashes>>

\* The worker is lost, or an exception leaves the task; the batches committed
\* so far stay.  The task is delivered or retried, and starts from the top.
CleanupCrash(c) ==
  /\ cleaner[c].pc \in {"select", "delete"}
  /\ crashes < MaxCrashes
  /\ crashes' = crashes + 1
  /\ cleaner' = [cleaner EXCEPT ![c] = IdleCleaner]
  /\ UNCHANGED <<now, logs, groups, upsert, patch>>

-----------------------------------------------------------------------------

CleanerStep(c) == SelectBatch(c) \/ DeleteBatch(c)

Next ==
  \/ Tick
  \/ \E l \in Logs : Persist(l) \/ CommitLog(l) \/ Rollback(l) \/ DeleteLog(l)
  \/ \E p \in Patches : LoadGroup(p) \/ WriteGroup(p)
  \/ \E c \in Cleaners : StartCleanup(c) \/ CleanerStep(c) \/ CleanupCrash(c)

Spec == Init /\ [][Next]_vars

-----------------------------------------------------------------------------
(* The committed view *)

\* What a statement of another transaction sees of a log.
Seen(log) ==
  CASE log.state \in {"new", "open", "failed"}   -> "absent"
    [] log.state = "stored"                      -> "stored"
    [] log.state \in {"deleted", "expired"}      -> "gone"

View == [l \in Logs |->
           [state |-> Seen(logs[l]),
            timestamp |-> IF Seen(logs[l]) = "absent" THEN 0
                          ELSE logs[l].timestamp]]

Committed == INSTANCE CommittedStore WITH rows <- View

-----------------------------------------------------------------------------
(* Properties *)

\* Whatever overlaps, readers see whole transactions: an ingestion with its count
\* and its timestamp, a deletion that leaves the groups alone, one column of
\* triage.
KeepsCommittedView == Committed!CommittedSpec

TypeOK ==
  /\ now \in Times
  /\ logs \in [Logs -> LogStates]
  /\ groups \in [Groups -> GroupRows]
  /\ upsert \in [Logs -> GroupRows]
  /\ patch \in [Patches -> [pc : {"load", "write", "missing", "done"},
                           loaded : GroupRows]]
  /\ cleaner \in [Cleaners -> CleanerStates]
  /\ crashes \in 0..MaxCrashes

\* The logs of group g that were ever committed.
Ingested(g) ==
  {l \in Logs : /\ GroupOf[l] = g
                /\ logs[l].state \in {"stored", "deleted", "expired"}}

\* occurrence_count is the number of logs ever committed into the group, and
\* the group's row is there as soon as one of them is, whatever transactions
\* overlapped, rolled back, or wrote another column of the row in between.
CountIsOccurrences ==
  \A g \in Groups :
    /\ groups[g].count = Cardinality(Ingested(g))
    /\ groups[g].status = "absent" <=> Ingested(g) = {}

\* A patch that was answered is not lost to an ingestion, nor to a patch of
\* the other column, that overlapped it.
PatchesSurvive ==
  \A p \in Patches :
    /\ patch[p].pc = "done"
    /\ \A q \in Patches \ {p} : \/ PatchOf[q].group # PatchOf[p].group
                                \/ PatchOf[q].column # PatchOf[p].column
    => groups[PatchOf[p].group][PatchOf[p].column] = PatchOf[p].value

\* An execution that ended has left none of the logs that were past their
\* retention when it began: the loop over the batches skips nothing.
CleanupIsComplete ==
  \A c \in Cleaners :
    cleaner[c].pc = "done" =>
      \A l \in cleaner[c].due : logs[l].state # "stored"

\* Cleanup removes no log within its retention, and only stored logs.
CleanupSparesRecent ==
  \A l \in Logs : logs[l].state = "expired" => logs[l].timestamp + Retention < now

\* The number that an execution reports is not too low, and too high by no more
\* than the logs that others deleted: none is counted twice.
ReportIsBounded ==
  \A c \in Cleaners :
    LET gone == {l \in Logs : logs[l].state \in {"deleted", "expired"}}
    IN  /\ Cardinality(cleaner[c].removed) <= cleaner[c].deleted
        /\ cleaner[c].deleted <= Cardinality(gone)

=============================================================================
