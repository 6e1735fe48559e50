------------------------------- MODULE Summary -------------------------------
(***************************************************************************)
(* The analytics summary: a task reads eight figures, each by a statement  *)
(* that sees the rows committed when it runs, and puts them into one Redis *)
(* key with an expiry; GET /analytics/summary returns what the key holds,  *)
(* or an empty summary.  An execution is followed here: those that overlap *)
(* it read for themselves, and the one that ends last is served.           *)
(***************************************************************************)
EXTENDS CommittedStore, Integers, SequencesExt

CONSTANTS
  Values,       \* what stands in service_name, environment and log_level
  ValueOf,      \* ... of each log
  Rank,         \* the order of the groups by id
  Top,          \* how many of the most frequent groups are named
  Ttl,          \* analytics_cache_ttl_seconds
  MaxFaults     \* budget of errors and lost workers

Breakdowns == {"by_service", "by_environment", "by_severity"}

ASSUME SummaryAssumption ==
  /\ ValueOf \in [Breakdowns -> [Logs -> Values]]
  /\ Rank \in [Groups -> Nat] /\ \A g, h \in Groups : Rank[g] = Rank[h] => g = h
  /\ Top \in Nat \ {0} /\ Ttl \in Nat \ {0} /\ MaxFaults \in Nat

VARIABLES
  task,     \* the figures that the execution has read
  cache,    \* how long the Redis key has left to live
  faults

summaryVars == <<task, cache, faults>>

\* In the order of the code.
Statements == <<"total", "last_24h", "by_service", "by_environment",
                "by_severity", "unresolved", "frequent", "average">>

\* since is 24 hours before the execution began; logs and groups, which only the
\* properties need, are the numbers of rows written since it began.
IdleTask == [running |-> FALSE, since |-> 0, figures |-> <<>>,
             logs |-> 0, groups |-> 0]

SummaryInit ==
  /\ task = IdleTask
  /\ cache = 0
  /\ faults = 0

-----------------------------------------------------------------------------
(* The figures *)

Recent(since) == {l \in Stored : rows[l].timestamp >= since}

Present == {g \in Groups : groups[g].status # "absent"}

\* ORDER BY occurrence_count DESC, id LIMIT 10.
MostFrequent ==
  LET before(g, h) == \/ groups[g].count > groups[h].count
                      \/ groups[g].count = groups[h].count /\ Rank[g] < Rank[h]
      list == CHOOSE seq \in SetToSeqs(Present) :
                \A i, j \in DOMAIN seq : before(seq[i], seq[j]) => i < j
  IN  [i \in DOMAIN list \cap 1..Top |->
         [group |-> list[i], count |-> groups[list[i]].count]]

\* What a statement returns when it runs; the average as a sum and a number.
Figure(statement, since) ==
  CASE statement = "total"       -> Cardinality(Stored)
    [] statement = "last_24h"    -> Cardinality(Recent(since))
    [] statement \in Breakdowns  ->
         [v \in {ValueOf[statement][l] : l \in Recent(since)} |->
            Cardinality({l \in Recent(since) : ValueOf[statement][l] = v})]
    [] statement = "unresolved"  ->
         Cardinality({g \in Groups : groups[g].status = "unresolved"})
    [] statement = "frequent"    -> MostFrequent
    [] statement = "average"     ->
         [sum |-> SumFunction([g \in Present |-> groups[g].count]),
          of  |-> Cardinality(Present)]

-----------------------------------------------------------------------------
(* The task *)

Begin(since) ==
  /\ ~ task.running
  /\ task' = [IdleTask EXCEPT !.running = TRUE, !.since = since]
  /\ UNCHANGED <<cache, faults>>

Complete == Len(task.figures) = Len(Statements)

\* A variant of Read: the 24 hours are counted from the statement.
ReadSinceNow ==
  /\ task.running /\ ~ Complete
  /\ \E since \in task.since..MaxTime :
       LET statement == Statements[Len(task.figures) + 1]
       IN  task' = [task EXCEPT !.figures =
                      Append(@, Figure(statement, since))]
  /\ UNCHANGED <<cache, faults>>

Read ==
  /\ task.running /\ ~ Complete
  /\ LET statement == Statements[Len(task.figures) + 1]
     IN  task' = [task EXCEPT !.figures =
                    Append(@, Figure(statement, task.since))]
  /\ UNCHANGED <<cache, faults>>

\* Variants of Refresh: the time to live is added to what is left of it; a
\* summary of no logs is not worth a SET.
RefreshExtending ==
  /\ Complete
  /\ cache' = cache + Ttl
  /\ task' = IdleTask
  /\ UNCHANGED faults

RefreshUnlessEmpty ==
  /\ Complete
  /\ cache' = IF task.figures[1] = 0 THEN cache ELSE Ttl
  /\ task' = IdleTask
  /\ UNCHANGED faults

\* SET key payload EX ttl, whatever is there.  From then on the figures of this
\* execution are served; the model does not keep them.
Refresh ==
  /\ Complete
  /\ cache' = Ttl
  /\ task' = IdleTask
  /\ UNCHANGED faults

\* An error in the database or in Redis, or a lost worker: the task is tried
\* again, from its first statement, or given up until it is due again.
Retry ==
  /\ task.running /\ faults < MaxFaults
  /\ task' = IdleTask
  /\ faults' = faults + 1
  /\ UNCHANGED cache

CacheAges ==
  /\ cache > 0
  /\ cache' = cache - 1
  /\ UNCHANGED <<task, faults>>

TaskStep == (\E since \in Times : Begin(since)) \/ Read \/ Refresh

SummaryStep == CacheAges \/ TaskStep \/ Retry

\* What a write by somebody else means to the execution.
SummaryChanges ==
  /\ task' = IF task.running
             THEN [task EXCEPT
                     !.logs = @ + Cardinality({l \in Logs : rows'[l] # rows[l]}),
                     !.groups = @ + Cardinality({g \in Groups : groups'[g] # groups[g]})]
             ELSE task
  /\ UNCHANGED <<cache, faults>>

-----------------------------------------------------------------------------
(* Properties *)

Near(m, n, distance) == m <= n + distance /\ n <= m + distance

\* The figures of a summary contradict each other by no more than the rows
\* written while they were read.  The three breakdowns and logs_last_24h count
\* the same logs, which are among all logs; there are no more unresolved groups
\* than groups; on average a group is no more frequent than the first one named.
FiguresAgree ==
  Complete =>
    LET f == task.figures
    IN  /\ \A i \in 3..5 : Near(f[2], SumFunction(f[i]), task.logs)
        /\ f[2] <= f[1] + task.logs
        /\ f[6] <= f[8].of + task.groups
        /\ task.groups = 0 /\ f[8].of > 0 => f[8].sum <= f[7][1].count * f[8].of

=============================================================================
