------------------------- MODULE AnalysisJobsProofs -------------------------
(***************************************************************************)
(* Theorems about AnalysisJobs, for any requests, groups, workers, retries *)
(* and disturbances.                                                       *)
(***************************************************************************)
EXTENDS AnalysisJobs, FiniteSetTheorems, TLAPS

-----------------------------------------------------------------------------
(* The rows of table background_jobs, for every number of items *)

\* A flush of well-typed copies leaves a well-typed row.
LEMMA FlushType ==
  ASSUME NEW N \in Nat, NEW new \in Row(N), NEW loaded \in Row(N),
         NEW current \in Row(N)
  PROVE  Flush(new, loaded, current) \in Row(N)
BY DEF Row, Flush, Column

\* The rows a repository method makes from a well-typed copy are well typed.
LEMMA CopyType ==
  ASSUME NEW N \in Nat, NEW row \in Row(N)
  PROVE  /\ MarkRunning(row) \in Row(N)
         /\ \A p, s, f \in 0..N : UpdateProgress(row, p, s, f) \in Row(N)
         /\ \A st \in Statuses : MarkCompleted(row, st) \in Row(N)
BY DEF Row, MarkRunning, UpdateProgress, MarkCompleted, Statuses

\* The row of a job that is not there and that of a new job are well typed.
LEMMA InitialRowsType ==
  ASSUME NEW N \in Nat
  PROVE  AbsentRow \in Row(N) /\ PendingRow \in Row(N)
BY DEF Row, AbsentRow, PendingRow, RowWith, Statuses

-----------------------------------------------------------------------------
(* Types *)

\* A task that is about to be retried has a retry left, so its next message
\* is one of Messages.
RetriesLeft ==
  \A w \in Workers : run[w].pc = "republish" => run[w].retries < MaxRetries

TypeInv == TypeOK /\ RetriesLeft

\* TypeInv holds in the initial states.
LEMMA InitType == Init => TypeInv
<1>. SUFFICES ASSUME Init PROVE TypeInv
  OBVIOUS
<1>1. AbsentRow \in Row(1)
  BY InitialRowsType
<1>2. IdleRun \in Runs
  BY <1>1, BudgetAssumption DEF IdleRun, Runs, AnalysisStatuses
<1>. QED
  BY <1>1, <1>2 DEF Init, TypeInv, TypeOK, RetriesLeft, IdleRun, Analyses

\* Every step of the API keeps TypeInv.
LEMMA ApiType ==
  ASSUME TypeInv, NEW r \in Requests, ApiStep(r) \/ PublishFails(r)
  PROVE  TypeInv'
<1>. USE DEF TypeInv, TypeOK, RetriesLeft
<1>1. CASE Lookup(r)
  BY <1>1 DEF Lookup
<1>2. CASE Insert(r)
  <2>1. PendingRow \in Row(1)
    BY InitialRowsType
  <2>. QED
    BY <1>2, <2>1 DEF Insert
<1>3. CASE Publish(r)
  <2>1. [job |-> r, retries |-> 0] \in Messages
    BY BudgetAssumption DEF Messages
  <2>. QED
    BY <1>3, <2>1 DEF Publish, Send
<1>4. CASE PublishFails(r)
  BY <1>4 DEF PublishFails
<1>. QED
  BY <1>1, <1>2, <1>3, <1>4 DEF ApiStep

\* A step that gives one worker a new execution state.
LEMMA RunUpdateType ==
  ASSUME TypeInv, NEW w \in Workers, NEW next \in Runs,
         next.pc # "idle" => next.job \in Requests,
         next.pc = "republish" => next.retries < MaxRetries,
         run' = [run EXCEPT ![w] = next]
  PROVE  /\ run' \in [Workers -> Runs]
         /\ \A v \in Workers : run'[v].pc # "idle" => run'[v].job \in Requests
         /\ RetriesLeft'
BY DEF TypeInv, TypeOK, RetriesLeft

\* The steps of a worker that write no table keep TypeInv, and so do the
\* disturbances.
LEMMA WorkerType ==
  ASSUME TypeInv, NEW w \in Workers,
         \/ Receive(w) \/ Load(w) \/ Collect(w) \/ Republish(w) \/ Ack(w)
         \/ Fault(w) \/ WorkerCrash(w) \/ Redeliver(w)
  PROVE  TypeInv'
<1>. USE DEF TypeInv
<1>1. /\ run[w] \in Runs
      /\ run[w].pc # "idle" => run[w].job \in Requests
      /\ run[w].pc = "republish" => run[w].retries < MaxRetries
  BY DEF TypeOK, RetriesLeft
<1>2. run[w].pc # "idle" => Message(w) \in Messages
  BY <1>1 DEF Message, Messages, Runs
<1>3. IdleRun \in Runs
  BY BudgetAssumption, InitialRowsType DEF IdleRun, Runs, AnalysisStatuses
<1>4. /\ AfterFault(w) \in {"republish", "ack"}
      /\ AfterFault(w) = "republish" => run[w].retries < MaxRetries
  BY DEF AfterFault
<1>5. CASE Receive(w)
  <2>1. PICK m \in Messages :
          /\ queue[m] > 0
          /\ queue' = [queue EXCEPT ![m] = @ - 1]
          /\ run' = [run EXCEPT ![w] = [IdleRun EXCEPT !.pc = "load", !.job = m.job,
                                                       !.retries = m.retries]]
    BY <1>5 DEF Receive
  <2>2. queue' \in [Messages -> Nat]
    BY <2>1 DEF TypeOK
  <2>. DEFINE next == [IdleRun EXCEPT !.pc = "load", !.job = m.job,
                                      !.retries = m.retries]
  <2>3. next \in Runs /\ next.job \in Requests /\ next.pc = "load"
    BY <1>3 DEF Runs, Messages
  <2>4. run' = [run EXCEPT ![w] = next]
    BY <2>1
  <2>. HIDE DEF next
  <2>. QED
    BY <1>5, <2>2, <2>3, <2>4, RunUpdateType DEF Receive, TypeOK
<1>6. CASE Load(w)
  <2>1. jobs[run[w].job] \in Row(1) /\ clock + 1 \in Nat
    BY <1>1, <1>6 DEF Load, TypeOK
  <2>2. ASSUME run' = [run EXCEPT ![w].pc = "ack"], UNCHANGED clock
        PROVE  TypeInv'
    <3>. DEFINE next == [run[w] EXCEPT !.pc = "ack"]
    <3>1. next \in Runs /\ next.job = run[w].job /\ next.pc = "ack"
      BY <1>1 DEF Runs
    <3>2. run' = [run EXCEPT ![w] = next]
      BY <2>2
    <3>. HIDE DEF next
    <3>. QED
      BY <1>1, <1>6, <2>2, <3>1, <3>2, RunUpdateType DEF Load, TypeOK
  <2>3. ASSUME clock' = clock + 1,
               run' = [run EXCEPT ![w] = [@ EXCEPT !.pc = "mark",
                                                   !.loaded = jobs[run[w].job],
                                                   !.began = clock + 1]]
        PROVE  TypeInv'
    <3>. DEFINE next == [run[w] EXCEPT !.pc = "mark", !.loaded = jobs[run[w].job],
                                       !.began = clock + 1]
    <3>1. next \in Runs /\ next.job = run[w].job /\ next.pc = "mark"
      BY <1>1, <2>1 DEF Runs
    <3>2. run' = [run EXCEPT ![w] = next]
      BY <2>3
    <3>. HIDE DEF next
    <3>. QED
      BY <1>1, <1>6, <2>1, <2>3, <3>1, <3>2, RunUpdateType DEF Load, TypeOK
  <2>. QED
    BY <1>6, <2>2, <2>3 DEF Load
<1>7. CASE Collect(w)
  <2>1. PICK a \in analyses :
          run' = [run EXCEPT ![w] = [@ EXCEPT !.pc = "call",
                                              !.latest = a.created_at,
                                              !.seen = a.status]]
    BY <1>7 DEF Collect
  <2>. DEFINE next == [run[w] EXCEPT !.pc = "call", !.latest = a.created_at,
                                     !.seen = a.status]
  <2>2. a.created_at \in Nat /\ a.status \in AnalysisStatuses
    BY DEF TypeOK, Analyses
  <2>3. next \in Runs /\ next.job = run[w].job /\ next.pc = "call"
    BY <1>1, <2>2 DEF Runs
  <2>4. run' = [run EXCEPT ![w] = next]
    BY <2>1
  <2>. HIDE DEF next
  <2>. QED
    BY <1>1, <1>7, <2>3, <2>4, RunUpdateType DEF Collect, TypeOK
<1>8. CASE Republish(w)
  <2>1. [Message(w) EXCEPT !.retries = @ + 1] \in Messages
    BY <1>1, <1>8, BudgetAssumption DEF Republish, Message, Messages, Runs
  <2>2. queue' \in [Messages -> Nat]
    BY <1>8, <2>1 DEF Republish, Send, TypeOK
  <2>. DEFINE next == [run[w] EXCEPT !.pc = "ack"]
  <2>3. next \in Runs /\ next.job = run[w].job /\ next.pc = "ack"
    BY <1>1 DEF Runs
  <2>4. run' = [run EXCEPT ![w] = next] /\ run[w].pc # "idle"
    BY <1>8 DEF Republish
  <2>. HIDE DEF next
  <2>. QED
    BY <1>1, <1>8, <2>2, <2>3, <2>4, RunUpdateType DEF Republish, TypeOK
<1>9. CASE Ack(w)
  <2>1. IdleRun.pc = "idle"
    BY DEF IdleRun
  <2>. QED
    BY <1>3, <1>9, <2>1, RunUpdateType DEF Ack, TypeOK
<1>10. CASE Fault(w)
  <2>. DEFINE next == [run[w] EXCEPT !.pc = AfterFault(w)]
  <2>1. /\ next \in Runs /\ next.job = run[w].job
        /\ next.pc = AfterFault(w) /\ next.retries = run[w].retries
    BY <1>1, <1>4 DEF Runs
  <2>2. run' = [run EXCEPT ![w] = next] /\ run[w].pc # "idle"
    BY <1>10 DEF Fault
  <2>3. spent' \in [faults : Nat, refusals : Nat, crashes : Nat, redeliveries : Nat]
    BY <1>10 DEF Fault, TypeOK
  <2>. HIDE DEF next
  <2>. QED
    BY <1>1, <1>4, <1>10, <2>1, <2>2, <2>3, RunUpdateType DEF Fault, TypeOK
<1>11. CASE WorkerCrash(w)
  <2>1. queue' \in [Messages -> Nat] /\ run' = [run EXCEPT ![w] = IdleRun]
    BY <1>2, <1>11 DEF WorkerCrash, Send, TypeOK
  <2>2. spent' \in [faults : Nat, refusals : Nat, crashes : Nat, redeliveries : Nat]
    BY <1>11 DEF WorkerCrash, TypeOK
  <2>3. IdleRun.pc = "idle"
    BY DEF IdleRun
  <2>. QED
    BY <1>3, <1>11, <2>1, <2>2, <2>3, RunUpdateType DEF WorkerCrash, TypeOK
<1>12. CASE Redeliver(w)
  <2>1. queue' \in [Messages -> Nat]
    BY <1>2, <1>12 DEF Redeliver, Send, TypeOK
  <2>2. spent' \in [faults : Nat, refusals : Nat, crashes : Nat, redeliveries : Nat]
    BY <1>12 DEF Redeliver, TypeOK
  <2>. QED
    BY <1>12, <2>1, <2>2 DEF Redeliver, TypeOK, RetriesLeft
<1>. QED
  BY <1>5, <1>6, <1>7, <1>8, <1>9, <1>10, <1>11, <1>12

\* Taking a job up keeps TypeInv, whether the unique index refuses it or not.
LEMMA BeginType ==
  ASSUME TypeInv, NEW w \in Workers, Begin(w)
  PROVE  TypeInv'
<1>. DEFINE row == Flush(MarkRunning(run[w].loaded), run[w].loaded,
                         jobs[run[w].job])
            added == [created_at |-> run[w].began, group |-> Group(w),
                      job |-> run[w].job, status |-> "pending"]
<1>1. run[w] \in Runs /\ run[w].job \in Requests /\ run[w].pc = "mark"
  BY DEF TypeInv, TypeOK, Begin
<1>2. row \in Row(1)
  <2>1. run[w].loaded \in Row(1) /\ jobs[run[w].job] \in Row(1)
    BY <1>1 DEF TypeInv, TypeOK, Runs
  <2>2. MarkRunning(run[w].loaded) \in Row(1)
    BY <2>1, CopyType
  <2>. QED
    BY <2>1, <2>2, FlushType
<1>3. added \in Analyses
  BY <1>1, GroupAssumption DEF Runs, Analyses, AnalysisStatuses, Group
<1>4. UNCHANGED <<api, clock, queue>>
  BY DEF Begin
<1>5. ASSUME run' = [run EXCEPT ![w].pc = AfterFault(w)],
             spent' = [spent EXCEPT !.refusals = @ + 1],
             UNCHANGED <<jobs, analyses>>
      PROVE  TypeInv'
  <2>1. /\ AfterFault(w) \in {"republish", "ack"}
        /\ AfterFault(w) = "republish" => run[w].retries < MaxRetries
    BY DEF AfterFault
  <2>. DEFINE next == [run[w] EXCEPT !.pc = AfterFault(w)]
  <2>2. /\ next \in Runs /\ next.job = run[w].job
        /\ next.pc = AfterFault(w) /\ next.retries = run[w].retries
    BY <1>1, <2>1 DEF Runs
  <2>3. run' = [run EXCEPT ![w] = next]
    BY <1>5
  <2>4. spent' \in [faults : Nat, refusals : Nat, crashes : Nat, redeliveries : Nat]
    BY <1>5 DEF TypeInv, TypeOK
  <2>. HIDE DEF next
  <2>. QED
    BY <1>1, <1>4, <1>5, <2>1, <2>2, <2>3, <2>4, RunUpdateType DEF TypeInv, TypeOK
<1>6. ASSUME jobs' = [jobs EXCEPT ![run[w].job] = row],
             analyses' = analyses \cup {added},
             run' = [run EXCEPT ![w] = [@ EXCEPT !.pc = "collect", !.loaded = row]],
             UNCHANGED spent
      PROVE  TypeInv'
  <2>1. /\ jobs' \in [Requests -> Row(1)]
        /\ \A a \in analyses' : a \in Analyses
    BY <1>2, <1>3, <1>6 DEF TypeInv, TypeOK
  <2>. HIDE DEF row
  <2>. DEFINE next == [run[w] EXCEPT !.pc = "collect", !.loaded = row]
  <2>2. next \in Runs /\ next.job = run[w].job /\ next.pc = "collect"
    BY <1>1, <1>2 DEF Runs
  <2>3. run' = [run EXCEPT ![w] = next]
    BY <1>6
  <2>. HIDE DEF next
  <2>. QED
    BY <1>1, <1>4, <1>6, <2>1, <2>2, <2>3, RunUpdateType DEF TypeInv, TypeOK
<1>. QED
  BY <1>5, <1>6 DEF Begin

\* Writing the outcome keeps TypeInv, and leaves the job finished.
LEMMA ConcludeType ==
  ASSUME TypeInv, NEW w \in Workers, Succeed(w) \/ RecordFailure(w)
  PROVE  /\ TypeInv'
         /\ jobs'[run[w].job].status \in TerminalStatuses
         /\ \A r \in Requests \ {run[w].job} : jobs'[r] = jobs[r]
<1>1. PICK analysis \in {"completed", "failed"}, success \in 0..1, failure \in 0..1 :
        Conclude(w, analysis, success, failure)
  BY DEF Succeed, RecordFailure
<1>. DEFINE copy == UpdateProgress(run[w].loaded, 1, success, failure)
            row  == MarkCompleted(Flush(copy, run[w].loaded, jobs[run[w].job]),
                                  analysis)
<1>2. /\ run[w] \in Runs /\ run[w].job \in Requests /\ run[w].pc = "call"
      /\ UNCHANGED <<api, clock, queue, spent>>
  BY <1>1 DEF TypeInv, TypeOK, Conclude
<1>3. row \in Row(1) /\ row.status = analysis
  <2>1. run[w].loaded \in Row(1) /\ jobs[run[w].job] \in Row(1)
    BY <1>2 DEF TypeInv, TypeOK, Runs
  <2>2. copy \in Row(1)
    <3>1. \A p, s, f \in 0..1 : UpdateProgress(run[w].loaded, p, s, f) \in Row(1)
      BY <2>1, CopyType
    <3>2. 1 \in 0..1
      OBVIOUS
    <3>. QED
      BY <3>1, <3>2
  <2>3. Flush(copy, run[w].loaded, jobs[run[w].job]) \in Row(1)
    BY <2>1, <2>2, FlushType
  <2>. HIDE DEF copy
  <2>4. row.status = analysis
    BY <2>3 DEF MarkCompleted, Row
  <2>. QED
    BY <2>3, <2>4, CopyType DEF Statuses
<1>4. jobs' = [jobs EXCEPT ![run[w].job] = row]
  BY <1>1 DEF Conclude
<1>5. \A a \in analyses' : a \in Analyses
  BY <1>1 DEF Conclude, Column, TypeInv, TypeOK, Analyses, AnalysisStatuses
<1>. HIDE DEF row
<1>6. TypeInv'
  <2>. DEFINE next == [run[w] EXCEPT !.pc = "ack"]
  <2>1. next \in Runs /\ next.job = run[w].job /\ next.pc = "ack"
    BY <1>2 DEF Runs
  <2>2. run' = [run EXCEPT ![w] = next]
    BY <1>1 DEF Conclude
  <2>3. jobs' \in [Requests -> Row(1)]
    BY <1>3, <1>4 DEF TypeInv, TypeOK
  <2>. HIDE DEF next
  <2>. QED
    BY <1>2, <1>5, <2>1, <2>2, <2>3, RunUpdateType DEF TypeInv, TypeOK
<1>. QED
  BY <1>2, <1>3, <1>4, <1>6 DEF TypeInv, TypeOK, TerminalStatuses

\* TypeInv is inductive.
LEMMA TypeStep == TypeInv /\ [Next]_vars => TypeInv'
<1>. SUFFICES ASSUME TypeInv, [Next]_vars PROVE TypeInv'
  OBVIOUS
<1>1. CASE UNCHANGED vars
  BY <1>1 DEF vars, TypeInv, TypeOK, RetriesLeft
<1>. QED
  BY <1>1, ApiType, WorkerType, BeginType, ConcludeType
     DEF Next, ApiStep, WorkerStep, Disturbance

\* All variables of the analysis jobs keep their types.
THEOREM TypeCorrect == Spec => []TypeOK
<1>1. TypeInv => TypeOK
  BY DEF TypeInv
<1>. QED
  BY <1>1, InitType, TypeStep, PTL DEF Spec

-----------------------------------------------------------------------------
(* One active job per group *)

\* The scope's unique index, without counting.
UniqueActive ==
  \A r, s \in Requests :
    /\ jobs[r].status \in ActiveStatuses /\ jobs[s].status \in ActiveStatuses
    /\ GroupOf[r] = GroupOf[s]
    => r = s

\* A job may become active where no other job of its group is.
LEMMA OneMoreActive ==
  ASSUME TypeInv, UniqueActive, NEW r \in Requests, NEW row,
         row.status \in ActiveStatuses => ActiveJobs(GroupOf[r]) \ {r} = {},
         jobs' = [jobs EXCEPT ![r] = row]
  PROVE  UniqueActive'
<1>. SUFFICES ASSUME NEW s \in Requests, NEW t \in Requests,
                     jobs'[s].status \in ActiveStatuses,
                     jobs'[t].status \in ActiveStatuses,
                     GroupOf[s] = GroupOf[t], s # t
              PROVE  FALSE
  BY DEF UniqueActive
<1>1. jobs'[r] = row /\ \A q \in Requests \ {r} : jobs'[q] = jobs[q]
  BY DEF TypeInv, TypeOK
<1>2. CASE s = r
  <2>1. t \in ActiveJobs(GroupOf[r]) \ {r}
    BY <1>1, <1>2 DEF ActiveJobs
  <2>. QED
    BY <1>1, <1>2, <2>1
<1>3. CASE t = r
  <2>1. s \in ActiveJobs(GroupOf[r]) \ {r}
    BY <1>1, <1>3 DEF ActiveJobs
  <2>. QED
    BY <1>1, <1>3, <2>1
<1>4. CASE s # r /\ t # r
  BY <1>1, <1>4 DEF UniqueActive
<1>. QED
  BY <1>2, <1>3, <1>4

\* No step makes a second job of a group active.
LEMMA UniqueActiveStep ==
  ASSUME TypeInv, UniqueActive, [Next]_vars
  PROVE  UniqueActive'
<1>1. CASE UNCHANGED jobs
  BY <1>1 DEF UniqueActive
<1>2. ASSUME NEW r \in Requests, Insert(r)
      PROVE  UniqueActive'
  BY <1>1, <1>2, OneMoreActive DEF Insert
<1>3. ASSUME NEW w \in Workers, Begin(w)
      PROVE  UniqueActive'
  <2>. DEFINE row == Flush(MarkRunning(run[w].loaded), run[w].loaded,
                           jobs[run[w].job])
  <2>1. run[w].job \in Requests
    BY <1>3 DEF TypeInv, TypeOK, Begin
  <2>2. \/ UNCHANGED jobs
        \/ /\ row.status \in ActiveStatuses => ~ ScopeTaken(w)
           /\ jobs' = [jobs EXCEPT ![run[w].job] = row]
    BY <1>3 DEF Begin
  <2>. HIDE DEF row
  <2>. QED
    BY <1>1, <2>1, <2>2, OneMoreActive DEF ScopeTaken, Group
<1>4. ASSUME NEW w \in Workers, Succeed(w) \/ RecordFailure(w)
      PROVE  UniqueActive'
  <2>1. /\ jobs'[run[w].job].status \notin ActiveStatuses
        /\ \A r \in Requests \ {run[w].job} : jobs'[r] = jobs[r]
    BY <1>4, ConcludeType DEF TerminalStatuses, ActiveStatuses
  <2>. QED
    BY <2>1 DEF UniqueActive
<1>. QED
  BY <1>1, <1>2, <1>3, <1>4
     DEF Next, ApiStep, WorkerStep, Disturbance, vars, Lookup, Publish,
         PublishFails, Receive, Load, Collect, Republish, Ack, Fault,
         WorkerCrash, Redeliver

\* At most one job of a group is active, however requests race with each other
\* and with deliveries that take a failed job up again.
THEOREM OneJobPerGroup == Spec => []OneActiveJobPerGroup
<1>1. Init => UniqueActive
  BY DEF Init, UniqueActive, AbsentRow, RowWith, ActiveStatuses
<1>2. UniqueActive => OneActiveJobPerGroup
  <2>. SUFFICES ASSUME UniqueActive, NEW g \in Groups
                PROVE  Cardinality(ActiveJobs(g)) <= 1
    BY DEF OneActiveJobPerGroup
  <2>1. CASE ActiveJobs(g) = {}
    BY <2>1, FS_EmptySet
  <2>2. ASSUME NEW r \in ActiveJobs(g)
        PROVE  Cardinality(ActiveJobs(g)) <= 1
    <3>1. ActiveJobs(g) = {r}
      BY <2>2 DEF ActiveJobs, UniqueActive
    <3>2. Cardinality({r}) = 1
      BY FS_Singleton
    <3>3. 1 <= 1
      OBVIOUS
    <3>. QED
      BY <3>1, <3>2, <3>3, Zenon
  <2>. QED
    BY <2>1, <2>2
<1>3. TypeInv /\ UniqueActive /\ [Next]_vars => UniqueActive'
  BY UniqueActiveStep
<1>. QED
  BY <1>1, <1>2, <1>3, InitType, TypeStep, PTL DEF Spec

-----------------------------------------------------------------------------
(* Completed jobs are left alone *)

\* The id of a job that is not inserted yet is not in the table, and what an
\* execution has begun to work on is.
KnownJobs ==
  /\ \A r \in Requests : api[r] \in {"lookup", "insert"} => jobs[r].status = "absent"
  /\ \A w \in Workers : run[w].pc \in {"mark", "collect", "call"}
                          => jobs[run[w].job].status # "absent"

FinalInv == TypeInv /\ KnownJobs

\* What each step does to the rows: one is inserted, or the one of the
\* execution's job is written.
LEMMA RowsWritten ==
  ASSUME TypeInv, [Next]_vars, NEW r \in Requests, jobs'[r] # jobs[r]
  PROVE  \/ Insert(r) /\ jobs'[r].status = "pending"
         \/ \E w \in Workers :
              /\ run[w].job = r
              /\ \/ Begin(w) /\ jobs'[r].status \in {"running", jobs[r].status}
                 \/ /\ Succeed(w) \/ RecordFailure(w)
                    /\ jobs'[r].status \in TerminalStatuses
<1>1. ASSUME NEW s \in Requests, Insert(s)
      PROVE  s = r /\ jobs'[r].status = "pending"
  BY <1>1 DEF Insert, TypeInv, TypeOK, PendingRow, RowWith
<1>2. ASSUME NEW w \in Workers, Begin(w)
      PROVE  run[w].job = r /\ jobs'[r].status \in {"running", jobs[r].status}
  <2>. DEFINE copy == MarkRunning(run[w].loaded)
              row  == Flush(copy, run[w].loaded, jobs[run[w].job])
  <2>1. run[w].job \in Requests /\ run[w].loaded \in Row(1)
    BY <1>2 DEF TypeInv, TypeOK, Begin, Runs
  <2>2. jobs' = [jobs EXCEPT ![run[w].job] = row]
    BY <1>2 DEF Begin
  <2>3. copy.status = "running"
    BY <2>1 DEF MarkRunning, Row
  <2>. HIDE DEF copy
  <2>4. row.status \in {"running", jobs[run[w].job].status}
    BY <2>3 DEF Flush, Column
  <2>. HIDE DEF row
  <2>. QED
    BY <2>1, <2>2, <2>4 DEF TypeInv, TypeOK
<1>3. ASSUME NEW w \in Workers, Succeed(w) \/ RecordFailure(w)
      PROVE  run[w].job = r /\ jobs'[r].status \in TerminalStatuses
  BY <1>3, ConcludeType
<1>. QED
  BY <1>1, <1>2, <1>3
     DEF Next, ApiStep, WorkerStep, Disturbance, vars, Lookup, Publish,
         PublishFails, Receive, Load, Collect, Republish, Ack, Fault,
         WorkerCrash, Redeliver

\* Updates of an execution that leave its job alone.
LEMMA JobKept ==
  ASSUME NEW e \in Runs, NEW pc, NEW row, NEW n
  PROVE  /\ [e EXCEPT !.pc = pc].job = e.job
         /\ [e EXCEPT !.pc = pc, !.loaded = row].job = e.job
         /\ [e EXCEPT !.pc = pc, !.loaded = row, !.began = n].job = e.job
<1>1. [e EXCEPT !.pc = pc].job = e.job
  BY DEF Runs
<1>2. [e EXCEPT !.pc = pc, !.loaded = row].job = e.job
  BY DEF Runs
<1>3. [e EXCEPT !.pc = pc, !.loaded = row, !.began = n].job = e.job
  BY DEF Runs
<1>. QED
  BY <1>1, <1>2, <1>3

\* How an execution gets to one of its writing steps.
LEMMA EntersWork ==
  ASSUME TypeInv, [Next]_vars, NEW w \in Workers,
         run'[w].pc \in {"mark", "collect", "call"}
  PROVE  /\ run'[w].job = run[w].job
         /\ \/ run[w].pc \in {"mark", "collect", "call"}
            \/ /\ Load(w)
               /\ jobs[run[w].job].status \notin ShortCircuitStatuses \cup {"absent"}
<1>. USE DEF TypeInv, TypeOK
<1>1. CASE run'[w] = run[w]
  BY <1>1
<1>2. CASE Load(w)
  <2>1. run[w] \in Runs
    OBVIOUS
  <2>2. CASE jobs[run[w].job].status \in ShortCircuitStatuses \cup {"absent"}
    <3>1. run'[w].pc = "ack"
      BY <1>2, <2>1, <2>2 DEF Load, Runs
    <3>. QED
      BY <3>1
  <2>3. CASE jobs[run[w].job].status \notin ShortCircuitStatuses \cup {"absent"}
    <3>1. run'[w] = [run[w] EXCEPT !.pc = "mark", !.loaded = jobs[run[w].job],
                                   !.began = clock + 1]
      BY <1>2, <2>3 DEF Load
    <3>2. run'[w].job = run[w].job
      BY <2>1, <3>1, JobKept
    <3>. QED
      BY <1>2, <2>3, <3>2
  <2>. QED
    BY <2>2, <2>3
<1>3. CASE Begin(w)
  <2>. DEFINE row == Flush(MarkRunning(run[w].loaded), run[w].loaded,
                           jobs[run[w].job])
  <2>1. run[w] \in Runs /\ run[w].pc = "mark"
    BY <1>3 DEF Begin
  <2>2. \/ run'[w] = [run[w] EXCEPT !.pc = AfterFault(w)]
        \/ run'[w] = [run[w] EXCEPT !.pc = "collect", !.loaded = row]
    BY <1>3 DEF Begin
  <2>. HIDE DEF row
  <2>3. [run[w] EXCEPT !.pc = AfterFault(w)].job = run[w].job
    BY <2>1, JobKept
  <2>4. [run[w] EXCEPT !.pc = "collect", !.loaded = row].job = run[w].job
    BY <2>1, JobKept
  <2>5. run'[w].job = run[w].job
    BY <2>2, <2>3, <2>4, Zenon
  <2>. QED
    BY <2>1, <2>5
<1>4. CASE Collect(w)
  <2>1. run[w].pc = "collect"
    BY <1>4 DEF Collect
  <2>2. run'[w].job = run[w].job
    BY <1>4 DEF Collect, Runs
  <2>. QED
    BY <2>1, <2>2
<1>5. ~ (Receive(w) \/ Succeed(w) \/ RecordFailure(w) \/ Republish(w) \/ Ack(w)
         \/ Fault(w) \/ WorkerCrash(w))
  <2>1. ASSUME Receive(w)
        PROVE  run'[w].pc = "load"
    BY <2>1 DEF Receive, IdleRun
  <2>2. ASSUME Succeed(w) \/ RecordFailure(w) \/ Republish(w)
        PROVE  run'[w].pc = "ack"
    BY <2>2 DEF Succeed, RecordFailure, Conclude, Republish, Runs
  <2>3. ASSUME Ack(w) \/ WorkerCrash(w)
        PROVE  run'[w].pc = "idle"
    BY <2>3 DEF Ack, WorkerCrash, IdleRun
  <2>4. ASSUME Fault(w)
        PROVE  run'[w].pc \in {"republish", "ack"}
    BY <2>4 DEF Fault, AfterFault, Runs
  <2>. QED
    BY <2>1, <2>2, <2>3, <2>4
<1>6. ASSUME NEW v \in Workers \ {w},
             WorkerStep(v) \/ Fault(v) \/ WorkerCrash(v)
      PROVE  run'[w] = run[w]
  BY <1>6 DEF WorkerStep, Receive, Load, Begin, Collect, Succeed, RecordFailure,
              Conclude, Republish, Ack, Fault, WorkerCrash
<1>7. ASSUME UNCHANGED run
      PROVE  run'[w] = run[w]
  BY <1>7
<1>. QED
  BY <1>1, <1>2, <1>3, <1>4, <1>5, <1>6, <1>7
     DEF Next, ApiStep, WorkerStep, Disturbance, vars, Lookup, Insert, Publish,
         PublishFails, Redeliver

\* Rows never become unknown again, and ids are inserted once.
LEMMA KnownJobsStep ==
  ASSUME FinalInv, [Next]_vars
  PROVE  KnownJobs'
<1>. USE DEF FinalInv
<1>1. ASSUME NEW r \in Requests, api'[r] \in {"lookup", "insert"}
      PROVE  jobs'[r].status = "absent"
  <2>1. api[r] \in {"lookup", "insert"} /\ ~ Insert(r)
    BY <1>1 DEF TypeInv, TypeOK, Next, ApiStep, WorkerStep, Disturbance, vars,
                Lookup, Insert, Publish, PublishFails, Receive, Load, Begin,
                Collect, Succeed, RecordFailure, Conclude, Republish, Ack,
                Fault, WorkerCrash, Redeliver
  <2>2. jobs[r].status = "absent"
    BY <2>1 DEF KnownJobs
  <2>3. ASSUME NEW w \in Workers, run[w].job = r
        PROVE  ~ (Begin(w) \/ Succeed(w) \/ RecordFailure(w))
    BY <2>2, <2>3 DEF KnownJobs, Begin, Succeed, RecordFailure, Conclude
  <2>4. jobs'[r] = jobs[r]
    BY <2>1, <2>3, RowsWritten
  <2>. QED
    BY <2>2, <2>4
<1>2. ASSUME NEW w \in Workers, run'[w].pc \in {"mark", "collect", "call"}
      PROVE  jobs'[run'[w].job].status # "absent"
  <2>. DEFINE r == run[w].job
  <2>1. /\ run'[w].job = r
        /\ \/ run[w].pc \in {"mark", "collect", "call"}
           \/ Load(w) /\ jobs[r].status # "absent"
    BY <1>2, EntersWork
  <2>2. r \in Requests /\ jobs[r].status # "absent"
    BY <2>1 DEF KnownJobs, TypeInv, TypeOK, Load
  <2>. HIDE DEF r
  <2>3. CASE jobs'[r] = jobs[r]
    BY <2>1, <2>2, <2>3
  <2>4. CASE jobs'[r] # jobs[r]
    <3>1. jobs'[r].status
            \in {"pending", "running", jobs[r].status} \cup TerminalStatuses
      BY <2>2, <2>4, RowsWritten
    <3>. QED
      BY <2>1, <2>2, <3>1 DEF TerminalStatuses
  <2>. QED
    BY <2>3, <2>4
<1>. QED
  BY <1>1, <1>2 DEF KnownJobs

\* A completed job on which nobody works stays so.
LEMMA CompletedStep ==
  ASSUME FinalInv, [Next]_vars, NEW r \in Requests, CompletedForGood(r)
  PROVE  CompletedForGood(r)' /\ jobs'[r] = jobs[r]
<1>. USE DEF FinalInv
<1>1. jobs[r].status = "completed" /\ Quiet(r)
  BY DEF CompletedForGood
<1>2. jobs'[r] = jobs[r]
  <2>1. ~ Insert(r)
    BY <1>1 DEF KnownJobs, Insert
  <2>2. ASSUME NEW w \in Workers, run[w].job = r
        PROVE  ~ (Begin(w) \/ Succeed(w) \/ RecordFailure(w))
    BY <1>1, <2>2 DEF Quiet, Begin, Succeed, RecordFailure, Conclude
  <2>. QED
    BY <2>1, <2>2, RowsWritten
<1>3. ASSUME NEW w \in Workers, run'[w].job = r,
             run'[w].pc \in {"mark", "collect", "call"}
      PROVE  FALSE
  <2>1. /\ run[w].job = r
        /\ \/ run[w].pc \in {"mark", "collect", "call"}
           \/ jobs[r].status \notin ShortCircuitStatuses
    BY <1>3, EntersWork
  <2>. QED
    BY <1>1, <2>1 DEF Quiet, ShortCircuitStatuses
<1>. QED
  BY <1>1, <1>2, <1>3 DEF CompletedForGood, Quiet

\* Whatever deliveries, retries and crashes do, a completed job that no
\* execution is working on is not run again and its row is not written
\* (the short circuit of run_error_group_analysis_task).
THEOREM CompletedJobsAreLeftAlone == Spec => CompletedIsFinal
<1>1. Init => KnownJobs
  BY DEF Init, KnownJobs, IdleRun, AbsentRow, RowWith
<1>2. FinalInv /\ [Next]_vars => FinalInv'
  BY KnownJobsStep, TypeStep DEF FinalInv
<1>3. FinalInv /\ [Next]_vars
        => [\A r \in Requests : CompletedForGood(r)
              => CompletedForGood(r)' /\ jobs'[r] = jobs[r]]_vars
  BY CompletedStep
<1>. QED
  BY <1>1, <1>2, <1>3, InitType, PTL DEF Spec, FinalInv, CompletedIsFinal

-----------------------------------------------------------------------------
(* What each step of a worker does to its own execution *)

\* The steps in which worker w or what happens to it changes something.
StepOf(w) == WorkerStep(w) \/ Fault(w) \/ WorkerCrash(w) \/ Redeliver(w)

\* A step is one of the API, of a worker, or of nobody.
LEMMA StepCases ==
  ASSUME [Next]_vars
  PROVE  \/ \E s \in Requests : ApiStep(s) \/ PublishFails(s)
         \/ \E w \in Workers : StepOf(w)
         \/ UNCHANGED vars
BY DEF Next, Disturbance, StepOf

\* The API leaves the executions and the analyses alone, a worker the answers.
LEMMA StepFrames ==
  /\ \A s \in Requests : ApiStep(s) \/ PublishFails(s)
       => UNCHANGED <<run, analyses, clock>>
  /\ \A w \in Workers : StepOf(w) => UNCHANGED api
<1>1. ASSUME NEW s \in Requests, ApiStep(s) \/ PublishFails(s)
      PROVE  UNCHANGED <<run, analyses, clock>>
  BY <1>1 DEF ApiStep, Lookup, Insert, Publish, PublishFails
<1>2. ASSUME NEW w \in Workers, StepOf(w)
      PROVE  UNCHANGED api
  BY <1>2 DEF StepOf, WorkerStep, Receive, Load, Begin, Collect, Succeed,
              RecordFailure, Conclude, Republish, Ack, Fault, WorkerCrash, Redeliver
<1>. QED
  BY <1>1, <1>2

\* No step of one worker changes the execution of another.
LEMMA OthersGoOn ==
  ASSUME TypeInv, NEW w \in Workers, StepOf(w), NEW v \in Workers, v # w
  PROVE  run'[v] = run[v]
BY DEF StepOf, WorkerStep, Receive, Load, Begin, Collect, Succeed, RecordFailure,
       Conclude, Republish, Ack, Fault, WorkerCrash, Redeliver, TypeInv, TypeOK

\* Receive: the execution takes over a message that waited.
LEMMA ReceiveEffect ==
  ASSUME TypeInv, NEW w \in Workers, Receive(w)
  PROVE  \E m \in Messages :
           /\ queue[m] > 0
           /\ queue' = [queue EXCEPT ![m] = @ - 1]
           /\ run'[w].pc = "load"
           /\ run'[w].job = m.job
           /\ run'[w].retries = m.retries
<1>1. PICK m \in Messages :
        /\ queue[m] > 0
        /\ queue' = [queue EXCEPT ![m] = @ - 1]
        /\ run' = [run EXCEPT ![w] = [IdleRun EXCEPT !.pc = "load",
                                                     !.job = m.job,
                                                     !.retries = m.retries]]
  BY DEF Receive
<1>2. run'[w] = [IdleRun EXCEPT !.pc = "load", !.job = m.job,
                                !.retries = m.retries]
  BY <1>1 DEF TypeInv, TypeOK
<1>3. /\ run'[w].pc = "load" /\ run'[w].job = m.job
      /\ run'[w].retries = m.retries
  BY <1>2 DEF IdleRun
<1>. QED
  BY <1>1, <1>3

\* Load: the execution ends, or goes on with a copy of the row and a new date.
LEMMA LoadEffect ==
  ASSUME TypeInv, NEW w \in Workers, Load(w)
  PROVE  /\ run[w].pc = "load"
         /\ run'[w].job = run[w].job
         /\ run'[w].retries = run[w].retries
         /\ \/ /\ run'[w].pc = "ack" /\ clock' = clock
               /\ jobs[run[w].job].status \in ShortCircuitStatuses \cup {"absent"}
            \/ /\ run'[w].pc = "mark" /\ clock' = clock + 1
               /\ run'[w].loaded = jobs[run[w].job]
               /\ run'[w].began = clock + 1
               /\ jobs[run[w].job].status \notin ShortCircuitStatuses \cup {"absent"}
<1>. DEFINE row == jobs[run[w].job]
<1>1. /\ \/ /\ row.status \in ShortCircuitStatuses \cup {"absent"}
            /\ run'[w] = [run[w] EXCEPT !.pc = "ack"] /\ clock' = clock
         \/ /\ row.status \notin ShortCircuitStatuses \cup {"absent"}
            /\ run'[w] = [run[w] EXCEPT !.pc = "mark", !.loaded = row,
                                        !.began = clock + 1]
            /\ clock' = clock + 1
      /\ run[w] \in Runs /\ run[w].pc = "load"
  BY DEF TypeInv, TypeOK, Load
<1>. HIDE DEF row
<1>2. /\ run'[w].job = run[w].job
      /\ run'[w].retries = run[w].retries
      /\ \/ /\ run'[w].pc = "ack" /\ clock' = clock
            /\ row.status \in ShortCircuitStatuses \cup {"absent"}
         \/ /\ run'[w].pc = "mark" /\ clock' = clock + 1
            /\ run'[w].loaded = row
            /\ run'[w].began = clock + 1
            /\ row.status \notin ShortCircuitStatuses \cup {"absent"}
  BY <1>1 DEF Runs
<1>. QED
  BY <1>1, <1>2 DEF row

\* Begin: the task fails, or the row is written and an analysis added.
LEMMA BeginEffect ==
  ASSUME TypeInv, NEW w \in Workers, Begin(w)
  PROVE  /\ run[w].pc = "mark"
         /\ run'[w].job = run[w].job
         /\ run'[w].retries = run[w].retries
         /\ \/ /\ run'[w].pc = IF run[w].retries < MaxRetries THEN "republish" ELSE "ack"
               /\ spent' = [spent EXCEPT !.refusals = @ + 1]
               /\ UNCHANGED <<jobs, analyses>>
            \/ /\ run'[w].pc = "collect"
               /\ run'[w].began = run[w].began
               /\ run'[w].loaded = jobs'[run[w].job]
               /\ jobs'[run[w].job] = Flush(MarkRunning(run[w].loaded),
                                            run[w].loaded, jobs[run[w].job])
               /\ jobs'[run[w].job].status \in ActiveStatuses => ~ScopeTaken(w)
               /\ \A r \in Requests \ {run[w].job} : jobs'[r] = jobs[r]
               /\ analyses' = analyses \cup
                    {[created_at |-> run[w].began, group |-> Group(w),
                      job |-> run[w].job, status |-> "pending"]}
               /\ UNCHANGED spent
<1>. DEFINE row == Flush(MarkRunning(run[w].loaded), run[w].loaded,
                         jobs[run[w].job])
            added == {[created_at |-> run[w].began, group |-> Group(w),
                       job |-> run[w].job, status |-> "pending"]}
<1>1. /\ run[w] \in Runs /\ run[w].pc = "mark" /\ run[w].job \in Requests
      /\ \/ /\ run'[w] = [run[w] EXCEPT !.pc = AfterFault(w)]
            /\ spent' = [spent EXCEPT !.refusals = @ + 1]
            /\ UNCHANGED <<jobs, analyses>>
         \/ /\ run'[w] = [run[w] EXCEPT !.pc = "collect", !.loaded = row]
            /\ jobs' = [jobs EXCEPT ![run[w].job] = row]
            /\ row.status \in ActiveStatuses => ~ScopeTaken(w)
            /\ analyses' = analyses \cup added
            /\ UNCHANGED spent
  BY DEF TypeInv, TypeOK, Begin
<1>2. row = Flush(MarkRunning(run[w].loaded), run[w].loaded, jobs[run[w].job])
  OBVIOUS
<1>3. added = {[created_at |-> run[w].began, group |-> Group(w),
                job |-> run[w].job, status |-> "pending"]}
  OBVIOUS
<1>. HIDE DEF row, added
<1>4. CASE run'[w] = [run[w] EXCEPT !.pc = AfterFault(w)]
           /\ spent' = [spent EXCEPT !.refusals = @ + 1]
           /\ UNCHANGED <<jobs, analyses>>
  <2>1. /\ run'[w].pc = AfterFault(w) /\ run'[w].job = run[w].job
        /\ run'[w].retries = run[w].retries
    BY <1>1, <1>4 DEF Runs
  <2>. QED
    BY <1>1, <1>4, <2>1 DEF AfterFault
<1>5. CASE /\ run'[w] = [run[w] EXCEPT !.pc = "collect", !.loaded = row]
           /\ jobs' = [jobs EXCEPT ![run[w].job] = row]
           /\ row.status \in ActiveStatuses => ~ScopeTaken(w)
           /\ analyses' = analyses \cup added
           /\ UNCHANGED spent
  <2>1. /\ run'[w].pc = "collect" /\ run'[w].job = run[w].job
        /\ run'[w].retries = run[w].retries
        /\ run'[w].loaded = row
        /\ run'[w].began = run[w].began
    BY <1>1, <1>5 DEF Runs
  <2>2. /\ jobs'[run[w].job] = row
        /\ \A r \in Requests \ {run[w].job} : jobs'[r] = jobs[r]
    BY <1>1, <1>5 DEF TypeInv, TypeOK
  <2>. QED
    BY <1>1, <1>2, <1>3, <1>5, <2>1, <2>2
<1>. QED
  BY <1>1, <1>4, <1>5

\* Collect: the execution goes on with what it found to be the latest analysis.
LEMMA CollectEffect ==
  ASSUME TypeInv, NEW w \in Workers, Collect(w)
  PROVE  /\ run[w].pc = "collect" /\ run'[w].pc = "call"
         /\ run'[w].job = run[w].job /\ run'[w].retries = run[w].retries
         /\ run'[w].loaded = run[w].loaded /\ run'[w].began = run[w].began
         /\ UNCHANGED <<jobs, analyses, clock, queue, spent>>
         /\ \E a \in analyses : /\ a.group = Group(w) /\ IsLatest(a)
                                /\ run'[w].latest = a.created_at
                                /\ run'[w].seen = a.status
<1>1. PICK a \in analyses :
        /\ a.group = Group(w) /\ IsLatest(a)
        /\ run' = [run EXCEPT ![w] = [@ EXCEPT !.pc = "call",
                                               !.latest = a.created_at,
                                               !.seen = a.status]]
  BY DEF Collect
<1>2. /\ run'[w] = [run[w] EXCEPT !.pc = "call", !.latest = a.created_at,
                                  !.seen = a.status]
      /\ run[w] \in Runs
  BY <1>1 DEF TypeInv, TypeOK
<1>3. /\ run'[w].pc = "call" /\ run'[w].job = run[w].job
      /\ run'[w].retries = run[w].retries
      /\ run'[w].loaded = run[w].loaded /\ run'[w].began = run[w].began
      /\ run'[w].latest = a.created_at /\ run'[w].seen = a.status
  BY <1>2 DEF Runs
<1>. QED
  BY <1>1, <1>3 DEF Collect

\* The analyses when execution w has written its outcome.
Concluded(w, outcome) ==
  {IF a.created_at = run[w].latest
   THEN [a EXCEPT !.status = Column(outcome, run[w].seen, @)]
   ELSE a : a \in analyses}

\* Conclude: the execution and the job are over.
LEMMA ConcludeEffect ==
  ASSUME TypeInv, NEW w \in Workers, Succeed(w) \/ RecordFailure(w)
  PROVE  /\ run[w].pc = "call" /\ run'[w].pc = "ack"
         /\ run'[w].job = run[w].job /\ run'[w].retries = run[w].retries
         /\ \A r \in Requests \ {run[w].job} : jobs'[r] = jobs[r]
         /\ \E outcome \in {"completed", "failed"} :
              /\ jobs'[run[w].job].status = outcome
              /\ analyses' = Concluded(w, outcome)
<1>1. PICK outcome \in {"completed", "failed"}, success \in 0..1, failure \in 0..1 :
        Conclude(w, outcome, success, failure)
  BY DEF Succeed, RecordFailure
<1>. DEFINE row == Flush(UpdateProgress(run[w].loaded, 1, success, failure),
                         run[w].loaded, jobs[run[w].job])
<1>2. /\ run'[w] = [run[w] EXCEPT !.pc = "ack"]
      /\ run[w] \in Runs /\ run[w].pc = "call" /\ run[w].job \in Requests
      /\ jobs' = [jobs EXCEPT ![run[w].job] = MarkCompleted(row, outcome)]
      /\ analyses' = Concluded(w, outcome)
  BY <1>1 DEF Conclude, Concluded, TypeInv, TypeOK
<1>3. MarkCompleted(row, outcome).status = outcome
  BY DEF MarkCompleted, Flush
<1>. HIDE DEF row
<1>4. /\ jobs'[run[w].job].status = outcome
      /\ \A r \in Requests \ {run[w].job} : jobs'[r] = jobs[r]
  BY <1>2, <1>3 DEF TypeInv, TypeOK
<1>5. /\ run'[w].pc = "ack" /\ run'[w].job = run[w].job
      /\ run'[w].retries = run[w].retries
  BY <1>2 DEF Runs
<1>. QED
  BY <1>2, <1>4, <1>5

\* Fault: the task is to be retried, or is over.
LEMMA FaultEffect ==
  ASSUME TypeInv, NEW w \in Workers, Fault(w)
  PROVE  /\ run[w].pc \in {"load", "mark", "collect", "call"}
         /\ run'[w].pc = IF run[w].retries < MaxRetries THEN "republish" ELSE "ack"
         /\ run'[w].job = run[w].job /\ run'[w].retries = run[w].retries
         /\ spent' = [spent EXCEPT !.faults = @ + 1]
<1>1. /\ run'[w] = [run[w] EXCEPT !.pc = AfterFault(w)] /\ run[w] \in Runs
      /\ run[w].pc \in {"load", "mark", "collect", "call"}
      /\ spent' = [spent EXCEPT !.faults = @ + 1]
  BY DEF TypeInv, TypeOK, Fault
<1>2. /\ run'[w].pc = AfterFault(w)
      /\ run'[w].job = run[w].job /\ run'[w].retries = run[w].retries
  BY <1>1 DEF Runs
<1>. QED
  BY <1>1, <1>2 DEF AfterFault

\* One more copy of a message, which is all that a publication does.
Sent(m) ==
  /\ queue'[m] = queue[m] + 1
  /\ \A n \in Messages \ {m} : queue'[n] = queue[n]

\* Send makes one more copy.
LEMMA SendEffect ==
  ASSUME TypeInv, NEW m \in Messages, Send(m)
  PROVE  Sent(m)
BY DEF TypeInv, TypeOK, Send, Sent

\* The publication of a request sends the first message of its job.
LEMMA PublishEffect ==
  ASSUME TypeInv, NEW s \in Requests, Publish(s)
  PROVE  /\ [job |-> s, retries |-> 0] \in Messages
         /\ Sent([job |-> s, retries |-> 0])
<1>1. [job |-> s, retries |-> 0] \in Messages
  BY BudgetAssumption DEF Messages
<1>. QED
  BY <1>1, SendEffect DEF Publish

\* A retry sends the message of the job again, with one more retry.
LEMMA RepublishEffect ==
  ASSUME TypeInv, NEW w \in Workers, Republish(w)
  PROVE  /\ run[w].pc = "republish" /\ run'[w].pc = "ack"
         /\ run'[w].job = run[w].job /\ run'[w].retries = run[w].retries
         /\ \E m \in Messages : /\ m.job = run[w].job
                                /\ m.retries = run[w].retries + 1
                                /\ Sent(m)
<1>1. /\ run[w] \in Runs /\ run[w].job \in Requests
      /\ run[w].pc = "republish" /\ run[w].retries < MaxRetries
      /\ run'[w] = [run[w] EXCEPT !.pc = "ack"]
  BY DEF TypeInv, TypeOK, RetriesLeft, Republish
<1>. DEFINE m == [Message(w) EXCEPT !.retries = @ + 1]
<1>2. m = [job |-> run[w].job, retries |-> run[w].retries + 1]
  BY DEF Message
<1>3. m \in Messages
  BY <1>1, <1>2, BudgetAssumption DEF Messages, Runs
<1>4. Send(m)
  BY DEF Republish
<1>5. m.job = run[w].job /\ m.retries = run[w].retries + 1
  BY <1>2
<1>. HIDE DEF m
<1>. QED
  BY <1>1, <1>3, <1>4, <1>5, SendEffect DEF Runs

\* A crash and a redelivery send the message as it was.
LEMMA CrashEffect ==
  ASSUME TypeInv, NEW w \in Workers, WorkerCrash(w) \/ Redeliver(w)
  PROVE  /\ run[w].pc # "idle"
         /\ WorkerCrash(w) => run'[w].pc = "idle"
         /\ Redeliver(w) => run'[w] = run[w]
         /\ \E m \in Messages : /\ m.job = run[w].job
                                /\ m.retries = run[w].retries
                                /\ Sent(m)
         /\ spent'.faults = spent.faults /\ spent'.refusals = spent.refusals
<1>1. run[w].pc # "idle" /\ run[w] \in Runs /\ run[w].job \in Requests
  BY DEF TypeInv, TypeOK, WorkerCrash, Redeliver
<1>2. /\ Message(w) \in Messages /\ Message(w).job = run[w].job
      /\ Message(w).retries = run[w].retries
  BY <1>1 DEF Message, Messages, Runs
<1>3. Sent(Message(w))
  BY <1>2, SendEffect DEF WorkerCrash, Redeliver
<1>4. /\ WorkerCrash(w) => run'[w].pc = "idle"
      /\ Redeliver(w) => run'[w] = run[w]
  <2>1. WorkerCrash(w) => run'[w] = IdleRun
    BY DEF TypeInv, TypeOK, WorkerCrash
  <2>. QED
    BY <2>1 DEF Redeliver, IdleRun
<1>5. spent'.faults = spent.faults /\ spent'.refusals = spent.refusals
  BY DEF TypeInv, TypeOK, WorkerCrash, Redeliver
<1>. QED
  BY <1>1, <1>2, <1>3, <1>4, <1>5

\* An acknowledged execution is over.
LEMMA AckEffect ==
  ASSUME TypeInv, NEW w \in Workers, Ack(w)
  PROVE  run[w].pc = "ack" /\ run'[w].pc = "idle"
BY DEF TypeInv, TypeOK, Ack, IdleRun

-----------------------------------------------------------------------------
(* An active job is carried by a message or by an execution *)

\* The faults and refusals so far, each of which takes a retry.
Taken == spent.faults + spent.refusals

\* Every retry on the way was caused by a fault or a refusal, and a task that is
\* about to be retried has just met one more.
RetriesAreTaken ==
  /\ \A m \in Messages : queue[m] > 0 => m.retries <= Taken
  /\ \A w \in Workers :
       /\ run[w].pc # "idle" => run[w].retries <= Taken
       /\ run[w].pc = "republish" => run[w].retries < Taken

Waits(r) == \E m \in Messages : m.job = r /\ queue[m] > 0

Carries(w, r) ==
  /\ run[w].job = r
  /\ run[w].pc \in {"load", "mark", "collect", "call", "republish"}

\* What has been taken is never forgotten, and a step that ends in a retry
\* takes one more.
LEMMA TakenGrows ==
  ASSUME TypeInv, [Next]_vars
  PROVE  /\ Taken \in Nat /\ Taken' \in Nat /\ Taken' >= Taken
         /\ \A w \in Workers :
              /\ Fault(w) => Taken' = Taken + 1
              /\ Begin(w) /\ run'[w].pc # "collect" => Taken' = Taken + 1
<1>1. /\ spent \in [faults : Nat, refusals : Nat, crashes : Nat, redeliveries : Nat]
      /\ spent' \in [faults : Nat, refusals : Nat, crashes : Nat, redeliveries : Nat]
  BY TypeStep DEF TypeInv, TypeOK
<1>2. Taken \in Nat /\ Taken' \in Nat
  BY <1>1 DEF Taken
<1>3. ASSUME NEW w \in Workers, Fault(w)
      PROVE  Taken' = Taken + 1
  BY <1>1, <1>3, FaultEffect DEF Taken
<1>4. ASSUME NEW w \in Workers, Begin(w)
      PROVE  /\ Taken' = Taken \/ Taken' = Taken + 1
             /\ run'[w].pc # "collect" => Taken' = Taken + 1
  <2>1. \/ UNCHANGED spent /\ run'[w].pc = "collect"
        \/ spent' = [spent EXCEPT !.refusals = @ + 1]
    BY <1>4, BeginEffect
  <2>. QED
    BY <1>1, <2>1 DEF Taken
<1>5. ASSUME NEW w \in Workers, WorkerCrash(w) \/ Redeliver(w)
      PROVE  Taken' = Taken
  BY <1>5, CrashEffect DEF Taken
<1>6. ASSUME NEW s \in Requests, PublishFails(s)
      PROVE  Taken' = Taken
  BY <1>1, <1>6 DEF PublishFails, Taken
<1>7. UNCHANGED spent => Taken' = Taken
  BY DEF Taken
<1>8. \/ UNCHANGED spent
      \/ \E w \in Workers : Begin(w) \/ Fault(w) \/ WorkerCrash(w) \/ Redeliver(w)
      \/ \E s \in Requests : PublishFails(s)
  BY DEF Next, ApiStep, WorkerStep, Disturbance, vars, Lookup, Insert, Publish,
         Receive, Load, Collect, Succeed, RecordFailure, Conclude, Republish, Ack
<1>. QED
  BY <1>2, <1>3, <1>4, <1>5, <1>6, <1>7, <1>8

\* A retry is published only after a fault or a refusal.
LEMMA RetriesAreTakenStep ==
  ASSUME TypeInv, RetriesAreTaken, [Next]_vars
  PROVE  RetriesAreTaken'
<1>1. Taken \in Nat /\ Taken' \in Nat /\ Taken' >= Taken
  BY TakenGrows
<1>2. /\ \A m \in Messages : m.retries \in Nat
      /\ \A m \in Messages : queue[m] \in Nat /\ queue'[m] \in Nat
      /\ \A w \in Workers : run[w].retries \in Nat /\ run'[w].retries \in Nat
  <2>1. TypeInv /\ TypeInv'
    BY TypeStep
  <2>2. \A m \in Messages : m.retries \in Nat
    BY BudgetAssumption DEF Messages
  <2>3. \A m \in Messages : queue[m] \in Nat /\ queue'[m] \in Nat
    BY <2>1 DEF TypeInv, TypeOK
  <2>4. ASSUME NEW w \in Workers
        PROVE  run[w].retries \in Nat /\ run'[w].retries \in Nat
    <3>1. run[w] \in Runs /\ run'[w] \in Runs
      BY <2>1 DEF TypeInv, TypeOK
    <3>. QED
      BY <3>1, BudgetAssumption DEF Runs
  <2>. QED
    BY <2>2, <2>3, <2>4
<1>3. ASSUME NEW m \in Messages, queue'[m] > 0
      PROVE  m.retries <= Taken'
  <2>1. CASE queue[m] > 0
    BY <1>1, <1>2, <2>1 DEF RetriesAreTaken
  <2>2. CASE queue[m] = 0
    <3>1. ASSUME NEW s \in Requests, Publish(s)
          PROVE  m.retries = 0
      <4>. DEFINE n == [job |-> s, retries |-> 0]
      <4>1. Sent(n) /\ n.retries = 0
        BY <3>1, PublishEffect
      <4>. HIDE DEF n
      <4>2. m = n
        BY <1>3, <2>2, <4>1 DEF Sent
      <4>. QED
        BY <4>1, <4>2
    <3>2. ASSUME NEW w \in Workers, Republish(w)
          PROVE  m.retries <= Taken'
      <4>1. run[w].pc = "republish" /\ m.retries = run[w].retries + 1
        BY <1>3, <2>2, <3>2, RepublishEffect DEF Sent
      <4>. QED
        BY <1>1, <1>2, <4>1 DEF RetriesAreTaken
    <3>3. ASSUME NEW w \in Workers, WorkerCrash(w) \/ Redeliver(w)
          PROVE  m.retries <= Taken'
      <4>1. run[w].pc # "idle" /\ m.retries = run[w].retries
        BY <1>3, <2>2, <3>3, CrashEffect DEF Sent
      <4>. QED
        BY <1>1, <1>2, <4>1 DEF RetriesAreTaken
    <3>4. ASSUME NEW w \in Workers, Receive(w)
          PROVE  FALSE
      BY <1>2, <1>3, <2>2, <3>4, ReceiveEffect DEF TypeInv, TypeOK
    <3>5. \/ UNCHANGED queue
          \/ \E s \in Requests : Publish(s)
          \/ \E w \in Workers : \/ Republish(w) \/ WorkerCrash(w)
                                \/ Redeliver(w) \/ Receive(w)
      BY DEF Next, ApiStep, WorkerStep, Disturbance, vars, Lookup, Insert,
             PublishFails, Load, Begin, Collect, Succeed, RecordFailure,
             Conclude, Ack, Fault
    <3>. QED
      BY <1>1, <1>2, <1>3, <2>2, <3>1, <3>2, <3>3, <3>4, <3>5
  <2>. QED
    BY <1>2, <2>1, <2>2
<1>4. ASSUME NEW v \in Workers
      PROVE  /\ run'[v].pc # "idle" => run'[v].retries <= Taken'
             /\ run'[v].pc = "republish" => run'[v].retries < Taken'
  <2>1. CASE run'[v] = run[v]
    BY <1>1, <1>2, <2>1 DEF RetriesAreTaken
  <2>2. CASE Receive(v)
    <3>1. PICK m \in Messages : /\ queue[m] > 0 /\ run'[v].pc = "load"
                                /\ run'[v].retries = m.retries
      BY <2>2, ReceiveEffect
    <3>. QED
      BY <1>1, <1>2, <3>1 DEF RetriesAreTaken
  <2>3. CASE \/ Load(v) \/ Collect(v) \/ Succeed(v) \/ RecordFailure(v)
             \/ Republish(v)
    <3>1. /\ run[v].pc # "idle" /\ run'[v].pc # "republish"
          /\ run'[v].retries = run[v].retries
      BY <2>3, LoadEffect, CollectEffect, ConcludeEffect, RepublishEffect
    <3>. QED
      BY <1>1, <1>2, <3>1 DEF RetriesAreTaken
  <2>4. CASE Begin(v)
    <3>1. /\ run[v].pc # "idle" /\ run'[v].retries = run[v].retries
          /\ run'[v].pc # "collect" => Taken' = Taken + 1
      BY <2>4, BeginEffect, TakenGrows
    <3>. QED
      BY <1>1, <1>2, <3>1 DEF RetriesAreTaken
  <2>5. CASE Fault(v)
    <3>1. /\ run[v].pc # "idle" /\ run'[v].retries = run[v].retries
          /\ Taken' = Taken + 1
      BY <2>5, FaultEffect, TakenGrows
    <3>. QED
      BY <1>1, <1>2, <3>1 DEF RetriesAreTaken
  <2>6. CASE Ack(v) \/ WorkerCrash(v)
    BY <2>6, AckEffect, CrashEffect
  <2>7. CASE Redeliver(v)
    BY <2>1, <2>7, CrashEffect
  <2>8. run'[v] = run[v] \/ StepOf(v)
    BY StepCases, StepFrames, OthersGoOn DEF vars
  <2>. QED
    BY <2>1, <2>2, <2>3, <2>4, <2>5, <2>6, <2>7, <2>8 DEF StepOf, WorkerStep
<1>. QED
  BY <1>3, <1>4 DEF RetriesAreTaken

\* A message that waits goes on waiting, or a worker loads its job.
LEMMA WaitingIsCarried ==
  ASSUME TypeInv, [Next]_vars, NEW r \in Requests, Waits(r)
  PROVE  Waits(r)' \/ \E w \in Workers : Carries(w, r)'
<1>1. PICK m \in Messages : m.job = r /\ queue[m] > 0
  BY DEF Waits
<1>2. \A n \in Messages : queue[n] \in Nat /\ queue'[n] \in Nat
  BY TypeStep DEF TypeInv, TypeOK
<1>3. CASE queue'[m] >= queue[m]
  BY <1>1, <1>2, <1>3 DEF Waits
<1>4. ASSUME NEW w \in Workers, Receive(w), ~(queue'[m] >= queue[m])
      PROVE  Carries(w, r)'
  <2>1. PICK n \in Messages : /\ queue' = [queue EXCEPT ![n] = @ - 1]
                              /\ run'[w].pc = "load" /\ run'[w].job = n.job
    BY <1>4, ReceiveEffect
  <2>2. n = m
    BY <1>2, <1>4, <2>1 DEF TypeInv, TypeOK
  <2>. QED
    BY <1>1, <2>1, <2>2 DEF Carries
<1>5. ASSUME NEW n \in Messages, Sent(n)
      PROVE  queue'[m] >= queue[m]
  BY <1>2, <1>5 DEF Sent
<1>6. \/ UNCHANGED queue
      \/ \E n \in Messages : Sent(n)
      \/ \E w \in Workers : Receive(w)
  <2>1. \A s \in Requests : Publish(s) => \E n \in Messages : Sent(n)
    BY PublishEffect
  <2>2. \A w \in Workers : Republish(w) \/ WorkerCrash(w) \/ Redeliver(w)
                             => \E n \in Messages : Sent(n)
    BY RepublishEffect, CrashEffect
  <2>. QED
    BY <2>1, <2>2
       DEF Next, ApiStep, WorkerStep, Disturbance, vars, Lookup, Insert,
           PublishFails, Load, Begin, Collect, Succeed, RecordFailure, Conclude,
           Ack, Fault
<1>7. CASE UNCHANGED queue
  BY <1>1, <1>7 DEF Waits
<1>. QED
  BY <1>3, <1>4, <1>5, <1>6, <1>7

\* An execution that carries an active job hands it on with every step, unless
\* that step finishes the job or the retries are used up.
LEMMA CarrierHandsOn ==
  ASSUME TypeInv, RetriesAreTaken, [Next]_vars, NEW r \in Requests,
         jobs[r].status \in ActiveStatuses, jobs'[r].status \in ActiveStatuses,
         Taken' <= MaxRetries, NEW w \in Workers, Carries(w, r)
  PROVE  Waits(r)' \/ Carries(w, r)'
<1>1. /\ run[w].job = r
      /\ run[w].pc \in {"load", "mark", "collect", "call", "republish"}
  BY DEF Carries
<1>2. /\ \A m \in Messages : queue[m] \in Nat
      /\ Taken \in Nat /\ run[w].retries \in Nat
  <2>1. run[w] \in Runs /\ \A m \in Messages : queue[m] \in Nat
    BY DEF TypeInv, TypeOK
  <2>. QED
    BY <2>1, TakenGrows, BudgetAssumption DEF Runs
<1>3. CASE run'[w] = run[w]
  BY <1>3 DEF Carries
<1>4. CASE Load(w)
  BY <1>1, <1>4, LoadEffect DEF Carries, ActiveStatuses, ShortCircuitStatuses
<1>5. Taken' = Taken + 1 => run[w].retries < MaxRetries
  BY <1>1, <1>2, BudgetAssumption DEF RetriesAreTaken
<1>6. CASE Begin(w)
  BY <1>1, <1>5, <1>6, BeginEffect, TakenGrows DEF Carries
<1>7. CASE Collect(w)
  BY <1>1, <1>7, CollectEffect DEF Carries
<1>8. ~(Succeed(w) \/ RecordFailure(w))
  BY <1>1, ConcludeEffect DEF ActiveStatuses
<1>9. CASE Fault(w)
  BY <1>1, <1>5, <1>9, FaultEffect, TakenGrows DEF Carries
<1>10. CASE Republish(w) \/ WorkerCrash(w) \/ Redeliver(w)
  <2>1. PICK m \in Messages : m.job = r /\ Sent(m)
    BY <1>1, <1>10, RepublishEffect, CrashEffect
  <2>. QED
    BY <1>2, <2>1 DEF Sent, Waits
<1>11. ~Receive(w) /\ ~Ack(w)
  BY <1>1 DEF Receive, Ack
<1>12. run'[w] = run[w] \/ StepOf(w)
  BY StepCases, StepFrames, OthersGoOn DEF vars
<1>. QED
  BY <1>3, <1>4, <1>6, <1>7, <1>8, <1>9, <1>10, <1>11, <1>12
     DEF StepOf, WorkerStep

\* A job becomes active when it is inserted, before it is accepted, or when an
\* execution takes it up; it is accepted by the publication of its message.
LEMMA BecomingActive ==
  ASSUME TypeInv, [Next]_vars, NEW r \in Requests,
         api'[r] = "accepted", jobs'[r].status \in ActiveStatuses
  PROVE  \/ api[r] = "accepted" /\ jobs[r].status \in ActiveStatuses
         \/ Waits(r)'
         \/ \E w \in Workers : Carries(w, r)'
<1>1. CASE api[r] = "accepted" /\ jobs[r].status \notin ActiveStatuses
  <2>1. jobs'[r] # jobs[r]
    BY <1>1
  <2>2. ~Insert(r)
    BY <1>1 DEF Insert
  <2>3. PICK w \in Workers : /\ run[w].job = r
                             /\ \/ Begin(w)
                                \/ jobs'[r].status \in TerminalStatuses
    BY <2>1, <2>2, RowsWritten
  <2>4. Begin(w)
    BY <2>3 DEF TerminalStatuses, ActiveStatuses
  <2>. QED
    BY <2>1, <2>3, <2>4, BeginEffect DEF Carries
<1>2. CASE api[r] # "accepted"
  <2>1. Publish(r)
    <3>1. PICK s \in Requests : ApiStep(s) \/ PublishFails(s)
      BY <1>2, StepCases, StepFrames DEF vars
    <3>. QED
      BY <1>2, <3>1 DEF ApiStep, Lookup, Insert, Publish, PublishFails, TypeInv, TypeOK
  <2>2. [job |-> r, retries |-> 0] \in Messages /\ Sent([job |-> r, retries |-> 0])
    BY <2>1, PublishEffect
  <2>3. queue[[job |-> r, retries |-> 0]] \in Nat
    BY <2>2 DEF TypeInv, TypeOK
  <2>. QED
    BY <2>2, <2>3 DEF Sent, Waits
<1>. QED
  BY <1>1, <1>2

\* An accepted job that is still active is carried by a message that waits or
\* by an execution under way, while faults and refusals leave it a retry: the
\* group it locks will be freed.
THEOREM ActiveJobsStayCarried == Spec => []ActiveJobsAreCarried
<1>1. ActiveJobsAreCarried <=>
        \A r \in Requests :
          /\ api[r] = "accepted" /\ jobs[r].status \in ActiveStatuses
          /\ Taken <= MaxRetries
          => Waits(r) \/ \E w \in Workers : Carries(w, r)
  BY DEF ActiveJobsAreCarried, RetriesSuffice, Taken, Carried, Waits, Carries
<1>2. Init => RetriesAreTaken /\ ActiveJobsAreCarried
  BY DEF Init, RetriesAreTaken, ActiveJobsAreCarried, IdleRun
<1>3. TypeInv /\ RetriesAreTaken /\ ActiveJobsAreCarried /\ [Next]_vars
        => RetriesAreTaken' /\ ActiveJobsAreCarried'
  <2>. SUFFICES ASSUME TypeInv, RetriesAreTaken, ActiveJobsAreCarried, [Next]_vars
                PROVE  ActiveJobsAreCarried'
    BY RetriesAreTakenStep
  <2>1. ASSUME NEW r \in Requests, api'[r] = "accepted",
               jobs'[r].status \in ActiveStatuses, Taken' <= MaxRetries
        PROVE  Waits(r)' \/ \E w \in Workers : Carries(w, r)'
    <3>1. Taken <= MaxRetries
      BY <2>1, TakenGrows, BudgetAssumption
    <3>2. CASE api[r] = "accepted" /\ jobs[r].status \in ActiveStatuses
      <4>1. Waits(r) \/ \E w \in Workers : Carries(w, r)
        BY <1>1, <3>1, <3>2
      <4>. QED
        BY <2>1, <3>2, <4>1, WaitingIsCarried, CarrierHandsOn
    <3>. QED
      BY <2>1, <3>2, BecomingActive
  <2>. QED
    BY <2>1 DEF ActiveJobsAreCarried, RetriesSuffice, Taken, Carried, Waits, Carries
<1>. QED
  BY <1>2, <1>3, InitType, TypeStep, PTL DEF Spec

-----------------------------------------------------------------------------
(* With one worker the latest analysis says what its job says *)

\* Executions do not overlap: there is no more than one worker process.
OneWorker == \A v, w \in Workers : v = w

\* No two analyses have one date, and none is of the future.
Dated ==
  /\ \A a \in analyses : a.created_at <= clock /\ a.group = GroupOf[a.job]
  /\ \A a, b \in analyses : a.created_at = b.created_at => a = b

\* The execution at work has the status of its job in hand, and began last.
UpToDate ==
  \A w \in Workers :
    run[w].pc \in {"mark", "collect", "call"} =>
      /\ run[w].loaded.status = jobs[run[w].job].status
      /\ run[w].began = clock

\* From the commit that takes the job up to the one that concludes it, the job
\* runs and its pending analysis is the last one of the table.
Begun ==
  \A w \in Workers :
    /\ run[w].pc = "mark" => \A a \in analyses : a.created_at < clock
    /\ run[w].pc \in {"collect", "call"} =>
         /\ jobs[run[w].job].status = "running"
         /\ \E a \in analyses : /\ a.created_at = clock
                                /\ a.job = run[w].job
                                /\ a.status = "pending"
    /\ run[w].pc = "call" => run[w].latest = clock /\ run[w].seen = "pending"

LatestInv ==
  /\ FinalInv
  /\ Dated /\ UpToDate /\ Begun
  /\ LatestAnalysisMatchesJob

\* Concluding changes the status of one analysis and nothing else of any.
LEMMA ConcludedAnalyses ==
  ASSUME TypeInv, NEW w \in Workers, NEW outcome,
         analyses' = Concluded(w, outcome),
         NEW b \in analyses'
  PROVE  \E a \in analyses :
           /\ b.created_at = a.created_at /\ b.group = a.group /\ b.job = a.job
           /\ a.created_at # run[w].latest => b = a
           /\ a.created_at = run[w].latest =>
                b.status = Column(outcome, run[w].seen, a.status)
           /\ b = [a EXCEPT !.status = b.status]
<1>1. PICK a \in analyses :
        b = IF a.created_at = run[w].latest
            THEN [a EXCEPT !.status = Column(outcome, run[w].seen, @)]
            ELSE a
  BY DEF Concluded
<1>2. a \in Analyses
  BY DEF TypeInv, TypeOK
<1>. DEFINE st == Column(outcome, run[w].seen, a.status)
<1>3. CASE a.created_at = run[w].latest
  <2>1. b = [a EXCEPT !.status = st]
    BY <1>1, <1>3
  <2>. HIDE DEF st
  <2>2. /\ b.created_at = a.created_at /\ b.group = a.group /\ b.job = a.job
        /\ b.status = st /\ b = [a EXCEPT !.status = b.status]
    BY <1>2, <2>1 DEF Analyses
  <2>. QED
    BY <1>3, <2>2 DEF st
<1>4. CASE a.created_at # run[w].latest
  <2>1. b = a
    BY <1>1, <1>4
  <2>2. b = [a EXCEPT !.status = b.status]
    BY <1>2, <2>1 DEF Analyses
  <2>. QED
    BY <1>4, <2>1, <2>2
<1>. QED
  BY <1>3, <1>4

\* What a step does to the rows, the analyses and the clock.
LEMMA StepOfTables ==
  ASSUME TypeInv, [Next]_vars
  PROVE  \/ UNCHANGED <<jobs, analyses>>
         \/ \E r \in Requests : Insert(r) /\ UNCHANGED analyses
         \/ \E w \in Workers : Begin(w) \/ Succeed(w) \/ RecordFailure(w)
<1>1. \A r \in Requests : Insert(r) => UNCHANGED analyses
  BY DEF Insert
<1>. QED
  BY <1>1
     DEF Next, ApiStep, WorkerStep, Disturbance, vars, Lookup, Publish,
         PublishFails, Receive, Load, Collect, Republish, Ack, Fault,
         WorkerCrash, Redeliver

\* Time goes on, by the reads that begin a transaction.
LEMMA ClockGrows ==
  ASSUME TypeInv, [Next]_vars
  PROVE  /\ clock \in Nat /\ clock' \in Nat /\ clock' >= clock
         /\ clock' = clock \/ \E w \in Workers : Load(w)
<1>1. clock \in Nat /\ clock' \in Nat
  BY TypeStep DEF TypeInv, TypeOK
<1>2. clock' = clock \/ \E w \in Workers : Load(w)
  BY DEF Next, ApiStep, WorkerStep, Disturbance, vars, Lookup, Insert, Publish,
         PublishFails, Receive, Begin, Collect, Succeed, RecordFailure, Conclude,
         Republish, Ack, Fault, WorkerCrash, Redeliver
<1>3. ASSUME NEW w \in Workers, Load(w)
      PROVE  clock' = clock \/ clock' = clock + 1
  BY <1>3, LoadEffect
<1>. QED
  BY <1>1, <1>2, <1>3

\* A new analysis has a date of its own.
LEMMA DatedStep ==
  ASSUME LatestInv, [Next]_vars
  PROVE  Dated'
<1>1. TypeInv /\ Dated /\ UpToDate /\ Begun
  BY DEF LatestInv, FinalInv
<1>2. clock \in Nat /\ clock' \in Nat /\ clock' >= clock
  BY <1>1, ClockGrows
<1>3. \A a \in analyses : a \in Analyses /\ a.created_at \in Nat
  BY <1>1 DEF TypeInv, TypeOK, Analyses
<1>4. CASE UNCHANGED analyses
  BY <1>1, <1>2, <1>3, <1>4 DEF Dated
<1>5. ASSUME NEW w \in Workers, Begin(w), ~UNCHANGED analyses
      PROVE  Dated'
  <2>. DEFINE new == [created_at |-> run[w].began, group |-> Group(w),
                      job |-> run[w].job, status |-> "pending"]
  <2>1. run[w].pc = "mark" /\ analyses' = analyses \cup {new}
    BY <1>1, <1>5, BeginEffect
  <2>2. /\ new.created_at = clock /\ new.group = GroupOf[new.job]
        /\ \A a \in analyses : a.created_at < clock
    BY <1>1, <2>1 DEF UpToDate, Begun, Group
  <2>. HIDE DEF new
  <2>3. ASSUME NEW a \in analyses'
        PROVE  a.created_at <= clock' /\ a.group = GroupOf[a.job]
    BY <1>1, <1>2, <1>3, <2>1, <2>2, <2>3 DEF Dated
  <2>4. ASSUME NEW a \in analyses', NEW b \in analyses', a.created_at = b.created_at
        PROVE  a = b
    BY <1>1, <1>2, <1>3, <2>1, <2>2, <2>4 DEF Dated
  <2>. QED
    BY <2>3, <2>4 DEF Dated
<1>6. ASSUME NEW w \in Workers, Succeed(w) \/ RecordFailure(w)
      PROVE  Dated'
  <2>1. PICK outcome : analyses' = Concluded(w, outcome)
    BY <1>1, <1>6, ConcludeEffect
  <2>2. ASSUME NEW b \in analyses'
        PROVE  b.created_at <= clock' /\ b.group = GroupOf[b.job]
    <3>1. PICK a \in analyses :
            b.created_at = a.created_at /\ b.group = a.group /\ b.job = a.job
      BY <1>1, <2>1, ConcludedAnalyses
    <3>. QED
      BY <1>1, <1>2, <1>3, <3>1 DEF Dated
  <2>3. ASSUME NEW b \in analyses', NEW c \in analyses', b.created_at = c.created_at
        PROVE  b = c
    <3>1. PICK a \in analyses :
            b = IF a.created_at = run[w].latest
                THEN [a EXCEPT !.status = Column(outcome, run[w].seen, @)]
                ELSE a
      BY <2>1 DEF Concluded
    <3>2. PICK d \in analyses :
            c = IF d.created_at = run[w].latest
                THEN [d EXCEPT !.status = Column(outcome, run[w].seen, @)]
                ELSE d
      BY <2>1 DEF Concluded
    <3>3. /\ [a EXCEPT !.status = Column(outcome, run[w].seen, @)].created_at
               = a.created_at
          /\ [d EXCEPT !.status = Column(outcome, run[w].seen, @)].created_at
               = d.created_at
      <4>1. a \in Analyses /\ d \in Analyses
        BY <1>3
      <4>. QED
        BY <4>1 DEF Analyses
    <3>4. b.created_at = a.created_at
      BY <3>1, <3>3
    <3>5. c.created_at = d.created_at
      BY <3>2, <3>3
    <3>6. a = d
      BY <1>1, <2>3, <3>4, <3>5 DEF Dated
    <3>. QED
      BY <3>1, <3>2, <3>6
  <2>. QED
    BY <2>2, <2>3 DEF Dated
<1>. QED
  BY <1>1, <1>4, <1>5, <1>6, StepOfTables

\* No step of the API touches the row the only worker is at work on.
LEMMA ApiLeavesWork ==
  ASSUME FinalInv, NEW s \in Requests, ApiStep(s) \/ PublishFails(s),
         NEW w \in Workers, run[w].pc \in {"mark", "collect", "call"}
  PROVE  jobs'[run[w].job] = jobs[run[w].job]
<1>1. CASE Insert(s)
  <2>1. jobs[s].status = "absent" /\ jobs[run[w].job].status # "absent"
    BY <1>1 DEF Insert, FinalInv, KnownJobs
  <2>. QED
    BY <1>1, <2>1 DEF Insert, FinalInv, TypeInv, TypeOK
<1>2. CASE ~Insert(s)
  BY <1>2 DEF ApiStep, Lookup, Publish, PublishFails
<1>. QED
  BY <1>1, <1>2

\* What the only worker has in hand stays up to date.
LEMMA UpToDateStep ==
  ASSUME LatestInv, OneWorker, [Next]_vars
  PROVE  UpToDate'
<1>. SUFFICES ASSUME NEW w \in Workers, run'[w].pc \in {"mark", "collect", "call"}
              PROVE  /\ run'[w].loaded.status = jobs'[run'[w].job].status
                     /\ run'[w].began = clock'
  BY DEF UpToDate
<1>1. TypeInv /\ UpToDate /\ FinalInv
  BY DEF LatestInv, FinalInv
<1>2. CASE UNCHANGED <<run, jobs, clock>>
  BY <1>1, <1>2 DEF UpToDate
<1>3. CASE \E s \in Requests : ApiStep(s) \/ PublishFails(s)
  <2>1. UNCHANGED <<run, clock>>
    BY <1>3, StepFrames
  <2>. QED
    BY <1>1, <1>3, <2>1, ApiLeavesWork DEF UpToDate
<1>4. CASE Load(w)
  <2>1. UNCHANGED jobs
    BY <1>4 DEF Load
  <2>. QED
    BY <1>1, <1>4, <2>1, LoadEffect
<1>5. CASE Begin(w)
  <2>1. UNCHANGED clock
    BY <1>5 DEF Begin
  <2>. QED
    BY <1>1, <1>5, <2>1, BeginEffect DEF UpToDate
<1>6. CASE Collect(w)
  BY <1>1, <1>6, CollectEffect DEF UpToDate
<1>7. ~(Receive(w) \/ Succeed(w) \/ RecordFailure(w) \/ Fault(w) \/ Republish(w)
        \/ Ack(w) \/ WorkerCrash(w))
  BY <1>1, ReceiveEffect, ConcludeEffect, FaultEffect, RepublishEffect, AckEffect,
     CrashEffect
<1>8. CASE Redeliver(w)
  BY <1>2, <1>8 DEF Redeliver
<1>9. \/ \E s \in Requests : ApiStep(s) \/ PublishFails(s)
      \/ StepOf(w)
      \/ UNCHANGED vars
  BY StepCases DEF OneWorker
<1>. QED
  BY <1>2, <1>3, <1>4, <1>5, <1>6, <1>7, <1>8, <1>9 DEF StepOf, WorkerStep, vars

\* An execution that is up to date and begins makes its job a running one.
LEMMA BeginTakesUp ==
  ASSUME TypeInv, UpToDate, NEW w \in Workers, Begin(w),
         ~UNCHANGED <<jobs, analyses>> \/ run'[w].pc = "collect"
  PROVE  jobs'[run[w].job].status = "running"
<1>1. /\ run[w].pc = "mark"
      /\ jobs'[run[w].job] = Flush(MarkRunning(run[w].loaded), run[w].loaded,
                                   jobs[run[w].job])
  BY BeginEffect
<1>2. run[w].loaded.status = jobs[run[w].job].status
  BY <1>1 DEF UpToDate
<1>3. MarkRunning(run[w].loaded).status = "running"
  <2>1. run[w].loaded \in Row(1)
    BY DEF TypeInv, TypeOK, Runs
  <2>. QED
    BY <2>1 DEF MarkRunning, Row
<1>. QED
  BY <1>1, <1>2, <1>3 DEF Flush, Column

\* From Begin to Conclude the only worker's analysis stays the last one.
LEMMA BegunStep ==
  ASSUME LatestInv, OneWorker, [Next]_vars
  PROVE  Begun'
<1>. SUFFICES ASSUME NEW w \in Workers
              PROVE  /\ run'[w].pc = "mark" => \A a \in analyses' : a.created_at < clock'
                     /\ run'[w].pc \in {"collect", "call"} =>
                          /\ jobs'[run'[w].job].status = "running"
                          /\ \E a \in analyses' : /\ a.created_at = clock'
                                                  /\ a.job = run'[w].job
                                                  /\ a.status = "pending"
                     /\ run'[w].pc = "call" =>
                          run'[w].latest = clock' /\ run'[w].seen = "pending"
  BY DEF Begun
<1>1. /\ TypeInv /\ Dated /\ UpToDate /\ Begun /\ FinalInv
      /\ clock \in Nat /\ \A a \in analyses : a.created_at \in Nat
  BY DEF LatestInv, FinalInv, TypeInv, TypeOK, Analyses
<1>2. CASE UNCHANGED <<run, jobs, clock, analyses>>
  BY <1>1, <1>2 DEF Begun
<1>3. CASE \E s \in Requests : ApiStep(s) \/ PublishFails(s)
  <2>1. UNCHANGED <<run, clock, analyses>>
    BY <1>3, StepFrames
  <2>. QED
    BY <1>1, <1>3, <2>1, ApiLeavesWork DEF Begun
<1>4. CASE Load(w)
  <2>1. UNCHANGED analyses
    BY <1>4 DEF Load
  <2>. QED
    BY <1>1, <1>4, <2>1, LoadEffect DEF Dated
<1>5. CASE Begin(w) /\ run'[w].pc = "collect"
  <2>. DEFINE new == [created_at |-> run[w].began, group |-> Group(w),
                      job |-> run[w].job, status |-> "pending"]
  <2>1. /\ run[w].pc = "mark" /\ run'[w].job = run[w].job
        /\ jobs'[run[w].job] = Flush(MarkRunning(run[w].loaded), run[w].loaded,
                                     jobs[run[w].job])
        /\ analyses' = analyses \cup {new}
        /\ UNCHANGED clock
    BY <1>1, <1>5, BeginEffect DEF Begin
  <2>2. /\ new.created_at = clock /\ new.job = run[w].job /\ new.status = "pending"
    BY <1>1, <2>1 DEF UpToDate
  <2>4. jobs'[run[w].job].status = "running"
    BY <1>1, <1>5, <2>1, BeginTakesUp
  <2>. HIDE DEF new
  <2>. QED
    BY <1>5, <2>1, <2>2, <2>4
<1>6. CASE Begin(w) /\ run'[w].pc # "collect"
  BY <1>1, <1>6, BeginEffect
<1>7. CASE Collect(w)
  <2>1. PICK a \in analyses : /\ a.group = Group(w) /\ IsLatest(a)
                              /\ run'[w].latest = a.created_at
                              /\ run'[w].seen = a.status
    BY <1>1, <1>7, CollectEffect
  <2>2. /\ run[w].pc = "collect" /\ run'[w].pc = "call"
        /\ run'[w].job = run[w].job
        /\ UNCHANGED <<jobs, analyses, clock>>
    BY <1>1, <1>7, CollectEffect
  <2>3. PICK b \in analyses : /\ b.created_at = clock /\ b.job = run[w].job
                              /\ b.status = "pending"
    BY <1>1, <2>2 DEF Begun
  <2>4. b.group = a.group
    BY <1>1, <2>1, <2>3 DEF Dated, Group
  <2>5. b.created_at <= a.created_at /\ a.created_at <= clock
    BY <1>1, <2>1, <2>3, <2>4 DEF IsLatest, Dated
  <2>6. a.created_at = b.created_at
    BY <1>1, <2>3, <2>5
  <2>7. a = b
    BY <1>1, <2>6 DEF Dated
  <2>8. jobs[run[w].job].status = "running"
    BY <1>1, <2>2 DEF Begun
  <2>. QED
    BY <2>1, <2>2, <2>3, <2>7, <2>8
<1>8. ASSUME \/ Receive(w) \/ Succeed(w) \/ RecordFailure(w) \/ Fault(w)
             \/ Republish(w) \/ Ack(w) \/ WorkerCrash(w)
      PROVE  run'[w].pc \notin {"mark", "collect", "call"}
  BY <1>1, <1>8, ReceiveEffect, ConcludeEffect, FaultEffect, RepublishEffect,
     AckEffect, CrashEffect
<1>9. CASE Redeliver(w)
  BY <1>2, <1>9 DEF Redeliver
<1>10. \/ \E s \in Requests : ApiStep(s) \/ PublishFails(s)
       \/ StepOf(w)
       \/ UNCHANGED vars
  BY StepCases DEF OneWorker
<1>. QED
  BY <1>2, <1>3, <1>4, <1>5, <1>6, <1>7, <1>8, <1>9, <1>10
     DEF StepOf, WorkerStep, vars

-----------------------------------------------------------------------------

\* Concluding keeps every analysis, with its date, its group and its job.
LEMMA ConcludedKeepsAnalyses ==
  ASSUME TypeInv, NEW w \in Workers, NEW outcome,
         analyses' = Concluded(w, outcome), NEW a \in analyses
  PROVE  \E b \in analyses' :
           b.created_at = a.created_at /\ b.group = a.group /\ b.job = a.job
<1>1. a \in Analyses
  BY DEF TypeInv, TypeOK
<1>. DEFINE b == IF a.created_at = run[w].latest
                 THEN [a EXCEPT !.status = Column(outcome, run[w].seen, @)]
                 ELSE a
<1>2. b \in analyses'
  BY DEF Concluded
<1>3. b.created_at = a.created_at /\ b.group = a.group /\ b.job = a.job
  BY <1>1 DEF Analyses
<1>. QED
  BY <1>2, <1>3

\* A group whose jobs are left alone has the active jobs it had.
LEMMA OtherGroups ==
  ASSUME NEW j \in Requests, \A r \in Requests \ {j} : jobs'[r] = jobs[r],
         NEW g, g # GroupOf[j]
  PROVE  ActiveJobs(g)' = ActiveJobs(g)
BY DEF ActiveJobs

\* An insert locks its group and leaves the others as they were.
LEMMA InsertKeepsLatest ==
  ASSUME LatestInv, NEW r \in Requests, Insert(r), UNCHANGED analyses
  PROVE  LatestAnalysisMatchesJob'
<1>1. TypeInv /\ Dated /\ LatestAnalysisMatchesJob
  BY DEF LatestInv, FinalInv
<1>2. CASE UNCHANGED jobs
  BY <1>1, <1>2 DEF LatestAnalysisMatchesJob, IsLatest, ActiveJobs
<1>3. CASE ~UNCHANGED jobs
  <2>1. jobs' = [jobs EXCEPT ![r] = PendingRow]
    BY <1>3 DEF Insert
  <2>2. /\ jobs'[r].status = "pending"
        /\ \A s \in Requests \ {r} : jobs'[s] = jobs[s]
    BY <1>1, <2>1 DEF TypeInv, TypeOK, PendingRow, RowWith
  <2>3. ASSUME NEW a \in analyses, IsLatest(a)', ActiveJobs(a.group)' = {}
        PROVE  a.status = jobs'[a.job].status
    <3>1. a.group # GroupOf[r]
      BY <2>2, <2>3 DEF ActiveJobs, ActiveStatuses
    <3>2. ActiveJobs(a.group)' = ActiveJobs(a.group)
      BY <2>2, <3>1, OtherGroups
    <3>3. IsLatest(a)
      BY <2>3 DEF IsLatest
    <3>4. a.job # r /\ a.job \in Requests
      BY <1>1, <3>1 DEF Dated, TypeInv, TypeOK, Analyses
    <3>. QED
      BY <1>1, <2>2, <2>3, <3>2, <3>3, <3>4 DEF LatestAnalysisMatchesJob
  <2>. QED
    BY <2>3 DEF LatestAnalysisMatchesJob
<1>. QED
  BY <1>2, <1>3

\* Taking up a job locks its group until the execution concludes.
LEMMA BeginKeepsLatest ==
  ASSUME LatestInv, NEW w \in Workers, Begin(w)
  PROVE  LatestAnalysisMatchesJob'
<1>1. TypeInv /\ Dated /\ UpToDate /\ LatestAnalysisMatchesJob
  BY DEF LatestInv, FinalInv
<1>2. CASE UNCHANGED <<jobs, analyses>>
  BY <1>1, <1>2 DEF LatestAnalysisMatchesJob, IsLatest, ActiveJobs
<1>3. CASE ~UNCHANGED <<jobs, analyses>>
  <2>1. PICK j \in Requests : run[w].job = j
    BY DEF TypeInv, TypeOK, LatestInv, FinalInv, Begin
  <2>. DEFINE new == [created_at |-> run[w].began, group |-> GroupOf[j],
                      job |-> j, status |-> "pending"]
  <2>2. /\ \A r \in Requests \ {j} : jobs'[r] = jobs[r]
        /\ analyses' = analyses \cup {new}
        /\ jobs'[j].status = "running"
    BY <1>1, <1>3, <2>1, BeginEffect, BeginTakesUp DEF Group
  <2>3. new.group = GroupOf[j]
    OBVIOUS
  <2>. HIDE DEF new
  <2>4. ASSUME NEW a \in analyses', IsLatest(a)', ActiveJobs(a.group)' = {}
        PROVE  a.status = jobs'[a.job].status
    <3>1. a.group # GroupOf[j]
      BY <2>2, <2>4 DEF ActiveJobs, ActiveStatuses
    <3>2. a \in analyses
      BY <2>2, <2>3, <3>1
    <3>3. ActiveJobs(a.group)' = ActiveJobs(a.group)
      BY <2>2, <3>1, OtherGroups
    <3>4. IsLatest(a)
      BY <2>2, <2>4, <3>2 DEF IsLatest
    <3>5. a.job # j /\ a.job \in Requests
      BY <1>1, <3>1, <3>2 DEF Dated, TypeInv, TypeOK, Analyses
    <3>. QED
      BY <1>1, <2>2, <2>4, <3>2, <3>3, <3>4, <3>5 DEF LatestAnalysisMatchesJob
  <2>. QED
    BY <2>4 DEF LatestAnalysisMatchesJob
<1>. QED
  BY <1>2, <1>3

\* The outcome goes to the analysis that the execution added, which is still
\* the last one of its group.
LEMMA ConcludeKeepsLatest ==
  ASSUME LatestInv, NEW w \in Workers, Succeed(w) \/ RecordFailure(w)
  PROVE  LatestAnalysisMatchesJob'
<1>1. TypeInv /\ Dated /\ Begun /\ LatestAnalysisMatchesJob
  BY DEF LatestInv, FinalInv
<1>2. PICK j \in Requests : run[w].job = j
  BY DEF TypeInv, TypeOK, LatestInv, FinalInv, Succeed, RecordFailure, Conclude
<1>3. PICK outcome \in {"completed", "failed"} :
        jobs'[j].status = outcome /\ analyses' = Concluded(w, outcome)
  BY <1>1, <1>2, ConcludeEffect
<1>4. /\ \A r \in Requests \ {j} : jobs'[r] = jobs[r]
      /\ run[w].pc = "call"
  BY <1>1, <1>2, ConcludeEffect
<1>5. run[w].latest = clock /\ run[w].seen = "pending"
  BY <1>1, <1>4 DEF Begun
<1>6. PICK p \in analyses : /\ p.created_at = clock /\ p.job = j
                            /\ p.status = "pending"
  BY <1>1, <1>2, <1>4 DEF Begun
<1>7. p.group = GroupOf[j]
  BY <1>1, <1>6 DEF Dated
<1>8. clock \in Nat /\ \A a \in analyses : a \in Analyses /\ a.created_at \in Nat
  BY <1>1 DEF TypeInv, TypeOK, Analyses
<1>. SUFFICES ASSUME NEW b \in analyses', IsLatest(b)', ActiveJobs(b.group)' = {}
              PROVE  b.status = jobs'[b.job].status
  BY DEF LatestAnalysisMatchesJob
<1>9. PICK a \in analyses :
        /\ b.created_at = a.created_at /\ b.group = a.group /\ b.job = a.job
        /\ a.created_at # run[w].latest => b = a
        /\ a.created_at = run[w].latest =>
             b.status = Column(outcome, run[w].seen, a.status)
  BY <1>1, <1>3, ConcludedAnalyses
<1>10. \A c \in analyses : c.group = b.group => c.created_at <= b.created_at
  <2>. SUFFICES ASSUME NEW c \in analyses, c.group = b.group
                PROVE  c.created_at <= b.created_at
    OBVIOUS
  <2>1. PICK d \in analyses' : d.created_at = c.created_at /\ d.group = c.group
    BY <1>1, <1>3, ConcludedKeepsAnalyses
  <2>. QED
    BY <2>1 DEF IsLatest
<1>11. CASE b.group = GroupOf[j]
  <2>1. clock <= a.created_at /\ a.created_at <= clock
    BY <1>1, <1>6, <1>7, <1>9, <1>10, <1>11 DEF Dated
  <2>2. a.created_at = p.created_at
    BY <1>6, <1>8, <2>1
  <2>3. a = p
    BY <1>1, <2>2 DEF Dated
  <2>4. b.status = outcome /\ b.job = j
    BY <1>3, <1>5, <1>6, <1>9, <2>3 DEF Column
  <2>. QED
    BY <1>3, <2>4
<1>12. CASE b.group # GroupOf[j]
  <2>1. a.created_at # clock
    BY <1>1, <1>6, <1>7, <1>9, <1>12 DEF Dated
  <2>2. b = a
    BY <1>5, <1>9, <2>1
  <2>3. ActiveJobs(b.group)' = ActiveJobs(b.group)
    BY <1>4, <1>12, OtherGroups
  <2>4. IsLatest(a)
    BY <1>10, <2>2 DEF IsLatest
  <2>5. a.job # j /\ a.job \in Requests
    BY <1>1, <1>8, <1>12, <2>2 DEF Dated, Analyses
  <2>. QED
    BY <1>1, <1>4, <2>2, <2>3, <2>4, <2>5 DEF LatestAnalysisMatchesJob
<1>. QED
  BY <1>11, <1>12

\* With one worker process, once no job of an error group is active the latest
\* analysis has the outcome of the job that asked for it, whatever is delivered
\* twice, retried or lost in between (get_latest_for_group in the task finds
\* the analysis which the same execution added).
THEOREM OneWorkerLatestMatches ==
  ASSUME OneWorker
  PROVE  Spec => []LatestAnalysisMatchesJob
<1>1. Init => LatestInv
  <2>1. Init => FinalInv
    BY InitType DEF Init, FinalInv, KnownJobs, IdleRun, AbsentRow, RowWith
  <2>2. Init => Dated /\ UpToDate /\ Begun /\ LatestAnalysisMatchesJob
    BY DEF Init, Dated, UpToDate, Begun, LatestAnalysisMatchesJob, IdleRun
  <2>. QED
    BY <2>1, <2>2 DEF LatestInv
<1>2. LatestInv /\ [Next]_vars => LatestInv'
  <2>. SUFFICES ASSUME LatestInv, [Next]_vars PROVE LatestInv'
    OBVIOUS
  <2>1. FinalInv /\ TypeInv /\ LatestAnalysisMatchesJob
    BY DEF LatestInv, FinalInv
  <2>2. FinalInv'
    BY <2>1, KnownJobsStep, TypeStep DEF FinalInv
  <2>3. LatestAnalysisMatchesJob'
    <3>1. CASE UNCHANGED <<jobs, analyses>>
      BY <2>1, <3>1 DEF LatestAnalysisMatchesJob, IsLatest, ActiveJobs
    <3>. QED
      BY <2>1, <3>1, StepOfTables, InsertKeepsLatest, BeginKeepsLatest,
         ConcludeKeepsLatest
  <2>. QED
    BY <2>2, <2>3, DatedStep, UpToDateStep, BegunStep DEF LatestInv
<1>3. LatestInv => LatestAnalysisMatchesJob
  BY DEF LatestInv
<1>. QED
  BY <1>1, <1>2, <1>3, PTL DEF Spec

=============================================================================
