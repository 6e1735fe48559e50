------------------------- MODULE BulkIngestionProofs -------------------------
(***************************************************************************)
(* Theorems about BulkIngestion, for any requests, keys, workers, number   *)
(* of items, retries and disturbances.                                     *)
(***************************************************************************)
EXTENDS BulkIngestion, FiniteSetTheorems, TLAPS

-----------------------------------------------------------------------------
(* The rows of table background_jobs, for every number of items *)

\* A flush of well-typed copies leaves a well-typed row.
LEMMA FlushType ==
  ASSUME NEW N \in Nat, NEW new \in Row(N), NEW loaded \in Row(N),
         NEW current \in Row(N)
  PROVE  Flush(new, loaded, current) \in Row(N)
BY DEF Row, Flush, Column

\* The rows a repository method makes from a well-typed copy are well typed.
LEMMA CopyType ==
  ASSUME NEW N \in Nat, NEW row \in Row(N)
  PROVE  /\ MarkRunning(row) \in Row(N)
         /\ \A p, s, f \in 0..N : UpdateProgress(row, p, s, f) \in Row(N)
         /\ \A st \in Statuses : MarkCompleted(row, st) \in Row(N)
BY DEF Row, MarkRunning, UpdateProgress, MarkCompleted, Statuses

\* The row of a job that is not there and that of a new job are well typed.
LEMMA InitialRowsType ==
  ASSUME NEW N \in Nat
  PROVE  AbsentRow \in Row(N) /\ PendingRow \in Row(N)
BY DEF Row, AbsentRow, PendingRow, RowWith, Statuses

-----------------------------------------------------------------------------
(* Types *)

\* The bulk task never ends a job as failed.
LEMMA OutcomeType ==
  ASSUME NEW ok, NEW bad
  PROVE  Outcome(ok, bad) \in {"completed", "partially_completed"}
BY DEF Outcome, FinalStatus

\* Every execution has stored or rejected each item it has done: why its
\* counters stay in range, so TypeOK is inductive only together with it.
Tally == \A w \in Workers : run[w].ok + run[w].bad = run[w].idx

\* A task that is about to be retried has a retry left, so its next message
\* is one of Messages.
RetriesLeft ==
  \A w \in Workers : run[w].pc = "republish" => run[w].retries < MaxRetries

TypeInv == TypeOK /\ Tally /\ RetriesLeft

\* TypeInv holds in the initial states.
LEMMA InitType == Init => TypeInv
<1>. SUFFICES ASSUME Init PROVE TypeInv
  OBVIOUS
<1>1. AbsentRow \in Row(NumItems) /\ NumItems \in Nat
  BY NumItemsAssumption, InitialRowsType
<1>2. IdleRun \in Runs
  BY <1>1, BudgetAssumption DEF IdleRun, Runs
<1>3. api \in [Requests -> ApiStates]
  BY DEF Init, ApiStates
<1>. QED
  BY <1>1, <1>2, <1>3 DEF Init, TypeInv, TypeOK, Tally, RetriesLeft, IdleRun, Items

\* A commit by a worker that holds a job keeps the table and the executions
\* well typed, given that the new copy and the next execution state are.
LEMMA CommitType ==
  ASSUME TypeOK, NEW w \in Workers, NEW new \in Row(NumItems),
         NEW next \in Runs, run[w].pc # "idle", Commit(w, new, next)
  PROVE  /\ jobs' \in [Requests -> Row(NumItems)]
         /\ run' \in [Workers -> Runs]
         /\ run'[w].pc = next.pc /\ run'[w].job = next.job
         /\ run'[w].idx = next.idx
         /\ run'[w].ok = next.ok /\ run'[w].bad = next.bad
         /\ \A v \in Workers \ {w} : run'[v] = run[v]
<1>. DEFINE row == Flush(new, run[w].loaded, jobs[run[w].job])
<1>1. run[w] \in Runs /\ run[w].job \in Requests
  BY DEF TypeOK
<1>2. row \in Row(NumItems)
  <2>1. run[w].loaded \in Row(NumItems)
    BY <1>1 DEF Runs
  <2>2. jobs[run[w].job] \in Row(NumItems)
    BY <1>1 DEF TypeOK
  <2>. QED
    BY <2>1, <2>2, FlushType, NumItemsAssumption
<1>3. [next EXCEPT !.loaded = row] \in Runs
  BY <1>2 DEF Runs
<1>4. jobs' = [jobs EXCEPT ![run[w].job] = row]
  BY DEF Commit
<1>5. run' = [run EXCEPT ![w] = [next EXCEPT !.loaded = row]]
  BY DEF Commit
<1>. HIDE DEF row
<1>6. run' \in [Workers -> Runs]
  BY <1>3, <1>5 DEF TypeOK
<1>7. jobs' \in [Requests -> Row(NumItems)]
  BY <1>2, <1>4 DEF TypeOK
<1>8. run'[w] = [next EXCEPT !.loaded = row]
  BY <1>5 DEF TypeOK
<1>9. /\ run'[w].pc = next.pc /\ run'[w].job = next.job
      /\ run'[w].idx = next.idx
      /\ run'[w].ok = next.ok /\ run'[w].bad = next.bad
  BY <1>8 DEF Runs
<1>. QED
  BY <1>5, <1>6, <1>7, <1>9 DEF TypeOK

\* What every commit of a worker keeps.
Kept(w) ==
  /\ jobs' \in [Requests -> Row(NumItems)]
  /\ run' \in [Workers -> Runs]
  /\ run'[w].job = run[w].job
  /\ run'[w].ok + run'[w].bad = run'[w].idx
  /\ run'[w].pc \in {"items", "ack"}
  /\ \A v \in Workers \ {w} : run'[v] = run[v]

\* The commit of mark_running keeps the types and the tally.
LEMMA StartKept ==
  ASSUME TypeInv, NEW w \in Workers, Start(w)
  PROVE  Kept(w)
<1>. DEFINE next == [run[w] EXCEPT !.pc = "items", !.idx = 0, !.ok = 0, !.bad = 0]
<1>1. run[w] \in Runs /\ run[w].loaded \in Row(NumItems)
  BY DEF TypeInv, TypeOK, Runs
<1>2. MarkRunning(run[w].loaded) \in Row(NumItems)
  BY <1>1, CopyType, NumItemsAssumption
<1>3. /\ next \in Runs
      /\ next.job = run[w].job
      /\ next.ok + next.bad = next.idx
      /\ next.pc \in {"items", "ack"}
  <2>1. next \in Runs
    <3>1. 0 \in 0..NumItems
      BY NumItemsAssumption
    <3>. QED
      BY <1>1, <3>1 DEF Runs
  <2>2. next.ok = 0 /\ next.bad = 0 /\ next.idx = 0 /\ next.pc = "items"
    BY <1>1 DEF Runs
  <2>3. next.job = run[w].job
    BY <1>1 DEF Runs
  <2>. HIDE DEF next
  <2>. QED
    BY <2>1, <2>2, <2>3
<1>4. Commit(w, MarkRunning(run[w].loaded), next) /\ run[w].pc # "idle"
  BY DEF Start
<1>. HIDE DEF next
<1>. QED
  BY <1>2, <1>3, <1>4, CommitType DEF TypeInv, Kept

\* So does the commit after an item, stored or rejected.
LEMMA CommitItemKept ==
  ASSUME TypeInv, NEW w \in Workers, NEW ok \in Nat, NEW bad \in Nat,
         ok + bad = run[w].idx + 1, run[w].pc = "items",
         run[w].idx < NumItems, CommitItem(w, ok, bad)
  PROVE  Kept(w)
<1>. DEFINE next == [run[w] EXCEPT !.idx = @ + 1, !.ok = ok, !.bad = bad]
<1>1. /\ run[w] \in Runs
      /\ run[w].loaded \in Row(NumItems)
      /\ run[w].idx \in 0..NumItems
  BY DEF TypeInv, TypeOK, Runs
<1>2. /\ run[w].idx + 1 \in 0..NumItems
      /\ ok \in 0..NumItems
      /\ bad \in 0..NumItems
  BY <1>1, NumItemsAssumption
<1>3. UpdateProgress(run[w].loaded, run[w].idx + 1, ok, bad) \in Row(NumItems)
  BY <1>1, <1>2, CopyType, NumItemsAssumption
<1>4. /\ next \in Runs
      /\ next.job = run[w].job
      /\ next.ok + next.bad = next.idx
      /\ next.pc \in {"items", "ack"}
  BY <1>1, <1>2 DEF Runs
<1>5. Commit(w, UpdateProgress(run[w].loaded, run[w].idx + 1, ok, bad), next)
  BY DEF CommitItem
<1>. HIDE DEF next
<1>. QED
  BY <1>3, <1>4, <1>5, CommitType DEF TypeInv, Kept

\* So does the commit of mark_completed.
LEMMA FinishKept ==
  ASSUME TypeInv, NEW w \in Workers, Finish(w)
  PROVE  Kept(w)
<1>. DEFINE next == [run[w] EXCEPT !.pc = "ack"]
            new == MarkCompleted(run[w].loaded, Outcome(run[w].ok, run[w].bad))
<1>1. run[w] \in Runs /\ run[w].loaded \in Row(NumItems)
  BY DEF TypeInv, TypeOK, Runs
<1>2. new \in Row(NumItems)
  <2>1. Outcome(run[w].ok, run[w].bad) \in Statuses
    BY OutcomeType DEF Statuses
  <2>. QED
    BY <1>1, <2>1, CopyType, NumItemsAssumption
<1>3. /\ next \in Runs
      /\ next.job = run[w].job
      /\ next.ok + next.bad = next.idx
      /\ next.pc \in {"items", "ack"}
  BY <1>1 DEF Runs, TypeInv, Tally
<1>4. Commit(w, new, next) /\ run[w].pc # "idle"
  BY DEF Finish
<1>. HIDE DEF next, new
<1>. QED
  BY <1>2, <1>3, <1>4, CommitType DEF TypeInv, Kept

\* A disturbance or a step that touches one execution without a commit.
LEMMA RunUpdateType ==
  ASSUME TypeInv, NEW w \in Workers, NEW next \in Runs,
         next.pc # "idle" => next.job \in Requests,
         next.ok + next.bad = next.idx,
         next.pc = "republish" => next.retries < MaxRetries,
         run' = [run EXCEPT ![w] = next]
  PROVE  /\ run' \in [Workers -> Runs]
         /\ \A v \in Workers : run'[v].pc # "idle" => run'[v].job \in Requests
         /\ Tally' /\ RetriesLeft'
BY DEF TypeInv, TypeOK, Tally, RetriesLeft

\* Publishing a message keeps the queue well typed.
LEMMA SendType ==
  ASSUME TypeInv, NEW m \in Messages, Send(m)
  PROVE  queue' \in [Messages -> Nat]
BY DEF TypeInv, TypeOK, Send

\* Every step of the API keeps TypeInv.
LEMMA ApiType ==
  ASSUME TypeInv, NEW r \in Requests, ApiStep(r) \/ PublishFails(r)
  PROVE  TypeInv'
<1>. USE DEF TypeInv
<1>1. CASE Lookup(r)
  <2>1. api' \in [Requests -> ApiStates]
    <3>1. api[r] \in ApiStates /\ [api[r] EXCEPT !.pc = "insert"] \in ApiStates
      <4>1. api[r] \in ApiStates
        BY DEF TypeOK
      <4>. QED
        BY <4>1 DEF ApiStates
    <3>2. \A j \in Requests : /\ [pc |-> "publish", job |-> j] \in ApiStates
                              /\ [pc |-> "conflict", job |-> r] \in ApiStates
      BY DEF ApiStates
    <3>3. CASE api' = [api EXCEPT ![r].pc = "insert"]
      BY <3>1, <3>3 DEF TypeOK
    <3>4. ASSUME NEW j \in JobsWithKeyOf(r),
                 api' = [api EXCEPT ![r] =
                           IF BodyOf[j] = BodyOf[r]
                           THEN [pc |-> "publish", job |-> j]
                           ELSE [pc |-> "conflict", job |-> r]]
          PROVE  api' \in [Requests -> ApiStates]
      <4>1. j \in Requests
        BY DEF JobsWithKeyOf
      <4>. QED
        BY <3>2, <3>4, <4>1 DEF TypeOK
    <3>. QED
      BY <1>1, <3>3, <3>4 DEF Lookup
  <2>. QED
    BY <1>1, <2>1 DEF Lookup, TypeOK, Tally, RetriesLeft
<1>2. CASE Insert(r)
  <2>1. api' \in [Requests -> ApiStates]
    <3>1. /\ [api[r] EXCEPT !.pc = "error"] \in ApiStates
          /\ [pc |-> "publish", job |-> r] \in ApiStates
      BY DEF TypeOK, ApiStates
    <3>. QED
      BY <1>2, <3>1 DEF Insert, TypeOK
  <2>2. jobs' \in [Requests -> Row(NumItems)]
    BY <1>2, InitialRowsType, NumItemsAssumption DEF Insert, TypeOK
  <2>. QED
    BY <1>2, <2>1, <2>2 DEF Insert, TypeOK, Tally, RetriesLeft
<1>3. CASE Publish(r)
  <2>1. api' \in [Requests -> ApiStates]
    BY <1>3 DEF Publish, TypeOK, ApiStates
  <2>2. [job |-> api[r].job, retries |-> 0] \in Messages
    BY BudgetAssumption DEF TypeOK, ApiStates, Messages
  <2>3. queue' \in [Messages -> Nat]
    BY <1>3, <2>2, SendType DEF Publish
  <2>. QED
    BY <1>3, <2>1, <2>3 DEF Publish, TypeOK, Tally, RetriesLeft
<1>4. CASE PublishFails(r)
  <2>1. api' \in [Requests -> ApiStates]
    BY <1>4 DEF PublishFails, TypeOK, ApiStates
  <2>2. spent' \in [faults : Nat, crashes : Nat, redeliveries : Nat]
    BY <1>4 DEF PublishFails, TypeOK
  <2>. QED
    BY <1>4, <2>1, <2>2 DEF PublishFails, TypeOK, Tally, RetriesLeft
<1>. QED
  BY <1>1, <1>2, <1>3, <1>4 DEF ApiStep

\* A committing step keeps the types; items stored are counted.
LEMMA CommittingType ==
  ASSUME TypeInv, NEW w \in Workers,
         Start(w) \/ StoreItem(w) \/ RejectItem(w) \/ Finish(w)
  PROVE  TypeInv' /\ Kept(w)
<1>1. run[w] \in Runs /\ run[w].ok + run[w].bad = run[w].idx
  BY DEF TypeInv, TypeOK, Tally, RetriesLeft
<1>2. Kept(w)
  <2>1. ASSUME StoreItem(w)
        PROVE  Kept(w)
    <3>1. /\ run[w].ok + 1 \in Nat
          /\ run[w].bad \in Nat
          /\ run[w].ok + 1 + run[w].bad = run[w].idx + 1
      BY <1>1, NumItemsAssumption DEF Runs
    <3>. QED
      BY <2>1, <3>1, CommitItemKept DEF StoreItem
  <2>2. ASSUME RejectItem(w)
        PROVE  Kept(w)
    <3>1. /\ run[w].ok \in Nat
          /\ run[w].bad + 1 \in Nat
          /\ run[w].ok + (run[w].bad + 1) = run[w].idx + 1
      BY <1>1, NumItemsAssumption DEF Runs
    <3>. QED
      BY <2>2, <3>1, CommitItemKept DEF RejectItem
  <2>. QED
    BY <2>1, <2>2, StartKept, FinishKept
<1>3. stored' \in [Requests -> [Items -> Nat]]
  <2>1. CASE StoreItem(w)
    <3>1. run[w].idx + 1 \in Items /\ run[w].job \in Requests
      <4>1. run[w].pc = "items" /\ run[w].idx < NumItems
        BY <2>1 DEF StoreItem
      <4>2. run[w].idx \in 0..NumItems
        BY <1>1 DEF Runs
      <4>. QED
        BY <4>1, <4>2, NumItemsAssumption DEF Items, TypeInv, TypeOK
    <3>. QED
      BY <2>1, <3>1 DEF StoreItem, TypeInv, TypeOK
  <2>. QED
    BY <2>1 DEF Start, RejectItem, Finish, TypeInv, TypeOK
<1>4. UNCHANGED <<api, queue, spent>> /\ run[w].pc # "idle"
  BY DEF Start, StoreItem, RejectItem, Finish
<1>5. \A v \in Workers : run'[v].pc # "idle" => run'[v].job \in Requests
  BY <1>2, <1>4 DEF Kept, TypeInv, TypeOK
<1>. QED
  BY <1>2, <1>3, <1>4, <1>5 DEF Kept, TypeInv, TypeOK, Tally, RetriesLeft

\* The steps of a worker that do not commit keep TypeInv, and so do the
\* disturbances.
LEMMA WorkerType ==
  ASSUME TypeInv, NEW w \in Workers,
         \/ Receive(w) \/ Load(w) \/ Republish(w) \/ Ack(w)
         \/ Fault(w) \/ WorkerCrash(w) \/ Redeliver(w)
  PROVE  TypeInv'
<1>1. /\ run[w] \in Runs
      /\ run[w].ok + run[w].bad = run[w].idx
      /\ run[w].pc # "idle" => run[w].job \in Requests
      /\ run[w].pc # "idle" => Message(w) \in Messages
  BY DEF TypeInv, TypeOK, Tally, Runs, Message, Messages
<1>2. IdleRun \in Runs /\ IdleRun.pc = "idle" /\ IdleRun.ok + IdleRun.bad = IdleRun.idx
  <2>1. AbsentRow \in Row(NumItems)
    BY NumItemsAssumption, InitialRowsType
  <2>. QED
    BY <2>1, NumItemsAssumption, BudgetAssumption DEF IdleRun, Runs
<1>3. CASE Receive(w)
  <2>. PICK m \in Messages :
         /\ queue[m] > 0
         /\ queue' = [queue EXCEPT ![m] = @ - 1]
         /\ run' = [run EXCEPT ![w] = [IdleRun EXCEPT !.pc = "load",
                                                      !.job = m.job,
                                                      !.retries = m.retries]]
    BY <1>3 DEF Receive
  <2>. DEFINE next == [IdleRun EXCEPT !.pc = "load", !.job = m.job,
                                      !.retries = m.retries]
  <2>1. /\ next \in Runs /\ next.job \in Requests
        /\ next.ok + next.bad = next.idx
        /\ next.pc = "republish" => next.retries < MaxRetries
    BY <1>2 DEF Runs, Messages
  <2>2. queue' \in [Messages -> Nat]
    BY DEF TypeInv, TypeOK
  <2>. HIDE DEF next
  <2>3. run' = [run EXCEPT ![w] = next]
    BY DEF next
  <2>. QED
    BY <1>3, <2>1, <2>2, <2>3, RunUpdateType DEF Receive, TypeInv, TypeOK
<1>4. CASE Load(w)
  <2>. DEFINE row == jobs[run[w].job]
              next == IF row.status \in ShortCircuitStatuses \cup {"absent"}
                      THEN [run[w] EXCEPT !.pc = "ack"]
                      ELSE [run[w] EXCEPT !.pc = "mark", !.loaded = row]
  <2>1. row \in Row(NumItems) /\ run[w].job \in Requests
    BY <1>1, <1>4 DEF Load, TypeInv, TypeOK
  <2>2. /\ next \in Runs /\ next.job \in Requests
        /\ next.ok + next.bad = next.idx
        /\ next.pc = "republish" => next.retries < MaxRetries
    <3>. HIDE DEF row
    <3>. QED
      BY <1>1, <2>1 DEF Runs
  <2>3. run' = [run EXCEPT ![w] = next]
    BY <1>4 DEF Load
  <2>. HIDE DEF next
  <2>. QED
    BY <1>4, <2>2, <2>3, RunUpdateType DEF Load, TypeInv, TypeOK
<1>5. CASE Republish(w)
  <2>. DEFINE next == [run[w] EXCEPT !.pc = "ack"]
  <2>1. /\ next \in Runs /\ next.job \in Requests
        /\ next.ok + next.bad = next.idx
        /\ next.pc = "republish" => next.retries < MaxRetries
    BY <1>1, <1>5 DEF Republish, Runs
  <2>2. run' = [run EXCEPT ![w] = next]
    BY <1>5 DEF Republish
  <2>3. queue' \in [Messages -> Nat]
    <3>. DEFINE m == [Message(w) EXCEPT !.retries = @ + 1]
    <3>1. m \in Messages
      <4>1. /\ run[w].job \in Requests
            /\ run[w].retries + 1 \in 0..MaxRetries
        BY <1>1, <1>5, BudgetAssumption
           DEF Republish, TypeInv, RetriesLeft, Runs
      <4>. QED
        BY <4>1 DEF Message, Messages
    <3>2. Send(m)
      BY <1>5 DEF Republish
    <3>. HIDE DEF m
    <3>. QED
      BY <3>1, <3>2, SendType
  <2>. HIDE DEF next
  <2>. QED
    BY <1>5, <2>1, <2>2, <2>3, RunUpdateType DEF Republish, TypeInv, TypeOK
<1>6. CASE Ack(w)
  BY <1>2, <1>6, RunUpdateType DEF Ack, TypeInv, TypeOK
<1>7. CASE Fault(w)
  <2>. DEFINE pc == IF run[w].retries < MaxRetries THEN "republish" ELSE "ack"
              next == [run[w] EXCEPT !.pc = pc]
  <2>1. /\ next \in Runs /\ next.job \in Requests
        /\ next.ok + next.bad = next.idx
        /\ next.pc = "republish" => next.retries < MaxRetries
    BY <1>1, <1>7 DEF Fault, Runs
  <2>2. run' = [run EXCEPT ![w] = next]
    BY <1>7 DEF Fault
  <2>3. spent' \in [faults : Nat, crashes : Nat, redeliveries : Nat]
    BY <1>7 DEF Fault, TypeInv, TypeOK
  <2>. HIDE DEF next
  <2>. QED
    BY <1>7, <2>1, <2>2, <2>3, RunUpdateType DEF Fault, TypeInv, TypeOK
<1>8. CASE WorkerCrash(w)
  <2>1. queue' \in [Messages -> Nat]
    BY <1>1, <1>8, SendType DEF WorkerCrash
  <2>2. spent' \in [faults : Nat, crashes : Nat, redeliveries : Nat]
    BY <1>8 DEF WorkerCrash, TypeInv, TypeOK
  <2>. QED
    BY <1>2, <1>8, <2>1, <2>2, RunUpdateType DEF WorkerCrash, TypeInv, TypeOK
<1>9. CASE Redeliver(w)
  <2>1. queue' \in [Messages -> Nat]
    BY <1>1, <1>9, SendType DEF Redeliver
  <2>2. spent' \in [faults : Nat, crashes : Nat, redeliveries : Nat]
    BY <1>9 DEF Redeliver, TypeInv, TypeOK
  <2>. QED
    BY <1>9, <2>1, <2>2 DEF Redeliver, TypeInv, TypeOK, Tally, RetriesLeft
<1>. QED
  BY <1>3, <1>4, <1>5, <1>6, <1>7, <1>8, <1>9

\* TypeInv is inductive.
LEMMA TypeStep == TypeInv /\ [Next]_vars => TypeInv'
<1>. SUFFICES ASSUME TypeInv, [Next]_vars PROVE TypeInv'
  OBVIOUS
<1>1. CASE UNCHANGED vars
  BY <1>1 DEF vars, TypeInv, TypeOK, Tally, RetriesLeft
<1>. QED
  BY <1>1, ApiType, CommittingType, WorkerType
     DEF Next, WorkerStep, Disturbance

\* The variables keep their types: counters stay within the number of items,
\* a worker that is not idle holds a message of some job, and no message is
\* taken from an empty queue.
THEOREM TypeCorrect == Spec => []TypeOK
<1>1. TypeInv => TypeOK
  BY DEF TypeInv
<1>. QED
  BY InitType, TypeStep, <1>1, PTL DEF Spec

-----------------------------------------------------------------------------

\* The effect of a commit on the table: one row, and a status that is either
\* the one the worker sets or the one that is there.
LEMMA CommitRow ==
  ASSUME TypeInv, NEW w \in Workers, NEW new, NEW next,
         run[w].pc # "idle", Commit(w, new, next)
  PROVE  /\ \A r \in Requests \ {run[w].job} : jobs'[r] = jobs[r]
         /\ jobs'[run[w].job].status \in {new.status, jobs[run[w].job].status}
         /\ new.status = run[w].loaded.status
              => jobs'[run[w].job].status = jobs[run[w].job].status
<1>. DEFINE row == Flush(new, run[w].loaded, jobs[run[w].job])
<1>1. run[w].job \in Requests /\ jobs \in [Requests -> Row(NumItems)]
  BY DEF TypeInv, TypeOK
<1>2. jobs' = [jobs EXCEPT ![run[w].job] = row]
  BY DEF Commit
<1>3. /\ row.status \in {new.status, jobs[run[w].job].status}
      /\ new.status = run[w].loaded.status => row.status = jobs[run[w].job].status
  BY DEF Flush, Column
<1>. HIDE DEF row
<1>. QED
  BY <1>1, <1>2, <1>3

\* The statuses a worker's commit can leave in the row of its job.
LEMMA CommittedStatus ==
  ASSUME TypeInv, NEW w \in Workers
  PROVE  /\ Start(w) =>
              jobs'[run[w].job].status \in {"running", jobs[run[w].job].status}
         /\ StoreItem(w) \/ RejectItem(w) =>
              jobs'[run[w].job].status = jobs[run[w].job].status
         /\ Finish(w) =>
              jobs'[run[w].job].status \in
                {Outcome(run[w].ok, run[w].bad), jobs[run[w].job].status}
         /\ Start(w) \/ StoreItem(w) \/ RejectItem(w) \/ Finish(w) =>
              /\ run[w].pc # "idle"
              /\ \A r \in Requests \ {run[w].job} : jobs'[r] = jobs[r]
<1>1. run[w].loaded \in Row(NumItems)
  BY DEF TypeInv, TypeOK, Runs
<1>2. MarkRunning(run[w].loaded).status = "running"
  BY <1>1 DEF MarkRunning, Row
<1>3. \A p, s, f : UpdateProgress(run[w].loaded, p, s, f).status
                     = run[w].loaded.status
  BY <1>1 DEF UpdateProgress, Row
<1>4. \A st : MarkCompleted(run[w].loaded, st).status = st
  BY <1>1 DEF MarkCompleted, Row
<1>5. ASSUME Start(w)
      PROVE  /\ jobs'[run[w].job].status \in {"running", jobs[run[w].job].status}
             /\ run[w].pc # "idle"
             /\ \A r \in Requests \ {run[w].job} : jobs'[r] = jobs[r]
  <2>1. run[w].pc # "idle"
    BY <1>5 DEF Start
  <2>2. PICK next : Commit(w, MarkRunning(run[w].loaded), next)
    BY <1>5 DEF Start
  <2>. QED
    BY <1>2, <2>1, <2>2, CommitRow
<1>6. ASSUME StoreItem(w) \/ RejectItem(w)
      PROVE  /\ jobs'[run[w].job].status = jobs[run[w].job].status
             /\ run[w].pc # "idle"
             /\ \A r \in Requests \ {run[w].job} : jobs'[r] = jobs[r]
  <2>1. run[w].pc # "idle"
    BY <1>6 DEF StoreItem, RejectItem
  <2>2. PICK ok, bad : CommitItem(w, ok, bad)
    BY <1>6 DEF StoreItem, RejectItem
  <2>. DEFINE next == [run[w] EXCEPT !.idx = @ + 1, !.ok = ok, !.bad = bad]
  <2>3. Commit(w, UpdateProgress(run[w].loaded, run[w].idx + 1, ok, bad), next)
    BY <2>2 DEF CommitItem
  <2>. HIDE DEF next
  <2>. QED
    BY <1>3, <2>1, <2>3, CommitRow
<1>7. ASSUME Finish(w)
      PROVE  /\ jobs'[run[w].job].status \in
                  {Outcome(run[w].ok, run[w].bad), jobs[run[w].job].status}
             /\ run[w].pc # "idle"
             /\ \A r \in Requests \ {run[w].job} : jobs'[r] = jobs[r]
  <2>1. run[w].pc # "idle"
    BY <1>7 DEF Finish
  <2>2. Commit(w, MarkCompleted(run[w].loaded, Outcome(run[w].ok, run[w].bad)),
               [run[w] EXCEPT !.pc = "ack"])
    BY <1>7 DEF Finish
  <2>. QED
    BY <1>4, <2>1, <2>2, CommitRow
<1>. QED
  BY <1>5, <1>6, <1>7

\* A row in the table stays there.
LEMMA RowsStay ==
  ASSUME TypeInv, [Next]_vars, NEW r \in Requests, jobs[r].status # "absent"
  PROVE  jobs'[r].status # "absent"
<1>1. CASE UNCHANGED jobs
  BY <1>1
<1>2. ASSUME NEW s \in Requests, Insert(s)
      PROVE  jobs'[r].status # "absent"
  BY <1>2 DEF Insert, PendingRow, RowWith, TypeInv, TypeOK
<1>3. ASSUME NEW w \in Workers,
             Start(w) \/ StoreItem(w) \/ RejectItem(w) \/ Finish(w)
      PROVE  jobs'[r].status # "absent"
  BY <1>3, CommittedStatus, OutcomeType
<1>. QED
  BY <1>1, <1>2, <1>3
     DEF Next, ApiStep, WorkerStep, Disturbance, vars, Lookup, Publish,
         PublishFails, Receive, Load, Republish, Ack, Fault, WorkerCrash,
         Redeliver

-----------------------------------------------------------------------------
(* A completed job has all its items *)

\* An execution that has rejected nothing has stored every item it has done.
DoneItemsStored ==
  \A w \in Workers :
    run[w].pc = "items" /\ run[w].bad = 0 =>
      \A i \in 1..run[w].idx : stored[run[w].job][i] > 0

CompletionInv == TypeInv /\ DoneItemsStored /\ CompletedMeansStored

\* Stored items are only ever added.
LEMMA StoredGrows ==
  ASSUME TypeInv, [Next]_vars, NEW r \in Requests, NEW i \in Items
  PROVE  stored'[r][i] >= stored[r][i]
<1>1. stored[r][i] \in Nat
  BY DEF TypeInv, TypeOK
<1>2. CASE UNCHANGED stored
  BY <1>1, <1>2
<1>3. ASSUME NEW w \in Workers, StoreItem(w)
      PROVE  stored'[r][i] >= stored[r][i]
  BY <1>1, <1>3 DEF StoreItem, TypeInv, TypeOK
<1>. QED
  BY <1>2, <1>3
     DEF Next, ApiStep, WorkerStep, Disturbance, vars, Lookup, Insert, Publish,
         PublishFails, Receive, Load, Start, RejectItem, Finish, Republish,
         Ack, Fault, WorkerCrash, Redeliver

\* The execution state a commit leaves behind.
LEMMA CommitRun ==
  ASSUME TypeInv, NEW w \in Workers, NEW new, NEW next \in Runs,
         Commit(w, new, next)
  PROVE  /\ run'[w].pc = next.pc /\ run'[w].job = next.job
         /\ run'[w].idx = next.idx /\ run'[w].bad = next.bad
         /\ \A v \in Workers \ {w} : run'[v] = run[v]
<1>. DEFINE row == Flush(new, run[w].loaded, jobs[run[w].job])
<1>1. run' = [run EXCEPT ![w] = [next EXCEPT !.loaded = row]]
  BY DEF Commit
<1>. HIDE DEF row
<1>2. run'[w] = [next EXCEPT !.loaded = row]
  BY <1>1 DEF TypeInv, TypeOK
<1>. QED
  BY <1>1, <1>2 DEF TypeInv, TypeOK, Runs

\* An item that an execution counts as stored is stored, after every step.
LEMMA DoneItemsStep ==
  ASSUME CompletionInv, [Next]_vars
  PROVE  DoneItemsStored'
<1>. SUFFICES ASSUME NEW v \in Workers, run'[v].pc = "items", run'[v].bad = 0,
                     NEW i \in 1..run'[v].idx
              PROVE  stored'[run'[v].job][i] > 0
  BY DEF DoneItemsStored
<1>. USE DEF CompletionInv
<1>1. /\ run[v] \in Runs /\ run'[v] \in Runs
      /\ run'[v].job \in Requests
      /\ i \in Items
      /\ stored[run'[v].job][i] \in Nat
      /\ stored'[run'[v].job][i] \in Nat
  <2>1. TypeInv'
    BY TypeStep
  <2>2. run[v] \in Runs /\ run'[v] \in Runs /\ run'[v].job \in Requests
    BY <2>1 DEF TypeInv, TypeOK
  <2>3. i \in Items
    BY <2>2, NumItemsAssumption DEF Runs, Items
  <2>. QED
    BY <2>1, <2>2, <2>3 DEF TypeInv, TypeOK
<1>2. CASE run'[v] = run[v]
  <2>1. stored[run[v].job][i] > 0
    BY <1>2 DEF DoneItemsStored
  <2>2. stored'[run[v].job][i] >= stored[run[v].job][i]
    BY <1>1, <1>2, StoredGrows
  <2>. QED
    BY <1>1, <1>2, <2>1, <2>2
<1>3. CASE Start(v)
  <2>. DEFINE next == [run[v] EXCEPT !.pc = "items", !.idx = 0, !.ok = 0, !.bad = 0]
  <2>1. Commit(v, MarkRunning(run[v].loaded), next)
    BY <1>3 DEF Start
  <2>2. next \in Runs /\ next.idx = 0
    BY <1>1, NumItemsAssumption DEF Runs
  <2>. HIDE DEF next
  <2>3. run'[v].idx = 0
    BY <2>1, <2>2, CommitRun
  <2>. QED
    BY <2>3
<1>4. CASE StoreItem(v)
  <2>. DEFINE next == [run[v] EXCEPT !.idx = @ + 1, !.ok = run[v].ok + 1,
                                     !.bad = run[v].bad]
  <2>1. Commit(v, UpdateProgress(run[v].loaded, run[v].idx + 1,
                                 run[v].ok + 1, run[v].bad), next)
    BY <1>4 DEF StoreItem, CommitItem
  <2>2. /\ run[v].pc = "items" /\ run[v].idx < NumItems
        /\ run[v].idx \in 0..NumItems
        /\ run[v].ok + run[v].bad = run[v].idx
        /\ run[v].ok \in 0..NumItems /\ run[v].bad \in 0..NumItems
    BY <1>1, <1>4 DEF StoreItem, Runs, TypeInv, Tally
  <2>3. /\ next \in Runs
        /\ next.job = run[v].job
        /\ next.idx = run[v].idx + 1
        /\ next.bad = run[v].bad
    <3>1. run[v].idx + 1 \in 0..NumItems /\ run[v].ok + 1 \in 0..NumItems
      BY <2>2, NumItemsAssumption
    <3>. QED
      BY <1>1, <2>2, <3>1 DEF Runs
  <2>. HIDE DEF next
  <2>4. /\ run'[v].job = run[v].job
        /\ run'[v].idx = run[v].idx + 1
        /\ run'[v].bad = run[v].bad
    BY <2>1, <2>3, CommitRun
  <2>5. CASE i = run[v].idx + 1
    <3>1. stored' = [stored EXCEPT ![run[v].job][i] = @ + 1]
      BY <1>4, <2>5 DEF StoreItem
    <3>. QED
      BY <1>1, <2>4, <3>1 DEF TypeInv, TypeOK
  <2>6. CASE i # run[v].idx + 1
    <3>1. i \in 1..run[v].idx
      BY <2>2, <2>4, <2>6
    <3>2. stored[run[v].job][i] > 0
      BY <2>2, <2>4, <3>1 DEF DoneItemsStored
    <3>3. stored'[run[v].job][i] >= stored[run[v].job][i]
      BY <1>1, <2>4, StoredGrows
    <3>. QED
      BY <1>1, <2>4, <3>2, <3>3
  <2>. QED
    BY <2>5, <2>6
<1>5. CASE RejectItem(v)
  <2>. DEFINE next == [run[v] EXCEPT !.idx = @ + 1, !.ok = run[v].ok,
                                     !.bad = run[v].bad + 1]
  <2>1. Commit(v, UpdateProgress(run[v].loaded, run[v].idx + 1,
                                 run[v].ok, run[v].bad + 1), next)
    BY <1>5 DEF RejectItem, CommitItem
  <2>2. /\ run[v].idx < NumItems
        /\ run[v].idx \in 0..NumItems
        /\ run[v].ok + run[v].bad = run[v].idx
        /\ run[v].ok \in 0..NumItems /\ run[v].bad \in 0..NumItems
    BY <1>1, <1>5 DEF RejectItem, Runs, TypeInv, Tally
  <2>3. next \in Runs /\ next.bad = run[v].bad + 1
    <3>1. run[v].idx + 1 \in 0..NumItems /\ run[v].bad + 1 \in 0..NumItems
      BY <2>2, NumItemsAssumption
    <3>. QED
      BY <1>1, <2>2, <3>1 DEF Runs
  <2>. HIDE DEF next
  <2>4. run'[v].bad = run[v].bad + 1
    BY <2>1, <2>3, CommitRun
  <2>. QED
    BY <2>2, <2>4
<1>6. ASSUME NEW w \in Workers, w # v,
             Start(w) \/ StoreItem(w) \/ RejectItem(w) \/ Finish(w)
      PROVE  run'[v] = run[v]
  BY <1>6, CommittingType DEF Kept
<1>7. CASE Finish(v)
  <2>. DEFINE next == [run[v] EXCEPT !.pc = "ack"]
  <2>1. Commit(v, MarkCompleted(run[v].loaded, Outcome(run[v].ok, run[v].bad)),
               next)
    BY <1>7 DEF Finish
  <2>2. next \in Runs /\ next.pc = "ack"
    BY <1>1 DEF Runs
  <2>. HIDE DEF next
  <2>. QED
    BY <2>1, <2>2, CommitRun
<1>8. ASSUME NEW w \in Workers,
             \/ Receive(w) \/ Load(w) \/ Republish(w) \/ Ack(w)
             \/ Fault(w) \/ WorkerCrash(w) \/ Redeliver(w)
      PROVE  run'[v] = run[v]
  <2>1. CASE w # v
    BY <1>8, <2>1 DEF TypeInv, TypeOK, Receive, Load, Republish, Ack, Fault,
                      WorkerCrash, Redeliver
  <2>2. CASE w = v /\ ~Redeliver(w)
    <3>1. CASE Ack(v) \/ WorkerCrash(v)
      BY <3>1 DEF TypeInv, TypeOK, IdleRun, Ack, WorkerCrash
    <3>2. CASE Receive(v)
      BY <3>2 DEF TypeInv, TypeOK, IdleRun, Receive
    <3>3. CASE Load(v)
      <4>. DEFINE row == jobs[run[v].job]
      <4>1. run'[v] = IF row.status \in ShortCircuitStatuses \cup {"absent"}
                      THEN [run[v] EXCEPT !.pc = "ack"]
                      ELSE [run[v] EXCEPT !.pc = "mark", !.loaded = row]
        BY <3>3 DEF TypeInv, TypeOK, Load
      <4>. HIDE DEF row
      <4>. QED
        BY <1>1, <4>1 DEF Runs
    <3>4. CASE Republish(v)
      BY <1>1, <3>4 DEF TypeInv, TypeOK, Runs, Republish
    <3>5. CASE Fault(v)
      <4>. DEFINE pc == IF run[v].retries < MaxRetries THEN "republish" ELSE "ack"
      <4>1. run'[v] = [run[v] EXCEPT !.pc = pc]
        BY <3>5 DEF TypeInv, TypeOK, Fault
      <4>. QED
        BY <1>1, <4>1 DEF Runs
    <3>. QED
      BY <1>8, <2>2, <3>1, <3>2, <3>3, <3>4, <3>5
  <2>. QED
    BY <1>8, <2>1, <2>2 DEF Redeliver
<1>. QED
  BY <1>2, <1>3, <1>4, <1>5, <1>6, <1>7, <1>8
     DEF Next, ApiStep, WorkerStep, Disturbance, vars, Lookup, Insert, Publish,
         PublishFails

\* The inductive invariant behind the next theorem.
LEMMA CompletionInvariant == Spec => []CompletionInv
<1>1. Init => CompletionInv
  <2>. SUFFICES ASSUME Init PROVE CompletionInv
    OBVIOUS
  <2>1. DoneItemsStored
    BY DEF Init, DoneItemsStored, IdleRun
  <2>2. CompletedMeansStored
    BY DEF Init, CompletedMeansStored, AbsentRow, RowWith
  <2>. QED
    BY <2>1, <2>2, InitType DEF CompletionInv
<1>2. CompletionInv /\ [Next]_vars => CompletionInv'
  <2>. SUFFICES ASSUME CompletionInv, [Next]_vars PROVE CompletionInv'
    OBVIOUS
  <2>1. TypeInv /\ TypeInv' /\ DoneItemsStored'
    BY TypeStep, DoneItemsStep DEF CompletionInv
  <2>2. CompletedMeansStored'
    <3>. SUFFICES ASSUME NEW r \in Requests, jobs'[r].status = "completed",
                         NEW i \in Items
                  PROVE  stored'[r][i] > 0
      BY DEF CompletedMeansStored
    <3>1. /\ stored'[r][i] >= stored[r][i]
          /\ stored[r][i] \in Nat /\ stored'[r][i] \in Nat
      BY <2>1, StoredGrows DEF TypeInv, TypeOK
    <3>2. CASE jobs[r].status = "completed"
      BY <3>1, <3>2 DEF CompletionInv, CompletedMeansStored
    <3>3. ASSUME NEW s \in Requests, Insert(s), jobs[r].status # "completed"
          PROVE  FALSE
      BY <2>1, <3>3 DEF Insert, PendingRow, RowWith, TypeInv, TypeOK
    <3>4. ASSUME NEW w \in Workers, Start(w) \/ StoreItem(w) \/ RejectItem(w),
                 jobs[r].status # "completed"
          PROVE  FALSE
      BY <2>1, <3>4, CommittedStatus
    <3>5. ASSUME NEW w \in Workers, Finish(w), jobs[r].status # "completed"
          PROVE  stored'[r][i] > 0
      <4>1. r = run[w].job /\ Outcome(run[w].ok, run[w].bad) = "completed"
        BY <2>1, <3>5, CommittedStatus
      <4>2. run[w].bad = 0
        BY <4>1 DEF Outcome, FinalStatus
      <4>3. run[w].pc = "items" /\ run[w].idx = NumItems
        BY <3>5 DEF Finish
      <4>4. stored[r][i] > 0
        BY <4>1, <4>2, <4>3 DEF CompletionInv, DoneItemsStored, Items
      <4>. QED
        BY <3>1, <4>4
    <3>6. UNCHANGED jobs => jobs[r].status = "completed"
      OBVIOUS
    <3>. QED
      BY <3>2, <3>3, <3>4, <3>5, <3>6
         DEF Next, ApiStep, WorkerStep, Disturbance, vars, Lookup, Publish,
             PublishFails, Receive, Load, Republish, Ack, Fault, WorkerCrash,
             Redeliver
  <2>. QED
    BY <2>1, <2>2 DEF CompletionInv
<1>. QED
  BY <1>1, <1>2, PTL DEF Spec

\* A job whose status is completed has every one of its items in the log
\* table, whatever deliveries overlap, repeat or are cut short.
THEOREM CompletedJobsAreStored == Spec => []CompletedMeansStored
<1>1. CompletionInv => CompletedMeansStored
  BY DEF CompletionInv
<1>. QED
  BY CompletionInvariant, <1>1, PTL

-----------------------------------------------------------------------------
(* Requests with one key are answered with one job *)

\* What the answer of request r commits to.
Answered(r) ==
  api[r].pc \in {"publish", "accepted"} =>
    /\ jobs[api[r].job].status # "absent"
    /\ KeyOf[r] # NoKey => /\ KeyOf[api[r].job] = KeyOf[r]
                           /\ BodyOf[api[r].job] = BodyOf[r]

\* The unique index on the idempotency key.
UniqueKeys ==
  \A r, s \in Requests :
    /\ jobs[r].status # "absent" /\ jobs[s].status # "absent"
    /\ KeyOf[r] # NoKey /\ KeyOf[r] = KeyOf[s]
    => r = s

\* The id of a job that is not inserted yet is not in the table.
FreshIds ==
  \A r \in Requests :
    api[r].pc \in {"lookup", "insert"} => jobs[r].status = "absent"

AcceptanceInv ==
  /\ TypeInv
  /\ \A r \in Requests : Answered(r)
  /\ UniqueKeys
  /\ FreshIds
  /\ MessagesNameCommittedJobs

\* A request that is answered is answered with a job in the table that has
\* its key and its logs.
LEMMA AnsweredStep ==
  ASSUME AcceptanceInv, [Next]_vars, NEW r \in Requests
  PROVE  Answered(r)'
<1>. USE DEF AcceptanceInv
<1>1. TypeInv /\ api[r].job \in Requests
  BY DEF TypeInv, TypeOK, ApiStates
<1>2. CASE api'[r] = api[r]
  BY <1>1, <1>2, RowsStay DEF Answered
<1>3. CASE Lookup(r)
  <2>1. CASE api' = [api EXCEPT ![r].pc = "insert"]
    BY <1>1, <2>1 DEF Answered, TypeInv, TypeOK, ApiStates
  <2>2. ASSUME NEW j \in JobsWithKeyOf(r),
               api' = [api EXCEPT ![r] =
                         IF BodyOf[j] = BodyOf[r]
                         THEN [pc |-> "publish", job |-> j]
                         ELSE [pc |-> "conflict", job |-> r]]
        PROVE  Answered(r)'
    <3>1. /\ j \in Requests /\ jobs[j].status # "absent"
          /\ KeyOf[j] = KeyOf[r]
      BY DEF JobsWithKeyOf
    <3>2. jobs' = jobs
      BY <1>3 DEF Lookup
    <3>3. api'[r] = IF BodyOf[j] = BodyOf[r]
                    THEN [pc |-> "publish", job |-> j]
                    ELSE [pc |-> "conflict", job |-> r]
      BY <2>2 DEF TypeInv, TypeOK
    <3>. QED
      BY <3>1, <3>2, <3>3 DEF Answered
  <2>. QED
    BY <1>3, <2>1, <2>2 DEF Lookup
<1>4. CASE Insert(r)
  BY <1>1, <1>4 DEF Insert, Answered, TypeInv, TypeOK, ApiStates, PendingRow, RowWith
<1>5. CASE Publish(r)
  BY <1>1, <1>5 DEF Publish, Answered, TypeInv, TypeOK, ApiStates
<1>6. CASE PublishFails(r)
  BY <1>1, <1>6 DEF PublishFails, Answered, TypeInv, TypeOK, ApiStates
<1>7. ASSUME NEW s \in Requests, s # r, ApiStep(s) \/ PublishFails(s)
      PROVE  api'[r] = api[r]
  BY <1>7 DEF ApiStep, Lookup, Insert, Publish, PublishFails, TypeInv, TypeOK
<1>8. ASSUME NEW w \in Workers, WorkerStep(w) \/ Fault(w) \/ WorkerCrash(w) \/ Redeliver(w)
      PROVE  api'[r] = api[r]
  BY <1>8 DEF WorkerStep, Receive, Load, Start, StoreItem, RejectItem, Finish,
              Republish, Ack, Fault, WorkerCrash, Redeliver
<1>. QED
  BY <1>2, <1>3, <1>4, <1>5, <1>6, <1>7, <1>8
     DEF Next, ApiStep, Disturbance, vars

\* Only an insert adds a row.
LEMMA RowsAreInserted ==
  ASSUME AcceptanceInv, [Next]_vars, NEW r \in Requests,
         jobs[r].status = "absent", jobs'[r].status # "absent"
  PROVE  Insert(r) /\ JobsWithKeyOf(r) = {}
<1>1. TypeInv /\ MessagesNameCommittedJobs
  BY DEF AcceptanceInv
<1>2. ASSUME NEW w \in Workers,
             Start(w) \/ StoreItem(w) \/ RejectItem(w) \/ Finish(w)
      PROVE  FALSE
  BY <1>1, <1>2, CommittedStatus DEF MessagesNameCommittedJobs
<1>3. ASSUME NEW s \in Requests, Insert(s)
      PROVE  s = r /\ JobsWithKeyOf(r) = {}
  BY <1>1, <1>3 DEF Insert, TypeInv, TypeOK
<1>. QED
  BY <1>2, <1>3
     DEF Next, ApiStep, WorkerStep, Disturbance, vars, Lookup, Publish,
         PublishFails, Receive, Load, Republish, Ack, Fault, WorkerCrash,
         Redeliver

\* The unique index: no step gives the table two jobs with one key.
LEMMA UniqueKeysStep ==
  ASSUME AcceptanceInv, [Next]_vars
  PROVE  UniqueKeys'
<1>. SUFFICES ASSUME NEW r \in Requests, NEW s \in Requests, r # s,
                     jobs'[r].status # "absent", jobs'[s].status # "absent",
                     KeyOf[r] # NoKey, KeyOf[r] = KeyOf[s]
              PROVE  FALSE
  BY DEF UniqueKeys
<1>1. CASE jobs[r].status # "absent" /\ jobs[s].status # "absent"
  BY <1>1 DEF AcceptanceInv, UniqueKeys
<1>2. CASE jobs[r].status = "absent"
  <2>1. Insert(r) /\ JobsWithKeyOf(r) = {}
    BY <1>2, RowsAreInserted
  <2>2. jobs[s].status = "absent"
    BY <2>1 DEF JobsWithKeyOf
  <2>3. jobs'[s] = jobs[s]
    BY <2>1 DEF Insert, AcceptanceInv, TypeInv, TypeOK
  <2>. QED
    BY <2>2, <2>3
<1>3. CASE jobs[s].status = "absent"
  <2>1. Insert(s) /\ JobsWithKeyOf(s) = {}
    BY <1>3, RowsAreInserted
  <2>2. jobs[r].status = "absent"
    BY <2>1 DEF JobsWithKeyOf
  <2>3. jobs'[r] = jobs[r]
    BY <2>1 DEF Insert, AcceptanceInv, TypeInv, TypeOK
  <2>. QED
    BY <2>2, <2>3
<1>. QED
  BY <1>1, <1>2, <1>3

\* A job is inserted by the request it is named by, once.
LEMMA FreshIdsStep ==
  ASSUME AcceptanceInv, [Next]_vars
  PROVE  FreshIds'
<1>. SUFFICES ASSUME NEW r \in Requests, api'[r].pc \in {"lookup", "insert"},
                     jobs'[r].status # "absent"
              PROVE  FALSE
  BY DEF FreshIds
<1>1. TypeInv /\ FreshIds
  BY DEF AcceptanceInv
<1>2. api[r].pc \in {"lookup", "insert"}
  <2>1. CASE api'[r] = api[r]
    BY <2>1
  <2>2. CASE Lookup(r)
    BY <2>2 DEF Lookup
  <2>3. CASE Insert(r) \/ Publish(r) \/ PublishFails(r)
    BY <1>1, <2>3 DEF Insert, Publish, PublishFails, TypeInv, TypeOK, ApiStates
  <2>4. ASSUME NEW s \in Requests, s # r, ApiStep(s) \/ PublishFails(s)
        PROVE  api'[r] = api[r]
    BY <1>1, <2>4 DEF ApiStep, Lookup, Insert, Publish, PublishFails, TypeInv, TypeOK
  <2>5. ASSUME NEW w \in Workers,
               WorkerStep(w) \/ Fault(w) \/ WorkerCrash(w) \/ Redeliver(w)
        PROVE  api'[r] = api[r]
    BY <2>5 DEF WorkerStep, Receive, Load, Start, StoreItem, RejectItem, Finish,
                Republish, Ack, Fault, WorkerCrash, Redeliver
  <2>. QED
    BY <2>1, <2>2, <2>3, <2>4, <2>5 DEF Next, ApiStep, Disturbance, vars
<1>3. Insert(r) /\ JobsWithKeyOf(r) = {}
  BY <1>1, <1>2, RowsAreInserted DEF FreshIds
<1>4. api'[r].pc = "publish"
  BY <1>1, <1>3 DEF Insert, TypeInv, TypeOK, ApiStates
<1>. QED
  BY <1>4

\* Every message comes from a job that was answered or from a worker that holds one.
LEMMA MessagesStep ==
  ASSUME AcceptanceInv, [Next]_vars
  PROVE  MessagesNameCommittedJobs'
<1>1. TypeInv /\ TypeInv' /\ MessagesNameCommittedJobs
  BY TypeStep DEF AcceptanceInv
<1>2. ASSUME NEW w \in Workers, run'[w].pc # "idle"
      PROVE  jobs'[run'[w].job].status # "absent"
  <2>1. jobs[run'[w].job].status # "absent" /\ run'[w].job \in Requests
    <3>1. run'[w].job \in Requests
      BY <1>1, <1>2 DEF TypeInv, TypeOK
    <3>2. CASE run'[w].job = run[w].job /\ run[w].pc # "idle"
      BY <1>1, <3>1, <3>2 DEF MessagesNameCommittedJobs
    <3>3. CASE UNCHANGED run
      BY <1>2, <3>2, <3>3
    <3>4. ASSUME NEW v \in Workers, Receive(v)
          PROVE  jobs[run'[w].job].status # "absent"
      <4>1. PICK m \in Messages :
              /\ queue[m] > 0
              /\ run' = [run EXCEPT ![v] = [IdleRun EXCEPT !.pc = "load",
                                                           !.job = m.job,
                                                           !.retries = m.retries]]
        BY <3>4 DEF Receive
      <4>2. CASE v = w
        <5>1. run'[w].job = m.job
          BY <1>1, <4>1, <4>2 DEF TypeInv, TypeOK, IdleRun
        <5>. QED
          BY <1>1, <4>1, <5>1 DEF MessagesNameCommittedJobs
      <4>3. CASE v # w
        BY <1>1, <1>2, <4>1, <4>3 DEF TypeInv, TypeOK, MessagesNameCommittedJobs
      <4>. QED
        BY <4>2, <4>3
    <3>5. ASSUME NEW v \in Workers,
                 Start(v) \/ StoreItem(v) \/ RejectItem(v) \/ Finish(v)
          PROVE  jobs[run'[w].job].status # "absent"
      <4>1. Kept(v) /\ run[v].pc # "idle"
        BY <1>1, <3>5, CommittingType DEF Start, StoreItem, RejectItem, Finish
      <4>. QED
        BY <1>1, <1>2, <4>1 DEF Kept, MessagesNameCommittedJobs
    <3>6. ASSUME NEW v \in Workers, Ack(v) \/ WorkerCrash(v)
          PROVE  jobs[run'[w].job].status # "absent"
      <4>1. run' = [run EXCEPT ![v] = IdleRun] /\ IdleRun.pc = "idle"
        BY <3>6 DEF Ack, WorkerCrash, IdleRun
      <4>2. v # w /\ run'[w] = run[w]
        BY <1>1, <1>2, <4>1 DEF TypeInv, TypeOK
      <4>. QED
        BY <1>1, <1>2, <4>2 DEF MessagesNameCommittedJobs
    <3>7. ASSUME NEW v \in Workers, Load(v) \/ Republish(v) \/ Fault(v)
          PROVE  jobs[run'[w].job].status # "absent"
      <4>1. CASE v # w
        BY <1>1, <1>2, <3>7, <4>1
           DEF Load, Republish, Fault, TypeInv, TypeOK, MessagesNameCommittedJobs
      <4>2. CASE v = w
        <5>1. run[w].pc # "idle" /\ run[w] \in Runs
          BY <1>1, <3>7, <4>2 DEF Load, Republish, Fault, TypeInv, TypeOK
        <5>2. CASE Load(w)
          <6>. DEFINE row == jobs[run[w].job]
          <6>1. run'[w] = IF row.status \in ShortCircuitStatuses \cup {"absent"}
                          THEN [run[w] EXCEPT !.pc = "ack"]
                          ELSE [run[w] EXCEPT !.pc = "mark", !.loaded = row]
            BY <1>1, <5>2 DEF TypeInv, TypeOK, Load
          <6>. HIDE DEF row
          <6>2. run'[w].job = run[w].job
            BY <5>1, <6>1 DEF Runs
          <6>. QED
            BY <3>2, <5>1, <6>2
        <5>3. CASE Republish(w) \/ Fault(w)
          <6>1. run'[w].job = run[w].job
            BY <1>1, <5>1, <5>3 DEF Republish, Fault, TypeInv, TypeOK, Runs
          <6>. QED
            BY <3>2, <5>1, <6>1
        <5>. QED
          BY <3>7, <4>2, <5>2, <5>3
      <4>. QED
        BY <4>1, <4>2
    <3>. QED
      BY <3>1, <3>3, <3>4, <3>5, <3>6, <3>7
         DEF Next, ApiStep, WorkerStep, Disturbance, vars, Lookup, Insert,
             Publish, PublishFails, Redeliver
  <2>. QED
    BY <1>1, <2>1, RowsStay
<1>3. ASSUME NEW m \in Messages, queue'[m] > 0
      PROVE  jobs'[m.job].status # "absent"
  <2>1. m.job \in Requests /\ queue[m] \in Nat
    BY <1>1 DEF Messages, TypeInv, TypeOK
  <2>2. CASE queue[m] > 0
    BY <1>1, <2>1, <2>2, RowsStay DEF MessagesNameCommittedJobs
  <2>3. ASSUME NEW r \in Requests, Publish(r), queue[m] = 0
        PROVE  jobs[m.job].status # "absent"
    <3>1. m = [job |-> api[r].job, retries |-> 0]
      BY <1>1, <1>3, <2>3 DEF Publish, Send, TypeInv, TypeOK
    <3>2. m.job = api[r].job /\ api[r].pc = "publish"
      BY <2>3, <3>1 DEF Publish
    <3>. QED
      BY <3>2 DEF AcceptanceInv, Answered
  <2>4. ASSUME NEW w \in Workers,
               Republish(w) \/ WorkerCrash(w) \/ Redeliver(w), queue[m] = 0
        PROVE  jobs[m.job].status # "absent"
    <3>1. run[w].pc # "idle"
      BY <2>4 DEF Republish, WorkerCrash, Redeliver
    <3>2. Message(w).job = run[w].job
      BY DEF Message
    <3>3. CASE WorkerCrash(w) \/ Redeliver(w)
      <4>1. m = Message(w)
        BY <1>1, <1>3, <2>4, <3>3 DEF WorkerCrash, Redeliver, Send, TypeInv, TypeOK
      <4>. QED
        BY <1>1, <3>1, <3>2, <4>1 DEF MessagesNameCommittedJobs
    <3>4. CASE Republish(w)
      <4>. DEFINE n == [Message(w) EXCEPT !.retries = @ + 1]
      <4>1. n.job = run[w].job
        BY DEF Message
      <4>2. queue' = [queue EXCEPT ![n] = @ + 1]
        BY <3>4 DEF Republish, Send
      <4>. HIDE DEF n
      <4>3. m = n
        BY <1>1, <1>3, <2>4, <4>2 DEF TypeInv, TypeOK
      <4>. QED
        BY <1>1, <3>1, <4>1, <4>3 DEF MessagesNameCommittedJobs
    <3>. QED
      BY <2>4, <3>3, <3>4
  <2>5. ASSUME NEW w \in Workers, Receive(w), queue[m] = 0
        PROVE  FALSE
    <3>1. PICK n \in Messages :
            queue[n] > 0 /\ queue' = [queue EXCEPT ![n] = @ - 1]
      BY <2>5 DEF Receive
    <3>. QED
      BY <1>1, <1>3, <2>5, <3>1 DEF TypeInv, TypeOK
  <2>6. (jobs[m.job].status # "absent" \/ queue[m] > 0) => jobs'[m.job].status # "absent"
    BY <1>1, <2>1, <2>2, RowsStay
  <2>7. \/ UNCHANGED queue
        \/ \E r \in Requests : Publish(r)
        \/ \E w \in Workers : \/ Republish(w) \/ WorkerCrash(w)
                              \/ Redeliver(w) \/ Receive(w)
    BY DEF Next, ApiStep, WorkerStep, Disturbance, vars, Lookup, Insert,
           PublishFails, Load, Start, StoreItem, RejectItem, Finish, Ack, Fault
  <2>8. queue[m] = 0 \/ queue[m] > 0
    BY <2>1
  <2>. QED
    BY <1>3, <2>3, <2>4, <2>5, <2>6, <2>7, <2>8
<1>. QED
  BY <1>2, <1>3 DEF MessagesNameCommittedJobs

\* The inductive invariant behind the next two theorems.
LEMMA AcceptanceInvariant == Spec => []AcceptanceInv
<1>1. Init => AcceptanceInv
  <2>. SUFFICES ASSUME Init PROVE AcceptanceInv
    OBVIOUS
  <2>1. \A r \in Requests : Answered(r)
    BY DEF Init, Answered
  <2>2. UniqueKeys
    BY DEF Init, UniqueKeys, AbsentRow, RowWith
  <2>3. MessagesNameCommittedJobs
    BY DEF Init, MessagesNameCommittedJobs, IdleRun
  <2>4. FreshIds
    BY DEF Init, FreshIds, AbsentRow, RowWith
  <2>. QED
    BY <2>1, <2>2, <2>3, <2>4, InitType DEF AcceptanceInv
<1>2. AcceptanceInv /\ [Next]_vars => AcceptanceInv'
  <2>. SUFFICES ASSUME AcceptanceInv, [Next]_vars PROVE AcceptanceInv'
    OBVIOUS
  <2>1. TypeInv'
    BY TypeStep DEF AcceptanceInv
  <2>2. \A r \in Requests : Answered(r)'
    BY AnsweredStep
  <2>. QED
    BY <2>1, <2>2, UniqueKeysStep, FreshIdsStep, MessagesStep DEF AcceptanceInv
<1>. QED
  BY <1>1, <1>2, PTL DEF Spec

\* Requests that sent the same idempotency key and were answered with a job
\* were answered with the same job, made from the same logs.
THEOREM AcceptanceIsIdempotent == Spec => []IdempotentAcceptance
<1>1. AcceptanceInv => IdempotentAcceptance
  <2>. SUFFICES ASSUME AcceptanceInv, NEW r \in Requests, NEW s \in Requests,
                       api[r].pc \in {"publish", "accepted"},
                       api[s].pc \in {"publish", "accepted"}
                PROVE  /\ jobs[api[r].job].status # "absent"
                       /\ KeyOf[r] # NoKey /\ KeyOf[r] = KeyOf[s]
                          => api[r].job = api[s].job /\ BodyOf[r] = BodyOf[s]
    BY DEF IdempotentAcceptance
  <2>1. Answered(r) /\ Answered(s) /\ api[r].job \in Requests /\ api[s].job \in Requests
    BY DEF AcceptanceInv, TypeInv, TypeOK, ApiStates
  <2>2. jobs[api[r].job].status # "absent" /\ jobs[api[s].job].status # "absent"
    BY <2>1 DEF Answered
  <2>3. ASSUME KeyOf[r] # NoKey, KeyOf[r] = KeyOf[s]
        PROVE  api[r].job = api[s].job /\ BodyOf[r] = BodyOf[s]
    <3>1. /\ KeyOf[api[r].job] = KeyOf[r] /\ BodyOf[api[r].job] = BodyOf[r]
          /\ KeyOf[api[s].job] = KeyOf[s] /\ BodyOf[api[s].job] = BodyOf[s]
      BY <2>1, <2>3 DEF Answered
    <3>2. api[r].job = api[s].job
      BY <2>1, <2>2, <2>3, <3>1 DEF AcceptanceInv, UniqueKeys
    <3>. QED
      BY <3>1, <3>2
  <2>. QED
    BY <2>2, <2>3
<1>. QED
  BY AcceptanceInvariant, <1>1, PTL

\* No message and no worker names a job that is not in the table.
THEOREM MessagesAreOfCommittedJobs == Spec => []MessagesNameCommittedJobs
<1>1. AcceptanceInv => MessagesNameCommittedJobs
  BY DEF AcceptanceInv
<1>. QED
  BY AcceptanceInvariant, <1>1, PTL

-----------------------------------------------------------------------------
(* Finished jobs are left alone *)

\* No bulk job is ever marked failed, so every finished one is short-circuited.
NeverFailed == \A r \in Requests : jobs[r].status # "failed"

\* No row of a bulk job ever says failed.
LEMMA NeverFailedInvariant == Spec => [](TypeInv /\ NeverFailed)
<1>1. Init => TypeInv /\ NeverFailed
  BY InitType DEF Init, NeverFailed, AbsentRow, RowWith
<1>2. TypeInv /\ NeverFailed /\ [Next]_vars => TypeInv' /\ NeverFailed'
  <2>. SUFFICES ASSUME TypeInv, NeverFailed, [Next]_vars, NEW r \in Requests
                PROVE  jobs'[r].status # "failed"
    BY TypeStep DEF NeverFailed
  <2>2. ASSUME NEW s \in Requests, Insert(s)
        PROVE  jobs'[r].status # "failed"
    BY <2>2 DEF Insert, PendingRow, RowWith, TypeInv, TypeOK, NeverFailed
  <2>3. ASSUME NEW w \in Workers,
               Start(w) \/ StoreItem(w) \/ RejectItem(w) \/ Finish(w)
        PROVE  jobs'[r].status # "failed"
    BY <2>3, CommittedStatus, OutcomeType DEF NeverFailed
  <2>4. UNCHANGED jobs => jobs'[r].status # "failed"
    BY DEF NeverFailed
  <2>. QED
    BY <2>2, <2>3, <2>4
       DEF Next, ApiStep, WorkerStep, Disturbance, vars, Lookup, Publish,
           PublishFails, Receive, Load, Republish, Ack, Fault, WorkerCrash,
           Redeliver
<1>. QED
  BY <1>1, <1>2, PTL DEF Spec

\* A worker enters the writing part of a task only by loading an unfinished row.
LEMMA QuietStep ==
  ASSUME TypeInv, NeverFailed, [Next]_vars, NEW r \in Requests, Settled(r)
  PROVE  Quiet(r)'
<1>. SUFFICES ASSUME NEW v \in Workers, run'[v].job = r
              PROVE  run'[v].pc \notin {"mark", "items"}
  BY DEF Quiet
<1>1. run[v] \in Runs /\ jobs[r].status \in ShortCircuitStatuses
  BY DEF TypeInv, TypeOK, NeverFailed, Settled, TerminalStatuses, ShortCircuitStatuses
<1>2. CASE run'[v] = run[v]
  BY <1>2 DEF Settled, Quiet
<1>3. CASE Load(v)
  <2>. DEFINE row == jobs[run[v].job]
  <2>1. run'[v] = IF row.status \in ShortCircuitStatuses \cup {"absent"}
                  THEN [run[v] EXCEPT !.pc = "ack"]
                  ELSE [run[v] EXCEPT !.pc = "mark", !.loaded = row]
    BY <1>3 DEF TypeInv, TypeOK, Load
  <2>. HIDE DEF row
  <2>2. run'[v].job = run[v].job
    BY <1>1, <2>1 DEF Runs
  <2>3. row.status \in ShortCircuitStatuses
    BY <1>1, <2>2 DEF row
  <2>. QED
    BY <1>1, <2>1, <2>3 DEF Runs
<1>4. CASE Ack(v) \/ WorkerCrash(v)
  BY <1>4 DEF TypeInv, TypeOK, IdleRun, Ack, WorkerCrash
<1>5. CASE Receive(v)
  BY <1>5 DEF TypeInv, TypeOK, IdleRun, Receive
<1>6. CASE Republish(v)
  BY <1>1, <1>6 DEF TypeInv, TypeOK, Runs, Republish
<1>7. CASE Fault(v)
  <2>. DEFINE pc == IF run[v].retries < MaxRetries THEN "republish" ELSE "ack"
  <2>1. run'[v] = [run[v] EXCEPT !.pc = pc]
    BY <1>7 DEF TypeInv, TypeOK, Fault
  <2>. QED
    BY <1>1, <2>1 DEF Runs
<1>8. CASE Start(v) \/ StoreItem(v) \/ RejectItem(v) \/ Finish(v)
  <2>1. run'[v].job = run[v].job
    BY <1>8, CommittingType DEF Kept
  <2>2. run[v].pc \in {"mark", "items"}
    BY <1>8 DEF Start, StoreItem, RejectItem, Finish
  <2>. QED
    BY <2>1, <2>2 DEF Settled, Quiet
<1>9. ASSUME NEW w \in Workers, w # v, WorkerStep(w) \/ Fault(w) \/ WorkerCrash(w)
      PROVE  run'[v] = run[v]
  <2>1. CASE Start(w) \/ StoreItem(w) \/ RejectItem(w) \/ Finish(w)
    BY <1>9, <2>1, CommittingType DEF Kept
  <2>2. CASE \/ Receive(w) \/ Load(w) \/ Republish(w) \/ Ack(w)
             \/ Fault(w) \/ WorkerCrash(w)
    BY <1>9, <2>2 DEF Receive, Load, Republish, Ack, Fault, WorkerCrash,
                      TypeInv, TypeOK
  <2>. QED
    BY <1>9, <2>1, <2>2 DEF WorkerStep
<1>. QED
  BY <1>2, <1>3, <1>4, <1>5, <1>6, <1>7, <1>8, <1>9
     DEF Next, ApiStep, WorkerStep, Disturbance, vars, Lookup, Insert, Publish,
         PublishFails, Redeliver

\* No step touches the row or the logs of a settled job.
LEMMA SettledStep ==
  ASSUME AcceptanceInv, NeverFailed, [Next]_vars, NEW r \in Requests, Settled(r)
  PROVE  Settled(r)' /\ jobs'[r] = jobs[r] /\ stored'[r] = stored[r]
<1>. USE DEF AcceptanceInv
<1>1. jobs'[r] = jobs[r] /\ stored'[r] = stored[r]
  <2>1. CASE UNCHANGED <<jobs, stored>>
    BY <2>1
  <2>2. ASSUME NEW s \in Requests, Insert(s)
        PROVE  jobs'[r] = jobs[r] /\ stored'[r] = stored[r]
    <3>1. s # r
      BY <2>2 DEF Insert, FreshIds, Settled, TerminalStatuses
    <3>. QED
      BY <2>2, <3>1 DEF Insert, TypeInv, TypeOK
  <2>3. ASSUME NEW w \in Workers,
               Start(w) \/ StoreItem(w) \/ RejectItem(w) \/ Finish(w)
        PROVE  jobs'[r] = jobs[r] /\ stored'[r] = stored[r]
    <3>1. run[w].job # r
      BY <2>3 DEF Settled, Quiet, Start, StoreItem, RejectItem, Finish
    <3>2. jobs'[r] = jobs[r]
      BY <2>3, <3>1, CommittedStatus
    <3>3. stored'[r] = stored[r]
      BY <2>3, <3>1 DEF Start, StoreItem, RejectItem, Finish, TypeInv, TypeOK
    <3>. QED
      BY <3>2, <3>3
  <2>. QED
    BY <2>1, <2>2, <2>3
       DEF Next, ApiStep, WorkerStep, Disturbance, vars, Lookup, Publish,
           PublishFails, Receive, Load, Republish, Ack, Fault, WorkerCrash,
           Redeliver
<1>. QED
  BY <1>1, QuietStep DEF Settled

\* Deliveries of a finished job on which nobody works change nothing.
THEOREM FinishedJobsAreLeftAlone == Spec => SettledIsFinal
<1>1. AcceptanceInv /\ NeverFailed /\ [Next]_vars => [LeavesSettledAlone]_vars
  BY SettledStep DEF LeavesSettledAlone
<1>. QED
  BY AcceptanceInvariant, NeverFailedInvariant, <1>1, PTL DEF Spec, SettledIsFinal

-----------------------------------------------------------------------------
(* What each step of a worker does to its own execution *)

\* The steps in which worker w or what happens to it changes something.
StepOf(w) == WorkerStep(w) \/ Fault(w) \/ WorkerCrash(w) \/ Redeliver(w)

\* The four steps that commit a change of the row.
Writes(w) == Start(w) \/ StoreItem(w) \/ RejectItem(w) \/ Finish(w)

\* A step is one of the API, of a worker, or of nobody.
LEMMA StepCases ==
  ASSUME [Next]_vars
  PROVE  \/ \E s \in Requests : ApiStep(s) \/ PublishFails(s)
         \/ \E w \in Workers : StepOf(w)
         \/ UNCHANGED vars
BY DEF Next, Disturbance, StepOf

\* The API leaves the executions and the logs alone, a worker the answers.
LEMMA StepFrames ==
  /\ \A s \in Requests : ApiStep(s) \/ PublishFails(s) => UNCHANGED <<run, stored>>
  /\ \A w \in Workers : StepOf(w) => UNCHANGED api
<1>1. ASSUME NEW s \in Requests, ApiStep(s) \/ PublishFails(s)
      PROVE  UNCHANGED <<run, stored>>
  BY <1>1 DEF ApiStep, Lookup, Insert, Publish, PublishFails
<1>2. ASSUME NEW w \in Workers, StepOf(w)
      PROVE  UNCHANGED api
  BY <1>2 DEF StepOf, WorkerStep, Receive, Load, Start, StoreItem, RejectItem,
              Finish, Republish, Ack, Fault, WorkerCrash, Redeliver
<1>. QED
  BY <1>1, <1>2

\* No step of one worker changes the execution of another.
LEMMA OthersGoOn ==
  ASSUME TypeInv, NEW w \in Workers, StepOf(w), NEW v \in Workers, v # w
  PROVE  run'[v] = run[v]
<1>1. CASE Writes(w)
  BY <1>1, CommittingType DEF Writes, Kept
<1>2. CASE ~Writes(w)
  BY <1>2 DEF Writes, StepOf, WorkerStep, Receive, Load, Republish, Ack, Fault,
              WorkerCrash, Redeliver, TypeInv, TypeOK
<1>. QED
  BY <1>1, <1>2

\* Receive: the execution takes over a message that waited.
LEMMA ReceiveEffect ==
  ASSUME TypeInv, NEW w \in Workers, Receive(w)
  PROVE  \E m \in Messages :
           /\ queue[m] > 0
           /\ queue' = [queue EXCEPT ![m] = @ - 1]
           /\ run[w].pc = "idle"
           /\ run'[w].pc = "load"
           /\ run'[w].job = m.job
           /\ run'[w].retries = m.retries
<1>1. PICK m \in Messages :
        /\ queue[m] > 0
        /\ queue' = [queue EXCEPT ![m] = @ - 1]
        /\ run' = [run EXCEPT ![w] = [IdleRun EXCEPT !.pc = "load",
                                                     !.job = m.job,
                                                     !.retries = m.retries]]
  BY DEF Receive
<1>2. run'[w] = [IdleRun EXCEPT !.pc = "load", !.job = m.job,
                                !.retries = m.retries]
  BY <1>1 DEF TypeInv, TypeOK
<1>3. /\ run'[w].pc = "load" /\ run'[w].job = m.job
      /\ run'[w].retries = m.retries
  BY <1>2 DEF IdleRun
<1>. QED
  BY <1>1, <1>3 DEF Receive

\* Load: the execution ends, or goes on with a copy of the row.
LEMMA LoadEffect ==
  ASSUME TypeInv, NEW w \in Workers, Load(w)
  PROVE  /\ run[w].pc = "load"
         /\ run'[w].job = run[w].job
         /\ run'[w].retries = run[w].retries
         /\ \/ /\ run'[w].pc = "ack"
               /\ jobs[run[w].job].status \in ShortCircuitStatuses \cup {"absent"}
            \/ /\ run'[w].pc = "mark"
               /\ run'[w].loaded = jobs[run[w].job]
               /\ jobs[run[w].job].status \notin ShortCircuitStatuses \cup {"absent"}
<1>. DEFINE row == jobs[run[w].job]
<1>1. /\ run'[w] = IF row.status \in ShortCircuitStatuses \cup {"absent"}
                   THEN [run[w] EXCEPT !.pc = "ack"]
                   ELSE [run[w] EXCEPT !.pc = "mark", !.loaded = row]
      /\ run[w] \in Runs /\ run[w].pc = "load"
  BY DEF TypeInv, TypeOK, Load
<1>. HIDE DEF row
<1>2. /\ run'[w].job = run[w].job
      /\ run'[w].retries = run[w].retries
      /\ \/ /\ run'[w].pc = "ack"
            /\ row.status \in ShortCircuitStatuses \cup {"absent"}
         \/ /\ run'[w].pc = "mark"
            /\ run'[w].loaded = row
            /\ row.status \notin ShortCircuitStatuses \cup {"absent"}
  BY <1>1 DEF Runs
<1>. QED
  BY <1>1, <1>2 DEF row

\* A commit: the copy in hand becomes the row that was committed.
LEMMA CommitEffect ==
  ASSUME TypeInv, NEW w \in Workers, NEW new, NEW next \in Runs,
         run[w].pc # "idle", next.job = run[w].job, Commit(w, new, next)
  PROVE  /\ run'[w].pc = next.pc /\ run'[w].job = next.job
         /\ run'[w].retries = next.retries /\ run'[w].idx = next.idx
         /\ run'[w].loaded = jobs'[run[w].job]
         /\ jobs'[run[w].job] = Flush(new, run[w].loaded, jobs[run[w].job])
<1>. DEFINE row == Flush(new, run[w].loaded, jobs[run[w].job])
<1>1. /\ run' = [run EXCEPT ![w] = [next EXCEPT !.loaded = row]]
      /\ jobs' = [jobs EXCEPT ![run[w].job] = row]
      /\ run[w].job \in Requests
  BY DEF Commit, TypeInv, TypeOK
<1>2. row = Flush(new, run[w].loaded, jobs[run[w].job])
  OBVIOUS
<1>. HIDE DEF row
<1>3. run'[w] = [next EXCEPT !.loaded = row] /\ jobs'[run[w].job] = row
  BY <1>1 DEF TypeInv, TypeOK
<1>. QED
  BY <1>2, <1>3 DEF TypeInv, TypeOK, Runs

\* The commit of mark_running.
LEMMA StartEffect ==
  ASSUME TypeInv, NEW w \in Workers, Start(w)
  PROVE  /\ run[w].pc = "mark" /\ run'[w].pc = "items"
         /\ run'[w].job = run[w].job /\ run'[w].retries = run[w].retries
         /\ run'[w].idx = 0
         /\ run'[w].loaded = jobs'[run[w].job]
         /\ jobs'[run[w].job] = Flush(MarkRunning(run[w].loaded), run[w].loaded,
                                      jobs[run[w].job])
<1>. DEFINE next == [run[w] EXCEPT !.pc = "items", !.idx = 0, !.ok = 0, !.bad = 0]
<1>1. Commit(w, MarkRunning(run[w].loaded), next) /\ run[w].pc = "mark"
  BY DEF Start
<1>2. /\ next \in Runs /\ next.job = run[w].job /\ next.pc = "items"
      /\ next.idx = 0 /\ next.retries = run[w].retries
  <2>1. 0 \in 0..NumItems /\ run[w] \in Runs
    BY NumItemsAssumption DEF TypeInv, TypeOK
  <2>. QED
    BY <2>1 DEF Runs
<1>. HIDE DEF next
<1>. QED
  BY <1>1, <1>2, CommitEffect

\* The commit after an item, stored or rejected.
LEMMA ItemEffect ==
  ASSUME TypeInv, NEW w \in Workers, StoreItem(w) \/ RejectItem(w)
  PROVE  /\ run[w].pc = "items" /\ run'[w].pc = "items"
         /\ run'[w].job = run[w].job /\ run'[w].retries = run[w].retries
         /\ run[w].idx < NumItems /\ run'[w].idx = run[w].idx + 1
         /\ run'[w].loaded = jobs'[run[w].job]
         /\ \E p, s, f \in 0..NumItems :
              jobs'[run[w].job] =
                Flush(UpdateProgress(run[w].loaded, p, s, f), run[w].loaded,
                      jobs[run[w].job])
<1>1. PICK ok \in Nat, bad \in Nat :
        CommitItem(w, ok, bad) /\ ok + bad = run[w].idx + 1
  <2>1. /\ run[w].ok \in Nat /\ run[w].bad \in Nat
        /\ run[w].ok + run[w].bad = run[w].idx
    BY NumItemsAssumption DEF TypeInv, TypeOK, Tally, Runs
  <2>2. CASE StoreItem(w)
    BY <2>1, <2>2 DEF StoreItem
  <2>3. CASE RejectItem(w)
    BY <2>1, <2>3 DEF RejectItem
  <2>. QED
    BY <2>2, <2>3
<1>. DEFINE next == [run[w] EXCEPT !.idx = @ + 1, !.ok = ok, !.bad = bad]
            new == UpdateProgress(run[w].loaded, run[w].idx + 1, ok, bad)
<1>2. run[w].pc = "items" /\ run[w].idx < NumItems /\ run[w] \in Runs
  BY DEF StoreItem, RejectItem, TypeInv, TypeOK
<1>3. /\ run[w].idx + 1 \in 0..NumItems /\ ok \in 0..NumItems /\ bad \in 0..NumItems
  BY <1>1, <1>2, NumItemsAssumption DEF Runs
<1>4. /\ next \in Runs /\ next.job = run[w].job /\ next.pc = "items"
      /\ next.idx = run[w].idx + 1 /\ next.retries = run[w].retries
  BY <1>2, <1>3 DEF Runs
<1>5. Commit(w, new, next)
  BY <1>1 DEF CommitItem
<1>6. \E p, s, f \in 0..NumItems : new = UpdateProgress(run[w].loaded, p, s, f)
  BY <1>3
<1>. HIDE DEF next, new
<1>7. /\ run'[w].pc = next.pc /\ run'[w].job = next.job
      /\ run'[w].retries = next.retries /\ run'[w].idx = next.idx
      /\ run'[w].loaded = jobs'[run[w].job]
      /\ jobs'[run[w].job] = Flush(new, run[w].loaded, jobs[run[w].job])
  BY <1>2, <1>4, <1>5, CommitEffect
<1>. QED
  BY <1>2, <1>4, <1>6, <1>7

\* The commit that ends the job.
LEMMA FinishEffect ==
  ASSUME TypeInv, NEW w \in Workers, Finish(w)
  PROVE  /\ run[w].pc = "items" /\ run'[w].pc = "ack"
         /\ run[w].idx = NumItems
         /\ run'[w].job = run[w].job /\ run'[w].retries = run[w].retries
         /\ jobs'[run[w].job] =
              Flush(MarkCompleted(run[w].loaded, Outcome(run[w].ok, run[w].bad)),
                    run[w].loaded, jobs[run[w].job])
<1>. DEFINE next == [run[w] EXCEPT !.pc = "ack"]
            new == MarkCompleted(run[w].loaded, Outcome(run[w].ok, run[w].bad))
<1>1. Commit(w, new, next) /\ run[w].pc = "items" /\ run[w].idx = NumItems
  BY DEF Finish
<1>2. /\ next \in Runs /\ next.job = run[w].job /\ next.pc = "ack"
      /\ next.retries = run[w].retries
  BY DEF TypeInv, TypeOK, Runs
<1>. HIDE DEF next
<1>3. /\ run'[w].pc = "ack" /\ run'[w].job = run[w].job
      /\ run'[w].retries = run[w].retries
      /\ jobs'[run[w].job] = Flush(new, run[w].loaded, jobs[run[w].job])
  BY <1>1, <1>2, CommitEffect
<1>. QED
  BY <1>1, <1>3

\* Steps that move an execution on without a commit.
LEMMA FaultEffect ==
  ASSUME TypeInv, NEW w \in Workers, Fault(w)
  PROVE  /\ run[w].pc \in {"load", "mark", "items"}
         /\ run'[w].pc = IF run[w].retries < MaxRetries THEN "republish" ELSE "ack"
         /\ run'[w].job = run[w].job /\ run'[w].retries = run[w].retries
         /\ spent'.faults = spent.faults + 1
         /\ spent'.crashes = spent.crashes
         /\ spent'.redeliveries = spent.redeliveries
<1>. DEFINE pc == IF run[w].retries < MaxRetries THEN "republish" ELSE "ack"
<1>1. run'[w] = [run[w] EXCEPT !.pc = pc] /\ run[w] \in Runs
  BY DEF TypeInv, TypeOK, Fault
<1>2. /\ run[w].pc \in {"load", "mark", "items"}
      /\ spent'.faults = spent.faults + 1
      /\ spent'.crashes = spent.crashes
      /\ spent'.redeliveries = spent.redeliveries
  BY DEF TypeInv, TypeOK, Fault
<1>. HIDE DEF pc
<1>3. /\ run'[w].pc = pc
      /\ run'[w].job = run[w].job /\ run'[w].retries = run[w].retries
  BY <1>1 DEF Runs
<1>. QED
  BY <1>2, <1>3 DEF pc

\* One more copy of a message, which is all that a publication does.
Sent(m) ==
  /\ queue'[m] = queue[m] + 1
  /\ \A n \in Messages \ {m} : queue'[n] = queue[n]

\* Send makes one more copy.
LEMMA SendEffect ==
  ASSUME TypeInv, NEW m \in Messages, Send(m)
  PROVE  Sent(m)
BY DEF TypeInv, TypeOK, Send, Sent

\* The publication of a request sends the first message of its job.
LEMMA PublishEffect ==
  ASSUME TypeInv, NEW s \in Requests, Publish(s)
  PROVE  /\ [job |-> api[s].job, retries |-> 0] \in Messages
         /\ Sent([job |-> api[s].job, retries |-> 0])
         /\ api[s].pc = "publish" /\ api'[s].pc = "accepted"
         /\ api'[s].job = api[s].job
         /\ \A r \in Requests \ {s} : api'[r] = api[r]
         /\ UNCHANGED <<jobs, run, stored, spent>>
<1>1. [job |-> api[s].job, retries |-> 0] \in Messages
  BY BudgetAssumption DEF TypeInv, TypeOK, ApiStates, Messages
<1>2. Sent([job |-> api[s].job, retries |-> 0])
  BY <1>1, SendEffect DEF Publish
<1>. QED
  BY <1>1, <1>2 DEF Publish, TypeInv, TypeOK, ApiStates

\* A retry sends the message of the job again, with one more retry.
LEMMA RepublishEffect ==
  ASSUME TypeInv, NEW w \in Workers, Republish(w)
  PROVE  /\ run[w].pc = "republish" /\ run'[w].pc = "ack"
         /\ run'[w].job = run[w].job /\ run'[w].retries = run[w].retries
         /\ \E m \in Messages : /\ m.job = run[w].job
                                /\ m.retries = run[w].retries + 1
                                /\ Sent(m)
<1>1. /\ run[w] \in Runs /\ run[w].job \in Requests
      /\ run[w].pc = "republish" /\ run[w].retries < MaxRetries
  BY DEF TypeInv, TypeOK, RetriesLeft, Republish
<1>2. run'[w] = [run[w] EXCEPT !.pc = "ack"]
  BY DEF TypeInv, TypeOK, Republish
<1>. DEFINE m == [Message(w) EXCEPT !.retries = @ + 1]
<1>3. m = [job |-> run[w].job, retries |-> run[w].retries + 1]
  BY DEF Message
<1>4. m \in Messages
  BY <1>1, <1>3, BudgetAssumption DEF Messages, Runs
<1>5. Send(m)
  BY DEF Republish
<1>6. m.job = run[w].job /\ m.retries = run[w].retries + 1
  BY <1>3
<1>. HIDE DEF m
<1>. QED
  BY <1>1, <1>2, <1>4, <1>5, <1>6, SendEffect DEF Runs

\* A crash and a redelivery send the message as it was.
LEMMA CrashEffect ==
  ASSUME TypeInv, NEW w \in Workers, WorkerCrash(w) \/ Redeliver(w)
  PROVE  /\ run[w].pc # "idle"
         /\ WorkerCrash(w) => run'[w].pc = "idle" /\ run'[w].job = NoJob
         /\ Redeliver(w) => run'[w] = run[w]
         /\ \E m \in Messages : /\ m.job = run[w].job
                                /\ m.retries = run[w].retries
                                /\ Sent(m)
         /\ spent'.faults = spent.faults
         /\ spent'.crashes + spent'.redeliveries
              = spent.crashes + spent.redeliveries + 1
<1>1. run[w].pc # "idle" /\ run[w] \in Runs /\ run[w].job \in Requests
  BY DEF TypeInv, TypeOK, WorkerCrash, Redeliver
<1>2. Message(w) \in Messages /\ Message(w).job = run[w].job
      /\ Message(w).retries = run[w].retries
  BY <1>1 DEF Message, Messages, Runs
<1>3. Sent(Message(w))
  BY <1>2, SendEffect DEF WorkerCrash, Redeliver
<1>4. /\ WorkerCrash(w) => run'[w].pc = "idle" /\ run'[w].job = NoJob
      /\ Redeliver(w) => run'[w] = run[w]
  <2>1. WorkerCrash(w) => run'[w] = IdleRun
    BY DEF TypeInv, TypeOK, WorkerCrash
  <2>. QED
    BY <2>1 DEF Redeliver, IdleRun
<1>5. /\ spent'.faults = spent.faults
      /\ spent'.crashes + spent'.redeliveries
           = spent.crashes + spent.redeliveries + 1
  <2>1. /\ spent \in [faults : Nat, crashes : Nat, redeliveries : Nat]
        /\ \/ spent' = [spent EXCEPT !.crashes = @ + 1]
           \/ spent' = [spent EXCEPT !.redeliveries = @ + 1]
    BY DEF TypeInv, TypeOK, WorkerCrash, Redeliver
  <2>. QED
    BY <2>1
<1>. QED
  BY <1>1, <1>2, <1>3, <1>4, <1>5

\* An acknowledged execution is over.
LEMMA AckEffect ==
  ASSUME TypeInv, NEW w \in Workers, Ack(w)
  PROVE  run[w].pc = "ack" /\ run'[w].pc = "idle" /\ run'[w].job = NoJob
BY DEF TypeInv, TypeOK, Ack, IdleRun

-----------------------------------------------------------------------------
(* An unfinished job is carried by a message or by an execution *)

\* Every retry on the way was caused by a fault, and a task that is about to
\* be retried has just met one more.
RetriesAreFaults ==
  /\ \A m \in Messages : queue[m] > 0 => m.retries <= spent.faults
  /\ \A w \in Workers :
       /\ run[w].pc # "idle" => run[w].retries <= spent.faults
       /\ run[w].pc = "republish" => run[w].retries < spent.faults

\* Worker w will load job r, publish it again, or is at work with a copy of its
\* row that says it is not finished: the end of its work finishes the job.
Carries(w, r) ==
  /\ run[w].job = r
  /\ \/ run[w].pc \in {"load", "republish"}
     \/ /\ run[w].pc \in {"mark", "items"}
        /\ run[w].loaded.status \in ActiveStatuses

Waits(r) == \E m \in Messages : m.job = r /\ queue[m] > 0

\* The accepted requests that were answered with job r.
Acceptances(r) == {s \in Requests : api[s].pc = "accepted" /\ api[s].job = r}

\* A job that is not finished waits, or an execution carries it.
Carried ==
  \A r \in Requests :
    /\ jobs[r].status \in ActiveStatuses
    /\ Acceptances(r) # {}
    /\ spent.faults <= MaxRetries
    => Waits(r) \/ \E w \in Workers : Carries(w, r)

CarriedInv == AcceptanceInv /\ RetriesAreFaults /\ Carried

\* The faults, crashes and redeliveries so far are never forgotten.
LEMMA SpentGrows ==
  ASSUME TypeInv, [Next]_vars
  PROVE  spent.faults \in Nat /\ spent'.faults \in Nat /\ spent'.faults >= spent.faults
<1>1. spent.faults \in Nat /\ spent'.faults \in Nat
  BY TypeStep DEF TypeInv, TypeOK
<1>2. CASE UNCHANGED spent
  BY <1>1, <1>2
<1>3. ASSUME NEW w \in Workers, Fault(w)
      PROVE  spent'.faults >= spent.faults
  BY <1>1, <1>3, FaultEffect
<1>4. ASSUME NEW w \in Workers, WorkerCrash(w) \/ Redeliver(w)
      PROVE  spent'.faults >= spent.faults
  BY <1>1, <1>4, CrashEffect
<1>5. ASSUME NEW s \in Requests, PublishFails(s)
      PROVE  spent'.faults >= spent.faults
  BY <1>1, <1>5 DEF PublishFails, TypeInv, TypeOK
<1>6. \/ UNCHANGED spent
      \/ \E w \in Workers : Fault(w) \/ WorkerCrash(w) \/ Redeliver(w)
      \/ \E s \in Requests : PublishFails(s)
  BY DEF Next, ApiStep, WorkerStep, Disturbance, vars, Lookup, Insert, Publish,
         Receive, Load, Start, StoreItem, RejectItem, Finish, Republish, Ack
<1>. QED
  BY <1>1, <1>2, <1>3, <1>4, <1>5, <1>6

\* A retry is published only after a fault.
LEMMA RetriesAreFaultsStep ==
  ASSUME TypeInv, RetriesAreFaults, [Next]_vars
  PROVE  RetriesAreFaults'
<1>1. /\ TypeInv'
      /\ spent.faults \in Nat /\ spent'.faults \in Nat
      /\ spent'.faults >= spent.faults
  BY TypeStep, SpentGrows
<1>2. /\ \A m \in Messages : m.retries \in Nat /\ queue[m] \in Nat /\ queue'[m] \in Nat
      /\ \A w \in Workers : run[w].retries \in Nat /\ run'[w].retries \in Nat
  <2>1. \A m \in Messages : m.retries \in Nat /\ queue[m] \in Nat /\ queue'[m] \in Nat
    <3>1. \A m \in Messages : m.retries \in Nat
      BY BudgetAssumption DEF Messages
    <3>2. \A m \in Messages : queue[m] \in Nat /\ queue'[m] \in Nat
      BY <1>1 DEF TypeInv, TypeOK
    <3>. QED
      BY <3>1, <3>2
  <2>2. ASSUME NEW w \in Workers
        PROVE  run[w].retries \in Nat /\ run'[w].retries \in Nat
    <3>1. run[w] \in Runs /\ run'[w] \in Runs
      BY <1>1 DEF TypeInv, TypeOK
    <3>. QED
      BY <3>1, BudgetAssumption DEF Runs
  <2>. QED
    BY <2>1, <2>2
<1>3. ASSUME NEW m \in Messages, queue'[m] > 0
      PROVE  m.retries <= spent'.faults
  <2>1. CASE queue[m] > 0
    BY <1>1, <1>2, <2>1 DEF RetriesAreFaults
  <2>2. CASE queue[m] = 0
    <3>1. ASSUME NEW s \in Requests, Publish(s)
          PROVE  m.retries = 0
      <4>. DEFINE n == [job |-> api[s].job, retries |-> 0]
      <4>1. Sent(n) /\ n.retries = 0
        BY <3>1, PublishEffect
      <4>. HIDE DEF n
      <4>2. m = n
        BY <1>3, <2>2, <4>1 DEF Sent
      <4>. QED
        BY <4>1, <4>2
    <3>2. ASSUME NEW w \in Workers, Republish(w)
          PROVE  m.retries <= spent'.faults
      <4>1. run[w].pc = "republish" /\ m.retries = run[w].retries + 1
        BY <1>3, <2>2, <3>2, RepublishEffect DEF Sent
      <4>. QED
        BY <1>1, <1>2, <4>1 DEF RetriesAreFaults
    <3>3. ASSUME NEW w \in Workers, WorkerCrash(w) \/ Redeliver(w)
          PROVE  m.retries <= spent'.faults
      <4>1. run[w].pc # "idle" /\ m.retries = run[w].retries
        BY <1>3, <2>2, <3>3, CrashEffect DEF Sent
      <4>. QED
        BY <1>1, <1>2, <4>1 DEF RetriesAreFaults
    <3>4. ASSUME NEW w \in Workers, Receive(w)
          PROVE  FALSE
      BY <1>2, <1>3, <2>2, <3>4, ReceiveEffect DEF TypeInv, TypeOK
    <3>5. \/ UNCHANGED queue
          \/ \E s \in Requests : Publish(s)
          \/ \E w \in Workers : \/ Republish(w) \/ WorkerCrash(w)
                                \/ Redeliver(w) \/ Receive(w)
      BY DEF Next, ApiStep, WorkerStep, Disturbance, vars, Lookup, Insert,
             PublishFails, Load, Start, StoreItem, RejectItem, Finish, Ack, Fault
    <3>. QED
      BY <1>1, <1>2, <1>3, <2>2, <3>1, <3>2, <3>3, <3>4, <3>5
  <2>. QED
    BY <1>2, <2>1, <2>2
<1>4. ASSUME NEW v \in Workers
      PROVE  /\ run'[v].pc # "idle" => run'[v].retries <= spent'.faults
             /\ run'[v].pc = "republish" => run'[v].retries < spent'.faults
  <2>1. CASE run'[v] = run[v]
    BY <1>1, <1>2, <2>1 DEF RetriesAreFaults
  <2>2. CASE Receive(v)
    <3>1. PICK m \in Messages : /\ queue[m] > 0 /\ run'[v].pc = "load"
                                /\ run'[v].retries = m.retries
      BY <2>2, ReceiveEffect DEF TypeInv
    <3>. QED
      BY <1>1, <1>2, <3>1 DEF RetriesAreFaults
  <2>3. CASE Load(v) \/ Writes(v) \/ Republish(v)
    <3>1. /\ run[v].pc # "idle" /\ run'[v].pc # "republish"
          /\ run'[v].retries = run[v].retries
      BY <2>3, LoadEffect, StartEffect, ItemEffect, FinishEffect, RepublishEffect
         DEF Writes
    <3>. QED
      BY <1>1, <1>2, <3>1 DEF RetriesAreFaults
  <2>4. CASE Fault(v)
    <3>1. /\ run[v].pc # "idle" /\ run'[v].retries = run[v].retries
          /\ spent'.faults = spent.faults + 1
      BY <2>4, FaultEffect
    <3>. QED
      BY <1>1, <1>2, <3>1 DEF RetriesAreFaults
  <2>5. CASE Ack(v) \/ WorkerCrash(v)
    BY <2>5, AckEffect, CrashEffect
  <2>6. CASE Redeliver(v)
    BY <2>1, <2>6, CrashEffect
  <2>7. run'[v] = run[v] \/ StepOf(v)
    BY StepCases, StepFrames, OthersGoOn DEF vars
  <2>. QED
    BY <2>1, <2>2, <2>3, <2>4, <2>5, <2>6, <2>7 DEF StepOf, WorkerStep, Writes
<1>. QED
  BY <1>3, <1>4 DEF RetriesAreFaults

\* A message that waits goes on waiting, or a worker loads its job.
LEMMA WaitingIsCarried ==
  ASSUME TypeInv, [Next]_vars, NEW r \in Requests, Waits(r)
  PROVE  Waits(r)' \/ \E w \in Workers : Carries(w, r)'
<1>1. PICK m \in Messages : m.job = r /\ queue[m] > 0
  BY DEF Waits
<1>2. /\ \A n \in Messages : queue[n] \in Nat /\ queue'[n] \in Nat
      /\ TypeInv'
  BY TypeStep DEF TypeInv, TypeOK
<1>3. CASE queue'[m] >= queue[m]
  BY <1>1, <1>2, <1>3 DEF Waits
<1>4. ASSUME NEW w \in Workers, Receive(w), ~(queue'[m] >= queue[m])
      PROVE  Carries(w, r)'
  <2>1. PICK n \in Messages : /\ queue' = [queue EXCEPT ![n] = @ - 1]
                              /\ run'[w].pc = "load" /\ run'[w].job = n.job
    BY <1>4, ReceiveEffect
  <2>2. n = m
    BY <1>2, <1>4, <2>1 DEF TypeInv, TypeOK
  <2>. QED
    BY <1>1, <2>1, <2>2 DEF Carries
<1>5. ASSUME NEW n \in Messages, Sent(n)
      PROVE  queue'[m] >= queue[m]
  BY <1>2, <1>5 DEF Sent
<1>6. \/ UNCHANGED queue
      \/ \E n \in Messages : Sent(n)
      \/ \E w \in Workers : Receive(w)
  <2>1. \A s \in Requests : Publish(s) => \E n \in Messages : Sent(n)
    BY PublishEffect
  <2>2. \A w \in Workers : Republish(w) \/ WorkerCrash(w) \/ Redeliver(w)
                             => \E n \in Messages : Sent(n)
    BY RepublishEffect, CrashEffect
  <2>. QED
    BY <2>1, <2>2
       DEF Next, ApiStep, WorkerStep, Disturbance, vars, Lookup, Insert,
           PublishFails, Load, Start, StoreItem, RejectItem, Finish, Ack, Fault
<1>7. CASE UNCHANGED queue
  BY <1>1, <1>7 DEF Waits
<1>. QED
  BY <1>3, <1>4, <1>5, <1>6, <1>7

\* A commit that leaves the job unfinished leaves an execution that carries it.
LEMMA CommitCarries ==
  ASSUME TypeInv, NEW w \in Workers, Start(w) \/ StoreItem(w) \/ RejectItem(w),
         NEW r \in Requests, run[w].job = r, jobs'[r].status \in ActiveStatuses
  PROVE  Carries(w, r)'
BY StartEffect, ItemEffect DEF Carries

\* An execution that carries a job hands it on with every step it takes, unless
\* that step finishes the job or the retries are used up.
LEMMA CarrierHandsOn ==
  ASSUME TypeInv, RetriesAreFaults, [Next]_vars, NEW r \in Requests,
         jobs[r].status \in ActiveStatuses, jobs'[r].status \in ActiveStatuses,
         spent'.faults <= MaxRetries, NEW w \in Workers, Carries(w, r)
  PROVE  Waits(r)' \/ Carries(w, r)'
<1>1. run[w].job = r /\ run[w].pc \in {"load", "mark", "items", "republish"}
  BY DEF Carries
<1>2. /\ \A m \in Messages : queue[m] \in Nat
      /\ spent.faults \in Nat /\ run[w].retries \in Nat
      /\ run[w].loaded \in Row(NumItems)
  BY BudgetAssumption DEF TypeInv, TypeOK, Runs
<1>3. CASE run'[w] = run[w]
  BY <1>3 DEF Carries
<1>4. CASE Load(w)
  BY <1>1, <1>4, LoadEffect DEF Carries, ActiveStatuses, ShortCircuitStatuses
<1>5. CASE Start(w) \/ StoreItem(w) \/ RejectItem(w)
  BY <1>1, <1>5, CommitCarries
<1>6. CASE Finish(w)
  <2>. DEFINE out == Outcome(run[w].ok, run[w].bad)
              new == MarkCompleted(run[w].loaded, out)
  <2>1. /\ run[w].pc = "items"
        /\ jobs'[r] = Flush(new, run[w].loaded, jobs[r])
    BY <1>1, <1>6, FinishEffect
  <2>2. out \in {"completed", "partially_completed"}
    BY OutcomeType
  <2>3. new.status = out
    BY <1>2 DEF MarkCompleted, Row
  <2>4. run[w].loaded.status \in ActiveStatuses
    BY <2>1 DEF Carries
  <2>. HIDE DEF new, out
  <2>5. jobs'[r].status = out
    BY <2>1, <2>2, <2>3, <2>4 DEF Flush, Column, ActiveStatuses
  <2>. QED
    BY <2>2, <2>5 DEF ActiveStatuses
<1>7. CASE Fault(w)
  <2>1. /\ run'[w].job = r
        /\ run'[w].pc = IF run[w].retries < MaxRetries THEN "republish" ELSE "ack"
        /\ spent'.faults = spent.faults + 1
    BY <1>1, <1>7, FaultEffect
  <2>2. run[w].retries <= spent.faults
    BY <1>1 DEF RetriesAreFaults
  <2>3. run[w].retries < MaxRetries
    BY <1>2, <2>1, <2>2, BudgetAssumption
  <2>. QED
    BY <2>1, <2>3 DEF Carries
<1>8. CASE Republish(w) \/ WorkerCrash(w) \/ Redeliver(w)
  <2>1. PICK m \in Messages : m.job = r /\ Sent(m)
    BY <1>1, <1>8, RepublishEffect, CrashEffect
  <2>. QED
    BY <1>2, <2>1 DEF Sent, Waits
<1>9. ~Receive(w) /\ ~Ack(w)
  BY <1>1 DEF Receive, Ack
<1>10. run'[w] = run[w] \/ StepOf(w)
  BY StepCases, StepFrames, OthersGoOn DEF vars
<1>. QED
  BY <1>3, <1>4, <1>5, <1>6, <1>7, <1>8, <1>9, <1>10 DEF StepOf, WorkerStep

\* A job becomes unfinished when it is inserted, which nobody has accepted yet,
\* or when an execution that carries it marks it as running again.
LEMMA JobsAwake ==
  ASSUME AcceptanceInv, [Next]_vars, NEW r \in Requests,
         jobs[r].status \notin ActiveStatuses, jobs'[r].status \in ActiveStatuses
  PROVE  Acceptances(r)' = {} \/ \E w \in Workers : Carries(w, r)'
<1>1. TypeInv
  BY DEF AcceptanceInv
<1>2. ASSUME NEW q \in Requests, Insert(q)
      PROVE  Acceptances(r)' = {}
  <2>1. q = r
    BY <1>1, <1>2 DEF Insert, TypeInv, TypeOK
  <2>2. ASSUME NEW s \in Requests, api'[s].pc = "accepted", api'[s].job = r
        PROVE  FALSE
    <3>1. api'[s] = api[s]
      BY <1>1, <1>2, <2>1, <2>2 DEF Insert, TypeInv, TypeOK, ApiStates
    <3>2. jobs[r].status # "absent"
      BY <2>2, <3>1 DEF AcceptanceInv, Answered
    <3>. QED
      BY <1>2, <2>1, <3>2 DEF Insert, AcceptanceInv, FreshIds
  <2>. QED
    BY <2>2 DEF Acceptances
<1>3. ASSUME NEW w \in Workers, Writes(w)
      PROVE  Carries(w, r)'
  <2>1. r = run[w].job /\ jobs'[r].status # jobs[r].status
    BY <1>1, <1>3, CommittedStatus DEF Writes
  <2>2. Start(w)
    BY <1>1, <1>3, <2>1, CommittedStatus, OutcomeType DEF Writes, ActiveStatuses
  <2>. QED
    BY <1>1, <2>1, <2>2, CommitCarries
<1>. QED
  BY <1>2, <1>3
     DEF Next, ApiStep, WorkerStep, Disturbance, Writes, vars, Lookup, Publish,
         PublishFails, Receive, Load, Republish, Ack, Fault, WorkerCrash,
         Redeliver

\* A job is accepted by the publication of its first message.
LEMMA AcceptancesCarry ==
  ASSUME TypeInv, [Next]_vars, NEW r \in Requests,
         Acceptances(r) = {}, Acceptances(r)' # {}
  PROVE  Waits(r)'
<1>1. PICK s \in Requests : api'[s].pc = "accepted" /\ api'[s].job = r
  BY DEF Acceptances
<1>2. api'[s] # api[s]
  BY <1>1 DEF Acceptances
<1>3. PICK q \in Requests : ApiStep(q) \/ PublishFails(q)
  BY <1>2, StepCases, StepFrames DEF vars
<1>4. Publish(q) /\ q = s
  BY <1>1, <1>2, <1>3 DEF ApiStep, Lookup, Insert, Publish, PublishFails,
                          TypeInv, TypeOK, ApiStates
<1>5. /\ [job |-> r, retries |-> 0] \in Messages
      /\ Sent([job |-> r, retries |-> 0])
  BY <1>1, <1>4, PublishEffect
<1>6. queue[[job |-> r, retries |-> 0]] \in Nat
  BY <1>5 DEF TypeInv, TypeOK
<1>. QED
  BY <1>5, <1>6 DEF Sent, Waits

\* The three ways in which a job can come to need a carrier, put together.
LEMMA CarriedStep ==
  ASSUME CarriedInv, [Next]_vars
  PROVE  Carried'
<1>. SUFFICES ASSUME NEW r \in Requests,
                     jobs'[r].status \in ActiveStatuses,
                     Acceptances(r)' # {}, spent'.faults <= MaxRetries
              PROVE  Waits(r)' \/ \E w \in Workers : Carries(w, r)'
  BY DEF Carried
<1>1. TypeInv /\ AcceptanceInv /\ RetriesAreFaults
  BY DEF CarriedInv, AcceptanceInv
<1>2. spent.faults <= MaxRetries
  BY <1>1, SpentGrows, BudgetAssumption
<1>3. CASE jobs[r].status \notin ActiveStatuses
  BY <1>1, <1>3, JobsAwake
<1>4. CASE Acceptances(r) = {}
  BY <1>1, <1>4, AcceptancesCarry
<1>5. CASE jobs[r].status \in ActiveStatuses /\ Acceptances(r) # {}
  <2>1. Waits(r) \/ \E w \in Workers : Carries(w, r)
    BY <1>2, <1>5 DEF CarriedInv, Carried
  <2>. QED
    BY <1>1, <1>5, <2>1, WaitingIsCarried, CarrierHandsOn
<1>. QED
  BY <1>3, <1>4, <1>5

\* An accepted job that is not finished is carried by a message that waits or
\* by an execution that will go on with it, while the faults leave a retry:
\* through crashes, redeliveries and overlapping executions of the job.
THEOREM UnfinishedJobsStayCarried == Spec => []UnfinishedJobsAreCarried
<1>1. Init => RetriesAreFaults /\ Carried
  BY DEF Init, RetriesAreFaults, Carried, IdleRun, AbsentRow, RowWith, ActiveStatuses
<1>2. AcceptanceInv /\ RetriesAreFaults /\ Carried /\ [Next]_vars
        => RetriesAreFaults' /\ Carried'
  BY RetriesAreFaultsStep, CarriedStep DEF CarriedInv, AcceptanceInv
<1>3. Carried => UnfinishedJobsAreCarried
  BY DEF Carried, UnfinishedJobsAreCarried, Acceptances, Waits, Carries
<1>. QED
  BY AcceptanceInvariant, <1>1, <1>2, <1>3, PTL DEF Spec

-----------------------------------------------------------------------------
(* No item is stored more often than its deliveries explain *)

\* A set that gains at most one element, or loses one, or gains a new one.
LEMMA CountGrows ==
  ASSUME NEW S, IsFiniteSet(S), NEW T, NEW x, T \subseteq S \cup {x}
  PROVE  IsFiniteSet(T) /\ Cardinality(T) <= Cardinality(S) + 1
<1>1. /\ IsFiniteSet(S \cup {x}) /\ Cardinality(S) \in Nat
      /\ Cardinality(S \cup {x}) <= Cardinality(S) + 1
  <2>1. /\ IsFiniteSet(S \cup {x})
        /\ Cardinality(S \cup {x}) = IF x \in S THEN Cardinality(S)
                                     ELSE Cardinality(S) + 1
    BY FS_AddElement
  <2>2. Cardinality(S) \in Nat
    BY FS_CardinalityType
  <2>. QED
    BY <2>1, <2>2
<1>2. IsFiniteSet(T) /\ Cardinality(T) <= Cardinality(S \cup {x})
  BY <1>1, FS_Subset
<1>. QED
  BY <1>1, <1>2, FS_CardinalityType

\* A subset is no larger, and smaller when it lacks an element.
LEMMA CountShrinks ==
  ASSUME NEW S, IsFiniteSet(S), NEW T, T \subseteq S
  PROVE  /\ IsFiniteSet(T) /\ Cardinality(T) <= Cardinality(S)
         /\ \A x \in S \ T : Cardinality(T) + 1 <= Cardinality(S)
<1>1. IsFiniteSet(T) /\ Cardinality(T) <= Cardinality(S)
  BY FS_Subset
<1>2. ASSUME NEW x \in S \ T
      PROVE  Cardinality(T) + 1 <= Cardinality(S)
  <2>1. IsFiniteSet(S \ {x}) /\ Cardinality(S \ {x}) = Cardinality(S) - 1
    BY FS_RemoveElement
  <2>2. Cardinality(T) <= Cardinality(S \ {x})
    BY <2>1, FS_Subset
  <2>. QED
    BY <1>1, <2>1, <2>2, FS_CardinalityType
<1>. QED
  BY <1>1, <1>2

\* The copies of messages of job r that wait, told apart.
Copies(r) == {c \in Messages \X Nat : c[1].job = r /\ c[2] \in 1..queue[c[1]]}

\* The executions of job r that have yet to store item i, or may run it again.
Pending(r, i) ==
  {w \in Workers :
     /\ run[w].job = r
     /\ \/ run[w].pc \in {"load", "mark", "republish"}
        \/ run[w].pc = "items" /\ run[w].idx < i}

Disturbances == spent.faults + spent.crashes + spent.redeliveries

\* Every copy and every execution that can still store item i of job r, and
\* every time it was stored, stands for an acceptance or a disturbance.
Explained(r, i) ==
  /\ IsFiniteSet(Copies(r)) /\ IsFiniteSet(Pending(r, i))
  /\ IsFiniteSet(Acceptances(r))
  /\ stored[r][i] + Cardinality(Copies(r)) + Cardinality(Pending(r, i))
       <= Cardinality(Acceptances(r)) + Disturbances

\* What a step does to the three sets of job r and item i.
LEMMA CopiesAfter ==
  ASSUME TypeInv, [Next]_vars, NEW r \in Requests, IsFiniteSet(Copies(r))
  PROVE  /\ UNCHANGED queue =>
              IsFiniteSet(Copies(r)') /\ Cardinality(Copies(r)') <= Cardinality(Copies(r))
         /\ \A m \in Messages : Sent(m) =>
              /\ IsFiniteSet(Copies(r)')
              /\ Cardinality(Copies(r)') <= Cardinality(Copies(r)) + 1
              /\ m.job # r => Cardinality(Copies(r)') <= Cardinality(Copies(r))
         /\ \A m \in Messages :
              queue[m] > 0 /\ queue' = [queue EXCEPT ![m] = @ - 1] =>
              /\ IsFiniteSet(Copies(r)')
              /\ Cardinality(Copies(r)') <= Cardinality(Copies(r))
              /\ m.job = r => Cardinality(Copies(r)') + 1 <= Cardinality(Copies(r))
<1>1. /\ \A n \in Messages : queue[n] \in Nat /\ queue'[n] \in Nat
      /\ TypeInv'
  BY TypeStep DEF TypeInv, TypeOK
<1>2. UNCHANGED queue => Copies(r)' = Copies(r)
  BY DEF Copies
<1>3. ASSUME NEW m \in Messages, Sent(m)
      PROVE  /\ Copies(r)' \subseteq Copies(r) \cup {<<m, queue[m] + 1>>}
             /\ m.job # r => Copies(r)' \subseteq Copies(r)
  <2>1. ASSUME NEW c \in Copies(r)', c \notin Copies(r)
        PROVE  c = <<m, queue[m] + 1>> /\ m.job = r
    <3>1. /\ c \in Messages \X Nat /\ c[1].job = r
          /\ c[2] \in 1..queue'[c[1]]
          /\ c[2] \notin 1..queue[c[1]]
      BY <2>1 DEF Copies
    <3>2. c[1] = m
      BY <1>3, <3>1 DEF Sent
    <3>3. c[2] = queue[m] + 1
      BY <1>1, <1>3, <3>1, <3>2 DEF Sent
    <3>. QED
      BY <3>1, <3>2, <3>3
  <2>. QED
    BY <2>1
<1>4. ASSUME NEW m \in Messages, queue[m] > 0,
             queue' = [queue EXCEPT ![m] = @ - 1]
      PROVE  /\ Copies(r)' \subseteq Copies(r)
             /\ m.job = r => <<m, queue[m]>> \in Copies(r) \ Copies(r)'
  <2>1. /\ queue'[m] = queue[m] - 1
        /\ \A n \in Messages : n # m => queue'[n] = queue[n]
    BY <1>4 DEF TypeInv, TypeOK
  <2>2. Copies(r)' \subseteq Copies(r)
    <3>. SUFFICES ASSUME NEW c \in Messages \X Nat, c[1].job = r,
                         c[2] \in 1..queue'[c[1]]
                  PROVE  c[2] \in 1..queue[c[1]]
      BY DEF Copies
    <3>1. queue'[c[1]] <= queue[c[1]] /\ queue[c[1]] \in Nat /\ queue'[c[1]] \in Nat
      BY <1>1, <2>1
    <3>. QED
      BY <3>1
  <2>3. m.job = r => <<m, queue[m]>> \in Copies(r) \ Copies(r)'
    BY <1>1, <1>4, <2>1 DEF Copies
  <2>. QED
    BY <2>2, <2>3
<1>5. UNCHANGED queue =>
        IsFiniteSet(Copies(r)') /\ Cardinality(Copies(r)') <= Cardinality(Copies(r))
  BY <1>2, CountShrinks
<1>6. ASSUME NEW m \in Messages, Sent(m)
      PROVE  /\ IsFiniteSet(Copies(r)')
             /\ Cardinality(Copies(r)') <= Cardinality(Copies(r)) + 1
             /\ m.job # r => Cardinality(Copies(r)') <= Cardinality(Copies(r))
  BY <1>3, <1>6, CountGrows, CountShrinks
<1>7. ASSUME NEW m \in Messages, queue[m] > 0,
             queue' = [queue EXCEPT ![m] = @ - 1]
      PROVE  /\ IsFiniteSet(Copies(r)')
             /\ Cardinality(Copies(r)') <= Cardinality(Copies(r))
             /\ m.job = r => Cardinality(Copies(r)') + 1 <= Cardinality(Copies(r))
  BY <1>4, <1>7, CountShrinks
<1>. QED
  BY <1>5, <1>6, <1>7

\* An execution that moves changes the executions to come by itself at most.
LEMMA PendingAfter ==
  ASSUME TypeInv, NEW r \in Requests, NEW i \in Items,
         IsFiniteSet(Pending(r, i)), NEW w \in Workers,
         \A v \in Workers \ {w} : run'[v] = run[v]
  PROVE  /\ IsFiniteSet(Pending(r, i)')
         /\ Cardinality(Pending(r, i)') <= Cardinality(Pending(r, i)) + 1
         /\ w \in Pending(r, i) \/ w \notin Pending(r, i)' =>
              Cardinality(Pending(r, i)') <= Cardinality(Pending(r, i))
         /\ w \in Pending(r, i) /\ w \notin Pending(r, i)' =>
              Cardinality(Pending(r, i)') + 1 <= Cardinality(Pending(r, i))
<1>1. Pending(r, i)' \subseteq Pending(r, i) \cup {w}
  BY DEF Pending
<1>2. w \in Pending(r, i) \/ w \notin Pending(r, i)' =>
        Pending(r, i)' \subseteq Pending(r, i)
  BY <1>1
<1>3. w \in Pending(r, i) /\ w \notin Pending(r, i)' =>
        w \in Pending(r, i) \ Pending(r, i)'
  OBVIOUS
<1>. QED
  BY <1>1, <1>2, <1>3, CountGrows, CountShrinks

\* Only a publication accepts, and nothing takes an acceptance back.
LEMMA AcceptancesAfter ==
  ASSUME TypeInv, [Next]_vars, NEW r \in Requests, IsFiniteSet(Acceptances(r))
  PROVE  /\ IsFiniteSet(Acceptances(r)')
         /\ Cardinality(Acceptances(r)') >= Cardinality(Acceptances(r))
         /\ \A s \in Requests : Publish(s) /\ api[s].job = r =>
              Cardinality(Acceptances(r)') = Cardinality(Acceptances(r)) + 1
<1>1. ASSUME NEW s \in Requests, Publish(s)
      PROVE  /\ api[s].job = r => /\ Acceptances(r)' = Acceptances(r) \cup {s}
                                  /\ s \notin Acceptances(r)
             /\ api[s].job # r => Acceptances(r)' = Acceptances(r)
  <2>1. /\ api[s].pc = "publish" /\ api'[s].pc = "accepted"
        /\ api'[s].job = api[s].job
        /\ \A q \in Requests \ {s} : api'[q] = api[q]
    BY <1>1, PublishEffect
  <2>2. ASSUME NEW q \in Requests
        PROVE  q \in Acceptances(r)' <=>
                 q \in Acceptances(r) \/ (q = s /\ api[s].job = r)
    BY <2>1 DEF Acceptances
  <2>3. s \notin Acceptances(r)
    BY <2>1 DEF Acceptances
  <2>4. Acceptances(r)' \subseteq Requests /\ Acceptances(r) \subseteq Requests
    BY DEF Acceptances
  <2>. QED
    BY <2>2, <2>3, <2>4
<1>2. (\A s \in Requests : ~Publish(s)) => Acceptances(r)' = Acceptances(r)
  <2>. SUFFICES ASSUME \A s \in Requests : ~Publish(s), NEW s \in Requests
                PROVE  /\ (api'[s].pc = "accepted" /\ api'[s].job = r)
                            <=> (api[s].pc = "accepted" /\ api[s].job = r)
    BY DEF Acceptances
  <2>1. CASE api'[s] = api[s]
    BY <2>1
  <2>2. ASSUME NEW q \in Requests, Lookup(q) \/ Insert(q) \/ PublishFails(q),
               api'[s] # api[s]
        PROVE  api[s].pc # "accepted" /\ api'[s].pc # "accepted"
    <3>1. q = s
      BY <2>2 DEF Lookup, Insert, PublishFails, TypeInv, TypeOK
    <3>2. api[s].pc # "accepted"
      BY <2>2, <3>1 DEF Lookup, Insert, PublishFails
    <3>3. api'[s].pc # "accepted"
      BY <2>2, <3>1 DEF Lookup, Insert, PublishFails, TypeInv, TypeOK, ApiStates
    <3>. QED
      BY <3>2, <3>3
  <2>3. CASE \E w \in Workers : StepOf(w)
    BY <2>1, <2>3, StepFrames
  <2>. QED
    BY <2>1, <2>2, <2>3, StepCases DEF ApiStep, vars
<1>3. ASSUME NEW s \in Requests, Publish(s), api[s].job = r
      PROVE  /\ IsFiniteSet(Acceptances(r)')
             /\ Cardinality(Acceptances(r)') = Cardinality(Acceptances(r)) + 1
  BY <1>1, <1>3, FS_AddElement
<1>4. Cardinality(Acceptances(r)) \in Nat
  BY FS_CardinalityType
<1>. QED
  BY <1>1, <1>2, <1>3, <1>4

\* The numbers in Explained, before and after.
LEMMA CountTypes ==
  ASSUME TypeInv, [Next]_vars, NEW r \in Requests, NEW i \in Items, Explained(r, i)
  PROVE  /\ stored[r][i] \in Nat /\ stored'[r][i] \in Nat
         /\ Cardinality(Copies(r)) \in Nat
         /\ Cardinality(Pending(r, i)) \in Nat
         /\ Cardinality(Acceptances(r)) \in Nat
         /\ Disturbances \in Nat /\ Disturbances' \in Nat
<1>1. TypeInv /\ TypeInv'
  BY TypeStep
<1>2. stored[r][i] \in Nat /\ stored'[r][i] \in Nat
  BY <1>1 DEF TypeInv, TypeOK
<1>3. Disturbances \in Nat /\ Disturbances' \in Nat
  BY <1>1 DEF TypeInv, TypeOK, Disturbances
<1>. QED
  BY <1>2, <1>3, FS_CardinalityType DEF Explained

\* A step of the API: only a publication makes a copy, for one acceptance.
LEMMA ApiBalance ==
  ASSUME TypeInv, [Next]_vars, NEW r \in Requests, NEW i \in Items,
         Explained(r, i), NEW s \in Requests, ApiStep(s) \/ PublishFails(s)
  PROVE  Explained(r, i)'
<1>1. UNCHANGED <<run, stored>> /\ Pending(r, i)' = Pending(r, i)
  BY StepFrames DEF Pending
<1>2. /\ IsFiniteSet(Acceptances(r)')
      /\ Cardinality(Acceptances(r)') >= Cardinality(Acceptances(r))
      /\ Publish(s) /\ api[s].job = r =>
           Cardinality(Acceptances(r)') = Cardinality(Acceptances(r)) + 1
  BY AcceptancesAfter DEF Explained
<1>3. Disturbances' >= Disturbances
  BY DEF ApiStep, Lookup, Insert, Publish, PublishFails, TypeInv, TypeOK, Disturbances
<1>4. CASE Publish(s)
  <2>. DEFINE m == [job |-> api[s].job, retries |-> 0]
  <2>1. m \in Messages /\ Sent(m) /\ m.job = api[s].job
    BY <1>4, PublishEffect
  <2>. HIDE DEF m
  <2>2. /\ IsFiniteSet(Copies(r)')
        /\ Cardinality(Copies(r)') <= Cardinality(Copies(r)) + 1
        /\ api[s].job # r => Cardinality(Copies(r)') <= Cardinality(Copies(r))
    BY <2>1, CopiesAfter DEF Explained
  <2>3. Cardinality(Copies(r)') \in Nat /\ Cardinality(Acceptances(r)') \in Nat
    BY <1>2, <2>2, FS_CardinalityType
  <2>. QED
    BY <1>1, <1>2, <1>3, <1>4, <2>2, <2>3, CountTypes DEF Explained
<1>5. CASE ~Publish(s)
  <2>1. UNCHANGED queue
    BY <1>5 DEF ApiStep, Lookup, Insert, PublishFails
  <2>2. IsFiniteSet(Copies(r)') /\ Cardinality(Copies(r)') <= Cardinality(Copies(r))
    BY <2>1, CopiesAfter DEF Explained
  <2>3. Cardinality(Copies(r)') \in Nat /\ Cardinality(Acceptances(r)') \in Nat
    BY <1>2, <2>2, FS_CardinalityType
  <2>. QED
    BY <1>1, <1>2, <1>3, <2>2, <2>3, CountTypes DEF Explained
<1>. QED
  BY <1>4, <1>5

\* The steps of a worker, in which the acceptances stay as they are.
LEMMA WorkerBalance ==
  ASSUME TypeInv, [Next]_vars, NEW r \in Requests, NEW i \in Items,
         Explained(r, i), NEW w \in Workers, StepOf(w)
  PROVE  Explained(r, i)'
<1>1. Acceptances(r)' = Acceptances(r)
  BY StepFrames DEF Acceptances
<1>2. \A v \in Workers \ {w} : run'[v] = run[v]
  BY OthersGoOn
<1>3. /\ IsFiniteSet(Pending(r, i)')
      /\ Cardinality(Pending(r, i)') <= Cardinality(Pending(r, i)) + 1
      /\ w \in Pending(r, i) \/ w \notin Pending(r, i)' =>
           Cardinality(Pending(r, i)') <= Cardinality(Pending(r, i))
      /\ w \in Pending(r, i) /\ w \notin Pending(r, i)' =>
           Cardinality(Pending(r, i)') + 1 <= Cardinality(Pending(r, i))
  BY <1>2, PendingAfter DEF Explained
<1>4. Cardinality(Pending(r, i)') \in Nat
  BY <1>3, FS_CardinalityType
<1>5. CASE UNCHANGED <<queue, stored, spent>>
           /\ (w \in Pending(r, i) \/ w \notin Pending(r, i)')
  <2>1. /\ IsFiniteSet(Copies(r)')
        /\ Cardinality(Copies(r)') <= Cardinality(Copies(r))
    BY <1>5, CopiesAfter DEF Explained
  <2>2. Cardinality(Copies(r)') \in Nat /\ Disturbances' = Disturbances
    BY <1>5, <2>1, FS_CardinalityType DEF Disturbances
  <2>. QED
    BY <1>1, <1>3, <1>4, <1>5, <2>1, <2>2, CountTypes DEF Explained
<1>6. CASE Load(w) \/ Start(w) \/ RejectItem(w) \/ Finish(w) \/ Ack(w)
  <2>1. UNCHANGED <<queue, stored, spent>>
    BY <1>6 DEF Load, Start, RejectItem, Finish, Ack
  <2>2. w \in Pending(r, i) \/ w \notin Pending(r, i)'
    <3>1. run[w].idx \in Nat /\ i \in 1..NumItems
      BY NumItemsAssumption DEF TypeInv, TypeOK, Runs, Items
    <3>. QED
      BY <1>6, <3>1, NumItemsAssumption, LoadEffect, StartEffect, ItemEffect,
         FinishEffect, AckEffect DEF Pending
  <2>. QED
    BY <1>5, <2>1, <2>2
<1>7. CASE StoreItem(w)
  <2>1. /\ stored' = [stored EXCEPT ![run[w].job][run[w].idx + 1] = @ + 1]
        /\ UNCHANGED <<queue, spent>>
    BY <1>7 DEF StoreItem
  <2>2. /\ run[w].pc = "items" /\ run'[w].pc = "items"
        /\ run'[w].job = run[w].job /\ run'[w].idx = run[w].idx + 1
        /\ run[w].idx \in Nat /\ i \in Nat
    BY <1>7, ItemEffect, NumItemsAssumption DEF TypeInv, TypeOK, Runs, Items
  <2>3. CASE run[w].job = r /\ run[w].idx + 1 = i
    <3>1. stored'[r][i] = stored[r][i] + 1
      BY <2>1, <2>3 DEF TypeInv, TypeOK
    <3>2. w \in Pending(r, i) /\ w \notin Pending(r, i)'
      BY <2>2, <2>3 DEF Pending
    <3>3. /\ IsFiniteSet(Copies(r)')
          /\ Cardinality(Copies(r)') <= Cardinality(Copies(r))
      BY <2>1, CopiesAfter DEF Explained
    <3>4. Cardinality(Copies(r)') \in Nat /\ Disturbances' = Disturbances
      BY <2>1, <3>3, FS_CardinalityType DEF Disturbances
    <3>. QED
      BY <1>1, <1>3, <1>4, <3>1, <3>2, <3>3, <3>4, CountTypes DEF Explained
  <2>4. CASE ~(run[w].job = r /\ run[w].idx + 1 = i)
    <3>1. stored'[r][i] = stored[r][i]
      BY <2>1, <2>4 DEF TypeInv, TypeOK
    <3>2. w \in Pending(r, i) \/ w \notin Pending(r, i)'
      BY <2>2, <2>4 DEF Pending
    <3>3. /\ IsFiniteSet(Copies(r)')
          /\ Cardinality(Copies(r)') <= Cardinality(Copies(r))
      BY <2>1, CopiesAfter DEF Explained
    <3>4. Cardinality(Copies(r)') \in Nat /\ Disturbances' = Disturbances
      BY <2>1, <3>3, FS_CardinalityType DEF Disturbances
    <3>. QED
      BY <1>1, <1>3, <1>4, <3>1, <3>2, <3>3, <3>4, CountTypes DEF Explained
  <2>. QED
    BY <2>3, <2>4
<1>8. CASE Receive(w)
  <2>1. UNCHANGED <<stored, spent>>
    BY <1>8 DEF Receive
  <2>2. PICK m \in Messages :
          /\ queue[m] > 0
          /\ queue' = [queue EXCEPT ![m] = @ - 1]
          /\ run[w].pc = "idle"
          /\ run'[w].pc = "load"
          /\ run'[w].job = m.job
    BY <1>8, ReceiveEffect
  <2>3. /\ IsFiniteSet(Copies(r)')
        /\ Cardinality(Copies(r)') <= Cardinality(Copies(r))
        /\ m.job = r => Cardinality(Copies(r)') + 1 <= Cardinality(Copies(r))
    BY <2>2, CopiesAfter DEF Explained
  <2>4. m.job # r => w \notin Pending(r, i)'
    BY <2>2 DEF Pending
  <2>5. Cardinality(Copies(r)') \in Nat /\ Disturbances' = Disturbances
    BY <2>1, <2>3, FS_CardinalityType DEF Disturbances
  <2>. QED
    BY <1>1, <1>3, <1>4, <2>1, <2>3, <2>4, <2>5, CountTypes DEF Explained
<1>9. CASE Fault(w)
  <2>1. UNCHANGED <<queue, stored>>
    BY <1>9 DEF Fault
  <2>2. /\ IsFiniteSet(Copies(r)')
        /\ Cardinality(Copies(r)') <= Cardinality(Copies(r))
    BY <2>1, CopiesAfter DEF Explained
  <2>3. Disturbances' = Disturbances + 1
    BY <1>9, FaultEffect DEF Disturbances, TypeInv, TypeOK
  <2>4. Cardinality(Copies(r)') \in Nat
    BY <2>2, FS_CardinalityType
  <2>. QED
    BY <1>1, <1>3, <1>4, <2>1, <2>2, <2>3, <2>4, CountTypes DEF Explained
<1>10. CASE Republish(w)
  <2>1. UNCHANGED <<stored, spent>>
    BY <1>10 DEF Republish
  <2>2. PICK m \in Messages : /\ m.job = run[w].job /\ Sent(m)
                              /\ run[w].pc = "republish" /\ run'[w].pc = "ack"
    BY <1>10, RepublishEffect
  <2>3. /\ IsFiniteSet(Copies(r)')
        /\ Cardinality(Copies(r)') <= Cardinality(Copies(r)) + 1
        /\ m.job # r => Cardinality(Copies(r)') <= Cardinality(Copies(r))
    BY <2>2, CopiesAfter DEF Explained
  <2>4. /\ w \notin Pending(r, i)'
        /\ m.job = r => w \in Pending(r, i)
    BY <2>2 DEF Pending
  <2>5. Cardinality(Copies(r)') \in Nat /\ Disturbances' = Disturbances
    BY <2>1, <2>3, FS_CardinalityType DEF Disturbances
  <2>. QED
    BY <1>1, <1>3, <1>4, <2>1, <2>3, <2>4, <2>5, CountTypes DEF Explained
<1>11. CASE WorkerCrash(w) \/ Redeliver(w)
  <2>1. UNCHANGED stored
    BY <1>11 DEF WorkerCrash, Redeliver
  <2>2. PICK m \in Messages : Sent(m)
    BY <1>11, CrashEffect
  <2>3. /\ IsFiniteSet(Copies(r)')
        /\ Cardinality(Copies(r)') <= Cardinality(Copies(r)) + 1
    BY <2>2, CopiesAfter DEF Explained
  <2>4. w \in Pending(r, i) \/ w \notin Pending(r, i)'
    BY <1>11, CrashEffect DEF Pending
  <2>5. Disturbances' = Disturbances + 1
    <3>1. /\ spent'.faults = spent.faults
          /\ spent'.crashes + spent'.redeliveries
               = spent.crashes + spent.redeliveries + 1
      BY <1>11, CrashEffect
    <3>2. /\ spent.faults \in Nat /\ spent.crashes \in Nat
          /\ spent.redeliveries \in Nat
          /\ spent'.crashes \in Nat /\ spent'.redeliveries \in Nat
      BY TypeStep DEF TypeInv, TypeOK
    <3>. QED
      BY <3>1, <3>2 DEF Disturbances
  <2>6. Cardinality(Copies(r)') \in Nat
    BY <2>3, FS_CardinalityType
  <2>. QED
    BY <1>1, <1>3, <1>4, <2>1, <2>3, <2>4, <2>5, <2>6, CountTypes DEF Explained
<1>. QED
  BY <1>6, <1>7, <1>8, <1>9, <1>10, <1>11 DEF StepOf, WorkerStep

\* An item of a job is stored at most once for each time its job was accepted
\* and for each fault, crash and redelivery, with any number of workers and
\* however their executions of the job overlap.
THEOREM ItemsAreStoredOncePerDelivery == Spec => []StoredOncePerDelivery
<1>. DEFINE AllExplained == \A r \in Requests, i \in Items : Explained(r, i)
<1>1. Init => TypeInv /\ AllExplained
  <2>. SUFFICES ASSUME Init, NEW r \in Requests, NEW i \in Items
                PROVE  Explained(r, i)
    BY InitType
  <2>1. Acceptances(r) = {} /\ Pending(r, i) = {}
    BY DEF Init, Acceptances, Pending, IdleRun
  <2>2. Copies(r) = {}
    BY DEF Init, Copies
  <2>3. stored[r][i] = 0 /\ Disturbances = 0
    BY DEF Init, Disturbances
  <2>. QED
    BY <2>1, <2>2, <2>3, FS_EmptySet DEF Explained
<1>2. TypeInv /\ AllExplained /\ [Next]_vars => TypeInv' /\ AllExplained'
  <2>. SUFFICES ASSUME TypeInv, AllExplained, [Next]_vars,
                       NEW r \in Requests, NEW i \in Items
                PROVE  Explained(r, i)'
    BY TypeStep
  <2>1. CASE UNCHANGED vars
    <3>1. /\ Copies(r)' = Copies(r) /\ Pending(r, i)' = Pending(r, i)
          /\ Acceptances(r)' = Acceptances(r)
          /\ Disturbances' = Disturbances /\ stored' = stored
      BY <2>1 DEF vars, Copies, Pending, Acceptances, Disturbances
    <3>. QED
      BY <3>1 DEF Explained
  <2>. QED
    BY <2>1, StepCases, ApiBalance, WorkerBalance
<1>3. TypeInv /\ AllExplained => StoredOncePerDelivery
  <2>. SUFFICES ASSUME TypeInv, AllExplained PROVE StoredOncePerDelivery
    OBVIOUS
  <2>1. ASSUME NEW r \in Requests, NEW i \in Items
        PROVE  stored[r][i] <= Cardinality(Acceptances(r))
                 + spent.faults + spent.crashes + spent.redeliveries
    <3>1. /\ stored[r][i] \in Nat
          /\ spent.faults \in Nat /\ spent.crashes \in Nat
          /\ spent.redeliveries \in Nat
      BY DEF TypeInv, TypeOK
    <3>2. Explained(r, i)
      OBVIOUS
    <3>3. /\ Cardinality(Copies(r)) \in Nat /\ Cardinality(Pending(r, i)) \in Nat
          /\ Cardinality(Acceptances(r)) \in Nat
      BY <3>2, FS_CardinalityType DEF Explained
    <3>. QED
      BY <3>1, <3>2, <3>3 DEF Explained, Disturbances
  <2>. QED
    BY <2>1 DEF StoredOncePerDelivery, Acceptances
<1>. QED
  BY <1>1, <1>2, <1>3, PTL DEF Spec

-----------------------------------------------------------------------------
(* One worker keeps the contract of a job *)

\* Executions do not overlap: there is no more than one worker process.
OneWorker == \A v, w \in Workers : v = w

\* The worker's copy of the row is the row, and says how far the work is.
CopyIsCurrent ==
  \A w \in Workers :
    /\ run[w].pc \in {"mark", "items"} => run[w].loaded = jobs[run[w].job]
    /\ run[w].pc = "mark" => jobs[run[w].job].status \in ActiveStatuses
    /\ run[w].pc = "items" => jobs[run[w].job].status = "running"

ContractInv == AcceptanceInv /\ NeverFailed /\ DoneItemsStored /\ CopyIsCurrent

\* With the copy up to date a flush writes the whole of it.
LEMMA FlushOfCurrent ==
  ASSUME NEW new \in Row(NumItems), NEW current \in Row(NumItems)
  PROVE  Flush(new, current, current) = new
BY DEF Flush, Column, Row

\* The statuses that the steps of the only worker leave behind.
LEMMA OnlyWorkerStatus ==
  ASSUME ContractInv, NEW w \in Workers
  PROVE  /\ Start(w) =>
              /\ jobs[run[w].job].status \in ActiveStatuses
              /\ jobs'[run[w].job].status = "running"
         /\ StoreItem(w) \/ RejectItem(w) =>
              /\ jobs[run[w].job].status = "running"
              /\ jobs'[run[w].job].status = "running"
         /\ Finish(w) =>
              /\ jobs[run[w].job].status = "running"
              /\ jobs'[run[w].job].status = Outcome(run[w].ok, run[w].bad)
<1>1. TypeInv /\ run[w].loaded \in Row(NumItems) /\ NumItems \in Nat
  BY NumItemsAssumption DEF ContractInv, AcceptanceInv, TypeInv, TypeOK, Runs
<1>2. ASSUME Start(w)
      PROVE  /\ jobs[run[w].job].status \in ActiveStatuses
             /\ jobs'[run[w].job].status = "running"
  <2>1. /\ run[w].pc = "mark"
        /\ jobs'[run[w].job] = Flush(MarkRunning(run[w].loaded), run[w].loaded,
                                     jobs[run[w].job])
    BY <1>1, <1>2, StartEffect
  <2>2. /\ run[w].loaded = jobs[run[w].job]
        /\ jobs[run[w].job].status \in ActiveStatuses
    BY <2>1 DEF ContractInv, CopyIsCurrent
  <2>3. MarkRunning(run[w].loaded) \in Row(NumItems)
    BY <1>1, CopyType
  <2>4. jobs'[run[w].job] = MarkRunning(run[w].loaded)
    BY <1>1, <2>1, <2>2, <2>3, FlushOfCurrent
  <2>. QED
    BY <1>1, <2>2, <2>4 DEF MarkRunning, Row
<1>3. ASSUME StoreItem(w) \/ RejectItem(w)
      PROVE  /\ jobs[run[w].job].status = "running"
             /\ jobs'[run[w].job].status = "running"
  <2>1. run[w].pc = "items"
    BY <1>3 DEF StoreItem, RejectItem
  <2>. QED
    BY <1>1, <1>3, <2>1, CommittedStatus DEF ContractInv, CopyIsCurrent
<1>4. ASSUME Finish(w)
      PROVE  /\ jobs[run[w].job].status = "running"
             /\ jobs'[run[w].job].status = Outcome(run[w].ok, run[w].bad)
  <2>. DEFINE new == MarkCompleted(run[w].loaded, Outcome(run[w].ok, run[w].bad))
  <2>1. /\ run[w].pc = "items"
        /\ jobs'[run[w].job] = Flush(new, run[w].loaded, jobs[run[w].job])
    BY <1>1, <1>4, FinishEffect
  <2>2. /\ run[w].loaded = jobs[run[w].job]
        /\ jobs[run[w].job].status = "running"
    BY <2>1 DEF ContractInv, CopyIsCurrent
  <2>3. Outcome(run[w].ok, run[w].bad) \in Statuses
    BY OutcomeType DEF Statuses
  <2>4. new \in Row(NumItems)
    BY <1>1, <2>3, CopyType
  <2>5. new.status = Outcome(run[w].ok, run[w].bad)
    BY <1>1 DEF MarkCompleted, Row
  <2>. HIDE DEF new
  <2>6. jobs'[run[w].job] = new
    BY <1>1, <2>1, <2>2, <2>4, FlushOfCurrent
  <2>. QED
    BY <2>2, <2>5, <2>6
<1>. QED
  BY <1>2, <1>3, <1>4

\* A row changes by an insert of a row that is not there, or by a commit.
LEMMA RowChanges ==
  ASSUME AcceptanceInv, [Next]_vars
  PROVE  \/ UNCHANGED jobs
         \/ \E r \in Requests : /\ jobs[r].status = "absent"
                                /\ jobs' = [jobs EXCEPT ![r] = PendingRow]
                                /\ UNCHANGED <<run, stored>>
         \/ \E w \in Workers : Writes(w)
<1>1. ASSUME NEW r \in Requests, Insert(r)
      PROVE  \/ UNCHANGED jobs
             \/ /\ jobs[r].status = "absent"
                /\ jobs' = [jobs EXCEPT ![r] = PendingRow]
                /\ UNCHANGED <<run, stored>>
  BY <1>1 DEF Insert, AcceptanceInv, FreshIds
<1>. QED
  BY <1>1
     DEF Next, ApiStep, WorkerStep, Disturbance, Writes, vars, Lookup, Publish,
         PublishFails, Receive, Load, Republish, Ack, Fault, WorkerCrash,
         Redeliver

\* No step of the only worker or of the API makes its copy stale.
LEMMA CopyIsCurrentStep ==
  ASSUME ContractInv, OneWorker, [Next]_vars
  PROVE  CopyIsCurrent'
<1>. SUFFICES ASSUME NEW w \in Workers
              PROVE  /\ run'[w].pc \in {"mark", "items"} =>
                          run'[w].loaded = jobs'[run'[w].job]
                     /\ run'[w].pc = "mark" =>
                          jobs'[run'[w].job].status \in ActiveStatuses
                     /\ run'[w].pc = "items" =>
                          jobs'[run'[w].job].status = "running"
  BY DEF CopyIsCurrent
<1>1. TypeInv /\ MessagesNameCommittedJobs /\ AcceptanceInv
  BY DEF ContractInv, AcceptanceInv
<1>2. CASE run'[w] = run[w] /\ UNCHANGED jobs
  BY <1>2 DEF ContractInv, CopyIsCurrent
<1>3. ASSUME NEW r \in Requests, jobs[r].status = "absent",
             jobs' = [jobs EXCEPT ![r] = PendingRow], UNCHANGED run,
             run[w].pc \in {"mark", "items"}
      PROVE  jobs'[run[w].job] = jobs[run[w].job]
  BY <1>1, <1>3 DEF MessagesNameCommittedJobs, TypeInv, TypeOK
<1>4. CASE Start(w) \/ StoreItem(w) \/ RejectItem(w)
  <2>1. /\ run'[w].pc = "items" /\ run'[w].job = run[w].job
        /\ run'[w].loaded = jobs'[run[w].job]
    BY <1>1, <1>4, StartEffect, ItemEffect
  <2>. QED
    BY <1>4, <2>1, OnlyWorkerStatus
<1>5. CASE Finish(w)
  BY <1>1, <1>5, FinishEffect
<1>6. CASE Load(w)
  <2>1. UNCHANGED jobs
    BY <1>6 DEF Load
  <2>2. run[w].job \in Requests
    BY <1>1, <1>6 DEF Load, TypeInv, TypeOK
  <2>3. jobs[run[w].job].status \in Statuses
    BY <1>1, <2>2 DEF TypeInv, TypeOK, Row
  <2>. QED
    BY <1>1, <1>6, <2>1, <2>2, <2>3, LoadEffect
       DEF ContractInv, NeverFailed, Statuses, ActiveStatuses, ShortCircuitStatuses
<1>7. CASE Receive(w) \/ Fault(w) \/ Republish(w) \/ Ack(w) \/ WorkerCrash(w)
  BY <1>1, <1>7, ReceiveEffect, FaultEffect, RepublishEffect, AckEffect, CrashEffect
<1>8. CASE Redeliver(w)
  BY <1>2, <1>8 DEF Redeliver
<1>9. ASSUME NEW v \in Workers, StepOf(v)
      PROVE  StepOf(w)
  BY <1>9 DEF OneWorker
<1>10. ASSUME NEW s \in Requests, ApiStep(s) \/ PublishFails(s), ~UNCHANGED jobs
       PROVE  \E r \in Requests : /\ jobs[r].status = "absent"
                                  /\ jobs' = [jobs EXCEPT ![r] = PendingRow]
                                  /\ UNCHANGED run
  BY <1>10 DEF ApiStep, Lookup, Insert, Publish, PublishFails, ContractInv,
               AcceptanceInv, FreshIds
<1>11. UNCHANGED run => run'[w] = run[w]
  OBVIOUS
<1>12. ASSUME NEW s \in Requests, ApiStep(s) \/ PublishFails(s)
       PROVE  UNCHANGED run
  BY <1>12, StepFrames
<1>13. CASE \E s \in Requests : ApiStep(s) \/ PublishFails(s)
  <2>1. run'[w] = run[w]
    BY <1>12, <1>13
  <2>2. run[w].pc \in {"mark", "items"} => jobs'[run[w].job] = jobs[run[w].job]
    BY <1>3, <1>10, <1>13
  <2>. QED
    BY <2>1, <2>2 DEF ContractInv, CopyIsCurrent
<1>. QED
  BY <1>2, <1>4, <1>5, <1>6, <1>7, <1>8, <1>9, <1>13, StepCases
     DEF StepOf, WorkerStep, vars

\* A change of one row, and no log stored, is a move of the contract.
LEMMA MoveOfContract ==
  ASSUME NEW r \in Requests, NEW to,
         \A s \in Requests \ {r} : jobs'[s] = jobs[s],
         jobs'[r].status = to, UNCHANGED stored
  PROVE  Contract!Move(r, jobs[r].status, to)
<1>. DEFINE before == [s \in Requests |-> jobs[s].status]
            after  == [s \in Requests |-> jobs'[s].status]
<1>1. after = [before EXCEPT ![r] = to]
  OBVIOUS
<1>2. before[r] = jobs[r].status
  OBVIOUS
<1>3. PresentItems' = PresentItems
  BY DEF PresentItems
<1>. QED
  BY <1>1, <1>2, <1>3 DEF Contract!Move

\* A row whose status stays, and no log stored, is a stutter of the contract.
LEMMA StutterOfContract ==
  ASSUME \A r \in Requests : jobs'[r].status = jobs[r].status, UNCHANGED stored
  PROVE  UNCHANGED Contract!vars
<1>1. PresentItems' = PresentItems
  BY DEF PresentItems
<1>. QED
  BY <1>1 DEF Contract!vars

\* An item stored for a running job.
LEMMA StoreOfContract ==
  ASSUME ContractInv, NEW w \in Workers, StoreItem(w),
         NEW r \in Requests, run[w].job = r
  PROVE  Contract!Store(r)
<1>. DEFINE i == run[w].idx + 1
<1>1. /\ TypeInv /\ run[w].pc = "items" /\ run[w].idx < NumItems
      /\ stored' = [stored EXCEPT ![r][i] = @ + 1]
  BY DEF ContractInv, AcceptanceInv, StoreItem
<1>2. i \in Items
  <2>1. run[w].idx \in 0..NumItems
    BY <1>1 DEF TypeInv, TypeOK, Runs
  <2>. QED
    BY <1>1, <2>1, NumItemsAssumption DEF TypeInv, TypeOK, Items
<1>3. jobs[r].status = "running"
  BY <1>1 DEF ContractInv, CopyIsCurrent
<1>4. \A s \in Requests : jobs'[s].status = jobs[s].status
  BY <1>1, <1>2, CommittedStatus
<1>. HIDE DEF i
<1>5. PresentItems' = [PresentItems EXCEPT ![r] = @ \cup {i}]
  <2>1. \A s \in Requests, k \in Items :
          stored'[s][k] > 0 <=> stored[s][k] > 0 \/ (s = r /\ k = i)
    BY <1>1, <1>2 DEF TypeInv, TypeOK
  <2>2. ASSUME NEW s \in Requests
        PROVE  {k \in Items : stored'[s][k] > 0}
                 = IF s = r THEN {k \in Items : stored[s][k] > 0} \cup {i}
                   ELSE {k \in Items : stored[s][k] > 0}
    BY <1>2, <2>1
  <2>. QED
    BY <2>2 DEF PresentItems
<1>6. [s \in Requests |-> jobs[s].status][r] = "running"
  BY <1>2, <1>3
<1>7. UNCHANGED [s \in Requests |-> jobs[s].status]
  BY <1>4
<1>. QED
  BY <1>2, <1>5, <1>6, <1>7 DEF Contract!Store

\* The end of a job: completed only with all items stored.
LEMMA EndOfContract ==
  ASSUME ContractInv, NEW w \in Workers, Finish(w),
         NEW r \in Requests, run[w].job = r
  PROVE  Contract!Complete(r) \/ Contract!CompletePartially(r)
<1>1. /\ TypeInv /\ run[w].pc = "items" /\ run[w].idx = NumItems
      /\ UNCHANGED stored
  BY DEF ContractInv, AcceptanceInv, Finish, TypeInv, TypeOK
<1>2. PICK out : out = Outcome(run[w].ok, run[w].bad)
  OBVIOUS
<1>3. jobs[r].status = "running" /\ jobs'[r].status = out
  BY <1>2, OnlyWorkerStatus
<1>4. \A s \in Requests \ {r} : jobs'[s] = jobs[s]
  BY <1>1, CommittedStatus
<1>5. out = "completed" => PresentItems[r] = Items
  <2>1. out = "completed" => run[w].bad = 0
    BY <1>2 DEF Outcome, FinalStatus
  <2>. QED
    BY <1>1, <2>1 DEF ContractInv, DoneItemsStored, PresentItems, Items
<1>6. out \in {"completed", "partially_completed"}
  BY <1>2, OutcomeType
<1>7. Contract!Move(r, "running", out)
  BY <1>1, <1>3, <1>4, MoveOfContract
<1>. QED
  BY <1>5, <1>6, <1>7 DEF Contract!Complete, Contract!CompletePartially

\* Every step of the API and of the only worker is a step of the contract.
LEMMA StepOfContract ==
  ASSUME ContractInv, OneWorker, [Next]_vars
  PROVE  [Contract!Next]_(Contract!vars)
<1>1. TypeInv /\ AcceptanceInv
  BY DEF ContractInv, AcceptanceInv
<1>2. ASSUME NEW r \in Requests, jobs[r].status = "absent",
             jobs' = [jobs EXCEPT ![r] = PendingRow], UNCHANGED stored
      PROVE  Contract!Next
  <2>1. /\ jobs'[r].status = "pending"
        /\ \A s \in Requests \ {r} : jobs'[s] = jobs[s]
    BY <1>1, <1>2 DEF TypeInv, TypeOK, PendingRow, RowWith
  <2>2. Contract!Move(r, "absent", "pending")
    BY <1>2, <2>1, MoveOfContract
  <2>. QED
    BY <2>2 DEF Contract!Next, Contract!Create
<1>3. ASSUME NEW w \in Workers, Start(w)
      PROVE  Contract!Next \/ UNCHANGED Contract!vars
  <2>. DEFINE r == run[w].job
  <2>1. /\ r \in Requests /\ UNCHANGED stored
        /\ jobs[r].status \in ActiveStatuses /\ jobs'[r].status = "running"
        /\ \A s \in Requests \ {r} : jobs'[s] = jobs[s]
    BY <1>1, <1>3, OnlyWorkerStatus, CommittedStatus DEF Start, TypeInv, TypeOK
  <2>. HIDE DEF r
  <2>2. CASE jobs[r].status = "pending"
    <3>1. Contract!Move(r, "pending", "running")
      BY <2>1, <2>2, MoveOfContract
    <3>. QED
      BY <2>1, <3>1 DEF Contract!Next, Contract!Run
  <2>3. CASE jobs[r].status = "running"
    <3>1. \A s \in Requests : jobs'[s].status = jobs[s].status
      BY <2>1, <2>3
    <3>. QED
      BY <2>1, <3>1, StutterOfContract
  <2>. QED
    BY <2>1, <2>2, <2>3 DEF ActiveStatuses
<1>4. ASSUME NEW w \in Workers, StoreItem(w)
      PROVE  Contract!Next
  <2>1. run[w].job \in Requests
    BY <1>1, <1>4 DEF StoreItem, TypeInv, TypeOK
  <2>2. PICK r \in Requests : run[w].job = r
    BY <2>1
  <2>. QED
    BY <1>4, <2>2, StoreOfContract DEF Contract!Next
<1>5. ASSUME NEW w \in Workers, RejectItem(w)
      PROVE  UNCHANGED Contract!vars
  <2>1. UNCHANGED stored /\ \A s \in Requests : jobs'[s].status = jobs[s].status
    BY <1>1, <1>5, CommittedStatus DEF RejectItem
  <2>. QED
    BY <2>1, StutterOfContract
<1>6. ASSUME NEW w \in Workers, Finish(w)
      PROVE  Contract!Next
  <2>1. run[w].job \in Requests
    BY <1>1, <1>6 DEF Finish, TypeInv, TypeOK
  <2>2. PICK r \in Requests : run[w].job = r
    BY <2>1
  <2>. QED
    BY <1>6, <2>2, EndOfContract DEF Contract!Next
<1>7. CASE UNCHANGED <<jobs, stored>>
  BY <1>7, StutterOfContract
<1>8. UNCHANGED jobs => UNCHANGED stored \/ \E w \in Workers : Writes(w)
  BY DEF Next, ApiStep, WorkerStep, Disturbance, Writes, vars, Lookup, Insert,
         Publish, PublishFails, Receive, Load, Republish, Ack, Fault,
         WorkerCrash, Redeliver
<1>. QED
  BY <1>1, <1>2, <1>3, <1>4, <1>5, <1>6, <1>7, <1>8, RowChanges DEF Writes

\* With one worker process the protocol implements the job contract, for any
\* calls, items and retries, through crashes, faults and redeliveries.
THEOREM OneWorkerKeepsContract ==
  ASSUME OneWorker
  PROVE  Spec => KeepsContract
<1>1. Init => Contract!Init
  <2>. SUFFICES ASSUME Init PROVE Contract!Init
    OBVIOUS
  <2>1. [r \in Requests |-> jobs[r].status] = [r \in Requests |-> "absent"]
    BY DEF Init, AbsentRow, RowWith
  <2>2. PresentItems = [r \in Requests |-> {}]
    BY DEF Init, PresentItems
  <2>. QED
    BY <2>1, <2>2 DEF Contract!Init
<1>2. Init => CopyIsCurrent
  BY DEF Init, CopyIsCurrent, IdleRun
<1>3. ContractInv /\ [Next]_vars => CopyIsCurrent'
  BY CopyIsCurrentStep
<1>4. ContractInv /\ [Next]_vars => [Contract!Next]_(Contract!vars)
  BY StepOfContract
<1>5. Spec => []DoneItemsStored
  BY CompletionInvariant, PTL DEF CompletionInv
<1>6. Spec => []ContractInv
  BY AcceptanceInvariant, NeverFailedInvariant, <1>2, <1>3, <1>5, PTL
     DEF Spec, ContractInv
<1>. QED
  BY <1>1, <1>4, <1>6, PTL DEF Spec, KeepsContract, Contract!Spec

=============================================================================
