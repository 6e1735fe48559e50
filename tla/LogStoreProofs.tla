---------------------------- MODULE LogStoreProofs ----------------------------
(***************************************************************************)
(* Theorems about LogStore, for any logs, groups, patches and cleanup      *)
(* executions: it implements CommittedStore, and the properties of that    *)
(* become its own.  The cleanup task, which may overlap itself, ingestions *)
(* and deletions, spares the logs within their retention, leaves none that *)
(* were past it, and reports what it deleted.                              *)
(***************************************************************************)
EXTENDS LogStore, FiniteSetTheorems, TLAPS

\* CommittedStore with its lemmas and theorems.
Store == INSTANCE CommittedStoreProofs WITH rows <- View

USE DEF vars

\* What the other open transactions, and the copies that patches have loaded,
\* have to do with the committed rows.  An open ingestion holds the row of its
\* group, so its upsert is still the committed row with one more count.
OneOpenPerGroup ==
  \A l, m \in Logs :
    /\ logs[l].state = "open" /\ logs[m].state = "open"
    /\ GroupOf[l] = GroupOf[m] /\ GroupOf[l] # NoGroup
    => l = m

UpsertIsCounted ==
  \A l \in Logs :
    logs[l].state = "open" /\ GroupOf[l] # NoGroup
      => upsert[l] = Counted(groups[GroupOf[l]], logs[l].timestamp)

PatchedIsPresent ==
  \A p \in Patches :
    patch[p].pc = "write" => groups[PatchOf[p].group].status # "absent"

WriteInv == TypeOK /\ OneOpenPerGroup /\ UpsertIsCounted /\ PatchedIsPresent

-----------------------------------------------------------------------------
(* Lemmas about rows *)

\* The rows of CommittedStore are those of LogStore.
LEMMA SameRows ==
  /\ Store!Times = Times /\ Store!GroupStatuses = GroupStatuses
  /\ Store!GroupRows = GroupRows /\ Store!AbsentGroup = AbsentGroup
  /\ \A row, t : Store!Counted(row, t) = Counted(row, t)
BY DEF Times, Store!Times, GroupStatuses, Store!GroupStatuses,
       GroupRows, Store!GroupRows, AbsentGroup, Store!AbsentGroup,
       Counted, Store!Counted

\* What is assumed of the rows is assumed of those of CommittedStore.
LEMMA StoreRowsAssumption == Store!RowsAssumption
BY RowsAssumption DEF RowsAssumption, IsFiniteSet, Store!IsFiniteSet

\* The two modules mean the same by the size of a set.
LEMMA SameCardinality ==
  ASSUME NEW S
  PROVE  Store!Cardinality(S) = Cardinality(S)
BY DEF Cardinality, Store!Cardinality

\* upsert_group makes a row that is there, and keeps the
\* status and the assignee of one that was.
LEMMA UpsertKeepsRow ==
  ASSUME NEW row \in GroupRows, NEW t \in Times
  PROVE  /\ Counted(row, t) \in GroupRows
         /\ Counted(row, t).status # "absent"
         /\ row.status # "absent" => /\ Counted(row, t).status = row.status
                                     /\ Counted(row, t).assigned = row.assigned
<1>1. /\ Counted(row, t) \in GroupRows
      /\ Counted(row, t).status # "absent"
  BY SameRows, StoreRowsAssumption, Store!CountedIsRow
<1>2. ASSUME row.status # "absent"
      PROVE  /\ Counted(row, t).status = row.status
             /\ Counted(row, t).assigned = row.assigned
  <2> DEFINE more == [row EXCEPT !.count = @ + 1]
  <2>1. Counted(row, t) = [more EXCEPT !.last_seen = t]
    BY <1>2, Zenon DEF Counted
  <2>2. more \in GroupRows /\ more.status = row.status /\ more.assigned = row.assigned
    BY DEF GroupRows
  <2> HIDE DEF more
  <2> QED
    BY <2>1, <2>2 DEF GroupRows
<1> QED
  BY <1>1, <1>2

\* A flush of a patched copy writes the one column and keeps the committed row
\* otherwise, however old the copy is.
LEMMA FlushWritesColumn ==
  ASSUME NEW p \in Patches, NEW loaded \in GroupRows, NEW current \in GroupRows
  PROVE  LET new == [loaded EXCEPT ![PatchOf[p].column] = PatchOf[p].value]
         IN  FlushGroup(new, loaded, current)
               = [current EXCEPT ![PatchOf[p].column] =
                    Column(PatchOf[p].value, loaded[PatchOf[p].column], @)]
<1>1. CASE PatchOf[p].column = "status"
  BY <1>1, PatchesAssumption DEF FlushGroup, Column, GroupRows, PatchType
<1>2. CASE PatchOf[p].column = "assigned"
  BY <1>2, PatchesAssumption DEF FlushGroup, Column, GroupRows, PatchType
<1> QED
  BY <1>1, <1>2, PatchesAssumption DEF PatchType

-----------------------------------------------------------------------------
(* The invariant *)

\* With empty tables no transaction is open.
LEMMA InitWriteInv == Init => WriteInv
<1> SUFFICES ASSUME Init PROVE WriteInv
  OBVIOUS
<1>1. 0 \in Times
  BY RowsAssumption DEF Times
<1>2. AbsentGroup \in GroupRows
  BY SameRows, StoreRowsAssumption, Store!AbsentIsRow
<1>3. TypeOK
  BY <1>1, <1>2, SettingsAssumption
     DEF Init, TypeOK, LogStates, CleanerStates, IdleCleaner
<1> QED
  BY <1>3 DEF Init, WriteInv, OneOpenPerGroup, UpsertIsCounted, PatchedIsPresent

\* What a patch writes into its column.
Written(p) ==
  LET g == PatchOf[p].group  column == PatchOf[p].column
  IN  Column(PatchOf[p].value, patch[p].loaded[column], groups[g][column])

\* A patch changes its own column of its group, which is there.
LEMMA WriteGroupWrites ==
  ASSUME WriteInv, NEW p \in Patches, WriteGroup(p)
  PROVE  LET g   == PatchOf[p].group
             row == [groups[g] EXCEPT ![PatchOf[p].column] = Written(p)]
         IN  /\ g \in Groups
             /\ groups' = [groups EXCEPT ![g] = row]
             /\ row \in GroupRows /\ row.status # "absent"
<1> DEFINE g      == PatchOf[p].group
           loaded == patch[p].loaded
           new    == [loaded EXCEPT ![PatchOf[p].column] = PatchOf[p].value]
<1>1. g \in Groups
  BY PatchesAssumption DEF PatchType
<1>2. groups[g] \in GroupRows /\ loaded \in GroupRows /\ groups[g].status # "absent"
  BY <1>1 DEF WriteInv, TypeOK, PatchedIsPresent, WriteGroup
<1>3. groups' = [groups EXCEPT ![g] = FlushGroup(new, loaded, groups[g])]
  BY DEF WriteGroup
<1>4. FlushGroup(new, loaded, groups[g])
        = [groups[g] EXCEPT ![PatchOf[p].column] = Written(p)]
  BY <1>2, FlushWritesColumn DEF Written
<1>5. LET row == [groups[g] EXCEPT ![PatchOf[p].column] = Written(p)]
      IN  row \in GroupRows /\ row.status # "absent"
  <2>1. CASE PatchOf[p].column = "status"
    BY <1>2, <2>1, PatchesAssumption DEF Written, Column, GroupRows, PatchType
  <2>2. CASE PatchOf[p].column = "assigned"
    BY <1>2, <2>2, PatchesAssumption DEF Written, Column, GroupRows, PatchType
  <2> QED
    BY <2>1, <2>2, PatchesAssumption DEF PatchType
<1> QED
  BY <1>1, <1>3, <1>4, <1>5

\* A batch is counted whole, and what was left of it is removed.
LEMMA DeletesBatch ==
  ASSUME TypeOK, NEW c \in Cleaners, DeleteBatch(c)
  PROVE  LET batch == cleaner[c].batch
             left  == {l \in batch : logs[l].state = "stored"}
         IN  /\ batch \in SUBSET Logs /\ IsFiniteSet(batch)
             /\ cleaner' \in [Cleaners -> CleanerStates]
             /\ \A d \in Cleaners \ {c} : cleaner'[d] = cleaner[d]
             /\ cleaner'[c].pc = "select"
             /\ cleaner'[c].began = cleaner[c].began
             /\ cleaner'[c].due = cleaner[c].due
             /\ cleaner'[c].batch = {}
             /\ cleaner'[c].deleted = cleaner[c].deleted + Cardinality(batch)
             /\ cleaner'[c].removed = cleaner[c].removed \cup left
<1> DEFINE batch == cleaner[c].batch
           left  == {l \in batch : logs[l].state = "stored"}
           count == cleaner[c].deleted + Cardinality(batch)
           gone  == cleaner[c].removed \cup left
           row   == [cleaner[c] EXCEPT !.pc = "select", !.batch = {},
                                       !.deleted = count, !.removed = gone]
<1>1. cleaner[c] \in CleanerStates
  BY DEF TypeOK
<1>2. /\ batch \in SUBSET Logs /\ IsFiniteSet(batch)
      /\ Cardinality(batch) \in Nat
  BY <1>1, RowsAssumption, FS_Subset, FS_CardinalityType DEF CleanerStates
<1>3. cleaner' = [cleaner EXCEPT ![c] = row]
  BY DEF DeleteBatch
<1>4. /\ row \in CleanerStates
      /\ row.pc = "select" /\ row.began = cleaner[c].began /\ row.batch = {}
      /\ row.deleted = count /\ row.due = cleaner[c].due /\ row.removed = gone
  <2>1. count \in Nat /\ gone \in SUBSET Logs
    BY <1>1, <1>2 DEF CleanerStates
  <2> HIDE DEF batch, left, count, gone
  <2> DEFINE half == [cleaner[c] EXCEPT !.pc = "select", !.batch = {}]
  <2>2. /\ half \in CleanerStates
        /\ half.pc = "select" /\ half.began = cleaner[c].began /\ half.batch = {}
        /\ half.due = cleaner[c].due
    BY <1>1 DEF CleanerStates
  <2>3. row = [half EXCEPT !.deleted = count, !.removed = gone]
    BY Zenon
  <2> HIDE DEF half, row
  <2> QED
    BY <2>1, <2>2, <2>3 DEF CleanerStates
<1> HIDE DEF batch, left, row
<1>5. /\ cleaner' \in [Cleaners -> CleanerStates]
      /\ cleaner'[c] = row
      /\ \A d \in Cleaners \ {c} : cleaner'[d] = cleaner[d]
  BY <1>3, <1>4 DEF TypeOK
<1> QED
  BY <1>2, <1>4, <1>5 DEF batch, left

\* Every step leaves one open ingestion per group, with a current upsert.
LEMMA NextWriteInv == WriteInv /\ [Next]_vars => WriteInv'
<1> SUFFICES ASSUME WriteInv, [Next]_vars
             PROVE  WriteInv'
  OBVIOUS
<1> USE DEF WriteInv
<1>g. \A l \in Logs : GroupOf[l] # NoGroup => GroupOf[l] \in Groups
  BY RowsAssumption
<1>p. \A p \in Patches : PatchOf[p].group \in Groups
  BY PatchesAssumption DEF PatchType
<1>1. CASE Tick
  <2>1. TypeOK'
    BY <1>1, RowsAssumption DEF Tick, TypeOK, Times
  <2> QED
    BY <1>1, <2>1 DEF Tick, OneOpenPerGroup, UpsertIsCounted, PatchedIsPresent
<1>2. ASSUME NEW l \in Logs, Persist(l)
      PROVE  WriteInv'
  <2> PICK t \in Times :
        /\ logs' = [logs EXCEPT ![l] = [state |-> "open", timestamp |-> t]]
        /\ upsert' = IF GroupOf[l] = NoGroup THEN upsert
                     ELSE [upsert EXCEPT ![l] = Counted(groups[GroupOf[l]], t)]
    BY <1>2 DEF Persist
  <2>1. TypeOK'
    <3>1. logs' \in [Logs -> LogStates]
      BY DEF TypeOK, LogStates
    <3>2. upsert' \in [Logs -> GroupRows]
      <4>1. CASE GroupOf[l] = NoGroup
        BY <4>1 DEF TypeOK
      <4>2. CASE GroupOf[l] # NoGroup
        <5>1. Counted(groups[GroupOf[l]], t) \in GroupRows
          BY <1>g, <4>2, UpsertKeepsRow DEF TypeOK
        <5> QED
          BY <4>2, <5>1 DEF TypeOK
      <4> QED
        BY <4>1, <4>2
    <3> QED
      BY <1>2, <3>1, <3>2 DEF Persist, TypeOK
  <2>2. OneOpenPerGroup'
    BY <1>2 DEF Persist, Locked, OneOpenPerGroup, TypeOK
  <2>3. UpsertIsCounted'
    BY <1>2 DEF Persist, UpsertIsCounted, TypeOK
  <2>4. PatchedIsPresent'
    BY <1>2 DEF Persist, PatchedIsPresent
  <2> QED
    BY <2>1, <2>2, <2>3, <2>4
<1>3. ASSUME NEW l \in Logs, CommitLog(l)
      PROVE  WriteInv'
  <2>1. CASE GroupOf[l] = NoGroup
    <3>1. TypeOK'
      BY <1>3, <2>1 DEF CommitLog, TypeOK, LogStates
    <3> QED
      BY <1>3, <2>1, <3>1
         DEF CommitLog, TypeOK, LogStates, OneOpenPerGroup, UpsertIsCounted, PatchedIsPresent
  <2>2. CASE GroupOf[l] # NoGroup
    <3> DEFINE g == GroupOf[l]
    <3>1. /\ g \in Groups /\ logs[l].timestamp \in Times
          /\ upsert[l] = Counted(groups[g], logs[l].timestamp)
      BY <1>3, <1>g, <2>2 DEF CommitLog, UpsertIsCounted, TypeOK, LogStates
    <3>2. groups' = [groups EXCEPT ![g] = upsert[l]] /\ upsert[l] \in GroupRows
      BY <1>3, <2>2 DEF CommitLog, TypeOK
    <3>3. upsert[l].status # "absent"
      BY <3>1, UpsertKeepsRow DEF TypeOK
    <3>4. TypeOK'
      BY <1>3, <3>1, <3>2 DEF CommitLog, TypeOK, LogStates
    <3>5. OneOpenPerGroup'
      BY <1>3 DEF CommitLog, OneOpenPerGroup, TypeOK, LogStates
    <3>6. ASSUME NEW m \in Logs, logs'[m].state = "open", GroupOf[m] # NoGroup
          PROVE  upsert'[m] = Counted(groups'[GroupOf[m]], logs'[m].timestamp)
      <4>1. m # l /\ logs'[m] = logs[m] /\ upsert'[m] = upsert[m]
        BY <1>3, <3>6 DEF CommitLog, TypeOK, LogStates
      <4>2. GroupOf[m] # g
        BY <1>3, <2>2, <3>6, <4>1 DEF CommitLog, OneOpenPerGroup
      <4> QED
        BY <1>g, <3>2, <3>6, <4>1, <4>2 DEF UpsertIsCounted, TypeOK
    <3>7. PatchedIsPresent'
      BY <1>3, <1>p, <3>1, <3>2, <3>3 DEF CommitLog, PatchedIsPresent, TypeOK
    <3> QED
      BY <3>4, <3>5, <3>6, <3>7 DEF UpsertIsCounted
  <2> QED
    BY <2>1, <2>2
<1>4. ASSUME NEW l \in Logs, Rollback(l) \/ DeleteLog(l)
      PROVE  WriteInv'
  <2>1. PICK state \in {"failed", "deleted"} : logs' = [logs EXCEPT ![l].state = state]
    BY <1>4 DEF Rollback, DeleteLog
  <2>2. UNCHANGED <<now, groups, upsert, patch, cleaner, crashes>>
    BY <1>4 DEF Rollback, DeleteLog
  <2>3. \A m \in Logs : /\ logs'[m].state = "open" => m # l /\ logs'[m] = logs[m]
                        /\ logs'[m].timestamp = logs[m].timestamp
    BY <2>1 DEF TypeOK, LogStates
  <2>4. TypeOK'
    BY <2>1, <2>2 DEF TypeOK, LogStates
  <2> QED
    BY <2>2, <2>3, <2>4 DEF OneOpenPerGroup, UpsertIsCounted, PatchedIsPresent
<1>5. ASSUME NEW p \in Patches, LoadGroup(p)
      PROVE  WriteInv'
  <2>1. groups[PatchOf[p].group] \in GroupRows
    BY <1>p DEF TypeOK
  <2>2. TypeOK'
    BY <1>5, <2>1 DEF LoadGroup, TypeOK
  <2>3. PatchedIsPresent'
    BY <1>5 DEF LoadGroup, TypeOK, PatchedIsPresent
  <2> QED
    BY <1>5, <2>2, <2>3 DEF LoadGroup, OneOpenPerGroup, UpsertIsCounted
<1>6. ASSUME NEW p \in Patches, WriteGroup(p)
      PROVE  WriteInv'
  <2> DEFINE g   == PatchOf[p].group
             row == [groups[g] EXCEPT ![PatchOf[p].column] = Written(p)]
  <2>1. /\ g \in Groups
        /\ groups' = [groups EXCEPT ![g] = row]
        /\ row \in GroupRows /\ row.status # "absent"
    BY <1>6, WriteGroupWrites
  <2> HIDE DEF row
  <2>2. TypeOK'
    BY <1>6, <2>1 DEF WriteGroup, TypeOK
  <2>3. ASSUME NEW l \in Logs, logs'[l].state = "open", GroupOf[l] # NoGroup
        PROVE  upsert'[l] = Counted(groups'[GroupOf[l]], logs'[l].timestamp)
    <3>1. GroupOf[l] # g /\ UNCHANGED <<logs, upsert>>
      BY <1>6, <2>3 DEF WriteGroup, Locked
    <3> QED
      BY <1>g, <2>1, <2>3, <3>1 DEF UpsertIsCounted, TypeOK
  <2>4. PatchedIsPresent'
    <3> SUFFICES ASSUME NEW q \in Patches, patch'[q].pc = "write"
                 PROVE  groups'[PatchOf[q].group].status # "absent"
      BY DEF PatchedIsPresent
    <3>1. patch[q].pc = "write"
      BY <1>6 DEF WriteGroup, TypeOK
    <3> QED
      BY <1>p, <2>1, <3>1 DEF PatchedIsPresent, TypeOK
  <2> QED
    BY <1>6, <2>2, <2>3, <2>4 DEF WriteGroup, OneOpenPerGroup, UpsertIsCounted
<1>7. ASSUME NEW c \in Cleaners, StartCleanup(c) \/ SelectBatch(c) \/ CleanupCrash(c)
      PROVE  WriteInv'
  <2>1. UNCHANGED <<now, logs, groups, upsert, patch>>
    BY <1>7 DEF StartCleanup, SelectBatch, CleanupCrash
  <2>2. PastRetention(now) \in SUBSET Logs /\ PastRetention(cleaner[c].began) \in SUBSET Logs
    BY DEF PastRetention
  <2>3. cleaner' \in [Cleaners -> CleanerStates]
    <3>1. CASE StartCleanup(c)
      BY <2>2, <3>1 DEF StartCleanup, IdleCleaner, CleanerStates, TypeOK
    <3>2. CASE SelectBatch(c)
      <4>1. CASE cleaner' = [cleaner EXCEPT ![c].pc = "done"]
        BY <4>1 DEF CleanerStates, TypeOK
      <4>2. ASSUME NEW ids \in SUBSET PastRetention(cleaner[c].began),
                   cleaner' = [cleaner EXCEPT ![c] =
                                [@ EXCEPT !.pc = "delete", !.batch = ids]]
            PROVE  cleaner' \in [Cleaners -> CleanerStates]
        BY <2>2, <4>2 DEF CleanerStates, TypeOK
      <4> QED
        BY <3>2, <4>1, <4>2 DEF SelectBatch
    <3>3. CASE CleanupCrash(c)
      <4>1. 0 \in Times
        BY RowsAssumption DEF Times
      <4> QED
        BY <3>3, <4>1 DEF CleanupCrash, IdleCleaner, CleanerStates, TypeOK
    <3> QED
      BY <1>7, <3>1, <3>2, <3>3
  <2>4. crashes' \in 0..MaxCrashes
    <3>1. crashes \in 0..MaxCrashes
      BY DEF TypeOK
    <3>2. CASE CleanupCrash(c)
      BY <3>1, <3>2, SettingsAssumption DEF CleanupCrash
    <3> QED
      BY <1>7, <3>1, <3>2 DEF StartCleanup, SelectBatch
  <2> QED
    BY <2>1, <2>3, <2>4 DEF TypeOK, OneOpenPerGroup, UpsertIsCounted, PatchedIsPresent
<1>8. ASSUME NEW c \in Cleaners, DeleteBatch(c)
      PROVE  WriteInv'
  <2>1. /\ UNCHANGED <<now, groups, upsert, patch, crashes>>
        /\ logs' = [l \in Logs |->
                     IF l \in cleaner[c].batch /\ logs[l].state = "stored"
                     THEN [logs[l] EXCEPT !.state = "expired"] ELSE logs[l]]
    BY <1>8 DEF DeleteBatch
  <2>2. \A l \in Logs : logs'[l].state = "open" => logs'[l] = logs[l]
    BY <2>1 DEF TypeOK, LogStates
  <2>3. cleaner' \in [Cleaners -> CleanerStates]
    BY <1>8, DeletesBatch
  <2>4. logs' \in [Logs -> LogStates]
    BY <2>1 DEF TypeOK, LogStates
  <2>5. TypeOK'
    BY <2>1, <2>3, <2>4 DEF TypeOK
  <2> QED
    BY <2>1, <2>2, <2>5 DEF OneOpenPerGroup, UpsertIsCounted, PatchedIsPresent
<1>9. CASE UNCHANGED vars
  BY <1>9 DEF TypeOK, OneOpenPerGroup, UpsertIsCounted, PatchedIsPresent
<1> QED
  BY <1>1, <1>2, <1>3, <1>4, <1>5, <1>6, <1>7, <1>8, <1>9 DEF Next, CleanerStep

-----------------------------------------------------------------------------
(* Refinement *)

\* A step changes the view of the logs only where it changes what is seen.
LEMMA ViewOfLog ==
  ASSUME NEW l \in Logs
  PROVE  View[l] = [state |-> Seen(logs[l]),
                    timestamp |-> IF Seen(logs[l]) = "absent" THEN 0
                                  ELSE logs[l].timestamp]
BY DEF View

\* Readers see no change of a log that is absent to them before and after.
LEMMA ViewUnchanged ==
  ASSUME \A l \in Logs : \/ logs'[l] = logs[l]
                         \/ Seen(logs[l]) = "absent" /\ Seen(logs'[l]) = "absent"
  PROVE  View' = View
<1>1. \A l \in Logs :
        [state |-> Seen(logs'[l]),
         timestamp |-> IF Seen(logs'[l]) = "absent" THEN 0 ELSE logs'[l].timestamp]
        = [state |-> Seen(logs[l]),
           timestamp |-> IF Seen(logs[l]) = "absent" THEN 0 ELSE logs[l].timestamp]
  OBVIOUS
<1> QED
  BY <1>1 DEF View

\* Logs of which some go, and the others stay as they are.
LEMMA DeletesView ==
  ASSUME TypeOK, NEW gone \in SUBSET Logs, gone # {},
         NEW state \in {"deleted", "expired"},
         \A l \in gone : logs[l].state = "stored",
         logs' = [l \in Logs |-> IF l \in gone THEN [logs[l] EXCEPT !.state = state]
                               ELSE logs[l]],
         groups' = groups
  PROVE  Store!DeleteLogs(gone)
<1>1. gone \subseteq Store!Stored
  BY DEF Store!Stored, View, Seen, TypeOK
<1>2. \A l \in Logs :
        View'[l] = IF l \in gone THEN [View[l] EXCEPT !.state = "gone"] ELSE View[l]
  <2> SUFFICES ASSUME NEW l \in Logs
               PROVE  View'[l] = IF l \in gone THEN [View[l] EXCEPT !.state = "gone"]
                                 ELSE View[l]
    OBVIOUS
  <2>1. View'[l] = [state |-> Seen(logs'[l]),
                    timestamp |-> IF Seen(logs'[l]) = "absent" THEN 0
                                  ELSE logs'[l].timestamp]
    BY DEF View
  <2>2. CASE l \in gone
    <3>1. /\ logs'[l].state = state /\ logs'[l].timestamp = logs[l].timestamp
          /\ logs[l].state = "stored"
      BY <2>2 DEF TypeOK, LogStates
    <3>2. View'[l] = [state |-> "gone", timestamp |-> logs[l].timestamp]
      BY <2>1, <3>1 DEF Seen
    <3>3. View[l] = [state |-> "stored", timestamp |-> logs[l].timestamp]
      BY <3>1, ViewOfLog DEF Seen
    <3> QED
      BY <2>2, <3>2, <3>3
  <2>3. CASE l \notin gone
    BY <2>1, <2>3, ViewOfLog
  <2> QED
    BY <2>2, <2>3
<1>3. View' = [l \in Logs |-> View'[l]]
  BY DEF View
<1>4. View' = [l \in Logs |-> IF l \in gone THEN [View[l] EXCEPT !.state = "gone"]
                             ELSE View[l]]
  BY <1>2, <1>3, Zenon
<1> QED
  BY <1>1, <1>4 DEF Store!DeleteLogs

\* A committed ingestion is seen as one step: the log together with its count.
LEMMA CommitsView ==
  ASSUME WriteInv, NEW l \in Logs, CommitLog(l)
  PROVE  Store!Ingest(l, logs[l].timestamp)
<1>1. /\ logs[l].state = "open" /\ logs[l] \in LogStates
      /\ logs' = [logs EXCEPT ![l].state = "stored"]
  BY DEF CommitLog, WriteInv, TypeOK
<1>2. View[l].state = "absent"
  BY <1>1 DEF View, Seen
<1>3. View' = [View EXCEPT ![l] = [state |-> "stored", timestamp |-> logs[l].timestamp]]
  <2>1. logs'[l].state = "stored" /\ logs'[l].timestamp = logs[l].timestamp
    BY <1>1 DEF WriteInv, TypeOK, LogStates
  <2>2. View'[l] = [state |-> "stored", timestamp |-> logs[l].timestamp]
    BY <2>1 DEF View, Seen
  <2>3. \A m \in Logs \ {l} : View'[m] = View[m]
    BY <1>1 DEF View, WriteInv, TypeOK
  <2>4. View' = [m \in Logs |-> View'[m]] /\ View = [m \in Logs |-> View[m]]
    BY DEF View
  <2> HIDE DEF View
  <2> QED
    BY <2>2, <2>3, <2>4
<1>4. groups' = IF GroupOf[l] = NoGroup THEN groups
                ELSE [groups EXCEPT ![GroupOf[l]] =
                        Store!Counted(@, logs[l].timestamp)]
  BY <1>1, SameRows DEF CommitLog, WriteInv, UpsertIsCounted
<1> QED
  BY <1>2, <1>3, <1>4 DEF Store!Ingest

\* A written patch is seen as a change of status or of assignee.
LEMMA PatchesView ==
  ASSUME WriteInv, NEW p \in Patches, WriteGroup(p)
  PROVE  \E g \in Groups :
           \/ \E status \in Store!GroupStatuses \ {"absent"} : Store!SetStatus(g, status)
           \/ \E user \in Users \cup {NoUser} : Store!Assign(g, user)
<1> DEFINE g   == PatchOf[p].group
           row == [groups[g] EXCEPT ![PatchOf[p].column] = Written(p)]
<1>1. /\ g \in Groups /\ groups[g] \in GroupRows /\ groups[g].status # "absent"
      /\ groups' = [groups EXCEPT ![g] = row]
      /\ row \in GroupRows /\ row.status # "absent"
  BY WriteGroupWrites DEF WriteInv, TypeOK, PatchedIsPresent, WriteGroup
<1>2. View' = View
  <2>1. logs' = logs
    BY DEF WriteGroup
  <2> QED
    BY <2>1, ViewUnchanged
<1>3. CASE PatchOf[p].column = "status"
  <2>1. Written(p) \in Store!GroupStatuses \ {"absent"}
    BY <1>1, <1>3, SameRows DEF GroupRows
  <2>2. groups' = [groups EXCEPT ![g].status = Written(p)]
    BY <1>1, <1>3
  <2> QED
    BY <1>1, <1>2, <2>1, <2>2 DEF Store!SetStatus
<1>4. CASE PatchOf[p].column = "assigned"
  <2>1. Written(p) \in Users \cup {NoUser}
    BY <1>1, <1>4 DEF GroupRows
  <2>2. groups' = [groups EXCEPT ![g].assigned = Written(p)]
    BY <1>1, <1>4
  <2> QED
    BY <1>1, <1>2, <2>1, <2>2 DEF Store!Assign
<1> QED
  BY <1>3, <1>4, PatchesAssumption DEF PatchType

\* CommittedStore as LogStore names it, and as its theorems do.
LEMMA SameSpecification ==
  /\ Committed!Empty <=> Store!Empty
  /\ [Committed!Write]_(Committed!store) <=> [Store!Write]_(Store!store)
<1> USE DEF Committed!store, Store!store
<1>1. /\ Committed!Times = Store!Times /\ Committed!AbsentGroup = Store!AbsentGroup
      /\ Committed!GroupStatuses = Store!GroupStatuses
      /\ \A row, t : Committed!Counted(row, t) = Store!Counted(row, t)
  BY DEF Committed!Times, Store!Times, Committed!AbsentGroup, Store!AbsentGroup,
         Committed!GroupStatuses, Store!GroupStatuses, Committed!Counted, Store!Counted
<1>2. Committed!Empty <=> Store!Empty
  BY <1>1 DEF Committed!Empty, Store!Empty, Committed!AbsentLog, Store!AbsentLog
<1>3. \A l, t : Committed!Ingest(l, t) <=> Store!Ingest(l, t)
  BY <1>1 DEF Committed!Ingest, Store!Ingest
<1>4. \A gone : Committed!DeleteLogs(gone) <=> Store!DeleteLogs(gone)
  BY DEF Committed!DeleteLogs, Store!DeleteLogs, Committed!Stored, Store!Stored
<1>5. \A g, x : /\ Committed!SetStatus(g, x) <=> Store!SetStatus(g, x)
                /\ Committed!Assign(g, x) <=> Store!Assign(g, x)
  BY DEF Committed!SetStatus, Store!SetStatus, Committed!Assign, Store!Assign
<1>6. Committed!Write <=> Store!Write
  BY <1>1, <1>3, <1>4, <1>5 DEF Committed!Write, Store!Write
<1> QED
  BY <1>2, <1>6

\* Each step changes what readers see as CommittedStore allows, or not at all.
LEMMA NextImplementsWrite == WriteInv /\ [Next]_vars => [Store!Write]_(Store!store)
<1> SUFFICES ASSUME WriteInv, [Next]_vars
             PROVE  Store!Write \/ (View' = View /\ groups' = groups)
  BY DEF Store!store
<1>1. ASSUME logs' = logs, groups' = groups
      PROVE  View' = View /\ groups' = groups
  BY <1>1, ViewUnchanged
<1>2. ASSUME NEW l \in Logs, Persist(l) \/ Rollback(l)
      PROVE  View' = View /\ groups' = groups
  <2>1. \A m \in Logs \ {l} : logs'[m] = logs[m]
    BY <1>2 DEF Persist, Rollback, WriteInv, TypeOK
  <2>2. /\ logs[l].state \in {"new", "open"} /\ logs'[l].state \in {"open", "failed"}
        /\ groups' = groups
    BY <1>2 DEF Persist, Rollback, WriteInv, TypeOK, LogStates
  <2>3. Seen(logs[l]) = "absent" /\ Seen(logs'[l]) = "absent"
    BY <2>2 DEF Seen
  <2> QED
    BY <2>1, <2>2, <2>3, ViewUnchanged
<1>3. ASSUME NEW l \in Logs, CommitLog(l)
      PROVE  Store!Write
  <2>1. logs[l].timestamp \in Store!Times
    BY SameRows DEF WriteInv, TypeOK, LogStates
  <2> QED
    BY <1>3, <2>1, CommitsView DEF Store!Write
<1>4. ASSUME NEW l \in Logs, DeleteLog(l)
      PROVE  Store!Write
  <2>1. logs' = [m \in Logs |-> IF m \in {l} THEN [logs[m] EXCEPT !.state = "deleted"]
                              ELSE logs[m]]
    BY <1>4 DEF DeleteLog, WriteInv, TypeOK
  <2>2. Store!DeleteLogs({l})
    BY <1>4, <2>1, DeletesView DEF DeleteLog, WriteInv
  <2> QED
    BY <2>2 DEF Store!Write
<1>5. ASSUME NEW p \in Patches, WriteGroup(p)
      PROVE  Store!Write
  BY <1>5, PatchesView DEF Store!Write
<1>6. ASSUME NEW c \in Cleaners, DeleteBatch(c)
      PROVE  Store!Write \/ (View' = View /\ groups' = groups)
  <2> DEFINE left == {l \in cleaner[c].batch : logs[l].state = "stored"}
  <2>1. /\ logs' = [l \in Logs |-> IF l \in left THEN [logs[l] EXCEPT !.state = "expired"]
                                  ELSE logs[l]]
        /\ groups' = groups
    BY <1>6 DEF DeleteBatch
  <2>2. left \in SUBSET Logs /\ \A l \in left : logs[l].state = "stored"
    BY DEF WriteInv, TypeOK, CleanerStates
  <2> HIDE DEF left
  <2>3. CASE left = {}
    <3>1. \A l \in Logs : logs'[l] = logs[l]
      BY <2>1, <2>3
    <3> QED
      BY <2>1, <3>1, ViewUnchanged
  <2>4. CASE left # {}
    BY <2>1, <2>2, <2>4, DeletesView DEF Store!Write, WriteInv
  <2> QED
    BY <2>3, <2>4
<1>7. ASSUME NEW c \in Cleaners, StartCleanup(c) \/ SelectBatch(c) \/ CleanupCrash(c)
      PROVE  logs' = logs /\ groups' = groups
  BY <1>7 DEF StartCleanup, SelectBatch, CleanupCrash
<1>8. ASSUME Tick \/ (\E p \in Patches : LoadGroup(p)) \/ UNCHANGED vars
      PROVE  logs' = logs /\ groups' = groups
  BY <1>8 DEF Tick, LoadGroup
<1> QED
  BY <1>1, <1>2, <1>3, <1>4, <1>5, <1>6, <1>7, <1>8 DEF Next, CleanerStep

\* All variables keep their types.
THEOREM TypeCorrect == Spec => []TypeOK
<1>1. WriteInv => TypeOK
  BY DEF WriteInv
<1> QED
  BY <1>1, InitWriteInv, NextWriteInv, PTL DEF Spec

\* Whatever transactions overlap, readers see a store that changes by whole
\* transactions, each of one of the kinds that CommittedStore allows.
THEOREM ImplementsCommittedStore == Spec => KeepsCommittedView
<1>1. Init => Store!Empty
  <2> SUFFICES ASSUME Init PROVE Store!Empty
    OBVIOUS
  <2>1. View = [l \in Logs |-> Store!AbsentLog]
    BY DEF Init, View, Seen, Store!AbsentLog
  <2> QED
    BY <2>1, SameRows DEF Init, Store!Empty
<1> QED
  BY <1>1, InitWriteInv, NextWriteInv, NextImplementsWrite, SameSpecification, PTL
     DEF Spec, KeepsCommittedView, Committed!CommittedSpec

\* The count of a group is the number of logs ever committed into it, however
\* ingestions, roll-backs, patches and deletions overlap: CommittedStore keeps
\* its counts exact, and LogStore implements it.
THEOREM CountsAreOccurrences == Spec => []CountIsOccurrences
<1>1. Spec => []Store!CountsAreExact
  BY ImplementsCommittedStore, SameSpecification, StoreRowsAssumption,
     Store!CountsMatchLogs, PTL
     DEF KeepsCommittedView, Committed!CommittedSpec, Store!CommittedSpec
<1>2. TypeOK /\ Store!CountsAreExact => CountIsOccurrences
  <2> SUFFICES ASSUME TypeOK, Store!CountsAreExact, NEW g \in Groups
               PROVE  /\ groups[g].count = Cardinality(Ingested(g))
                      /\ groups[g].status = "absent" <=> Ingested(g) = {}
    BY DEF CountIsOccurrences
  <2>1. Store!CommittedInto(g) = Ingested(g)
    BY DEF Store!CommittedInto, Ingested, View, Seen, TypeOK, LogStates
  <2> QED
    BY <2>1, SameCardinality DEF Store!CountsAreExact
<1> QED
  BY <1>1, <1>2, TypeCorrect, PTL

-----------------------------------------------------------------------------
(* Triage *)

\* No other call patches the same column of the same group.
Alone(p) ==
  \A q \in Patches \ {p} : \/ PatchOf[q].group # PatchOf[p].group
                           \/ PatchOf[q].column # PatchOf[p].column

\* The committed value of the column that a call patches.
Patched(p) == groups[PatchOf[p].group][PatchOf[p].column]

\* Nobody but the call itself changes its column after it loaded the row.
TriageInv ==
  \A p \in Patches :
    /\ patch[p].pc \in {"write", "done"}
         => groups[PatchOf[p].group].status # "absent"
    /\ Alone(p) /\ patch[p].pc = "write"
         => Patched(p) = patch[p].loaded[PatchOf[p].column]
    /\ Alone(p) /\ patch[p].pc = "done" => Patched(p) = PatchOf[p].value

\* An ingestion keeps what an administrator has set on a group that is there.
LEMMA CommitKeepsColumns ==
  ASSUME WriteInv, NEW l \in Logs, CommitLog(l), NEW g \in Groups,
         groups[g].status # "absent"
  PROVE  /\ groups'[g].status = groups[g].status
         /\ groups'[g].assigned = groups[g].assigned
<1>1. CASE GroupOf[l] = g
  <2>1. groups'[g] = upsert[l]
    BY <1>1, RowsAssumption DEF CommitLog, WriteInv, TypeOK
  <2>2. upsert[l] = Counted(groups[g], logs[l].timestamp) /\ logs[l].timestamp \in Times
    BY <1>1, RowsAssumption DEF CommitLog, WriteInv, TypeOK, UpsertIsCounted, LogStates
  <2> QED
    BY <2>1, <2>2, UpsertKeepsRow DEF WriteInv, TypeOK
<1>2. CASE GroupOf[l] # g
  BY <1>2, RowsAssumption DEF CommitLog, WriteInv, TypeOK
<1> QED
  BY <1>1, <1>2

\* No step touches the column of a patch that is alone on it.
LEMMA NextTriageInv == WriteInv /\ TriageInv /\ [Next]_vars => TriageInv'
<1> SUFFICES ASSUME WriteInv, TriageInv, [Next]_vars
             PROVE  TriageInv'
  OBVIOUS
<1>p. \A p \in Patches : /\ PatchOf[p].group \in Groups
                         /\ PatchOf[p].column \in {"status", "assigned"}
  BY PatchesAssumption DEF PatchType
<1>1. CASE UNCHANGED <<groups, patch>>
  BY <1>1 DEF TriageInv, Patched
<1>2. ASSUME NEW l \in Logs, CommitLog(l)
      PROVE  TriageInv'
  <2>1. patch' = patch
    BY <1>2 DEF CommitLog
  <2>2. ASSUME NEW p \in Patches, patch[p].pc \in {"write", "done"}
        PROVE  /\ groups'[PatchOf[p].group].status = groups[PatchOf[p].group].status
               /\ groups'[PatchOf[p].group][PatchOf[p].column] = Patched(p)
    <3>1. groups[PatchOf[p].group].status # "absent"
      BY <2>2 DEF TriageInv
    <3> QED
      BY <1>2, <1>p, <3>1, CommitKeepsColumns DEF Patched
  <2> QED
    BY <2>1, <2>2 DEF TriageInv, Patched
<1>3. ASSUME NEW p \in Patches, LoadGroup(p)
      PROVE  TriageInv'
  <2>1. /\ groups' = groups
        /\ \A q \in Patches \ {p} : patch'[q] = patch[q]
        /\ patch'[p].pc \in {"write", "missing"}
        /\ patch'[p].pc = "write" => groups[PatchOf[p].group].status # "absent"
        /\ patch'[p].loaded = groups[PatchOf[p].group]
    BY <1>3 DEF LoadGroup, WriteInv, TypeOK
  <2> QED
    BY <2>1 DEF TriageInv, Patched
<1>4. ASSUME NEW p \in Patches, WriteGroup(p)
      PROVE  TriageInv'
  <2> DEFINE g   == PatchOf[p].group
             row == [groups[g] EXCEPT ![PatchOf[p].column] = Written(p)]
  <2>1. /\ g \in Groups
        /\ groups' = [groups EXCEPT ![g] = row]
        /\ row \in GroupRows /\ row.status # "absent"
    BY <1>4, WriteGroupWrites
  <2>2. /\ \A q \in Patches \ {p} : patch'[q] = patch[q]
        /\ patch'[p].pc = "done"
    BY <1>4 DEF WriteGroup, WriteInv, TypeOK
  <2>3. groups'[g] = row /\ \A h \in Groups \ {g} : groups'[h] = groups[h]
    BY <2>1 DEF WriteInv, TypeOK
  <2>4. row[PatchOf[p].column] = Written(p)
    BY <1>p, <2>1 DEF WriteInv, TypeOK, GroupRows
  <2>5. ASSUME NEW column \in {"status", "assigned"} \ {PatchOf[p].column}
        PROVE  row[column] = groups[g][column]
    BY <1>p, <2>1, <2>5 DEF WriteInv, TypeOK, GroupRows
  <2> HIDE DEF row
  <2>6. ASSUME NEW q \in Patches \ {p}, Alone(q)
        PROVE  groups'[PatchOf[q].group][PatchOf[q].column] = Patched(q)
    <3>1. CASE PatchOf[q].group # g
      BY <1>p, <2>3, <3>1 DEF Patched
    <3>2. CASE PatchOf[q].group = g
      BY <1>p, <2>3, <2>5, <2>6, <3>2 DEF Patched, Alone
    <3> QED
      BY <3>1, <3>2
  <2>7. ASSUME Alone(p)
        PROVE  Written(p) = PatchOf[p].value
    BY <1>4, <2>7 DEF WriteGroup, TriageInv, Patched, Written, Column
  <2>8. \A h \in Groups : groups[h].status # "absent" => groups'[h].status # "absent"
    BY <2>1, <2>3
  <2> QED
    BY <1>p, <2>1, <2>2, <2>3, <2>4, <2>6, <2>7, <2>8 DEF TriageInv, Patched, Alone
<1> QED
  BY <1>1, <1>2, <1>3, <1>4
     DEF Next, CleanerStep, Tick, Persist, Rollback, DeleteLog, StartCleanup,
         SelectBatch, DeleteBatch, CleanupCrash

\* A patch that was answered is there as long as no other call patches the same
\* column of the same group, whatever ingestions and other patches overlap it.
THEOREM AnsweredPatchesSurvive == Spec => []PatchesSurvive
<1>1. Init => TriageInv
  BY DEF Init, TriageInv
<1>2. TriageInv => PatchesSurvive
  BY DEF TriageInv, PatchesSurvive, Alone, Patched
<1> QED
  BY <1>1, <1>2, InitWriteInv, NextWriteInv, NextTriageInv, PTL DEF Spec

-----------------------------------------------------------------------------
(* The cleanup task *)

Gone == {l \in Logs : logs[l].state \in {"deleted", "expired"}}

\* The logs, stored or gone, that are past their retention at time t.
Old(t) ==
  {l \in Logs : /\ logs[l].state \in {"stored", "deleted", "expired"}
                /\ logs[l].timestamp + Retention < t}

\* What an execution counted as deleted is gone, and is none of what it is
\* about to delete.
ReportedIsGone(c) ==
  \E S \in SUBSET Gone :
    /\ Cardinality(S) = cleaner[c].deleted
    /\ cleaner[c].removed \subseteq S
    /\ cleaner[c].pc = "delete" => S \cap cleaner[c].batch = {}

CleanerInv(c) ==
  /\ cleaner[c].began <= now
  /\ cleaner[c].due \subseteq Old(cleaner[c].began)
  /\ cleaner[c].batch \subseteq Old(cleaner[c].began)
  /\ cleaner[c].pc = "done" => \A l \in cleaner[c].due : logs[l].state # "stored"
  /\ ReportedIsGone(c)

CleanupInv == CleanupSparesRecent /\ \A c \in Cleaners : CleanerInv(c)

-----------------------------------------------------------------------------
(* How logs age *)

\* The clock does not go back; a log that was committed keeps its timestamp, and
\* once it is gone it is not stored again.
LEMMA LogsAge ==
  ASSUME TypeOK, [Next]_vars
  PROVE  /\ now <= now' /\ now' \in Times
         /\ \A l \in Logs :
              logs[l].state \in {"stored", "deleted", "expired"} =>
                /\ logs'[l].timestamp = logs[l].timestamp
                /\ \/ logs'[l].state = logs[l].state
                   \/ /\ logs[l].state = "stored"
                      /\ logs'[l].state \in {"deleted", "expired"}
<1> USE DEF TypeOK, LogStates
<1>1. CASE now' = now /\ logs' = logs
  BY <1>1, RowsAssumption DEF Times
<1>2. CASE Tick
  BY <1>2, RowsAssumption DEF Tick, Times
<1>3. ASSUME NEW l \in Logs, Persist(l) \/ CommitLog(l) \/ Rollback(l) \/ DeleteLog(l)
      PROVE  /\ now' = now
             /\ \A m \in Logs \ {l} : logs'[m] = logs[m]
             /\ \/ logs[l].state \in {"new", "open"}
                \/ /\ logs[l].state = "stored" /\ logs'[l].state = "deleted"
                   /\ logs'[l].timestamp = logs[l].timestamp
  BY <1>3 DEF Persist, CommitLog, Rollback, DeleteLog
<1>4. ASSUME NEW c \in Cleaners, DeleteBatch(c)
      PROVE  /\ now' = now
             /\ \A l \in Logs :
                  \/ logs'[l] = logs[l]
                  \/ /\ logs[l].state = "stored" /\ logs'[l].state = "expired"
                     /\ logs'[l].timestamp = logs[l].timestamp
  BY <1>4 DEF DeleteBatch
<1>5. \/ Tick
      \/ now' = now /\ logs' = logs
      \/ \E l \in Logs : Persist(l) \/ CommitLog(l) \/ Rollback(l) \/ DeleteLog(l)
      \/ \E c \in Cleaners : DeleteBatch(c)
  BY DEF vars, Next, CleanerStep, LoadGroup, WriteGroup, StartCleanup, SelectBatch,
         CleanupCrash
<1>6. now \in Nat
  BY RowsAssumption DEF Times
<1> QED
  BY <1>1, <1>2, <1>3, <1>4, <1>5, <1>6

\* Logs stay past their retention, and what is gone stays so.
LEMMA OldStaysOld ==
  ASSUME TypeOK, [Next]_vars
  PROVE  (\A t : Old(t) \subseteq Old(t)') /\ Gone \subseteq Gone'
BY LogsAge DEF Old, Gone

\* An execution that a step leaves alone keeps its invariant.
LEMMA OthersKeepInv ==
  ASSUME TypeOK, [Next]_vars, NEW c \in Cleaners, CleanerInv(c),
         cleaner'[c] = cleaner[c]
  PROVE  CleanerInv(c)'
<1>1. cleaner'[c].began <= now'
  <2>1. cleaner[c].began \in Nat /\ now \in Nat /\ now' \in Nat
    BY RowsAssumption, LogsAge DEF TypeOK, CleanerStates, Times
  <2> QED
    BY <2>1, LogsAge DEF CleanerInv
<1>2. ReportedIsGone(c)'
  BY OldStaysOld DEF CleanerInv, ReportedIsGone
<1>3. cleaner[c].due \subseteq Logs
  BY DEF TypeOK, CleanerStates
<1>4. \A l \in cleaner[c].due : logs[l].state # "stored" => logs'[l].state # "stored"
  BY <1>3, LogsAge DEF CleanerInv, Old
<1>5. /\ (cleaner[c].due \subseteq Old(cleaner[c].began))'
      /\ (cleaner[c].batch \subseteq Old(cleaner[c].began))'
  <2>1. Old(cleaner[c].began) \subseteq Old(cleaner[c].began)'
    BY LogsAge DEF Old
  <2> QED
    BY <2>1 DEF CleanerInv
<1> QED
  BY <1>1, <1>2, <1>4, <1>5 DEF CleanerInv

-----------------------------------------------------------------------------
(* The steps of an execution *)

\* An execution that starts or is lost has counted nothing.
LEMMA StartKeepsInv ==
  ASSUME TypeOK, NEW c \in Cleaners, StartCleanup(c) \/ CleanupCrash(c)
  PROVE  CleanerInv(c)'
<1>1. /\ logs' = logs /\ now' = now /\ now \in Nat
      /\ cleaner' = [cleaner EXCEPT ![c] = cleaner'[c]]
  BY RowsAssumption DEF StartCleanup, CleanupCrash, TypeOK, Times
<1>2. \/ cleaner'[c] = IdleCleaner
      \/ cleaner'[c] = [IdleCleaner EXCEPT !.pc = "select", !.began = now,
                                           !.due = PastRetention(now)]
  BY DEF StartCleanup, CleanupCrash, TypeOK
<1>3. /\ cleaner'[c].batch = {} /\ cleaner'[c].removed = {}
      /\ cleaner'[c].deleted = 0 /\ cleaner'[c].pc \in {"idle", "select"}
      /\ \/ cleaner'[c].began = 0 /\ cleaner'[c].due = {}
         \/ cleaner'[c].began = now /\ cleaner'[c].due = PastRetention(now)
  <2>1. CASE cleaner'[c] = IdleCleaner
    BY <2>1 DEF IdleCleaner
  <2>2. CASE cleaner'[c] = [IdleCleaner EXCEPT !.pc = "select", !.began = now,
                                               !.due = PastRetention(now)]
    <3>1. /\ IdleCleaner.batch = {} /\ IdleCleaner.removed = {}
          /\ IdleCleaner.deleted = 0 /\ IdleCleaner \in CleanerStates
      <4>1. 0 \in Times
        BY RowsAssumption DEF Times
      <4> QED
        BY <4>1 DEF IdleCleaner, CleanerStates
    <3> QED
      BY <2>2, <3>1 DEF CleanerStates
  <2> QED
    BY <1>2, <2>1, <2>2
<1>4. PastRetention(now) \subseteq Old(now)
  BY DEF PastRetention, Old
<1>5. ReportedIsGone(c)'
  <2>1. {} \in SUBSET Gone' /\ Cardinality({}) = 0
    BY FS_EmptySet
  <2> QED
    BY <1>3, <2>1 DEF ReportedIsGone
<1> QED
  BY <1>1, <1>3, <1>4, <1>5 DEF CleanerInv, Old

\* A batch is chosen among the logs past their retention; when there is none
\* left the execution ends.
LEMMA SelectKeepsInv ==
  ASSUME TypeOK, NEW c \in Cleaners, CleanerInv(c), SelectBatch(c)
  PROVE  CleanerInv(c)'
<1> DEFINE found == PastRetention(cleaner[c].began)
<1>1. logs' = logs /\ now' = now
  BY DEF SelectBatch
<1>2. CASE found = {}
  <2>1. /\ cleaner'[c].pc = "done"
        /\ cleaner'[c].began = cleaner[c].began /\ cleaner'[c].due = cleaner[c].due
        /\ cleaner'[c].batch = cleaner[c].batch
        /\ cleaner'[c].deleted = cleaner[c].deleted
        /\ cleaner'[c].removed = cleaner[c].removed
    BY <1>2 DEF SelectBatch, TypeOK, CleanerStates
  <2>2. \A l \in cleaner[c].due : logs[l].state # "stored"
    BY <1>2 DEF CleanerInv, Old, PastRetention
  <2>3. ReportedIsGone(c)'
    BY <1>1, <2>1 DEF CleanerInv, ReportedIsGone, Gone
  <2> QED
    BY <1>1, <2>1, <2>2, <2>3 DEF CleanerInv, Old
<1>3. CASE found # {}
  <2>1. PICK ids \in SUBSET found :
          cleaner' = [cleaner EXCEPT ![c] =
                        [cleaner[c] EXCEPT !.pc = "delete", !.batch = ids]]
    BY <1>3 DEF SelectBatch
  <2>2. /\ cleaner'[c].pc = "delete" /\ cleaner'[c].batch = ids
        /\ cleaner'[c].began = cleaner[c].began /\ cleaner'[c].due = cleaner[c].due
        /\ cleaner'[c].deleted = cleaner[c].deleted
        /\ cleaner'[c].removed = cleaner[c].removed
    BY <2>1 DEF TypeOK, CleanerStates
  <2>3. ids \subseteq Old(cleaner[c].began) /\ ids \cap Gone = {}
    BY DEF PastRetention, Old, Gone
  <2>4. ReportedIsGone(c)'
    BY <1>1, <2>2, <2>3 DEF CleanerInv, ReportedIsGone, Gone
  <2> QED
    BY <1>1, <2>2, <2>3, <2>4 DEF CleanerInv, Old
<1> QED
  BY <1>2, <1>3

\* What a batch adds to the count is gone afterwards.
LEMMA DeleteKeepsInv ==
  ASSUME TypeOK, NEW c \in Cleaners, CleanerInv(c), DeleteBatch(c)
  PROVE  CleanerInv(c)'
<1> DEFINE batch == cleaner[c].batch
           left  == {l \in batch : logs[l].state = "stored"}
<1>1. /\ batch \in SUBSET Logs /\ IsFiniteSet(batch)
      /\ cleaner'[c].pc = "select" /\ cleaner'[c].batch = {}
      /\ cleaner'[c].began = cleaner[c].began /\ cleaner'[c].due = cleaner[c].due
      /\ cleaner'[c].deleted = cleaner[c].deleted + Cardinality(batch)
      /\ cleaner'[c].removed = cleaner[c].removed \cup left
  BY DeletesBatch
<1>2. now' = now /\ cleaner[c].pc = "delete"
  BY DEF DeleteBatch
<1>3. [Next]_vars
  BY DEF Next, CleanerStep
<1>4. Old(cleaner[c].began) \subseteq Old(cleaner[c].began)'
  BY <1>1, <1>3, LogsAge DEF Old
<1>5. Gone \subseteq Gone' /\ batch \subseteq Gone'
  <2>1. \A l \in batch : logs[l].state \in {"stored", "deleted", "expired"}
    BY DEF CleanerInv, Old
  <2>2. \A l \in batch : logs[l].state = "stored" => logs'[l].state = "expired"
    BY <1>1 DEF DeleteBatch, TypeOK, LogStates
  <2> QED
    BY <1>1, <1>3, <2>1, <2>2, LogsAge DEF Gone
<1>6. ReportedIsGone(c)'
  <2>1. PICK S \in SUBSET Gone : /\ Cardinality(S) = cleaner[c].deleted
                                /\ cleaner[c].removed \subseteq S
                                /\ S \cap batch = {}
    BY <1>2 DEF CleanerInv, ReportedIsGone
  <2>2. IsFiniteSet(S)
    BY RowsAssumption, FS_Subset DEF Gone
  <2>3. Cardinality(S \cup batch) = cleaner'[c].deleted
    <3>1. /\ Cardinality(S \cup batch)
               = Cardinality(S) + Cardinality(batch) - Cardinality(S \cap batch)
          /\ Cardinality(S) \in Nat /\ Cardinality(batch) \in Nat
      BY <1>1, <2>2, FS_Union, FS_CardinalityType
    <3>2. Cardinality(S \cap batch) = 0
      BY <2>1, FS_EmptySet
    <3> QED
      BY <1>1, <2>1, <3>1, <3>2
  <2>4. S \cup batch \in SUBSET Gone' /\ cleaner'[c].removed \subseteq S \cup batch
    BY <1>1, <1>5, <2>1
  <2> QED
    BY <1>1, <2>3, <2>4 DEF ReportedIsGone
<1> QED
  BY <1>1, <1>2, <1>4, <1>6 DEF CleanerInv

-----------------------------------------------------------------------------
(* The invariant *)

\* Only a batch expires logs, and a batch is past its retention.
LEMMA NextSparesRecent ==
  ASSUME TypeOK, CleanupInv, [Next]_vars
  PROVE  CleanupSparesRecent'
<1> SUFFICES ASSUME NEW l \in Logs, logs'[l].state = "expired"
             PROVE  logs'[l].timestamp + Retention < now'
  BY DEF CleanupSparesRecent
<1>1. /\ now \in Nat /\ now' \in Nat /\ now <= now'
      /\ logs[l].timestamp \in Nat /\ Retention \in Nat
  BY RowsAssumption, SettingsAssumption, LogsAge DEF TypeOK, Times, LogStates
<1>2. CASE logs[l].state = "expired"
  BY <1>1, <1>2, LogsAge DEF CleanupInv, CleanupSparesRecent
<1>3. CASE logs[l].state # "expired"
  <2>1. PICK c \in Cleaners : DeleteBatch(c) /\ l \in cleaner[c].batch
    <3>1. logs' # logs
      BY <1>3
    <3>2. \A m \in Logs : ~ (Persist(m) \/ CommitLog(m) \/ Rollback(m) \/ DeleteLog(m))
      BY <1>3 DEF Persist, CommitLog, Rollback, DeleteLog, TypeOK, LogStates
    <3>3. PICK c \in Cleaners : DeleteBatch(c)
      BY <3>1, <3>2 DEF vars, Next, CleanerStep, Tick, LoadGroup, WriteGroup,
                        StartCleanup, SelectBatch, CleanupCrash
    <3>4. l \in cleaner[c].batch
      BY <1>3, <3>3 DEF DeleteBatch
    <3> QED
      BY <3>3, <3>4
  <2>2. /\ logs[l].state \in {"stored", "deleted", "expired"}
        /\ logs[l].timestamp + Retention < cleaner[c].began
        /\ cleaner[c].began <= now /\ cleaner[c].began \in Nat
    BY <2>1, RowsAssumption DEF CleanupInv, CleanerInv, Old, TypeOK, CleanerStates, Times
  <2> QED
    BY <1>1, <2>2, LogsAge
<1> QED
  BY <1>2, <1>3

\* Every step keeps what each execution knows of its logs.
LEMMA NextCleanupInv == TypeOK /\ CleanupInv /\ [Next]_vars => CleanupInv'
<1> SUFFICES ASSUME TypeOK, CleanupInv, [Next]_vars
             PROVE  CleanupInv'
  OBVIOUS
<1>1. ASSUME NEW c \in Cleaners
      PROVE  CleanerInv(c)'
  <2>1. CleanerInv(c)
    BY DEF CleanupInv
  <2>2. CASE StartCleanup(c) \/ CleanupCrash(c)
    BY <2>2, StartKeepsInv
  <2>3. CASE SelectBatch(c)
    BY <2>1, <2>3, SelectKeepsInv
  <2>4. CASE DeleteBatch(c)
    BY <2>1, <2>4, DeleteKeepsInv
  <2>5. CASE cleaner'[c] = cleaner[c]
    BY <2>1, <2>5, OthersKeepInv
  <2>6. ASSUME NEW d \in Cleaners \ {c},
               StartCleanup(d) \/ CleanerStep(d) \/ CleanupCrash(d)
        PROVE  cleaner'[c] = cleaner[c]
    BY <2>6, DeletesBatch DEF StartCleanup, CleanerStep, SelectBatch, CleanupCrash, TypeOK
  <2> QED
    BY <2>2, <2>3, <2>4, <2>5, <2>6
       DEF vars, Next, CleanerStep, Tick, Persist, CommitLog, Rollback, DeleteLog,
           LoadGroup, WriteGroup
<1> QED
  BY <1>1, NextSparesRecent DEF CleanupInv

\* No execution has begun.
LEMMA InitCleanupInv == Init => CleanupInv
<1> SUFFICES ASSUME Init PROVE CleanupInv
  OBVIOUS
<1>1. CleanupSparesRecent
  BY DEF Init, CleanupSparesRecent
<1>2. ASSUME NEW c \in Cleaners
      PROVE  CleanerInv(c)
  <2>1. cleaner[c] = IdleCleaner /\ now = 0
    BY DEF Init
  <2>2. {} \in SUBSET Gone /\ Cardinality({}) = 0
    BY FS_EmptySet
  <2> QED
    BY <2>1, <2>2 DEF IdleCleaner, CleanerInv, ReportedIsGone
<1> QED
  BY <1>1, <1>2 DEF CleanupInv

-----------------------------------------------------------------------------
(* Theorems *)

\* The invariant of the executions, from its initial state and its steps.
LEMMA SpecCleanupInv == Spec => []CleanupInv
BY InitCleanupInv, NextCleanupInv, TypeCorrect, PTL DEF Spec

\* The cleanup task removes no log within its retention, however long ago an
\* execution chose its batch and whoever else deletes logs.
THEOREM RecentLogsAreSpared == Spec => []CleanupSparesRecent
<1>1. CleanupInv => CleanupSparesRecent
  BY DEF CleanupInv
<1> QED
  BY <1>1, SpecCleanupInv, PTL

\* An execution that ended has left none of the logs that were past their
\* retention when it began.
THEOREM CleanupEndsComplete == Spec => []CleanupIsComplete
<1>1. CleanupInv => CleanupIsComplete
  BY DEF CleanupInv, CleanerInv, CleanupIsComplete
<1> QED
  BY <1>1, SpecCleanupInv, PTL

\* The number that an execution reports is at least what it removed and at most
\* what is gone.
THEOREM CleanupReportIsBounded == Spec => []ReportIsBounded
<1>1. TypeOK /\ CleanupInv => ReportIsBounded
  <2> SUFFICES ASSUME TypeOK, CleanupInv, NEW c \in Cleaners
               PROVE  /\ Cardinality(cleaner[c].removed) <= cleaner[c].deleted
                      /\ cleaner[c].deleted <= Cardinality(Gone)
    BY DEF ReportIsBounded, Gone
  <2>1. PICK S \in SUBSET Gone : /\ Cardinality(S) = cleaner[c].deleted
                                 /\ cleaner[c].removed \subseteq S
    BY DEF CleanupInv, CleanerInv, ReportedIsGone
  <2>2. IsFiniteSet(S) /\ IsFiniteSet(Gone)
    BY RowsAssumption, FS_Subset DEF Gone
  <2> QED
    BY <2>1, <2>2, FS_Subset
<1> QED
  BY <1>1, SpecCleanupInv, TypeCorrect, PTL

=============================================================================
