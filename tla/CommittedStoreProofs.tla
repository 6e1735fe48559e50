------------------------- MODULE CommittedStoreProofs -------------------------
(***************************************************************************)
(* Theorems about CommittedStore, for any logs, groups and users.          *)
(***************************************************************************)
EXTENDS CommittedStore, FiniteSetTheorems, TLAPS

USE DEF store

\* The upsert keeps a row a row, and adds one to its count.
LEMMA CountedIsRow ==
  ASSUME NEW row \in GroupRows, NEW t \in Times
  PROVE  /\ Counted(row, t) \in GroupRows
         /\ Counted(row, t).status # "absent"
         /\ row.status # "absent" => Counted(row, t).count = row.count + 1
         /\ row.status = "absent" => Counted(row, t).count = 1
<1>1. CASE row.status = "absent"
  BY <1>1 DEF Counted, GroupRows, GroupStatuses
<1>2. CASE row.status # "absent"
  <2> DEFINE more == [row EXCEPT !.count = @ + 1]
  <2>1. Counted(row, t) = [more EXCEPT !.last_seen = t]
    BY <1>2, Zenon DEF Counted
  <2>2. more \in GroupRows /\ more.status = row.status /\ more.count = row.count + 1
    BY DEF GroupRows
  <2> HIDE DEF more
  <2> QED
    BY <1>2, <2>1, <2>2 DEF GroupRows
<1> QED
  BY <1>1, <1>2

\* A group and a log that are not there are rows, too.
LEMMA AbsentIsRow ==
  /\ AbsentGroup \in GroupRows
  /\ AbsentLog \in LogRows
BY RowsAssumption DEF AbsentGroup, AbsentLog, GroupRows, LogRows, GroupStatuses, Times

\* Finitely many logs were committed into a group.
LEMMA CommittedIsFinite ==
  ASSUME NEW g
  PROVE  /\ IsFiniteSet(CommittedInto(g))
         /\ Cardinality(CommittedInto(g)) \in Nat
BY CommittedInto(g) \in SUBSET Logs, RowsAssumption, FS_Subset, FS_CardinalityType
   DEF CommittedInto

\* Both tables keep to their columns, whatever is written to them.
THEOREM StoreTypeCorrect == CommittedSpec => []StoreTypeOK
<1>1. Empty => StoreTypeOK
  BY AbsentIsRow DEF Empty, StoreTypeOK
<1>2. StoreTypeOK /\ [Write]_store => StoreTypeOK'
  <2> SUFFICES ASSUME StoreTypeOK, [Write]_store
               PROVE  StoreTypeOK'
    OBVIOUS
  <2> USE DEF StoreTypeOK
  <2>1. ASSUME NEW l \in Logs, NEW t \in Times, Ingest(l, t)
        PROVE  StoreTypeOK'
    <3>1. rows' \in [Logs -> LogRows]
      BY <2>1 DEF Ingest, LogRows
    <3>2. groups' \in [Groups -> GroupRows]
      <4>1. CASE GroupOf[l] = NoGroup
        BY <2>1, <4>1 DEF Ingest
      <4>2. CASE GroupOf[l] # NoGroup
        <5>1. GroupOf[l] \in Groups
          BY <4>2, RowsAssumption
        <5>2. Counted(groups[GroupOf[l]], t) \in GroupRows
          BY <5>1, CountedIsRow
        <5> QED
          BY <2>1, <4>2, <5>2 DEF Ingest
      <4> QED
        BY <4>1, <4>2
    <3> QED
      BY <3>1, <3>2
  <2>2. ASSUME NEW gone \in SUBSET Logs, DeleteLogs(gone)
        PROVE  StoreTypeOK'
    BY <2>2 DEF DeleteLogs, LogRows
  <2>3. ASSUME NEW g \in Groups, NEW status \in GroupStatuses, SetStatus(g, status)
        PROVE  StoreTypeOK'
    BY <2>3 DEF SetStatus, GroupRows
  <2>4. ASSUME NEW g \in Groups, NEW user \in Users \cup {NoUser}, Assign(g, user)
        PROVE  StoreTypeOK'
    BY <2>4 DEF Assign, GroupRows
  <2>5. CASE UNCHANGED store
    BY <2>5
  <2> QED
    BY <2>1, <2>2, <2>3, <2>4, <2>5 DEF Write
<1> QED
  BY <1>1, <1>2, PTL DEF CommittedSpec

\* A count is the number of logs ever committed into the group: one is added
\* when a log is, and a deletion takes none away.
THEOREM CountsMatchLogs == CommittedSpec => []CountsAreExact
<1>1. Empty => CountsAreExact
  <2> SUFFICES ASSUME Empty, NEW g \in Groups
               PROVE  /\ groups[g].count = Cardinality(CommittedInto(g))
                      /\ groups[g].status = "absent" <=> CommittedInto(g) = {}
    BY DEF CountsAreExact
  <2>1. CommittedInto(g) = {}
    BY DEF Empty, CommittedInto, AbsentLog
  <2> QED
    BY <2>1, FS_EmptySet DEF Empty, AbsentGroup
<1>2. StoreTypeOK /\ CountsAreExact /\ [Write]_store => CountsAreExact'
  <2> SUFFICES ASSUME StoreTypeOK, CountsAreExact, [Write]_store, NEW g \in Groups
               PROVE  /\ groups[g].count' = Cardinality(CommittedInto(g))'
                      /\ groups[g].status' = "absent" <=> CommittedInto(g)' = {}
    BY DEF CountsAreExact
  <2> USE DEF StoreTypeOK
  <2>0. /\ groups[g].count = Cardinality(CommittedInto(g))
        /\ groups[g].status = "absent" <=> CommittedInto(g) = {}
    BY DEF CountsAreExact
  <2>1. ASSUME NEW l \in Logs, NEW t \in Times, Ingest(l, t)
        PROVE  /\ groups[g].count' = Cardinality(CommittedInto(g))'
               /\ groups[g].status' = "absent" <=> CommittedInto(g)' = {}
    <3>1. CASE GroupOf[l] = g
      <4>1. g # NoGroup
        BY RowsAssumption
      <4>2. groups[g]' = Counted(groups[g], t)
        BY <2>1, <3>1, <4>1 DEF Ingest
      <4>3. l \notin CommittedInto(g) /\ CommittedInto(g)' = CommittedInto(g) \cup {l}
        BY <2>1, <3>1 DEF Ingest, CommittedInto, LogRows
      <4>4. Cardinality(CommittedInto(g))' = Cardinality(CommittedInto(g)) + 1
        BY <4>3, CommittedIsFinite, FS_AddElement
      <4>5. groups[g].status = "absent" => Cardinality(CommittedInto(g)) = 0
        BY <2>0, FS_EmptySet
      <4> QED
        BY <2>0, <4>2, <4>3, <4>4, <4>5, CountedIsRow
    <3>2. CASE GroupOf[l] # g
      <4>1. groups[g]' = groups[g]
        BY <2>1, <3>2, RowsAssumption DEF Ingest
      <4>2. CommittedInto(g)' = CommittedInto(g)
        BY <2>1, <3>2 DEF Ingest, CommittedInto, LogRows
      <4> QED
        BY <2>0, <4>1, <4>2
    <3> QED
      BY <3>1, <3>2
  <2>2. ASSUME NEW gone \in SUBSET Logs, DeleteLogs(gone)
        PROVE  /\ groups[g].count' = Cardinality(CommittedInto(g))'
               /\ groups[g].status' = "absent" <=> CommittedInto(g)' = {}
    <3>1. CommittedInto(g)' = CommittedInto(g)
      BY <2>2 DEF DeleteLogs, CommittedInto, Stored, LogRows
    <3> QED
      BY <2>0, <2>2, <3>1 DEF DeleteLogs
  <2>3. ASSUME NEW h \in Groups, NEW status \in GroupStatuses \ {"absent"},
               SetStatus(h, status)
        PROVE  /\ groups[g].count' = Cardinality(CommittedInto(g))'
               /\ groups[g].status' = "absent" <=> CommittedInto(g)' = {}
    <3>1. CommittedInto(g)' = CommittedInto(g)
      BY <2>3 DEF SetStatus, CommittedInto
    <3>2. /\ groups[g].count' = groups[g].count
          /\ groups[g].status' = "absent" <=> groups[g].status = "absent"
      BY <2>3 DEF SetStatus, GroupRows
    <3> QED
      BY <2>0, <3>1, <3>2
  <2>4. ASSUME NEW h \in Groups, NEW user \in Users \cup {NoUser}, Assign(h, user)
        PROVE  /\ groups[g].count' = Cardinality(CommittedInto(g))'
               /\ groups[g].status' = "absent" <=> CommittedInto(g)' = {}
    <3>1. CommittedInto(g)' = CommittedInto(g)
      BY <2>4 DEF Assign, CommittedInto
    <3>2. /\ groups[g].count' = groups[g].count
          /\ groups[g].status' = groups[g].status
      BY <2>4 DEF Assign, GroupRows
    <3> QED
      BY <2>0, <3>1, <3>2
  <2>5. CASE UNCHANGED store
    BY <2>0, <2>5 DEF CommittedInto
  <2> QED
    BY <2>1, <2>2, <2>3, <2>4, <2>5 DEF Write
<1> QED
  BY <1>1, <1>2, StoreTypeCorrect, PTL DEF CommittedSpec

=============================================================================
