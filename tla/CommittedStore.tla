---------------------------- MODULE CommittedStore ----------------------------
(***************************************************************************)
(* What the two tables promise to whoever reads them: every statement sees *)
(* rows that change by whole transactions only.  A log and its count in    *)
(* its group appear together; logs go, alone or by batches, and leave the  *)
(* groups as they are; triage changes one column of one group.  LogStore   *)
(* implements this specification, and the readers are built on it.         *)
(***************************************************************************)
EXTENDS StoreRows

VARIABLES
  rows,    \* per log: whether table logs has it, and its timestamp
  groups   \* table error_groups

store == <<rows, groups>>

LogRows == [state : {"absent", "stored", "gone"}, timestamp : Times]

AbsentLog == [state |-> "absent", timestamp |-> 0]

Empty ==
  /\ rows = [l \in Logs |-> AbsentLog]
  /\ groups = [g \in Groups |-> AbsentGroup]

Stored == {l \in Logs : rows[l].state = "stored"}

\* The logs of group g that were ever committed.
CommittedInto(g) == {l \in Logs : GroupOf[l] = g /\ rows[l].state # "absent"}

-----------------------------------------------------------------------------

\* POST /logs, or an item of a bulk job: the log is there and counted.
Ingest(l, t) ==
  /\ rows[l].state = "absent"
  /\ rows' = [rows EXCEPT ![l] = [state |-> "stored", timestamp |-> t]]
  /\ groups' = IF GroupOf[l] = NoGroup THEN groups
               ELSE [groups EXCEPT ![GroupOf[l]] = Counted(@, t)]

\* DELETE /logs/{id}, or a batch of the cleanup task.
DeleteLogs(gone) ==
  /\ gone # {} /\ gone \subseteq Stored
  /\ rows' = [l \in Logs |-> IF l \in gone THEN [rows[l] EXCEPT !.state = "gone"]
                             ELSE rows[l]]
  /\ UNCHANGED groups

\* PATCH /error-groups/{id}/status and /assignment.
SetStatus(g, status) ==
  /\ groups[g].status # "absent"
  /\ groups' = [groups EXCEPT ![g].status = status]
  /\ UNCHANGED rows

Assign(g, user) ==
  /\ groups[g].status # "absent"
  /\ groups' = [groups EXCEPT ![g].assigned = user]
  /\ UNCHANGED rows

Write ==
  \/ \E l \in Logs, t \in Times : Ingest(l, t)
  \/ \E gone \in SUBSET Logs : DeleteLogs(gone)
  \/ \E g \in Groups :
       \/ \E status \in GroupStatuses \ {"absent"} : SetStatus(g, status)
       \/ \E user \in Users \cup {NoUser} : Assign(g, user)

CommittedSpec == Empty /\ [][Write]_store

-----------------------------------------------------------------------------
(* Properties *)

StoreTypeOK ==
  /\ rows \in [Logs -> LogRows]
  /\ groups \in [Groups -> GroupRows]

\* occurrence_count is the number of logs ever committed into the group, and
\* the group's row is there as soon as one of them is.
CountsAreExact ==
  \A g \in Groups :
    /\ groups[g].count = Cardinality(CommittedInto(g))
    /\ groups[g].status = "absent" <=> CommittedInto(g) = {}

=============================================================================
