------------------------------ MODULE StoreRows ------------------------------
(***************************************************************************)
(* The rows of logs and error_groups: what LogStore and the readers of the *)
(* store have in common.                                                   *)
(***************************************************************************)
EXTENDS Naturals, FiniteSets

CONSTANTS
  Logs,             \* the logs, each named by the transaction that stores it
  Groups, NoGroup,  \* service, environment and fingerprint; and none of them
  GroupOf,          \* the group of each log; NoGroup below level warning
  Users, NoUser,    \* whom a group is assigned to, or nobody
  MaxTime           \* bound on the clock

ASSUME RowsAssumption ==
  /\ IsFiniteSet(Logs)
  /\ NoGroup \notin Groups /\ NoUser \notin Users
  /\ GroupOf \in [Logs -> Groups \cup {NoGroup}]
  /\ MaxTime \in Nat

Times == 0..MaxTime

GroupStatuses == {"absent", "unresolved", "investigating", "resolved",
                  "ignored"}

GroupRows == [status : GroupStatuses, assigned : Users \cup {NoUser},
              count : Nat, first_seen : Times, last_seen : Times]

AbsentGroup == [status |-> "absent", assigned |-> NoUser, count |-> 0,
                first_seen |-> 0, last_seen |-> 0]

\* INSERT ... ON CONFLICT DO UPDATE.  The count is computed by the database
\* from the row it has locked; status, assignee and first_seen are kept.
Counted(row, timestamp) ==
  IF row.status = "absent"
  THEN [status |-> "unresolved", assigned |-> NoUser, count |-> 1,
        first_seen |-> timestamp, last_seen |-> timestamp]
  ELSE [row EXCEPT !.count = @ + 1, !.last_seen = timestamp]

=============================================================================
