---------------------------- MODULE MCStoreReaders ----------------------------
(***************************************************************************)
(* Small instances of StoreReaders for TLC.                                *)
(***************************************************************************)
EXTENDS StoreReaders, TLC

CONSTANTS l1, l2, l3, g1, g2, shop, mail

\* Two logs that share a group and one of another group.
TwoGroups == l1 :> g1 @@ l2 :> g1 @@ l3 :> g2

Ids == l1 :> 1 @@ l2 :> 2 @@ l3 :> 3 @@ g1 :> 1 @@ g2 :> 2

GroupIds == g1 :> 1 @@ g2 :> 2

\* Whole lists in both orders, a list by status and one by time.
SomeQueries ==
  LET ofLogs   == [table |-> "logs", from |-> 0, to |-> MaxTime,
                   by |-> "timestamp", order |-> "desc"]
      ofGroups == [table |-> "groups", from |-> 0, to |-> MaxTime, status |-> "any",
                   by |-> "last_seen", order |-> "desc"]
  IN  {ofLogs, [ofLogs EXCEPT !.order = "asc", !.from = 1],
       ofGroups, [ofGroups EXCEPT !.by = "count", !.order = "asc"],
       [ofGroups EXCEPT !.status = "unresolved"], [ofGroups EXCEPT !.to = 0]}

\* The service is that of the group; the others split the logs differently.
SomeValues ==
  [column \in Breakdowns |->
     CASE column = "by_service"     -> l1 :> shop @@ l2 :> shop @@ l3 :> mail
       [] column = "by_environment" -> l1 :> shop @@ l2 :> mail @@ l3 :> shop
       [] column = "by_severity"    -> [l \in Logs |-> mail]]

FewWrites == "client" :> 2 @@ "task" :> 1

=============================================================================
