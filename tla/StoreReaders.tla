----------------------------- MODULE StoreReaders -----------------------------
(***************************************************************************)
(* A reader of the store and those who write to it meanwhile.  Readers     *)
(* write no table, so they do not disturb each other, and each behaviour   *)
(* has one: a client that goes through a list, or the summary task.        *)
(* Neither reads, here, whom a group is assigned to: that write is left    *)
(* out.                                                                    *)
(***************************************************************************)
EXTENDS Listing, Summary

CONSTANTS
  Decisions,  \* the statuses that developers set
  MaxWrites   \* per reader: bound on the writes from its first statement on

ASSUME StoreReadersAssumption ==
  /\ Decisions \subseteq GroupStatuses \ {"absent"}
  /\ MaxWrites \in [{"client", "task"} -> Nat]

VARIABLES reader, writes

readers == <<reader, writes, query, listing, summaryVars>>

Started == listing # NoListing \/ task # IdleTask \/ cache > 0

ReadersInit ==
  /\ Empty
  /\ ListingInit /\ SummaryInit
  /\ \/ reader = "client"
     \/ reader = "task" /\ query = CHOOSE q \in Queries : TRUE  \* not used
  /\ writes = 0

WriteMeanwhile ==
  /\ \/ \E l \in Logs, t \in Times : Ingest(l, t)
     \/ \E gone \in SUBSET Logs : DeleteLogs(gone)
     \/ \E g \in Groups, status \in Decisions : SetStatus(g, status)
  /\ IF Started \/ writes > 0 THEN writes < MaxWrites[reader] /\ writes' = writes + 1
     ELSE UNCHANGED writes
  /\ ListChanges /\ SummaryChanges
  /\ UNCHANGED reader

ClientStep ==
  /\ reader = "client" /\ ListStep
  /\ UNCHANGED <<store, reader, writes, summaryVars>>

WorkerStep ==
  /\ reader = "task" /\ SummaryStep
  /\ UNCHANGED <<store, reader, writes, query, listing>>

ReadersNext == WriteMeanwhile \/ ClientStep \/ WorkerStep

ReadersSpec == ReadersInit /\ [][ReadersNext]_<<store, readers>>

\* Beat goes on sending the task, and a worker takes it up and goes on with it.
ReadersFairSpec ==
  /\ ReadersSpec
  /\ WF_<<store, readers>>(WorkerStep /\ TaskStep)

-----------------------------------------------------------------------------
(* Properties *)

ReadersTypeOK ==
  /\ StoreTypeOK
  /\ query \in Queries
  /\ listing.page \in 0..MaxPages
  /\ listing.lasting \cup listing.returned
       \subseteq IF query.table = "logs" THEN Logs ELSE Groups
  /\ task.since \in Times /\ Len(task.figures) <= Len(Statements)
  /\ cache \in 0..Ttl
  /\ faults \in 0..MaxFaults

\* An expired summary is followed by another: the empty one is not served for
\* ever.
SummaryReturns == reader = "task" /\ cache = 0 ~> cache > 0

=============================================================================
