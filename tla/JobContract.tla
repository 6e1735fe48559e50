----------------------------- MODULE JobContract -----------------------------
(***************************************************************************)
(* What a reader of a bulk job's status may rely on, without workers,      *)
(* messages or copies of rows: a job is created pending, runs, and ends    *)
(* once; it ends completed only with all of its items stored, and nothing  *)
(* is stored for it before it runs or after it has ended.                  *)
(***************************************************************************)
CONSTANTS Jobs, Items

VARIABLES
  status,     \* per job
  present     \* per job: the items that are in the log table

vars == <<status, present>>

Init ==
  /\ status = [j \in Jobs |-> "absent"]
  /\ present = [j \in Jobs |-> {}]

Move(j, from, to) ==
  /\ status[j] = from
  /\ status' = [status EXCEPT ![j] = to]
  /\ UNCHANGED present

Create(j) == Move(j, "absent", "pending")

Run(j) == Move(j, "pending", "running")

Store(j) ==
  /\ status[j] = "running"
  /\ \E i \in Items : present' = [present EXCEPT ![j] = @ \cup {i}]
  /\ UNCHANGED status

Complete(j) == present[j] = Items /\ Move(j, "running", "completed")

CompletePartially(j) == Move(j, "running", "partially_completed")

Next ==
  \E j \in Jobs :
    \/ Create(j) \/ Run(j) \/ Store(j) \/ Complete(j) \/ CompletePartially(j)

Spec == Init /\ [][Next]_vars

=============================================================================
