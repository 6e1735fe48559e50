--------------------------- MODULE MCAnalysisJobs ---------------------------
(***************************************************************************)
(* Small instances of AnalysisJobs for TLC.                                *)
(***************************************************************************)
EXTENDS AnalysisJobs, TLC

CONSTANTS r1, r2, r3, g1

\* All requests ask about the same group.
SameGroup == [r \in Requests |-> g1]

BothSymmetry == Permutations(Workers) \cup Permutations(Requests)

\* README.md:236 says that an analysis job that reaches completed persists its
\* output: a completed analysis of its group should be there from then on.
AnalysisOutputPersists ==
  \A r \in Requests :
    jobs[r].status = "completed" =>
      \E a \in analyses : a.group = GroupOf[r] /\ a.status = "completed"

=============================================================================
