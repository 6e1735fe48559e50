------------------------------ MODULE MCLogStore ------------------------------
(***************************************************************************)
(* Small instances of LogStore for TLC.                                    *)
(***************************************************************************)
EXTENDS LogStore, TLC

CONSTANTS l1, l2, l3, l4, g1, p1, p2, alice

\* Three logs that share a group and one that has none.
OneGroup == [l \in Logs |-> IF l = l4 THEN NoGroup ELSE g1]

\* An admin resolves the group while a developer takes it.
Resolve == [group |-> g1, column |-> "status", value |-> "resolved"]
Take    == [group |-> g1, column |-> "assigned", value |-> alice]

TwoPatches == p1 :> Resolve @@ p2 :> Take

NoPatches == [p \in {} |-> Resolve]

GroupedSymmetry == Permutations(Logs \ {l4})

StoreSymmetry == Permutations(Logs) \cup Permutations(Cleaners)

===============================================================================
