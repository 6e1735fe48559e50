----------------------------- MODULE MCAccounts -----------------------------
(***************************************************************************)
(* Small instances of Accounts for TLC.                                    *)
(***************************************************************************)
EXTENDS Accounts, TLC

CONSTANTS c1, c2, c3, r1, r2, promote, deactivate

\* The owners of the two passwords, and somebody who has neither.
Presented == c1 :> r1 @@ c2 :> r2 @@ c3 :> NoPassword

TwoEdits == promote    :> [column |-> "role", value |-> "admin"]
         @@ deactivate :> [column |-> "status", value |-> "inactive"]

=============================================================================
