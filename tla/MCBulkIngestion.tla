--------------------------- MODULE MCBulkIngestion ---------------------------
(***************************************************************************)
(* Small instances of BulkIngestion for TLC.                               *)
(***************************************************************************)
EXTENDS BulkIngestion, TLC

CONSTANTS r1, r2, r3, k1, b1, b2

\* Three calls under one key, of which the third sends other logs.
SharedKey == [r \in Requests |-> k1]
MixedBody == r1 :> b1 @@ r2 :> b1 @@ r3 :> b2

\* One call with a key and one without.
OneKeyed == r1 :> k1 @@ r2 :> NoKey

\* Calls without a key.
Unkeyed == [r \in Requests |-> NoKey]

SameBody == [r \in Requests |-> b1]

WorkerSymmetry == Permutations(Workers)

-----------------------------------------------------------------------------

\* ARCHITECTURE.md:79 calls the chunks the worker processes idempotent:
\* processing one again should not store its logs again.
ItemsStoredOnce ==
  \A r \in Requests, i \in Items : stored[r][i] <= 1

=============================================================================
