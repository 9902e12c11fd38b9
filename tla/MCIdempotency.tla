--------------------------- MODULE MCIdempotency ----------------------------
(***************************************************************************)
(* Instances of Idempotency for TLC: requests that share one key.          *)
(***************************************************************************)
EXTENDS Idempotency, TLC

CONSTANTS k1

SameKey == [q \in Request |-> k1]

RequestSymmetry == Permutations(Request)
=============================================================================
