----------------------------- MODULE MCRefunds ------------------------------
(***************************************************************************)
(* An instance of Refunds for TLC: a refund of one unit through the        *)
(* provider, and one of all that may be paid in cash.                      *)
(***************************************************************************)
EXTENDS Refunds

CONSTANTS k1, k2

PartAndAll == [k \in Key |-> IF k = k1 THEN 1 ELSE Amount]

OnlyTheSecondInCash ==
    [k \in Key |-> IF k = k1 THEN {"original_method"} ELSE {"cash"}]
=============================================================================
