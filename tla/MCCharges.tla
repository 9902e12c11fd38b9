----------------------------- MODULE MCCharges ------------------------------
(***************************************************************************)
(* Instances of Charges for TLC: two attempts, one that may be authorized  *)
(* and refuse a cancellation, and one that may be given up; or two that    *)
(* the buyer pays.                                                         *)
(***************************************************************************)
EXTENDS Charges

CONSTANTS c1, c2

OneAuthorizedOneGivenUp ==
    [c \in Attempt |->
        IF c = c1
        THEN {"at_device", "authorized", "cancelling", "paid"}
        ELSE {"at_device", "cancelled"}]

\* Half of the total, and the other half or all of it.
HalfThenHalfOrAll == [c \in Attempt |-> IF c = c1 THEN {1} ELSE {1, 2}]

OneUnit == [c \in Attempt |-> {1}]

BothPaid == [c \in Attempt |-> {"at_device", "paid"}]
=============================================================================
