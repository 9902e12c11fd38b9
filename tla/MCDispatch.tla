----------------------------- MODULE MCDispatch -----------------------------
(***************************************************************************)
(* Instances of Dispatch for TLC: one chain, two goroutines.               *)
(***************************************************************************)
EXTENDS Dispatch, TLC

CONSTANTS c1, r1, r2, w1, w2

\* Two processes with one goroutine each.
OneEach == w1 :> r1 @@ w2 :> r2

\* All goroutines in one process.
AllOne == [w \in Slot |-> r1]

TokenSymmetry == Permutations(Token)
=============================================================================
