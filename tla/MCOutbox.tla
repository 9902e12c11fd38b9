------------------------------ MODULE MCOutbox ------------------------------
(***************************************************************************)
(* Instances of Outbox for TLC: two jobs that share a kind and a dedupe    *)
(* key, two replicas.                                                      *)
(***************************************************************************)
EXTENDS Outbox, TLC

CONSTANTS j1, j2, r1, r2, w1, w2

\* Two replicas with one slot each.
TwoSlots == w1 :> r1 @@ w2 :> r2

\* One replica with two slots, which one poll can fill under one token.
BothSlots == [w \in Slot |-> r1]

SameKind == [j \in Job |-> "k"]

SameKey == [j \in Job |-> "key"]

NoKeys == [j \in Job |-> NoKey]

AllKinds == [r \in Replica |-> {"k"}]

\* j1 may be started twice, any other job once.
TwoThenOne == [j \in Job |-> IF j = j1 THEN 2 ELSE 1]

NoSkew == [r \in Replica |-> 0]

\* r2's clock runs one unit ahead of r1's.
AheadSkew == [r \in Replica |-> IF r = r2 THEN 1 ELSE 0]

TokenSymmetry == Permutations(Token)
=============================================================================
