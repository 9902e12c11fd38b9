---------------------------- MODULE LeasedQueue -----------------------------
(***************************************************************************)
(* What a durable work queue with leases promises, without clocks, tokens  *)
(* or database rows: an item is queued, held by at most one actor, or      *)
(* ended; of all the actors that work on an item only the holder decides   *)
(* its fate; an actor that lost an item can finish its work but do nothing *)
(* to the item; and an item is started at most Budget times, starts that   *)
(* were given back apart. The job queue (Outbox) and the delivery ledger   *)
(* (Dispatch) both implement it.                                           *)
(***************************************************************************)
EXTENDS Naturals

CONSTANTS
    Item,         \* the units of work
    Actor,        \* whoever can work on one
    Budget,       \* Budget[i]: how often item i may be started
    Discardable,  \* the items that may be thrown away before they ended
    NoItem

VARIABLES
    phase,   \* phase[i]: where item i is in its life
    holder,  \* holder[i]: the actors that can still decide item i's fate
    used,    \* used[i]: starts of item i that were not given back
    work     \* work[a]: the item actor a works on

qvars == <<phase, holder, used, work>>

QInit ==
    /\ phase = [i \in Item |-> "absent"]
    /\ holder = [i \in Item |-> {}]
    /\ used = [i \in Item |-> 0]
    /\ work = [a \in Actor |-> NoItem]

Put(i, p, h, n) ==
    /\ phase' = [phase EXCEPT ![i] = p]
    /\ holder' = [holder EXCEPT ![i] = h]
    /\ used' = [used EXCEPT ![i] = n]

\* A new item, queued or handed at once to the actor that brought it, which may
\* be gone already.
Submit(i) ==
    /\ phase[i] = "absent"
    /\ \/ /\ \/ Put(i, "queued", {}, 0)
             \/ Put(i, "held", {}, 1)
          /\ UNCHANGED work
       \/ \E a \in Actor : /\ work[a] = NoItem
                           /\ Put(i, "held", {a}, 1)
                           /\ work' = [work EXCEPT ![a] = i]

\* Idle actors take the items get gives them, queued or held by someone presumed
\* gone; each start is paid from the budget.
Take(get) ==
    LET Taken == {get[a] : a \in DOMAIN get}
    IN  /\ \A a, b \in DOMAIN get : a # b => get[a] # get[b]
        /\ \A a \in DOMAIN get : work[a] = NoItem
        /\ \A i \in Taken : /\ phase[i] \in {"queued", "held"}
                            /\ used[i] < Budget[i]
        /\ phase' = [i \in Item |-> IF i \in Taken THEN "held" ELSE phase[i]]
        /\ holder' = [i \in Item |-> IF i \in Taken
                                     THEN {a \in DOMAIN get : get[a] = i}
                                     ELSE holder[i]]
        /\ used' = [i \in Item |-> IF i \in Taken THEN used[i] + 1 ELSE used[i]]
        /\ work' = [a \in Actor |-> IF a \in DOMAIN get THEN get[a] ELSE work[a]]

\* Items are started for actors that never hear of it.
Waste(S) ==
    /\ \A i \in S : /\ phase[i] \in {"queued", "held"}
                    /\ used[i] < Budget[i]
    /\ phase' = [i \in Item |-> IF i \in S THEN "held" ELSE phase[i]]
    /\ holder' = [i \in Item |-> IF i \in S THEN {} ELSE holder[i]]
    /\ used' = [i \in Item |-> IF i \in S THEN used[i] + 1 ELSE used[i]]
    /\ UNCHANGED work

\* A holder ends its item, or queues it again with budget left: the start is
\* spent or given back.
Decide(a, i) ==
    /\ work[a] = i
    /\ a \in holder[i]
    /\ \/ Put(i, "ended", {}, used[i])
       \/ \E n \in {used[i], used[i] - 1} :
             n < Budget[i] /\ Put(i, "queued", {}, n)
    /\ work' = [work EXCEPT ![a] = NoItem]

\* Actors stop working and leave the item they work on as it is: they crashed,
\* lost it, or failed to record what became of it.
Leave(A) ==
    /\ holder' = [i \in Item |-> holder[i] \ A]
    /\ work' = [a \in Actor |-> IF a \in A THEN NoItem ELSE work[a]]
    /\ UNCHANGED <<phase, used>>

\* Items whose last start came to nothing are ended by anyone.
Bury(S) ==
    /\ \A i \in S : phase[i] = "held" /\ used[i] >= Budget[i]
    /\ phase' = [i \in Item |-> IF i \in S THEN "ended" ELSE phase[i]]
    /\ holder' = [i \in Item |-> IF i \in S THEN {} ELSE holder[i]]
    /\ UNCHANGED <<used, work>>

\* An ended item is given a new budget.
Revive(i) ==
    /\ phase[i] = "ended"
    /\ Put(i, "queued", {}, 0)
    /\ UNCHANGED work

\* Ended items are forgotten, discardable ones at any time.
Forget(S) ==
    /\ \A i \in S : phase[i] = "ended" \/ i \in Discardable
    /\ phase' = [i \in Item |-> IF i \in S THEN "absent" ELSE phase[i]]
    /\ used' = [i \in Item |-> IF i \in S THEN 0 ELSE used[i]]
    /\ holder' = [i \in Item |-> IF i \in S THEN {} ELSE holder[i]]
    /\ UNCHANGED work

QNext ==
    \/ \E i \in Item : Submit(i) \/ Revive(i)
    \/ \E A \in SUBSET Actor : \E get \in [A -> Item] : Take(get)
    \/ \E a \in Actor, i \in Item : Decide(a, i)
    \/ \E A \in SUBSET Actor : Leave(A)
    \/ \E S \in SUBSET Item : Waste(S) \/ Bury(S) \/ Forget(S)

QSpec == QInit /\ [][QNext]_qvars
=============================================================================
