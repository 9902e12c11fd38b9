--------------------------- MODULE PaymentStatus ----------------------------
(***************************************************************************)
(* The payment lifecycle and how the ledger takes in what a provider says  *)
(* about a payment: the table of moves, the classification of a re-read    *)
(* status and of the money that comes with it, the dedupe of updates, the  *)
(* correction of an anomaly that a second read confirms.                   *)
(*                                                                         *)
(* Everything here is an operator on one payment. Currencies, references   *)
(* and malformed amounts are left out: updates are well formed and about   *)
(* the payment they are matched with. Amounts are whole units.             *)
(***************************************************************************)
EXTENDS Integers, FiniteSets

Open == {"pending", "requires_action", "at_device", "authorized", "cancelling"}

Captured == {"paid", "partially_refunded", "refunded"}

\* A final word without money.
GaveUp == {"failed", "cancelled", "expired"}

Status == Open \cup Captured \cup GaveUp

\* What counts toward the document's paid total.
Counts == {"paid", "partially_refunded"}

NoStatus == "none"

transitions ==
    [pending |-> {"requires_action", "at_device", "authorized", "paid",
                  "cancelling"} \cup GaveUp,
     requires_action |-> {"pending", "authorized", "paid", "cancelling"} \cup GaveUp,
     at_device |-> {"authorized", "paid", "cancelling"} \cup GaveUp,
     authorized |-> {"paid", "cancelling"} \cup GaveUp,
     cancelling |-> {"paid", "authorized", "at_device"} \cup GaveUp,
     paid |-> {"partially_refunded", "refunded"},
     partially_refunded |-> {"partially_refunded", "refunded"},
     failed |-> {}, cancelled |-> {}, expired |-> {}, refunded |-> {}]

CanTransition(from, to) == to \in transitions[from]

----------------------------------------------------------------------------
(* Re-reads *)

openRank == [pending |-> 0, requires_action |-> 1, at_device |-> 1,
             authorized |-> 2, cancelling |-> 3]

OlderOpen(to, from) ==
    from \in Open /\ to \in Open /\ openRank[to] <= openRank[from]

advances(from, to) ==
    CanTransition(from, to) /\ (from = "cancelling" \/ ~ OlderOpen(to, from))

\* The sets of statuses the search does not leave, never going through cancelling.
Closed ==
    {S \in SUBSET Status :
        \A s \in S, n \in Status \ {"cancelling"} : advances(s, n) => n \in S}

\* visited[from]: what the search from a status walks through.
visited ==
    [from \in Status |-> {n \in Status : \A S \in Closed : from \in S => n \in S}]

Reachable(from, to) == \E s \in visited[from] : advances(s, to)

Apply == [decision |-> "apply", reason |-> ""]
Ignore(reason) == [decision |-> "ignore", reason |-> reason]
Anomaly(reason) == [decision |-> "anomaly", reason |-> reason]

ObserveMislabelled(stored, observed) ==
    IF stored = observed /\ stored # "partially_refunded" THEN Ignore("duplicate")
    ELSE IF Reachable(stored, observed) THEN Apply
    ELSE IF stored \in GaveUp /\ observed \in Captured \cup {"authorized"}
         THEN Anomaly("late_capture")
    ELSE IF stored \in Captured /\ observed \notin Open
         THEN Anomaly("refund_reversed")
    ELSE Ignore("stale")

\* The classification of a re-read status against the stored one.
Observe(stored, observed) ==
    IF stored = observed /\ stored # "partially_refunded" THEN Ignore("duplicate")
    ELSE IF Reachable(stored, observed) THEN Apply
    ELSE IF stored \in GaveUp /\ observed \in Captured \cup {"authorized"}
         THEN Anomaly("late_capture")
    ELSE IF observed \in Open THEN Ignore("stale")
    ELSE IF stored \in Captured /\ observed \in GaveUp
         THEN Anomaly("capture_reversed")
    ELSE IF stored \in Captured /\ observed \in Captured
         THEN Anomaly("refund_reversed")
    ELSE Ignore("stale")

----------------------------------------------------------------------------
(* Money *)

NoTotal == -1  \* an update that says nothing about the refunded total

\* kind: about the payment or about one refund of it. event: whether the
\* provider numbered the update.
Outcome(status, kind, amount, total, event) ==
    [status |-> status, kind |-> kind, amount |-> amount,
     amountRefunded |-> total, event |-> event]

StatusAfterRefunds(amount, refunded) ==
    IF refunded <= 0 THEN "paid"
    ELSE IF refunded >= amount THEN "refunded" ELSE "partially_refunded"

observedRefunded(p, o) ==
    IF o.amountRefunded # NoTotal THEN o.amountRefunded
    ELSE IF o.status = "refunded" THEN p.amount
    ELSE IF o.status = "paid" THEN 0
    ELSE IF o.kind = "refund" THEN p.amountRefunded + o.amount
    ELSE NoTotal

neverStale(p, observed) == FALSE

\* A refused cancellation goes back to the status it was requested from or to a
\* newer one.
staleAfterCancelling(p, observed) ==
    /\ p.status = "cancelling"
    /\ p.cancelledFrom \in Open \ {"cancelling"}
    /\ observed \in Open \ {"cancelling", p.cancelledFrom}
    /\ openRank[observed] <= openRank[p.cancelledFrom]

\* The classification of an update: the money first, then the status.
ObserveOutcome(p, o) ==
    LET total == observedRefunded(p, o)
        known == o.status \in Captured /\ total # NoTotal
    IN  IF /\ o.kind = "payment"
           /\ o.status \in Captured \cup {"authorized"}
           /\ o.amount # p.amount
        THEN Anomaly("amount_mismatch")
        ELSE IF known /\ total > p.amount THEN Anomaly("amount_mismatch")
        ELSE IF known /\ total < p.amountRefunded THEN Anomaly("refund_reversed")
        ELSE IF known /\ StatusAfterRefunds(p.amount, total) # o.status
             THEN Anomaly("amount_mismatch")
        ELSE IF known /\ p.status = "partially_refunded" /\ o.status = p.status
             THEN IF total = p.amountRefunded THEN Ignore("duplicate") ELSE Apply
        ELSE IF staleAfterCancelling(p, o.status) THEN Ignore("stale")
        ELSE Observe(p.status, o.status)

----------------------------------------------------------------------------
(* Recording an update *)

moneyMismatch == {"amount_mismatch"}

\* The id an update is deduplicated by: the provider's, or derived from what the
\* update says. mark tells apart the rows the ledger derives from one id.
EventID(o, mark) ==
    [kind |-> o.kind, status |-> o.status, amount |-> o.amount,
     amountRefunded |-> o.amountRefunded, event |-> o.event, mark |-> mark]

\* The second read in a row that contradicts the lifecycle in the same way.
Corrects(p, o, source) ==
    LET d == ObserveOutcome(p, o)
    IN  /\ d.decision = "anomaly"
        /\ source = "reconcile"
        /\ p.anomaly = d.reason
        /\ p.anomalyStatus = o.status
        /\ d.reason \notin moneyMismatch

\* The event rows the update is recorded under: what it is deduplicated by, and
\* for a derived id that comes back as a valid move a row of its own.
EventRows(p, o, source) ==
    LET id == EventID(o, "")
        moved == /\ ObserveOutcome(p, o).decision = "apply"
                 /\ ~ o.event
                 /\ p.status # o.status
    IN  IF Corrects(p, o, source) THEN {EventID(o, "corrected")}
        ELSE IF id \in p.events /\ moved THEN {id, EventID(o, p.status)}
        ELSE {id}

DuplicateId(p, o, source) == EventID(o, "") \in p.events

Duplicate(p, o, source) ==
    ~ Corrects(p, o, source) /\ EventRows(p, o, source) \subseteq p.events

\* Whether the update changes the payment.
Applies(p, o, source) ==
    /\ ~ Duplicate(p, o, source)
    /\ ObserveOutcome(p, o).decision = "apply" \/ Corrects(p, o, source)

applyOutcome(p, o) ==
    [p EXCEPT
        !.status = o.status,
        !.cancelledFrom = IF o.status = "cancelling" THEN @ ELSE NoStatus,
        !.amountRefunded =
            IF o.status = "refunded" THEN p.amount
            ELSE IF o.amountRefunded # NoTotal THEN o.amountRefunded
            ELSE IF o.kind = "refund" /\ o.status = "partially_refunded"
            THEN @ + o.amount
            ELSE @]

\* The payment after the transaction of observe: the update is recorded once,
\* applied, ignored or flagged; a confirmed anomaly is applied and its flag goes.
observe(p, o, source) ==
    LET d == ObserveOutcome(p, o)
        q == [p EXCEPT !.events = @ \cup EventRows(p, o, source)]
    IN  IF Duplicate(p, o, source) THEN p
        ELSE IF Corrects(p, o, source)
        THEN [applyOutcome(q, o) EXCEPT !.anomaly = "", !.anomalyStatus = NoStatus]
        ELSE IF d.decision = "apply" THEN applyOutcome(q, o)
        ELSE IF d.decision = "anomaly"
        THEN [q EXCEPT !.anomaly = d.reason, !.anomalyStatus = o.status]
        ELSE q
=============================================================================
