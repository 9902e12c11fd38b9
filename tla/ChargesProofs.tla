--------------------------- MODULE ChargesProofs ----------------------------
(***************************************************************************)
(* Proofs about Charges for any finite set of attempts, any amounts, any   *)
(* number of goroutines and tills, and any moves of the provider.          *)
(***************************************************************************)
EXTENDS Charges, SumProofs, SequenceTheorems

----------------------------------------------------------------------------
(* The inductive invariant *)

\* The statuses a payment of this document can have: no refunds.
Known == Open \cup GaveUp \cup {"paid"}

Pc == {"idle", "create", "created", "refused", "observe", "settle", "cancel",
       "cancelling", "reread"}

Work == [pc : Pc, attempt : Attempt \cup {NoAttempt}, about : Attempt \cup {NoAttempt},
         status : Known \cup {NoStatus},
         source : {"none", "poll", "reconcile", "webhook"}, paid : Nat, held : BOOLEAN]

Typed ==
    /\ created \in Seq(Attempt)
    /\ payments \in [Attempt -> Types]
    /\ hold \in [till : Till \cup {NoTill}, live : BOOLEAN]
    /\ procs \in [Proc -> Work]
    /\ posted \in SUBSET Attempt
    /\ provider \in [Attempt -> [status : Known \cup {NoStatus},
                                 from : Open \cup {NoStatus}]]
    /\ reports \in SUBSET [about : Attempt, status : Known]
    /\ late \in SUBSET Attempt
    /\ misjudged \in SUBSET Attempt
    /\ cancels \in 0..MaxCancels

\* An attempt without a row has left no trace, and drawer cash stays paid.
RowsFilled ==
    \A c \in Attempt :
        IF c \in Rows
        THEN /\ payments[c].status \in Known
             /\ payments[c].amount \in Amount
             /\ payments[c].channel \in {"cash", "terminal"}
             /\ payments[c].channel = "cash" =>
                    payments[c].status = "paid" /\ payments[c].ref = c
        ELSE payments[c] = NoPayment

\* What the provider has, or will get, was charged through it and has a row.
ByTerminal(c) == c \in Rows /\ payments[c].channel = "terminal"

SentHasRow ==
    \A c \in Attempt :
        /\ Sent(c) => ByTerminal(c)
        /\ c \in posted => provider[c].status = NoStatus

\* A final word without money about d stays true until a late capture.
Said(d, s) ==
    /\ d \in Attempt
    /\ s \in Known
    /\ provider[d].status # NoStatus
    /\ s \in GaveUp => provider[d].status \in GaveUp \/ d \in late

ReportsTrue == \A r \in reports : Said(r.about, r.status)

\* While no error was misjudged, a transaction writes the row it has read about.
WorkSound(r) ==
    /\ r.pc \in {"create", "created", "refused", "settle", "cancel", "cancelling", "reread"}
       => r.attempt \in Attempt /\ ByTerminal(r.attempt)
    /\ r.pc = "created" => Said(r.attempt, r.status)
    /\ r.pc = "refused" => ~ Sent(r.attempt)
    /\ r.pc \in {"observe", "settle"} => Said(r.about, r.status)
    /\ r.pc = "settle" /\ misjudged = {} => r.attempt = r.about
    /\ r.pc \in {"cancel", "cancelling"} => r.status \in Open

WorkTrue == \A w \in Proc : WorkSound(procs[w])

\* A payment that the provider has, or will get, while the ledger does not know
\* its reference is open and is the newest of the document.
Newest(c) == Len(created) > 0 /\ created[Len(created)] = c

Unconfirmed ==
    \A c \in Attempt :
        Sent(c) /\ payments[c].ref = NoAttempt => payments[c].status \in Open /\ Newest(c)

\* A reference in the ledger is that of the row's own payment.
OwnRefs == \A c \in Attempt : payments[c].ref \in {NoAttempt, c}

\* What has money, or may get it without a late capture, is open or paid in the
\* ledger, and together no more than the document's total.
Live(c) ==
    \/ c \in posted
    \/ provider[c].status \in Open \cup {"paid"}
    \/ payments[c].channel = "cash"

LiveSet == {c \in Attempt \ late : Live(c)}

LiveKept == \A c \in LiveSet : payments[c].status \in Open \cup {"paid"}

LiveWithin == Sum(payments, LiveSet) <= Total

\* What the ledger knows of the provider, which an error that is taken for the
\* refusal of a request that reached it undoes.
Faithful ==
    /\ Unconfirmed
    /\ OwnRefs
    /\ LiveKept
    /\ LiveWithin

IInv ==
    /\ Typed
    /\ RowsFilled
    /\ SentHasRow
    /\ ReportsTrue
    /\ WorkTrue
    /\ OneOpen
    /\ misjudged = {} => Faithful

----------------------------------------------------------------------------
(* The lattice *)

\* A search stays in a closed set it starts in.
LEMMA SearchStays ==
    ASSUME NEW C \in SUBSET Status, NEW from \in C, NEW to,
           \A s \in C, n \in Status \ {"cancelling"} : advances(s, n) => n \in C,
           Reachable(from, to)
    PROVE  \E s \in C : advances(s, to)
<1>1. C \in Closed
  BY DEF Closed
<1>2. visited[from] \subseteq C
  BY <1>1 DEF visited
<1> QED
  BY <1>2 DEF Reachable

\* The moves from the statuses an authorization can lead to.
LEMMA MovesOn ==
    /\ transitions["authorized"] = {"paid", "cancelling"} \cup GaveUp
    /\ transitions["paid"] = {"partially_refunded", "refunded"}
    /\ transitions["partially_refunded"] = {"partially_refunded", "refunded"}
    /\ transitions["refunded"] = {}
    /\ \A s \in GaveUp : transitions[s] = {}
<1> USE DEF transitions
<1>1. transitions["authorized"] = {"paid", "cancelling"} \cup GaveUp
  BY Zenon
<1>2. transitions["paid"] = {"partially_refunded", "refunded"}
  BY Zenon
<1>3. transitions["partially_refunded"] = {"partially_refunded", "refunded"}
  BY Zenon
<1>4. transitions["refunded"] = {}
  BY Zenon
<1>5. transitions["failed"] = {} /\ transitions["cancelled"] = {} /\ transitions["expired"] = {}
  BY Zenon
<1> HIDE DEF transitions
<1> QED
  BY <1>1, <1>2, <1>3, <1>4, <1>5 DEF GaveUp

\* No reading takes an authorization back to a step before it.
LEMMA PastAuthorized ==
    ASSUME NEW to, Reachable("authorized", to)
    PROVE  to \notin {"pending", "requires_action", "at_device"}
<1> DEFINE C == {"authorized"} \cup Captured \cup GaveUp
<1>1. \A s \in C : \A n : advances(s, n) => n \in C \cup {"cancelling"}
  BY MovesOn DEF advances, CanTransition, Captured, GaveUp
<1>2. C \in SUBSET Status
  BY DEF Status, Open
<1>3. \E s \in C : advances(s, to)
  <2> HIDE DEF C
  <2>1. "authorized" \in C
    BY DEF C
  <2> QED
    BY <1>1, <1>2, <2>1, SearchStays
<1> QED
  BY <1>1, <1>3 DEF Captured, GaveUp

\* No reading moves a payment that is paid, or was given up, to a status of a
\* document without refunds.
LEMMA PastEnd ==
    ASSUME NEW from \in GaveUp \cup {"paid"}, NEW to \in Known
    PROVE  ~ Reachable(from, to)
<1> DEFINE C == Captured \cup GaveUp
<1>1. \A s \in C : \A n : advances(s, n) => n \in {"partially_refunded", "refunded"}
  BY MovesOn DEF advances, CanTransition, Captured, GaveUp
<1>2. C \in SUBSET Status /\ from \in C
  BY DEF Status, Captured
<1>3. to \notin {"partially_refunded", "refunded"}
  BY DEF Known, Open, GaveUp
<1>4. Reachable(from, to) => \E s \in C : advances(s, to)
  <2>1. {"partially_refunded", "refunded"} \subseteq C
    BY DEF Captured
  <2> HIDE DEF C
  <2> QED
    BY <1>1, <1>2, <2>1, SearchStays
<1> QED
  BY <1>1, <1>3, <1>4

----------------------------------------------------------------------------
(* Readings *)

\* What a reading says of a payment of this document over amount a.
Told(a, s, ev) == Outcome(s, "payment", a, NoTotal, ev)

LEMMA Fields ==
    ASSUME NEW a, NEW s, NEW ev
    PROVE  /\ Told(a, s, ev).status = s
           /\ Told(a, s, ev).kind = "payment"
           /\ Told(a, s, ev).amount = a
           /\ Told(a, s, ev).amountRefunded = NoTotal
           /\ Told(a, s, ev).event = ev
BY DEF Told, Outcome

LEMMA AmountsPositive ==
    \A a \in Amount : a \in Nat /\ a > 0
BY ChargesConstants DEF Amount

LEMMA AskedIsAmount ==
    \A c \in Attempt : AmountOf[c] \subseteq Amount
BY DEF Amount

\* The amount of a reading is not that of the row.
Mismatch(p, a, s) == s \in Captured \cup {"authorized"} /\ a # p.amount

\* The status decides unless the money disagrees.
LEMMA StatusDecides ==
    ASSUME NEW p \in Types, p.amount \in Amount, NEW a, NEW s \in Known, NEW ev
    PROVE  ObserveOutcome(p, Told(a, s, ev)) =
               IF Mismatch(p, a, s) THEN Anomaly("amount_mismatch")
               ELSE IF staleAfterCancelling(p, s) THEN Ignore("stale")
               ELSE Observe(p.status, s)
<1> DEFINE o == Told(a, s, ev)
           total == observedRefunded(p, o)
           known == o.status \in Captured /\ total # NoTotal
<1>1. /\ o.status = s /\ o.kind = "payment" /\ o.amount = a
      /\ o.amountRefunded = NoTotal
  BY Fields
<1>2. p.amount \in Nat /\ p.amount > 0 /\ p.amountRefunded = 0
  <2>1. p.amountRefunded = 0
    BY DEF Types
  <2> QED
    BY <2>1, AmountsPositive
<1> HIDE DEF o
<1>3. s \in Captured => s = "paid" /\ total = 0
  BY <1>1 DEF Known, Captured, Open, GaveUp, observedRefunded
<1>4. StatusAfterRefunds(p.amount, 0) = "paid"
  BY DEF StatusAfterRefunds
<1>5. ~ (known /\ total > p.amount)
  BY <1>1, <1>2, <1>3
<1>6. ~ (known /\ total < p.amountRefunded)
  BY <1>1, <1>2, <1>3
<1>7. ~ (known /\ StatusAfterRefunds(p.amount, total) # o.status)
  BY <1>1, <1>3, <1>4
<1>8. ~ (known /\ p.status = "partially_refunded" /\ o.status = p.status)
  BY <1>1, <1>3
<1>9. ObserveOutcome(p, o) = IF Mismatch(p, a, s) THEN Anomaly("amount_mismatch")
                             ELSE IF staleAfterCancelling(p, o.status) THEN Ignore("stale")
                             ELSE Observe(p.status, o.status)
  <2> HIDE DEF known, total
  <2> QED
    BY <1>1, <1>5, <1>6, <1>7, <1>8 DEF ObserveOutcome, known, total, Mismatch
<1> QED
  BY <1>1, <1>9 DEF o

\* A reading moves an open payment, contradicts one that has ended, disagrees about
\* the money, or is ignored.
LEMMA Classified ==
    ASSUME NEW p \in Types, p.status \in Known, p.amount \in Amount, NEW a,
           NEW s \in Known, NEW ev
    PROVE  LET d == ObserveOutcome(p, Told(a, s, ev))
           IN  \/ /\ d = Apply
                  /\ p.status \in Open
                  /\ ~ staleAfterCancelling(p, s)
                  /\ Reachable(p.status, s)
               \/ /\ d = Anomaly("late_capture")
                  /\ p.status \in GaveUp
                  /\ s \in {"paid", "authorized"}
               \/ /\ d = Anomaly("capture_reversed")
                  /\ p.status = "paid"
                  /\ s \in GaveUp
               \/ d = Anomaly("amount_mismatch") /\ a # p.amount
               \/ d = Ignore("stale") \/ d = Ignore("duplicate")
<1> DEFINE d == ObserveOutcome(p, Told(a, s, ev))
<1>1. d = IF Mismatch(p, a, s) THEN Anomaly("amount_mismatch")
          ELSE IF staleAfterCancelling(p, s) THEN Ignore("stale")
          ELSE Observe(p.status, s)
  BY StatusDecides
<1>2. p.status \in GaveUp \cup {"paid"} => ~ Reachable(p.status, s)
  BY PastEnd
<1>3. s \in Captured => s = "paid"
  BY DEF Known, Captured, Open, GaveUp
<1>4. p.status \in Captured => p.status = "paid"
  BY DEF Known, Captured, Open, GaveUp
<1>5. s \in Open \/ s \in GaveUp \/ s = "paid"
  BY DEF Known
<1>6. p.status \in Open \/ p.status \in GaveUp \/ p.status = "paid"
  BY DEF Known
<1>7. "authorized" \in Open /\ p.status \in Open => p.status \notin GaveUp \cup Captured
  BY DEF Open, GaveUp, Captured
<1> HIDE DEF d
<1>10. CASE Mismatch(p, a, s)
  BY <1>1, <1>10 DEF d, Mismatch
<1>8. CASE ~ Mismatch(p, a, s) /\ staleAfterCancelling(p, s)
  BY <1>1, <1>8 DEF d
<1>9. CASE ~ Mismatch(p, a, s) /\ ~ staleAfterCancelling(p, s)
  <2>1. d = Observe(p.status, s)
    BY <1>1, <1>9
  <2>2. CASE p.status = s /\ p.status # "partially_refunded"
    BY <2>1, <2>2 DEF Observe, d
  <2>3. CASE p.status # s /\ Reachable(p.status, s)
    BY <2>1, <2>3, <1>2, <1>6, <1>9 DEF Observe, d
  <2>4. CASE p.status # s /\ ~ Reachable(p.status, s)
    BY <2>1, <2>4, <1>3, <1>4, <1>5, <1>6, <1>7 DEF Observe, d
  <2>5. p.status # "partially_refunded"
    BY DEF Known, Open, GaveUp
  <2> QED
    BY <2>2, <2>3, <2>4, <2>5
<1> QED
  BY <1>8, <1>9, <1>10

EventType == [kind : {"payment"}, status : Status, amount : Amount,
              amountRefunded : {NoTotal}, event : BOOLEAN,
              mark : Status \cup {"", "corrected"}]

\* A reading is recorded under ids of events of this document.
LEMMA EventsTyped ==
    ASSUME NEW p \in Types, p.status \in Known, NEW a \in Amount, NEW s \in Known,
           NEW ev \in BOOLEAN, NEW source
    PROVE  /\ EventID(Told(a, s, ev), "") \in EventType
           /\ EventRows(p, Told(a, s, ev), source) \subseteq EventType
<1> DEFINE o == Told(a, s, ev)
<1>1. /\ o.status = s /\ o.kind = "payment" /\ o.amount = a
      /\ o.amountRefunded = NoTotal /\ o.event = ev
  BY Fields
<1>2. s \in Status /\ p.status \in Status
  BY DEF Known, Status, Captured
<1> HIDE DEF o
<1>3. ASSUME NEW mark \in Status \cup {"", "corrected"}
      PROVE  EventID(o, mark) \in EventType
  BY <1>1, <1>2, <1>3 DEF EventID, EventType
<1>4. /\ EventID(o, "") \in EventType
      /\ EventID(o, "corrected") \in EventType
      /\ EventID(o, p.status) \in EventType
  BY <1>2, <1>3
<1>5. EventRows(p, o, source) \subseteq {EventID(o, ""), EventID(o, "corrected"), EventID(o, p.status)}
  BY Zenon DEF EventRows
<1> QED
  BY <1>4, <1>5 DEF o

\* The ways a reading changes a row.
Noted(p, ids) == [p EXCEPT !.events = @ \cup ids]

Moved(p, s, from) ==
    [p EXCEPT !.status = s, !.cancelledFrom = from, !.amountRefunded = 0]

Flagged(p, a, s) == [p EXCEPT !.anomaly = a, !.anomalyStatus = s]

SameCharge(q, p) ==
    /\ q.amount = p.amount
    /\ q.channel = p.channel
    /\ q.ref = p.ref
    /\ q.corrected = p.corrected

LEMMA RowNoted ==
    ASSUME NEW p \in Types, NEW ids \in SUBSET EventType
    PROVE  /\ Noted(p, ids) \in Types
           /\ SameCharge(Noted(p, ids), p)
           /\ Noted(p, ids).status = p.status
           /\ Noted(p, ids).cancelledFrom = p.cancelledFrom
           /\ Noted(p, ids).events = p.events \cup ids
BY DEF Types, EventType, Noted, SameCharge

LEMMA RowMoved ==
    ASSUME NEW p \in Types, NEW s \in Status, NEW from \in Open \cup {NoStatus}
    PROVE  /\ Moved(p, s, from) \in Types
           /\ SameCharge(Moved(p, s, from), p)
           /\ Moved(p, s, from).status = s
           /\ Moved(p, s, from).events = p.events
BY DEF Types, Moved, SameCharge

Reasons == {"late_capture", "capture_reversed", "amount_mismatch"}

LEMMA RowFlagged ==
    ASSUME NEW p \in Types, NEW a \in Reasons \cup {""},
           NEW s \in Status \cup {NoStatus}
    PROVE  /\ Flagged(p, a, s) \in Types
           /\ SameCharge(Flagged(p, a, s), p)
           /\ Flagged(p, a, s).status = p.status
           /\ Flagged(p, a, s).cancelledFrom = p.cancelledFrom
           /\ Flagged(p, a, s).events = p.events
BY DEF Types, Flagged, SameCharge, Reasons

\* A reading that is applied moves the row.
LEMMA OutcomeMoves ==
    ASSUME NEW p \in Types, NEW s \in Known, NEW a, NEW ev
    PROVE  LET o == Outcome(s, "payment", a, NoTotal, ev)
               from == IF s = "cancelling" THEN p.cancelledFrom ELSE NoStatus
           IN  from \in Open \cup {NoStatus} /\ applyOutcome(p, o) = Moved(p, s, from)
<1> DEFINE o == Outcome(s, "payment", a, NoTotal, ev)
           from == IF s = "cancelling" THEN p.cancelledFrom ELSE NoStatus
<1>1. o.status = s /\ o.kind = "payment" /\ o.amountRefunded = NoTotal
  BY DEF Outcome
<1>2. s # "refunded"
  BY DEF Known, Open, GaveUp
<1>3. p.amountRefunded = 0 /\ from \in Open \cup {NoStatus}
  BY DEF Types
<1>4. applyOutcome(p, o) = Moved(p, s, from)
  <2> HIDE DEF o
  <2> QED
    BY <1>1, <1>2, <1>3 DEF applyOutcome, Moved
<1> QED
  BY <1>3, <1>4

LEMMA Decisions ==
    /\ Apply.decision = "apply"
    /\ \A reason : /\ Ignore(reason).decision = "ignore"
                   /\ Anomaly(reason).decision = "anomaly"
                   /\ Anomaly(reason).reason = reason
BY DEF Apply, Ignore, Anomaly

\* What the transaction of observe does to a row.
LEMMA Effect ==
    ASSUME NEW p \in Types, p.status \in Known, p.amount \in Amount, NEW a \in Amount,
           NEW s \in Known, NEW ev \in BOOLEAN, NEW source
    PROVE  LET o == Told(a, s, ev)
               q == observe(p, o, source)
           IN  /\ q \in Types
               /\ SameCharge(q, p)
               /\ p.events \subseteq q.events
               /\ Corrects(p, o, source) => Applies(p, o, source)
               /\ ~ Applies(p, o, source)
                  => q.status = p.status /\ q.cancelledFrom = p.cancelledFrom
               /\ Applies(p, o, source)
                  => /\ q.status = s
                     /\ \/ /\ p.status \in Open
                           /\ ~ staleAfterCancelling(p, s)
                           /\ Reachable(p.status, s)
                        \/ /\ p.status \in GaveUp \cup {"paid"}
                           /\ Corrects(p, o, source)
<1> DEFINE o == Told(a, s, ev)
           d == ObserveOutcome(p, o)
           ids == EventRows(p, o, source)
           r == Noted(p, ids)
           q == observe(p, o, source)
<1>1. \/ /\ d = Apply
         /\ p.status \in Open
         /\ ~ staleAfterCancelling(p, s)
         /\ Reachable(p.status, s)
      \/ /\ d = Anomaly("late_capture")
         /\ p.status \in GaveUp
         /\ s \in {"paid", "authorized"}
      \/ /\ d = Anomaly("capture_reversed")
         /\ p.status = "paid"
         /\ s \in GaveUp
      \/ d = Anomaly("amount_mismatch") /\ a # p.amount
      \/ d = Ignore("stale") \/ d = Ignore("duplicate")
  BY Classified
<1>2. ids \in SUBSET EventType
  BY EventsTyped
<1>3. o.status = s /\ s \in Status
  BY Fields DEF Known, Status, Captured
<1>4. /\ r \in Types /\ SameCharge(r, p)
      /\ r.status = p.status /\ r.cancelledFrom = p.cancelledFrom
      /\ r.events = p.events \cup ids
  <2> HIDE DEF ids
  <2> QED
    BY <1>2, RowNoted
<1> DEFINE x == applyOutcome(r, o)
           c == Flagged(x, "", NoStatus)
           f == Flagged(r, d.reason, o.status)
<1>5. x \in Types /\ SameCharge(x, p) /\ x.status = s /\ x.events = p.events \cup ids
  <2> HIDE DEF r
  <2>1. PICK from \in Open \cup {NoStatus} : x = Moved(r, s, from)
    BY <1>4, OutcomeMoves DEF Told
  <2> HIDE DEF x
  <2> QED
    BY <1>3, <1>4, <2>1, RowMoved DEF SameCharge
<1>6. q = IF Duplicate(p, o, source) THEN p
          ELSE IF Corrects(p, o, source) THEN c
          ELSE IF d.decision = "apply" THEN x
          ELSE IF d.decision = "anomaly" THEN f
          ELSE r
  <2> HIDE DEF o
  <2> QED
    BY DEF observe, Noted, Flagged
<1>7. /\ d.decision = "anomaly" => d.reason \in Reasons
      /\ d.decision = "anomaly" /\ d.reason \notin moneyMismatch
         => p.status \in GaveUp \cup {"paid"}
      /\ d.decision = "apply" => /\ p.status \in Open
                                 /\ ~ staleAfterCancelling(p, s)
                                 /\ Reachable(p.status, s)
  <2> HIDE DEF d
  <2> QED
    BY <1>1, Decisions DEF Reasons, moneyMismatch
<1>8. Corrects(p, o, source) => d.decision = "anomaly" /\ d.reason \notin moneyMismatch
  BY DEF Corrects
<1>9. Applies(p, o, source) <=> /\ ~ Duplicate(p, o, source)
                                /\ d.decision = "apply" \/ Corrects(p, o, source)
  BY DEF Applies
<1>10. Corrects(p, o, source) => ~ Duplicate(p, o, source)
  BY DEF Duplicate
<1> HIDE DEF o, d, ids, q
<1>11. CASE Duplicate(p, o, source)
  BY <1>6, <1>9, <1>10, <1>11 DEF o, q, SameCharge
<1>12. CASE Corrects(p, o, source)
  <2> HIDE DEF x, r
  <2>1. /\ c \in Types /\ SameCharge(c, x) /\ c.status = x.status
        /\ c.events = x.events
    <3>1. "" \in Reasons \cup {""} /\ NoStatus \in Status \cup {NoStatus}
      OBVIOUS
    <3> QED
      BY <1>5, <3>1, RowFlagged
  <2>2. q = c
    BY <1>6, <1>10, <1>12
  <2> HIDE DEF c
  <2>3. /\ q \in Types /\ SameCharge(q, p) /\ q.status = s
        /\ q.events = p.events \cup ids
    BY <1>5, <2>1, <2>2 DEF SameCharge
  <2>4. p.status \in GaveUp \cup {"paid"}
    BY <1>7, <1>8, <1>12
  <2> QED
    BY <2>3, <2>4, <1>9, <1>10, <1>12 DEF o, q
<1>13. CASE ~ Duplicate(p, o, source) /\ ~ Corrects(p, o, source) /\ d.decision = "apply"
  <2> HIDE DEF x, r, c, f
  <2>1. q = x
    BY <1>6, <1>13
  <2> QED
    BY <2>1, <1>5, <1>7, <1>9, <1>13 DEF o, q
<1>14. CASE ~ Duplicate(p, o, source) /\ ~ Corrects(p, o, source) /\ d.decision # "apply"
  <2>1. CASE d.decision = "anomaly"
    <3> HIDE DEF x, r, c
    <3>1. q = f
      <4> HIDE DEF f
      <4> QED
        BY <1>6, <1>14, <2>1
    <3>2. /\ f \in Types /\ SameCharge(f, r) /\ f.status = r.status
          /\ f.cancelledFrom = r.cancelledFrom /\ f.events = r.events
      <4>1. d.reason \in Reasons \cup {""}
        BY <1>7, <2>1
      <4>2. o.status \in Status \cup {NoStatus}
        BY <1>3
      <4> QED
        BY <1>4, <4>1, <4>2, RowFlagged
    <3> HIDE DEF f
    <3> QED
      BY <3>1, <3>2, <1>4, <1>9, <1>14 DEF o, q, SameCharge
  <2>2. CASE d.decision # "anomaly"
    <3> HIDE DEF x, r, c, f
    <3>1. q = r
      BY <1>6, <1>14, <2>2
    <3> QED
      BY <3>1, <1>4, <1>9, <1>14 DEF o, q
  <2> QED
    BY <2>1, <2>2
<1> QED
  BY <1>11, <1>12, <1>13, <1>14

----------------------------------------------------------------------------
(* Recording a reading *)

LEMMA LargestIn ==
    ASSUME NEW n \in Nat, NEW B \in SUBSET (1..n), B # {}
    PROVE  Max(B) \in B /\ \A y \in B : Max(B) >= y
<1> DEFINE Up(i) == {j \in 1..n : j >= i}
           T == {Up(i) : i \in B}
<1>0. PICK K : K = 1..n
  OBVIOUS
<1>1. IsFiniteSet(K)
  <2>1. 1 \in Int /\ n \in Int
    OBVIOUS
  <2> QED
    BY <1>0, <2>1, FS_Interval
<1>2. PICK s \in T : \A u \in T : u \subseteq s => u = s
  <2>1. T \in SUBSET (SUBSET K)
    BY <1>0
  <2>2. T # {}
    OBVIOUS
  <2> HIDE DEF T
  <2> QED
    BY <1>1, <2>1, <2>2, SmallestSubset
<1>3. PICK i \in B : s = Up(i)
  BY <1>2
<1>4. ASSUME NEW y \in B PROVE i >= y
  <2> SUFFICES ASSUME y > i PROVE FALSE
    OBVIOUS
  <2>1. Up(y) \in T /\ Up(y) \subseteq s /\ i \in s /\ i \notin Up(y)
    BY <1>3
  <2> QED
    BY <1>2, <2>1
<1> QED
  BY <1>3, <1>4 DEF Max

\* Whether or not it is the right one, the row found has a payment of the
\* provider, not cash of the drawer.
LEMMA RowFound ==
    ASSUME IInv, NEW d \in Attempt, Sent(d), findPayment(d) # NoAttempt
    PROVE  findPayment(d) \in Attempt /\ ByTerminal(findPayment(d))
<1> DEFINE referenced == {c \in Rows : payments[c].ref = d}
           blank == {i \in DOMAIN created : payments[created[i]].ref = NoAttempt}
<1>1. created \in Seq(Attempt) /\ Rows \subseteq Attempt /\ ByTerminal(d)
  BY DEF IInv, Typed, Rows, Range, SentHasRow
<1>2. \A c \in Rows : payments[c].channel \in {"terminal", "cash"}
                      /\ (payments[c].channel = "cash" => payments[c].ref = c)
  BY <1>1 DEF IInv, RowsFilled
<1>3. CASE referenced # {}
  <2>1. findPayment(d) \in referenced
    BY <1>3 DEF findPayment
  <2> QED
    BY <1>1, <1>2, <2>1 DEF ByTerminal
<1>4. CASE referenced = {}
  <2>1. blank # {} /\ findPayment(d) = created[Max(blank)]
    BY <1>4 DEF findPayment
  <2>2. Len(created) \in Nat /\ blank \in SUBSET (1..Len(created))
    BY <1>1
  <2>3. Max(blank) \in blank
    <3> HIDE DEF blank
    <3> QED
      BY <2>1, <2>2, LargestIn
  <2>4. /\ created[Max(blank)] \in Rows
        /\ payments[created[Max(blank)]].ref = NoAttempt
    BY <2>3 DEF Rows, Range
  <2> QED
    BY <1>1, <1>2, <2>1, <2>4, ChargesConstants DEF ByTerminal
<1> QED
  BY <1>3, <1>4

\* While no error was misjudged, a reading of a payment at the provider finds the
\* row it is about, whether or not the row has the provider's reference yet.
Attributed ==
    misjudged = {} =>
    \A d \in Attempt : provider[d].status # NoStatus => findPayment(d) = d

LEMMA Found ==
    IInv => Attributed
<1> SUFFICES ASSUME IInv, misjudged = {}, NEW d \in Attempt, provider[d].status # NoStatus
             PROVE  findPayment(d) = d
  BY DEF Attributed
<1>0. Faithful /\ Rows \subseteq Attempt /\ NoAttempt # d
  BY ChargesConstants DEF IInv, Typed, Rows, Range
<1>1. Sent(d) /\ d \in Rows
  BY DEF IInv, SentHasRow, Sent, ByTerminal
<1>2. CASE payments[d].ref # NoAttempt
  <2>1. {c \in Rows : payments[c].ref = d} = {d}
    BY <1>0, <1>1, <1>2 DEF Faithful, OwnRefs
  <2> QED
    BY <2>1 DEF findPayment
<1>3. CASE payments[d].ref = NoAttempt
  <2> DEFINE blank == {i \in DOMAIN created : payments[created[i]].ref = NoAttempt}
             n == Len(created)
  <2>0. {c \in Rows : payments[c].ref = d} = {}
    BY <1>0, <1>3 DEF Faithful, OwnRefs
  <2>1. n > 0 /\ created[n] = d
    BY <1>0, <1>1, <1>3 DEF Faithful, Unconfirmed, Newest
  <2>2. created \in Seq(Attempt)
    BY DEF IInv, Typed
  <2>3. n \in Nat /\ DOMAIN created = 1..n
    BY <2>2
  <2>4. n \in blank /\ \A y \in blank : y \in Nat /\ n >= y
    BY <1>3, <2>1, <2>3
  <2> HIDE DEF blank, n
  <2>5. Max(blank) = n
    <3>1. Max(blank) \in blank /\ \A y \in blank : Max(blank) >= y
      BY <2>4 DEF Max
    <3> QED
      BY <2>4, <3>1
  <2>6. findPayment(d) = created[Max(blank)]
    BY <2>0, <2>4 DEF findPayment, blank
  <2> QED
    BY <2>1, <2>5, <2>6
<1> QED
  BY <1>2, <1>3

\* A row that at most its events change of.
Kept(q, p) ==
    SameCharge(q, p) /\ q.status = p.status /\ q.cancelledFrom = p.cancelledFrom

\* What a reading of payment d with status s makes of row p: q, with or without
\* being applied.
RowAfter(p, d, s, q, applied) ==
    /\ q \in Types
    /\ q.amount = p.amount
    /\ q.channel = p.channel
    /\ p.corrected => q.corrected
    /\ ~ applied => Kept(q, p)
    /\ applied => /\ q.status = s
                  /\ q.ref = IF p.ref = NoAttempt THEN d ELSE p.ref
                  /\ \/ /\ p.status \in Open
                        /\ ~ staleAfterCancelling(p, s)
                        /\ Reachable(p.status, s)
                     \/ /\ p.status \in GaveUp \cup {"paid"}
                        /\ q.corrected

Facet(p, events) == [p EXCEPT !.events = events]

LEMMA FacetRow ==
    ASSUME NEW p \in Types, NEW E \in SUBSET EventType
    PROVE  /\ Facet(p, E) \in Types
           /\ Kept(Facet(p, E), p)
           /\ Facet(p, E).events = E
           /\ Facet(p, E).anomaly = p.anomaly
           /\ Facet(p, E).anomalyStatus = p.anomalyStatus
           /\ E = p.events => Facet(p, E) = p
BY DEF Types, EventType, Facet, Kept, SameCharge

Marked(p, r, b) == [p EXCEPT !.ref = r, !.corrected = b]

LEMMA MarkedRow ==
    ASSUME NEW p \in Types, NEW r \in Attempt \cup {NoAttempt}, NEW b \in BOOLEAN
    PROVE  /\ Marked(p, r, b) \in Types
           /\ Marked(p, r, b).status = p.status
           /\ Marked(p, r, b).cancelledFrom = p.cancelledFrom
           /\ Marked(p, r, b).amount = p.amount
           /\ Marked(p, r, b).channel = p.channel
           /\ Marked(p, r, b).ref = r
           /\ Marked(p, r, b).corrected = b
           /\ Marked(p, r, b).events = p.events
           /\ Marked(p, r, b).anomaly = p.anomaly
           /\ Marked(p, r, b).anomalyStatus = p.anomalyStatus
BY DEF Types, Marked

\* What the transaction writes: row c, and the events about d.
Taken(c, d, s, source) == Applies(Facing(c, d), About(d, s, source), source)

Written(c, d, s, source) ==
    /\ payments' \in [Attempt -> Types]
    /\ \A e \in Attempt \ {c} : Kept(payments'[e], payments[e])
    /\ \A e \in Attempt \ {c, d} : payments'[e] = payments[e]
    /\ c # NoAttempt => /\ Taken(c, d, s, source) \in BOOLEAN
                        /\ RowAfter(payments[c], d, s, payments'[c], Taken(c, d, s, source))

LEMMA Recorded ==
    ASSUME IInv, NEW c \in Attempt, ByTerminal(c), NEW d, NEW s, NEW source, Said(d, s),
           Record(c, d, s, source)
    PROVE  Written(c, d, s, source)
<1>1. /\ d \in Attempt /\ s \in Known /\ d \in Rows /\ c \in Rows
      /\ payments \in [Attempt -> Types] /\ payments[c] \in Types /\ payments[d] \in Types
      /\ payments[c].status \in Known /\ payments[c].amount \in Amount
      /\ payments[d].amount \in Amount /\ payments[c].events \in SUBSET EventType
      /\ payments[d].events \in SUBSET EventType
  <2>1. d \in Attempt /\ s \in Known /\ d \in Rows /\ c \in Rows
    BY DEF Said, IInv, SentHasRow, Sent, ByTerminal
  <2>2. \A p \in Types : p.events \in SUBSET EventType
    BY DEF Types, EventType
  <2> QED
    BY <2>1, <2>2 DEF IInv, Typed, RowsFilled
<1> DEFINE ev == Numbered /\ source = "webhook"
           a == payments[d].amount
           o == Told(a, s, ev)
           p == Facet(payments[c], payments[d].events)
           now == observe(p, o, source)
           applied == Applies(p, o, source)
           r == IF now.ref = NoAttempt /\ applied THEN d ELSE now.ref
           b == now.corrected \/ Corrects(p, o, source)
           row == Facet(Marked(now, r, b), payments[c].events)
<1>2. /\ p \in Types /\ Kept(p, payments[c]) /\ p.events = payments[d].events
  BY <1>1, FacetRow
<1>3. /\ payments' = [payments EXCEPT ![c] = row, ![d].events = now.events]
      /\ applied = Taken(c, d, s, source)
  <2>1. c # NoAttempt
    BY ChargesConstants
  <2>2. About(d, s, source) = o /\ Facing(c, d) = p
    BY DEF About, Facing, Told, Facet
  <2>3. row = [now EXCEPT !.events = payments[c].events, !.ref = r, !.corrected = b]
    <3> HIDE DEF r, b
    <3>1. now \in Types
      <4>1. ev \in BOOLEAN /\ p.status \in Known /\ p.amount \in Amount
        BY <1>1, <1>2 DEF Kept, SameCharge
      <4> HIDE DEF p, ev
      <4> QED
        BY <1>1, <1>2, <4>1, Effect
    <3> HIDE DEF now
    <3> QED
      BY <3>1 DEF Facet, Marked, Types
  <2> HIDE DEF row
  <2> QED
    BY <2>1, <2>2, <2>3 DEF Record, Taken
<1>4. /\ now \in Types
      /\ SameCharge(now, p)
      /\ p.events \subseteq now.events
      /\ Corrects(p, o, source) => applied
      /\ ~ applied => now.status = p.status /\ now.cancelledFrom = p.cancelledFrom
      /\ applied => /\ now.status = s
                    /\ \/ /\ p.status \in Open
                          /\ ~ staleAfterCancelling(p, s)
                          /\ Reachable(p.status, s)
                       \/ /\ p.status \in GaveUp \cup {"paid"}
                          /\ Corrects(p, o, source)
  <2>1. ev \in BOOLEAN /\ p.status \in Known /\ p.amount \in Amount
    BY <1>1, <1>2 DEF Kept, SameCharge
  <2> HIDE DEF p, ev
  <2> QED
    BY <1>1, <1>2, <2>1, Effect
<1>5. /\ r \in Attempt \cup {NoAttempt} /\ b \in BOOLEAN /\ applied \in BOOLEAN
      /\ now.events \in SUBSET EventType
  <2>1. /\ now.ref \in Attempt \cup {NoAttempt} /\ now.corrected \in BOOLEAN
        /\ now.events \in SUBSET EventType
    <3> HIDE DEF now
    <3> QED
      BY <1>4 DEF Types, EventType
  <2>2. Corrects(p, o, source) \in BOOLEAN /\ applied \in BOOLEAN
    BY DEF Corrects, Applies
  <2> HIDE DEF now, applied
  <2> QED
    BY <1>1, <2>1, <2>2
<1>6. /\ row \in Types /\ row.status = now.status /\ row.cancelledFrom = now.cancelledFrom
      /\ row.amount = now.amount /\ row.channel = now.channel
      /\ row.ref = r /\ row.corrected = b /\ row.events = payments[c].events
  <2> HIDE DEF now, r, b
  <2> DEFINE m == Marked(now, r, b)
  <2>1. /\ m \in Types /\ m.status = now.status /\ m.cancelledFrom = now.cancelledFrom
        /\ m.amount = now.amount /\ m.channel = now.channel
        /\ m.ref = r /\ m.corrected = b
    <3>1. now \in Types /\ r \in Attempt \cup {NoAttempt} /\ b \in BOOLEAN
      BY <1>4, <1>5
    <3> QED
      BY <3>1, MarkedRow
  <2> HIDE DEF m
  <2>2. row \in Types /\ Kept(row, m) /\ row.events = payments[c].events
    BY <1>1, <2>1, FacetRow DEF m
  <2> HIDE DEF row
  <2> QED
    BY <2>1, <2>2 DEF Kept, SameCharge
<1>7. RowAfter(payments[c], d, s, row, applied)
  <2>1. staleAfterCancelling(p, s) = staleAfterCancelling(payments[c], s)
    BY <1>2 DEF staleAfterCancelling, Kept
  <2>2. /\ p.status = payments[c].status /\ p.cancelledFrom = payments[c].cancelledFrom
        /\ SameCharge(p, payments[c])
    BY <1>2 DEF Kept
  <2>3. /\ r = IF payments[c].ref = NoAttempt /\ applied THEN d ELSE payments[c].ref
        /\ b = (payments[c].corrected \/ Corrects(p, o, source))
    <3>1. now.ref = payments[c].ref /\ now.corrected = payments[c].corrected
      BY <1>4, <2>2 DEF SameCharge
    <3> QED
      BY <3>1
  <2>4. Corrects(p, o, source) => b
    OBVIOUS
  <2> HIDE DEF p, o, now, applied, row, r, b
  <2>5. CASE applied
    BY <1>4, <1>6, <2>1, <2>2, <2>3, <2>4, <2>5 DEF RowAfter, SameCharge
  <2>6. CASE ~ applied
    <3>1. payments[c].corrected \in BOOLEAN
      BY <1>1 DEF Types
    <3>2. row.corrected = payments[c].corrected
      BY <1>4, <1>6, <2>3, <2>6, <3>1
    <3> QED
      BY <1>4, <1>6, <2>2, <2>3, <2>6, <3>2 DEF RowAfter, SameCharge, Kept
  <2> QED
    BY <2>5, <2>6
<1> HIDE DEF p, o, applied, row, r, b
<1>8. PICK E \in SUBSET EventType : E = now.events
  BY <1>5
<1> HIDE DEF now
<1>9. CASE c = d
  <2>1. payments' = [payments EXCEPT ![c] = Facet(row, E)]
    BY <1>1, <1>3, <1>6, <1>8, <1>9 DEF Facet
  <2>2. Facet(row, E) \in Types /\ Kept(Facet(row, E), row)
    BY <1>6, FacetRow
  <2>3. RowAfter(payments[c], d, s, Facet(row, E), applied)
    <3>1. PICK q : q = Facet(row, E)
      OBVIOUS
    <3>2. RowAfter(payments[c], d, s, q, applied)
      BY <1>7, <2>2, <3>1 DEF RowAfter, Kept, SameCharge
    <3> QED
      BY <3>1, <3>2
  <2>4. \A x \in Types : Kept(x, x)
    BY DEF Kept, SameCharge
  <2>5. /\ payments'[c] = Facet(row, E) /\ payments' \in [Attempt -> Types]
        /\ \A e \in Attempt \ {c} : payments'[e] = payments[e]
    <3>1. PICK q \in Types : q = Facet(row, E)
      BY <2>2
    <3> QED
      BY <1>1, <2>1, <3>1
  <2> QED
    BY <1>1, <1>3, <1>5, <2>3, <2>4, <2>5 DEF Written
<1>10. CASE c # d
  <2>1. payments' = [payments EXCEPT ![c] = row, ![d] = Facet(payments[d], E)]
    BY <1>1, <1>3, <1>8, <1>10 DEF Facet
  <2>2. Facet(payments[d], E) \in Types /\ Kept(Facet(payments[d], E), payments[d])
    BY <1>1, FacetRow
  <2>3. \A x \in Types : Kept(x, x)
    BY DEF Kept, SameCharge
  <2>4. /\ payments'[c] = row /\ payments'[d] = Facet(payments[d], E)
        /\ payments' \in [Attempt -> Types]
        /\ \A e \in Attempt \ {c, d} : payments'[e] = payments[e]
    <3>1. PICK q \in Types : q = Facet(payments[d], E)
      BY <2>2
    <3> QED
      BY <1>1, <1>6, <1>10, <2>1, <3>1
  <2> QED
    BY <1>1, <1>3, <1>5, <1>7, <2>2, <2>3, <2>4 DEF Written
<1> QED
  BY <1>9, <1>10

\* Of a payment no row is found for only the update is recorded.
LEMMA OrphanRecorded ==
    ASSUME IInv, NEW d, NEW s, NEW source, Said(d, s), Record(NoAttempt, d, s, source)
    PROVE  Written(NoAttempt, d, s, source)
<1>1. /\ d \in Attempt /\ s \in Known /\ d \in Rows
      /\ payments \in [Attempt -> Types] /\ payments[d] \in Types
      /\ payments[d].status \in Known /\ payments[d].amount \in Amount
  BY DEF Said, IInv, SentHasRow, Sent, ByTerminal, Typed, RowsFilled
<1> DEFINE ev == Numbered /\ source = "webhook"
           id == EventID(Told(payments[d].amount, s, ev), "")
           q == Noted(payments[d], {id})
<1>2. id \in EventType
  <2>1. ev \in BOOLEAN
    OBVIOUS
  <2> HIDE DEF ev
  <2> QED
    BY <1>1, <2>1, EventsTyped
<1>3. payments' = [payments EXCEPT ![d] = q]
  BY <1>1 DEF Record, About, Told, Noted
<1> HIDE DEF id
<1>4. q \in Types /\ Kept(q, payments[d])
  BY <1>1, <1>2, RowNoted DEF Kept
<1>5. \A x \in Types : Kept(x, x)
  BY DEF Kept, SameCharge
<1> HIDE DEF q
<1> QED
  BY <1>1, <1>3, <1>4, <1>5 DEF Written

----------------------------------------------------------------------------
(* Steps that only move a goroutine or the hold *)

\* The invariant of the rows and of what the provider has of them.
Books ==
    /\ RowsFilled
    /\ SentHasRow
    /\ OneOpen
    /\ misjudged = {} => Faithful

LEMMA SameBooks ==
    ASSUME Books, UNCHANGED <<created, payments, posted, provider, late, misjudged>>
    PROVE  Books'
<1>1. RowsFilled'
  BY DEF Books, RowsFilled, Rows
<1>2. SentHasRow'
  BY DEF Books, SentHasRow, Sent, ByTerminal, Rows
<1>3. OneOpen'
  BY DEF Books, OneOpen, Rows
<1>4. LiveSet' = LiveSet
  BY DEF LiveSet, Live
<1>5. Unconfirmed => Unconfirmed'
  BY DEF Unconfirmed, Sent, Newest
<1>6. OwnRefs => OwnRefs'
  BY DEF OwnRefs
<1>7. LiveKept => LiveKept'
  BY <1>4 DEF LiveKept
<1>8. LiveWithin => LiveWithin'
  BY <1>4 DEF LiveWithin
<1> QED
  BY <1>1, <1>2, <1>3, <1>5, <1>6, <1>7, <1>8 DEF Books, Faithful

\* What a goroutine relies on holds while the rows and the provider stay.
LEMMA SameWork ==
    ASSUME NEW r, WorkSound(r),
           UNCHANGED <<created, payments, posted, provider, late, misjudged>>
    PROVE  WorkSound(r)'
BY DEF WorkSound, ByTerminal, Rows, Said, Sent

LEMMA ProcStep ==
    ASSUME IInv, NEW w \in Proc, NEW r \in Work, WorkSound(r), Goto(w, r),
           UNCHANGED <<ledger, posted, provider, reports, late, misjudged>>,
           cancels' \in 0..MaxCancels
    PROVE  IInv'
<1> USE DEF ledger
<1>1. Books'
  BY SameBooks DEF IInv, Books
<1>2. Typed'
  BY DEF IInv, Typed, Goto
<1>3. ReportsTrue'
  BY DEF IInv, ReportsTrue, Said
<1>4. WorkTrue'
  <2> SUFFICES ASSUME NEW v \in Proc
               PROVE  WorkSound(procs[v])'
    BY DEF WorkTrue
  <2>1. PICK x : x = procs'[v]
    OBVIOUS
  <2>2. WorkSound(x)
    BY <2>1 DEF IInv, WorkTrue, Goto, Typed
  <2>3. WorkSound(x)'
    BY <2>2, SameWork
  <2> QED
    BY <2>1, <2>3
<1> QED
  BY <1>1, <1>2, <1>3, <1>4 DEF IInv, Books

LEMMA HoldStep ==
    ASSUME IInv, hold' \in [till : Till \cup {NoTill}, live : BOOLEAN],
           UNCHANGED <<created, payments, procs, outside>>
    PROVE  IInv'
<1> USE DEF outside, world
<1>1. Books'
  BY SameBooks DEF IInv, Books
<1>2. Typed'
  BY DEF IInv, Typed
<1>3. ReportsTrue'
  BY DEF IInv, ReportsTrue, Said
<1>4. WorkTrue'
  <2> SUFFICES ASSUME NEW v \in Proc
               PROVE  WorkSound(procs[v])'
    BY DEF WorkTrue
  <2>1. PICK x : x = procs[v]
    OBVIOUS
  <2>2. WorkSound(x)'
    BY <2>1, SameWork DEF IInv, WorkTrue
  <2> QED
    BY <2>1, <2>2
<1> QED
  BY <1>1, <1>2, <1>3, <1>4 DEF IInv, Books

----------------------------------------------------------------------------
(* Sums *)

Amounts(pay) == [c \in Attempt |-> pay[c].amount]

LEMMA SumAs ==
    ASSUME NEW pay, NEW S
    PROVE  Sum(pay, S) = SumOver(Amounts(pay), S)
BY DEF Sum, SumOver, Amounts

LEMMA AmountsTyped ==
    ASSUME NEW pay \in [Attempt -> Types]
    PROVE  Amounts(pay) \in [Attempt -> Nat]
<1>1. ASSUME NEW p \in Types PROVE p.amount \in Nat
  <2>1. p.amount \in Amount \cup {0}
    BY <1>1 DEF Types
  <2> QED
    BY <2>1, AmountsPositive
<1> QED
  BY <1>1 DEF Amounts

\* The sum follows the amounts and the attempts, and grows with the attempts.
LEMMA SumKept ==
    ASSUME payments \in [Attempt -> Types], NEW pay, Amounts(pay) = Amounts(payments),
           NEW B \in SUBSET Attempt, NEW A \in SUBSET B
    PROVE  /\ Sum(pay, A) \in Nat /\ Sum(payments, B) \in Nat
           /\ Sum(pay, A) <= Sum(payments, B)
<1> DEFINE f == Amounts(payments)
<1>1. f \in [Attempt -> Nat]
  BY AmountsTyped
<1>2. Sum(pay, A) = SumOver(f, A) /\ Sum(payments, B) = SumOver(f, B)
  BY SumAs
<1> HIDE DEF f
<1>3. IsFiniteSet(Attempt) /\ A \in SUBSET Attempt
  BY ChargesConstants
<1>4. SumOver(f, A) \in Nat /\ SumOver(f, B) \in Nat
  BY <1>1, <1>3, SumIsNat
<1>5. SumOver(f, A) <= SumOver(f, B)
  BY <1>1, <1>3, SumSubset
<1> QED
  BY <1>2, <1>4, <1>5

----------------------------------------------------------------------------
(* Steps that change rows *)

\* What a step may make of the row of c.
RowMay(c, q) ==
    /\ q.status \in Known
    /\ q.amount = payments[c].amount
    /\ q.channel = payments[c].channel
    /\ q.channel = "cash" => q.status = "paid" /\ q.ref = c
    /\ q.status \in Open => payments[c].status \in Open \/ q.corrected
    /\ payments[c].corrected => q.corrected

\* What it may make of it while no error was misjudged.
RowFaithful(c, q) ==
    /\ payments[c].ref # NoAttempt => q.ref # NoAttempt
    /\ q.ref \in {NoAttempt, c}
    /\ Sent(c) /\ q.ref = NoAttempt => q.status \in Open
    /\ c \in LiveSet => q.status \in Open \cup {"paid"}

\* A step over the rows that are there.
RowsMay ==
    /\ payments' \in [Attempt -> Types]
    /\ \A c \in Attempt \ Rows : payments'[c] = payments[c]
    /\ \A c \in Rows : RowMay(c, payments'[c])
    /\ misjudged' = {} => misjudged = {} /\ \A c \in Rows : RowFaithful(c, payments'[c])

LEMMA RowsBooks ==
    ASSUME Books, Typed, RowsMay, UNCHANGED <<created, posted, provider, late>>
    PROVE  Books'
<1>1. /\ payments \in [Attempt -> Types]
      /\ payments' \in [Attempt -> Types]
      /\ Rows \subseteq Attempt
      /\ \A c \in Attempt \ Rows : payments'[c] = payments[c]
  BY DEF Typed, Rows, Range, RowsMay
<1>2. /\ \A d \in Attempt : /\ payments'[d].channel = payments[d].channel
                            /\ payments'[d].amount = payments[d].amount
  BY <1>1 DEF RowMay, RowsMay
<1>3. Rows' = Rows
  BY DEF Rows
<1>4. RowsFilled'
  <2> SUFFICES ASSUME NEW d \in Attempt
               PROVE  RowsFilled!(d)'
    BY DEF RowsFilled
  <2>1. CASE d \in Rows
    <3>1. RowMay(d, payments'[d])
      BY <2>1 DEF RowsMay
    <3> QED
      BY <1>3, <2>1, <3>1 DEF Books, RowsFilled, RowMay
  <2>2. CASE d \notin Rows
    BY <1>1, <1>3, <2>2 DEF Books, RowsFilled
  <2> QED
    BY <2>1, <2>2
<1>5. \A d \in Attempt : Sent(d)' = Sent(d)
  BY DEF Sent
<1>6. SentHasRow'
  BY <1>2, <1>3, <1>5 DEF Books, SentHasRow, ByTerminal
<1>7. OneOpen'
  <2> SUFFICES ASSUME NEW a \in Rows, NEW b \in Rows,
                      payments'[a].status \in Open, payments'[b].status \in Open,
                      a # b
               PROVE  payments'[a].corrected \/ payments'[b].corrected
    BY <1>3 DEF OneOpen
  <2>1. ASSUME NEW x \in Rows, payments'[x].status \in Open, ~ payments'[x].corrected
        PROVE  payments[x].status \in Open /\ ~ payments[x].corrected
    BY <2>1 DEF RowsMay, RowMay
  <2> QED
    BY <2>1 DEF Books, OneOpen
<1>8. ASSUME misjudged' = {} PROVE Faithful'
  <2>1. Faithful /\ \A c \in Rows : RowFaithful(c, payments'[c])
    BY <1>8 DEF RowsMay, Books
  <2>2. Unconfirmed'
    <3> SUFFICES ASSUME NEW d \in Attempt, Sent(d), payments'[d].ref = NoAttempt
                 PROVE  payments'[d].status \in Open /\ Newest(d)'
      BY <1>5 DEF Unconfirmed
    <3>1. d \in Rows
      BY DEF Books, SentHasRow, ByTerminal
    <3>2. RowFaithful(d, payments'[d])
      BY <2>1, <3>1
    <3>3. payments[d].ref = NoAttempt
      BY <3>2 DEF RowFaithful
    <3>4. payments[d].status \in Open /\ Newest(d)'
      BY <2>1, <3>3 DEF Faithful, Unconfirmed, Newest
    <3> QED
      BY <3>2, <3>4 DEF RowFaithful
  <2>3. OwnRefs'
    BY <1>1, <2>1 DEF Faithful, OwnRefs, RowFaithful
  <2>4. LiveSet' = LiveSet
    BY <1>2 DEF LiveSet, Live
  <2>5. LiveKept'
    <3> SUFFICES ASSUME NEW d \in LiveSet
                 PROVE  payments'[d].status \in Open \cup {"paid"}
      BY <2>4 DEF LiveKept
    <3>1. d \in Attempt /\ payments[d].status \in Open \cup {"paid"}
      BY <2>1 DEF Faithful, LiveKept, LiveSet
    <3> QED
      BY <1>1, <2>1, <3>1 DEF RowFaithful
  <2>6. LiveWithin'
    <3>1. Amounts(payments') = Amounts(payments)
      BY <1>2 DEF Amounts
    <3>2. LiveSet \in SUBSET Attempt
      BY DEF LiveSet
    <3>3. /\ Sum(payments', LiveSet) \in Nat /\ Sum(payments, LiveSet) \in Nat
          /\ Sum(payments', LiveSet) <= Sum(payments, LiveSet)
      BY <1>1, <3>1, <3>2, SumKept
    <3>4. Total \in Nat
      BY ChargesConstants
    <3> QED
      BY <2>1, <2>4, <3>3, <3>4 DEF Faithful, LiveWithin
  <2> QED
    BY <2>2, <2>3, <2>5, <2>6 DEF Faithful
<1> QED
  BY <1>4, <1>6, <1>7, <1>8 DEF Books

LEMMA RowsStep ==
    ASSUME IInv, RowsMay,
           hold' \in [till : Till \cup {NoTill}, live : BOOLEAN],
           procs' \in [Proc -> Work],
           \A w \in Proc : WorkSound(procs'[w]),
           misjudged' \in SUBSET Attempt,
           UNCHANGED <<created, world>>
    PROVE  IInv'
<1> USE DEF world
<1>1. Books'
  BY RowsBooks DEF IInv, Books
<1>2. Typed'
  BY DEF IInv, Typed, RowsMay
<1>3. ReportsTrue'
  BY DEF IInv, ReportsTrue, Said
<1>4. WorkTrue'
  <2>0. Rows \subseteq Attempt
    BY DEF IInv, Typed, Rows, Range
  <2>1. \A d \in Attempt : payments'[d].channel = payments[d].channel
    BY <2>0 DEF RowsMay, RowMay
  <2>2. \A d \in Attempt : ByTerminal(d) => ByTerminal(d)'
    BY <2>1 DEF ByTerminal, Rows
  <2>3. misjudged' = {} => misjudged = {}
    BY DEF RowsMay
  <2> SUFFICES ASSUME NEW w \in Proc
               PROVE  WorkSound(procs[w])'
    BY DEF WorkTrue
  <2>4. PICK x : x = procs'[w]
    OBVIOUS
  <2>5. WorkSound(x)
    BY <2>4
  <2>6. WorkSound(x)'
    BY <2>2, <2>3, <2>5 DEF WorkSound, Said, Sent
  <2> QED
    BY <2>4, <2>6
<1> QED
  BY <1>1, <1>2, <1>3, <1>4 DEF IInv, Books

\* A row that stays as it is, but for its events, is within bounds.
LEMMA KeptMay ==
    ASSUME IInv, NEW c \in Rows, NEW q, Kept(q, payments[c])
    PROVE  RowMay(c, q) /\ (misjudged = {} => RowFaithful(c, q))
<1>1. c \in Attempt
  BY DEF IInv, Typed, Rows, Range
<1>2. RowMay(c, q)
  BY <1>1 DEF RowMay, Kept, SameCharge, IInv, RowsFilled
<1>3. ASSUME misjudged = {} PROVE RowFaithful(c, q)
  BY <1>1, <1>3 DEF RowFaithful, Kept, SameCharge, IInv, Faithful, Unconfirmed, OwnRefs,
                    LiveKept
<1> QED
  BY <1>2, <1>3

LEMMA RowStep ==
    ASSUME IInv, NEW c \in Rows, NEW q \in Types, RowMay(c, q),
           misjudged' = {} => misjudged = {} /\ RowFaithful(c, q),
           payments' = [payments EXCEPT ![c] = q],
           hold' \in [till : Till \cup {NoTill}, live : BOOLEAN],
           procs' \in [Proc -> Work],
           \A w \in Proc : WorkSound(procs'[w]),
           misjudged' \in SUBSET Attempt,
           UNCHANGED <<created, world>>
    PROVE  IInv'
<1>1. /\ c \in Attempt /\ Rows \subseteq Attempt /\ payments' \in [Attempt -> Types]
      /\ payments'[c] = q /\ \A d \in Attempt : d # c => payments'[d] = payments[d]
  BY DEF IInv, Typed, Rows, Range
<1>2. ASSUME NEW d \in Rows, d # c
      PROVE  RowMay(d, payments'[d]) /\ (misjudged = {} => RowFaithful(d, payments'[d]))
  <2>1. payments'[d] = payments[d] /\ Kept(payments[d], payments[d])
    BY <1>1, <1>2 DEF Kept, SameCharge
  <2> QED
    BY <2>1, KeptMay
<1>3. RowsMay
  BY <1>1, <1>2 DEF RowsMay
<1> QED
  BY <1>3, RowsStep

\* The record of a goroutine that goes on with another one.
LEMMA WorkMoves ==
    ASSUME IInv, NEW w \in Proc, NEW r \in Work, WorkSound(r), Goto(w, r)
    PROVE  procs' \in [Proc -> Work] /\ \A v \in Proc : WorkSound(procs'[v])
<1>1. procs' \in [Proc -> Work]
  BY DEF IInv, Typed, Goto
<1>2. ASSUME NEW v \in Proc PROVE WorkSound(procs'[v])
  <2>1. procs'[v] = r \/ procs'[v] = procs[v]
    BY DEF IInv, Typed, Goto
  <2> QED
    BY <2>1 DEF IInv, WorkTrue
<1> QED
  BY <1>1, <1>2

LEMMA IdleSound ==
    Idle \in Work /\ WorkSound(Idle)
BY DEF Idle, Work, Pc, WorkSound

LEMMA HoldTyped ==
    ASSUME IInv, NEW paid
    PROVE  /\ NoHold \in [till : Till \cup {NoTill}, live : BOOLEAN]
           /\ settleDocument(paid) \in [till : Till \cup {NoTill}, live : BOOLEAN]
BY DEF IInv, Typed, NoHold, settleDocument

\* A reading that is recorded keeps the row within bounds.
LEMMA ReadingMay ==
    ASSUME IInv, NEW c \in Attempt, ByTerminal(c), NEW d, NEW s, Said(d, s), NEW q,
           NEW applied \in BOOLEAN, RowAfter(payments[c], d, s, q, applied)
    PROVE  RowMay(c, q) /\ (misjudged = {} /\ c = d => RowFaithful(c, q))
<1>1. d \in Attempt /\ s \in Known /\ Sent(d) /\ ByTerminal(d) /\ d \notin posted
  BY DEF Said, IInv, SentHasRow, Sent
<1>2. /\ c \in Rows /\ payments[c].channel = "terminal" /\ payments[d].channel = "terminal"
  BY <1>1 DEF ByTerminal
<1>3. payments[c].status \in Known /\ payments[c] \in Types
  BY <1>2 DEF IInv, RowsFilled, Typed
<1>4. CASE ~ applied
  BY <1>2, <1>4, KeptMay DEF RowAfter
<1>5. CASE applied
  <2>1. RowMay(c, q)
    BY <1>1, <1>2, <1>3, <1>5 DEF RowAfter, RowMay
  <2>2. ASSUME misjudged = {}, c = d
        PROVE  RowFaithful(c, q)
    <3>1. s \in Open \/ s = "paid" \/ s \in GaveUp
      BY <1>1 DEF Known
    <3>2. s \in GaveUp => d \notin LiveSet
      BY <1>1, <1>2 DEF Said, LiveSet, Live, Open, GaveUp
    <3>3. q.ref = d /\ d # NoAttempt /\ q.status = s
      BY <1>1, <1>5, <2>2, ChargesConstants DEF RowAfter, IInv, Faithful, OwnRefs
    <3> QED
      BY <2>2, <3>1, <3>2, <3>3 DEF RowFaithful
  <2> QED
    BY <2>1, <2>2
<1> QED
  BY <1>4, <1>5

LEMMA RecordStep ==
    ASSUME IInv, NEW c, NEW d, NEW s, NEW source, Said(d, s), Record(c, d, s, source),
           c = NoAttempt \/ (c \in Attempt /\ ByTerminal(c)),
           misjudged = {} => c = d,
           hold' \in [till : Till \cup {NoTill}, live : BOOLEAN],
           procs' \in [Proc -> Work],
           \A w \in Proc : WorkSound(procs'[w]),
           UNCHANGED <<created, outside>>
    PROVE  IInv'
<1>1. Written(c, d, s, source)
  BY Recorded, OrphanRecorded
<1>2. d \in Rows /\ Rows \subseteq Attempt
  BY DEF Said, IInv, SentHasRow, Sent, ByTerminal, Typed, Rows, Range
<1>3. ASSUME NEW e \in Rows, e # c
      PROVE  RowMay(e, payments'[e]) /\ (misjudged = {} => RowFaithful(e, payments'[e]))
  BY <1>1, <1>2, <1>3, KeptMay DEF Written
<1>4. ASSUME c # NoAttempt
      PROVE  RowMay(c, payments'[c]) /\ (misjudged = {} => RowFaithful(c, payments'[c]))
  BY <1>1, <1>4, ReadingMay DEF Written
<1>5. RowsMay
  <2>1. NoAttempt \notin Rows /\ \A e \in Attempt \ Rows : e # c /\ e # d
    BY <1>2, ChargesConstants DEF ByTerminal
  <2>2. misjudged' = misjudged
    BY DEF outside
  <2> QED
    BY <1>1, <1>3, <1>4, <2>1, <2>2 DEF RowsMay, Written
<1> QED
  BY <1>5, RowsStep DEF outside, IInv, Typed

----------------------------------------------------------------------------
(* The actions of goroutines *)

LEMMA SumIsNatural ==
    ASSUME NEW pay \in [Attempt -> Types], NEW S \in SUBSET Attempt
    PROVE  Sum(pay, S) \in Nat
<1>1. IsFiniteSet(Attempt) /\ Amounts(pay) \in [Attempt -> Nat]
  BY ChargesConstants, AmountsTyped
<1> QED
  BY <1>1, SumAs, SumIsNat

\* The total a transaction reads is a number.
LEMMA PaidIsNatural ==
    ASSUME IInv, NEW c \in Attempt, NEW s \in Status
    PROVE  PaidWith(c, s) \in Nat
<1>1. PICK pay : pay = [payments EXCEPT ![c].status = s]
  OBVIOUS
<1>2. pay \in [Attempt -> Types]
  <2>1. payments[c] \in Types /\ payments \in [Attempt -> Types]
    BY DEF IInv, Typed
  <2>2. [payments[c] EXCEPT !.status = s] \in Types
    BY <2>1 DEF Types
  <2> QED
    BY <1>1, <2>1, <2>2
<1>3. {e \in Rows : pay[e].status \in Captured} \in SUBSET Attempt
  BY DEF IInv, Typed, Rows, Range
<1> QED
  BY <1>1, <1>2, <1>3, SumIsNatural DEF PaidWith, Paid

Settling(c, d, s, source, paid, held) ==
    [pc |-> "settle", attempt |-> c, about |-> d, status |-> s, source |-> source,
     paid |-> paid, held |-> held]

LEMMA SettlingSound ==
    ASSUME IInv, NEW c \in Attempt, ByTerminal(c), NEW d, NEW s, Said(d, s),
           NEW source \in {"none", "poll", "reconcile", "webhook"}, NEW paid \in Nat,
           NEW held \in BOOLEAN, misjudged = {} => c = d
    PROVE  LET r == Settling(c, d, s, source, paid, held)
           IN  r \in Work /\ WorkSound(r)
<1> DEFINE r == Settling(c, d, s, source, paid, held)
<1>1. /\ r \in Work /\ r.pc = "settle" /\ r.attempt = c /\ r.about = d /\ r.status = s
  BY DEF Settling, Work, Pc, Said
<1> HIDE DEF r
<1>2. WorkSound(r)
  BY <1>1 DEF WorkSound
<1> QED
  BY <1>1, <1>2 DEF r

LEMMA TakeKeeps ==
    ASSUME IInv, NEW w \in Proc, NEW d, NEW s, Said(d, s),
           NEW source \in {"none", "poll", "reconcile", "webhook"}, Take(w, d, s, source)
    PROVE  IInv'
<1>1. PICK c : c = findPayment(d)
  OBVIOUS
<1>2. /\ c = NoAttempt \/ (c \in Attempt /\ ByTerminal(c))
      /\ misjudged = {} => c = d
  <2>1. d \in Attempt /\ Sent(d) /\ provider[d].status # NoStatus
    BY DEF Said, Sent
  <2> QED
    BY <1>1, <2>1, RowFound, Found DEF Attributed
<1>3. CASE Settles(c, d, s, source)
  <2>1. c \in Attempt /\ ByTerminal(c) /\ s \in Status
    BY <1>2, <1>3 DEF Settles, Said, Known, Status, Captured
  <2>2. PICK paid \in Nat : paid = PaidWith(c, s)
    BY <2>1, PaidIsNatural
  <2>3. PICK held \in BOOLEAN : held = (hold.till # NoTill)
    OBVIOUS
  <2>4. PICK r : r = Settling(c, d, s, source, paid, held)
    OBVIOUS
  <2>5. Goto(w, r) /\ UNCHANGED <<created, payments, hold, outside>>
    BY <1>1, <1>3, <2>2, <2>3, <2>4 DEF Take, Settling
  <2>6. r \in Work /\ WorkSound(r)
    BY <1>2, <2>1, <2>4, SettlingSound
  <2>7. UNCHANGED <<ledger, posted, provider, reports, late, misjudged>>
        /\ cancels' \in 0..MaxCancels
    BY <2>5 DEF ledger, outside, world, IInv, Typed
  <2> QED
    BY <2>5, <2>6, <2>7, ProcStep
<1>4. CASE ~ Settles(c, d, s, source)
  <2>1. Record(c, d, s, source) /\ Goto(w, Idle) /\ UNCHANGED <<created, hold, outside>>
    BY <1>1, <1>4 DEF Take
  <2>2. procs' \in [Proc -> Work] /\ \A v \in Proc : WorkSound(procs'[v])
    BY <2>1, WorkMoves, IdleSound
  <2>3. hold' \in [till : Till \cup {NoTill}, live : BOOLEAN]
    BY <2>1 DEF IInv, Typed
  <2> QED
    BY <1>2, <2>1, <2>2, <2>3, RecordStep
<1> QED
  BY <1>3, <1>4

LEMMA ObserveReadingKeeps ==
    ASSUME IInv, NEW w \in Proc, ObserveReading(w)
    PROVE  IInv'
<1>1. Said(procs[w].about, procs[w].status)
  BY DEF ObserveReading, IInv, WorkTrue, WorkSound
<1>2. procs[w].source \in {"none", "poll", "reconcile", "webhook"}
  BY DEF IInv, Typed, Work
<1> QED
  BY <1>1, <1>2, TakeKeeps DEF ObserveReading

LEMMA WebhookKeeps ==
    ASSUME IInv, NEW w \in Proc, NEW r \in reports, Webhook(w, r)
    PROVE  IInv'
<1>1. Said(r.about, r.status)
  BY DEF IInv, ReportsTrue
<1>2. PICK source \in {"none", "poll", "reconcile", "webhook"} : source = "webhook"
  OBVIOUS
<1> QED
  BY <1>1, <1>2, TakeKeeps DEF Webhook

\* What a transaction that settles the document has read and will write.
LEMMA CommitRow ==
    ASSUME IInv, NEW w \in Proc, procs[w].pc = "settle"
    PROVE  /\ procs[w].attempt \in Attempt /\ ByTerminal(procs[w].attempt)
           /\ Said(procs[w].about, procs[w].status)
           /\ misjudged = {} => procs[w].attempt = procs[w].about
BY DEF IInv, WorkTrue, WorkSound

LEMMA CommitKeeps ==
    ASSUME IInv, NEW w \in Proc, Commit(w)
    PROVE  IInv'
<1>1. /\ procs[w].attempt \in Attempt /\ ByTerminal(procs[w].attempt)
      /\ Said(procs[w].about, procs[w].status)
      /\ misjudged = {} => procs[w].attempt = procs[w].about
  BY CommitRow DEF Commit
<1>2. procs' \in [Proc -> Work] /\ \A v \in Proc : WorkSound(procs'[v])
  BY WorkMoves, IdleSound DEF Commit
<1>3. hold' \in [till : Till \cup {NoTill}, live : BOOLEAN]
  BY HoldTyped DEF Commit, IInv, Typed
<1> QED
  BY <1>1, <1>2, <1>3, RecordStep DEF Commit

\* The row of an attempt that a goroutine works on.
LEMMA WorkRow ==
    ASSUME IInv, NEW w \in Proc,
           procs[w].pc \in {"create", "created", "refused", "cancel", "cancelling", "reread"}
    PROVE  LET c == procs[w].attempt
           IN  /\ c \in Attempt /\ c \in Rows
               /\ payments[c] \in Types
               /\ payments[c].status \in Known
               /\ payments[c].channel = "terminal"
<1> DEFINE c == procs[w].attempt
<1>1. c \in Attempt /\ ByTerminal(c)
  BY DEF IInv, WorkTrue, WorkSound
<1> HIDE DEF c
<1>2. /\ c \in Rows /\ payments[c] \in Types /\ payments[c].status \in Known
      /\ payments[c].channel = "terminal"
  BY <1>1 DEF ByTerminal, IInv, Typed, RowsFilled
<1> QED
  BY <1>1, <1>2 DEF c

Failing(p) == [p EXCEPT !.status = IF @ = "pending" THEN "failed" ELSE @]

LEMMA FailingRow ==
    ASSUME NEW p \in Types
    PROVE  /\ Failing(p) \in Types
           /\ Failing(p).status = IF p.status = "pending" THEN "failed" ELSE p.status
           /\ SameCharge(Failing(p), p)
           /\ Failing(p).events = p.events
<1> DEFINE s == IF p.status = "pending" THEN "failed" ELSE p.status
<1>1. s \in Status \cup {NoStatus}
  BY DEF Types, Status, GaveUp
<1>2. Failing(p) = [p EXCEPT !.status = s]
  BY DEF Failing
<1> HIDE DEF s
<1>3. /\ Failing(p) \in Types /\ Failing(p).status = s
      /\ SameCharge(Failing(p), p) /\ Failing(p).events = p.events
  BY <1>1, <1>2 DEF Types, SameCharge
<1> QED
  BY <1>3 DEF s

\* A pending payment whose request reached the provider counts as misjudged from
\* here on.
LEMMA markFailedKeeps ==
    ASSUME IInv, NEW w \in Proc, markFailed(w)
    PROVE  IInv'
<1> DEFINE c == procs[w].attempt
           q == Failing(payments[c])
<1>1. /\ c \in Attempt /\ c \in Rows /\ payments[c] \in Types
      /\ payments[c].status \in Known /\ payments[c].channel = "terminal"
  BY WorkRow DEF markFailed
<1>2. /\ misjudged' = IF payments[c].status = "pending" /\ Sent(c)
                      THEN misjudged \cup {c} ELSE misjudged
      /\ UNCHANGED <<created, hold, world>>
  BY DEF markFailed
<1>3. payments' = [payments EXCEPT ![c] = q]
  BY <1>1 DEF markFailed, FailPending, Failing, IInv, Typed
<1>4. procs' \in [Proc -> Work] /\ \A v \in Proc : WorkSound(procs'[v])
  BY WorkMoves, IdleSound DEF markFailed
<1>5. q \in Types /\ SameCharge(q, payments[c])
      /\ q.status = IF payments[c].status = "pending" THEN "failed" ELSE payments[c].status
  BY <1>1, FailingRow
<1> HIDE DEF c, q
<1>6. RowMay(c, q)
  <2>1. "failed" \in Known /\ "failed" \notin Open
    BY DEF Known, GaveUp, Open
  <2> QED
    BY <1>1, <1>5, <2>1 DEF RowMay, SameCharge
<1>7. ASSUME misjudged' = {}
      PROVE  misjudged = {} /\ RowFaithful(c, q)
  <2>1. misjudged = {} /\ Faithful /\ ~ (payments[c].status = "pending" /\ Sent(c))
    BY <1>2, <1>7 DEF IInv
  <2>2. q.ref = payments[c].ref /\ payments[c].ref \in {NoAttempt, c}
    BY <1>1, <1>5, <2>1 DEF SameCharge, Faithful, OwnRefs
  <2>3. CASE payments[c].status = "pending"
    <3>1. ~ Sent(c) /\ c \notin LiveSet
      BY <1>1, <2>1, <2>3 DEF LiveSet, Live, Sent, Open, NoStatus
    <3> QED
      BY <2>1, <2>2, <3>1 DEF RowFaithful
  <2>4. CASE payments[c].status # "pending"
    <3>1. q.status = payments[c].status
      BY <1>5, <2>4
    <3> QED
      BY <1>1, <2>1, <2>2, <3>1 DEF RowFaithful, Faithful, Unconfirmed, LiveKept
  <2> QED
    BY <2>3, <2>4
<1>8. hold' \in [till : Till \cup {NoTill}, live : BOOLEAN] /\ misjudged' \in SUBSET Attempt
  BY <1>1, <1>2 DEF IInv, Typed
<1> QED
  BY <1>1, <1>2, <1>3, <1>4, <1>5, <1>6, <1>7, <1>8, RowStep

Referenced(p, r) == [p EXCEPT !.ref = r]

LEMMA ReferencedRow ==
    ASSUME NEW p \in Types, NEW r \in Attempt \cup {NoAttempt}
    PROVE  /\ Referenced(p, r) \in Types /\ Referenced(p, r).ref = r
           /\ Referenced(p, r).status = p.status /\ Referenced(p, r).amount = p.amount
           /\ Referenced(p, r).channel = p.channel /\ Referenced(p, r).events = p.events
           /\ Referenced(p, r).cancelledFrom = p.cancelledFrom
           /\ Referenced(p, r).corrected = p.corrected
BY DEF Types, Referenced

\* The reading an answer to a creation request is.
AnswerRead(r) == [r EXCEPT !.pc = "observe", !.about = r.attempt, !.source = "poll"]

LEMMA AnswerSound ==
    ASSUME NEW r \in Work, WorkSound(r), r.pc = "created"
    PROVE  AnswerRead(r) \in Work /\ WorkSound(AnswerRead(r))
<1>1. /\ AnswerRead(r) \in Work /\ AnswerRead(r).pc = "observe"
      /\ AnswerRead(r).about = r.attempt /\ AnswerRead(r).status = r.status
  BY DEF AnswerRead, Work, Pc
<1>2. Said(r.attempt, r.status)
  BY DEF WorkSound
<1> QED
  BY <1>1, <1>2 DEF WorkSound

\* The reference is the row's own, or stays what it was.
LEMMA CreatedRow ==
    ASSUME IInv, NEW w \in Proc, RecordCreated(w)
    PROVE  LET c == procs[w].attempt
           IN  \E r \in {c, payments[c].ref} :
                  payments' = [payments EXCEPT ![c] = Referenced(payments[c], r)]
<1> DEFINE c == procs[w].attempt
           unique == \A d \in Attempt \ {c} : payments[d].ref # c
<1>1. c \in Attempt /\ payments \in [Attempt -> Types]
  BY WorkRow DEF RecordCreated, IInv, Typed
<1>2. payments' = [payments EXCEPT ![c].ref = IF unique THEN c ELSE @]
  BY DEF RecordCreated
<1> HIDE DEF unique
<1>3. PICK r \in {c, payments[c].ref} : r = IF unique THEN c ELSE payments[c].ref
  OBVIOUS
<1>4. payments' = [payments EXCEPT ![c] = Referenced(payments[c], r)]
  BY <1>1, <1>2, <1>3 DEF Referenced
<1> QED
  BY <1>4

LEMMA RecordCreatedKeeps ==
    ASSUME IInv, NEW w \in Proc, RecordCreated(w)
    PROVE  IInv'
<1> DEFINE c == procs[w].attempt
<1>1. /\ c \in Attempt /\ c \in Rows /\ payments[c] \in Types
      /\ payments[c].status \in Known /\ payments[c].channel = "terminal"
  BY WorkRow DEF RecordCreated
<1>2. PICK ref \in {c, payments[c].ref} :
         payments' = [payments EXCEPT ![c] = Referenced(payments[c], ref)]
  BY CreatedRow
<1>3. ref \in Attempt \cup {NoAttempt}
  <2>1. payments[c].ref \in Attempt \cup {NoAttempt}
    BY <1>1 DEF Types
  <2> QED
    BY <1>1, <2>1
<1>4. PICK r : (r = Idle \/ r = AnswerRead(procs[w])) /\ Goto(w, r)
  BY DEF RecordCreated, AnswerRead
<1>5. r \in Work /\ WorkSound(r)
  <2>1. procs[w] \in Work /\ WorkSound(procs[w]) /\ procs[w].pc = "created"
    BY DEF IInv, Typed, WorkTrue, RecordCreated
  <2> QED
    BY <1>4, <2>1, AnswerSound, IdleSound
<1>6. procs' \in [Proc -> Work] /\ \A v \in Proc : WorkSound(procs'[v])
  BY <1>4, <1>5, WorkMoves
<1> DEFINE q == Referenced(payments[c], ref)
<1> HIDE DEF c
<1>7. /\ q \in Types /\ q.ref = ref
      /\ q.status = payments[c].status /\ q.amount = payments[c].amount
      /\ q.channel = payments[c].channel /\ q.corrected = payments[c].corrected
  BY <1>1, <1>3, ReferencedRow
<1>8. payments' = [payments EXCEPT ![c] = q]
  BY <1>2
<1> HIDE DEF q
<1>9. RowMay(c, q)
  BY <1>1, <1>7 DEF RowMay
<1>10. misjudged = {} => RowFaithful(c, q)
  <2> SUFFICES ASSUME Faithful PROVE RowFaithful(c, q)
    BY DEF IInv
  <2>1. payments[c].ref \in {NoAttempt, c} /\ NoAttempt # c
    BY <1>1, ChargesConstants DEF Faithful, OwnRefs
  <2>2. payments[c].ref # NoAttempt => ref = c
    BY <1>2, <2>1
  <2>3. ref = NoAttempt => payments[c].ref = NoAttempt
    BY <1>2, <2>1
  <2> QED
    BY <1>1, <1>2, <1>7, <2>1, <2>2, <2>3 DEF RowFaithful, Faithful, Unconfirmed, LiveKept
<1>11. /\ hold' \in [till : Till \cup {NoTill}, live : BOOLEAN]
       /\ UNCHANGED <<created, world>> /\ misjudged' = misjudged
       /\ misjudged' \in SUBSET Attempt
  BY DEF RecordCreated, IInv, Typed, outside
<1> QED
  BY <1>1, <1>6, <1>7, <1>8, <1>9, <1>10, <1>11, RowStep

Cancelling(p, from) == [p EXCEPT !.status = "cancelling", !.cancelledFrom = from]

LEMMA CancellingRow ==
    ASSUME NEW p \in Types, NEW from \in Open
    PROVE  /\ Cancelling(p, from) \in Types
           /\ Cancelling(p, from).status = "cancelling"
           /\ SameCharge(Cancelling(p, from), p)
           /\ Cancelling(p, from).events = p.events
BY DEF Types, Cancelling, SameCharge, Status, Open

\* A goroutine that goes on to record the cancellation of its attempt, or to re-read
\* it.
LEMMA NextStep ==
    ASSUME IInv, NEW r \in Work, WorkSound(r), r.pc \in {"cancel", "cancelling"}
    PROVE  /\ [r EXCEPT !.pc = "cancelling"] \in Work
           /\ WorkSound([r EXCEPT !.pc = "cancelling"])
           /\ Doing("reread", r.attempt) \in Work
           /\ WorkSound(Doing("reread", r.attempt))
<1> DEFINE x == [r EXCEPT !.pc = "cancelling"]
           y == Doing("reread", r.attempt)
<1>1. /\ x \in Work /\ x.pc = "cancelling" /\ x.attempt = r.attempt /\ x.status = r.status
  BY DEF Work, Pc
<1>2. r.attempt \in Attempt /\ ByTerminal(r.attempt) /\ r.status \in Open
  BY DEF WorkSound
<1>3. y \in Work /\ y.pc = "reread" /\ y.attempt = r.attempt
  BY <1>2 DEF Doing, Idle, Work, Pc
<1> HIDE DEF x, y
<1>4. WorkSound(x) /\ WorkSound(y)
  BY <1>1, <1>2, <1>3 DEF WorkSound
<1> QED
  BY <1>1, <1>3, <1>4 DEF x, y

LEMMA RecordCancellingKeeps ==
    ASSUME IInv, NEW w \in Proc, RecordCancelling(w)
    PROVE  IInv'
<1> DEFINE c == procs[w].attempt
           from == procs[w].status
           q == Cancelling(payments[c], from)
           r == Doing("reread", procs[w].attempt)
<1>0. procs[w] \in Work /\ WorkSound(procs[w]) /\ procs[w].pc = "cancelling"
  BY DEF IInv, Typed, WorkTrue, RecordCancelling
<1>1. /\ c \in Attempt /\ c \in Rows /\ payments[c] \in Types
      /\ payments[c].status \in Known /\ payments[c].channel = "terminal"
  BY WorkRow DEF RecordCancelling
<1>2. from \in Open
  BY <1>0 DEF WorkSound
<1>3. r \in Work /\ WorkSound(r) /\ Goto(w, r)
  BY <1>0, NextStep DEF RecordCancelling
<1>4. UNCHANGED <<created, hold, outside>>
  BY DEF RecordCancelling
<1>5. CASE payments' = payments
  <2> HIDE DEF r
  <2>1. UNCHANGED <<ledger, posted, provider, reports, late, misjudged>>
        /\ cancels' \in 0..MaxCancels
    BY <1>4, <1>5 DEF ledger, outside, world, IInv, Typed
  <2> QED
    BY <1>3, <2>1, ProcStep
<1>6. CASE payments' # payments
  <2>1. payments' = [payments EXCEPT ![c] = q] /\ payments[c].status = from
    <3>1. payments' = [payments EXCEPT ![c].status = "cancelling", ![c].cancelledFrom = from]
          /\ payments[c].status = from
      BY <1>6 DEF RecordCancelling
    <3> QED
      BY <1>1, <3>1 DEF Cancelling, IInv, Typed
  <2>2. /\ q \in Types /\ q.status = "cancelling" /\ SameCharge(q, payments[c])
    BY <1>1, <1>2, CancellingRow
  <2>3. RowMay(c, q) /\ (misjudged = {} => RowFaithful(c, q))
    <3> HIDE DEF c, q, from
    <3>1. "cancelling" \in Open /\ "cancelling" \in Known
      BY DEF Open, Known
    <3>2. RowMay(c, q)
      BY <1>1, <1>2, <2>1, <2>2, <3>1 DEF RowMay, SameCharge
    <3>3. misjudged = {} => RowFaithful(c, q)
      BY <1>1, <2>2, <3>1 DEF RowFaithful, SameCharge, IInv, Faithful, OwnRefs
    <3> QED
      BY <3>2, <3>3
  <2>4. procs' \in [Proc -> Work] /\ \A v \in Proc : WorkSound(procs'[v])
    <3> HIDE DEF r
    <3> QED
      BY <1>3, WorkMoves
  <2>5. /\ hold' \in [till : Till \cup {NoTill}, live : BOOLEAN]
        /\ misjudged' = misjudged /\ misjudged' \in SUBSET Attempt
        /\ UNCHANGED <<created, world>>
    BY <1>4 DEF IInv, Typed, outside
  <2> HIDE DEF c, q
  <2> QED
    BY <1>1, <2>1, <2>2, <2>3, <2>4, <2>5, RowStep
<1> QED
  BY <1>5, <1>6

LEMMA ReadingSound ==
    ASSUME IInv, NEW d \in Attempt, provider[d].status # NoStatus,
           NEW source \in {"poll", "reconcile"}
    PROVE  Reading(d, source) \in Work /\ WorkSound(Reading(d, source))
<1> DEFINE r == Reading(d, source)
<1>1. provider[d].status \in Known
  BY DEF IInv, Typed
<1>2. /\ r \in Work /\ r.pc = "observe" /\ r.about = d /\ r.status = provider[d].status
  BY <1>1 DEF Reading, Idle, Work, Pc
<1>3. Said(d, provider[d].status)
  BY <1>1 DEF Said
<1> QED
  BY <1>2, <1>3 DEF WorkSound

\* The steps of a goroutine that leave the tables and the provider alone.
LEMMA LocalKeeps ==
    ASSUME IInv, NEW w \in Proc,
           \/ Crash(w) \/ Indeterminate(w) \/ CancelUnanswered(w) \/ RereadCancelled(w)
           \/ \E c \in Attempt : \/ Refresh(w, c, "poll") \/ Refresh(w, c, "reconcile")
                                 \/ List(w, c)
    PROVE  IInv'
<1>0. /\ UNCHANGED <<ledger, posted, provider, reports, late, misjudged>>
      /\ cancels' \in 0..MaxCancels
  BY DEF Crash, Indeterminate, CancelUnanswered, RereadCancelled, Refresh, List, outside,
         world, IInv, Typed
<1>1. CASE Crash(w) \/ Indeterminate(w)
  BY <1>0, <1>1, ProcStep, IdleSound DEF Crash, Indeterminate
<1>2. CASE CancelUnanswered(w)
  <2> DEFINE r == Doing("reread", procs[w].attempt)
  <2>1. procs[w] \in Work /\ WorkSound(procs[w]) /\ procs[w].pc \in {"cancel", "cancelling"}
    BY <1>2 DEF IInv, Typed, WorkTrue, CancelUnanswered
  <2>2. r \in Work /\ WorkSound(r) /\ Goto(w, r)
    BY <1>2, <2>1, NextStep DEF CancelUnanswered
  <2> HIDE DEF r
  <2> QED
    BY <1>0, <2>2, ProcStep
<1>3. ASSUME NEW d \in Attempt, NEW source \in {"poll", "reconcile"},
             provider[d].status # NoStatus, Goto(w, Reading(d, source))
      PROVE  IInv'
  BY <1>0, <1>3, ReadingSound, ProcStep
<1>4. CASE RereadCancelled(w)
  <2>1. CASE \E d \in AtProvider(procs[w].attempt) : Goto(w, Reading(d, "poll"))
    BY <1>3, <2>1 DEF AtProvider
  <2>2. CASE Goto(w, Idle)
    BY <1>0, <2>2, ProcStep, IdleSound
  <2> QED
    BY <1>4, <2>1, <2>2 DEF RereadCancelled
<1>5. ASSUME NEW c \in Attempt, NEW source \in {"poll", "reconcile"}, Refresh(w, c, source)
      PROVE  IInv'
  BY <1>3, <1>5 DEF Refresh, AtProvider
<1>6. ASSUME NEW c \in Attempt, List(w, c)
      PROVE  IInv'
  BY <1>3, <1>6 DEF List
<1> QED
  BY <1>1, <1>2, <1>4, <1>5, <1>6

LEMMA CancelKeeps ==
    ASSUME IInv, NEW w \in Proc, NEW c \in Attempt, Cancel(w, c)
    PROVE  IInv'
<1> DEFINE r == [Doing("cancel", c) EXCEPT !.status = payments[c].status]
<1>1. /\ c \in Rows /\ payments[c].status \in Open /\ payments[c].channel = "terminal"
  BY DEF Cancel, IInv, RowsFilled
<1>2. /\ r \in Work /\ r.pc = "cancel" /\ r.attempt = c /\ r.status = payments[c].status
  BY <1>1 DEF Doing, Idle, Work, Pc, Known
<1>3. Goto(w, r) /\ UNCHANGED <<ledger, posted, provider, reports, late, misjudged>>
  BY DEF Cancel
<1>4. cancels' \in 0..MaxCancels
  BY ChargesConstants DEF Cancel, IInv, Typed
<1> HIDE DEF r
<1>5. WorkSound(r)
  BY <1>1, <1>2 DEF WorkSound, ByTerminal
<1> QED
  BY <1>2, <1>3, <1>4, <1>5, ProcStep

LEMMA HoldKeeps ==
    ASSUME IInv, HoldExpires \/ \E t \in Till : AcquireHold(t) \/ ReleaseHold(t)
    PROVE  IInv'
<1>1. hold' \in [till : Till \cup {NoTill}, live : BOOLEAN]
  <2>1. hold \in [till : Till \cup {NoTill}, live : BOOLEAN]
    BY DEF IInv, Typed
  <2>2. CASE HoldExpires
    BY <2>1, <2>2 DEF HoldExpires
  <2>3. ASSUME NEW t \in Till, AcquireHold(t)
        PROVE  hold' \in [till : Till \cup {NoTill}, live : BOOLEAN]
    BY <2>3 DEF AcquireHold
  <2>4. ASSUME NEW t \in Till, ReleaseHold(t)
        PROVE  hold' \in [till : Till \cup {NoTill}, live : BOOLEAN]
    BY <2>4 DEF ReleaseHold, NoHold
  <2> QED
    BY <2>2, <2>3, <2>4
<1>2. UNCHANGED <<created, payments, procs, outside>>
  BY DEF HoldExpires, AcquireHold, ReleaseHold
<1> QED
  BY <1>1, <1>2, HoldStep

----------------------------------------------------------------------------
(* The actions of the provider *)

\* What the provider may do: it keeps what it has, its final words stay true, and
\* nothing gets hold of money that was not about to.
LEMMA ProviderStep ==
    ASSUME IInv, Typed', UNCHANGED <<ledger, misjudged>>,
           \A c \in Attempt : Sent(c)' => Sent(c),
           \A c \in Attempt : c \in posted' => provider'[c].status = NoStatus,
           \A c \in Attempt : provider[c].status # NoStatus => provider'[c].status # NoStatus,
           \A c \in Attempt : provider[c].status \in GaveUp \/ c \in late
                              => provider'[c].status \in GaveUp \/ c \in late',
           LiveSet' \subseteq LiveSet,
           \A r \in reports' : r \in reports \/ Said(r.about, r.status)',
           \A w \in Proc : procs'[w] = procs[w] \/ WorkSound(procs[w])'
    PROVE  IInv'
<1> USE DEF ledger
<1>1. Rows' = Rows /\ \A c : ByTerminal(c)' = ByTerminal(c)
  BY DEF Rows, ByTerminal
<1>2. RowsFilled'
  BY <1>1 DEF IInv, RowsFilled
<1>3. SentHasRow'
  BY <1>1 DEF IInv, SentHasRow
<1>4. Faithful => Unconfirmed' /\ OwnRefs'
  BY DEF Faithful, Unconfirmed, OwnRefs, Newest
<1>5. Faithful => LiveKept'
  BY DEF Faithful, LiveKept
<1>6. Faithful => LiveWithin'
  <2>1. PICK A : A = LiveSet'
    OBVIOUS
  <2>2. LiveSet \in SUBSET Attempt /\ payments \in [Attempt -> Types]
    BY DEF LiveSet, IInv, Typed
  <2>3. /\ Sum(payments, A) \in Nat /\ Sum(payments, LiveSet) \in Nat
        /\ Sum(payments, A) <= Sum(payments, LiveSet)
    BY <2>1, <2>2, SumKept
  <2>4. Total \in Nat
    BY ChargesConstants
  <2> QED
    BY <2>1, <2>3, <2>4 DEF Faithful, LiveWithin
<1>7. OneOpen'
  BY <1>1 DEF IInv, OneOpen
<1>8. \A d, s : Said(d, s) => Said(d, s)'
  BY DEF Said
<1>9. ReportsTrue'
  BY <1>8 DEF IInv, ReportsTrue
<1>10. WorkTrue'
  <2> SUFFICES ASSUME NEW w \in Proc, procs'[w] = procs[w]
               PROVE  WorkSound(procs[w])'
    BY DEF WorkTrue
  <2>1. PICK x : x = procs[w]
    OBVIOUS
  <2>2. WorkSound(x)
    BY <2>1 DEF IInv, WorkTrue
  <2>3. WorkSound(x)'
    BY <1>1, <1>8, <2>2 DEF WorkSound
  <2> QED
    BY <2>1, <2>3
<1> QED
  BY <1>2, <1>3, <1>4, <1>5, <1>6, <1>7, <1>9, <1>10 DEF IInv, Faithful

\* The provider moves payment d, which it has or is about to get, to s and says so.
LEMMA MoveStep ==
    ASSUME IInv, UNCHANGED <<ledger, misjudged>>, NEW d \in Attempt, NEW s \in Known,
           provider' \in [Attempt -> [status : Known \cup {NoStatus},
                                      from : Open \cup {NoStatus}]],
           provider'[d].status = s,
           \A c \in Attempt : c # d => provider'[c] = provider[c],
           reports' = reports \cup {[about |-> d, status |-> s]},
           posted' = posted \ {d},
           IF d \in posted \/ provider[d].status \in Open THEN late' = late
           ELSE late' = late \cup {d} /\ provider[d].status \in GaveUp,
           cancels' = cancels,
           procs' \in [Proc -> Work],
           \A w \in Proc : procs'[w] = procs[w] \/ WorkSound(procs[w])'
    PROVE  IInv'
<1>0. s # NoStatus /\ NoStatus \notin Open \cup GaveUp \cup {"paid"} /\ Open \cap GaveUp = {}
  BY DEF Known, Open, GaveUp, NoStatus
<1>1. Typed'
  BY DEF IInv, Typed, ledger
<1>2. Sent(d) /\ \A c \in Attempt : Sent(c)' => Sent(c)
  BY <1>0 DEF Sent
<1>3. \A c \in Attempt : c \in posted' => provider'[c].status = NoStatus
  BY DEF IInv, SentHasRow
<1>4. \A c \in Attempt : provider[c].status # NoStatus => provider'[c].status # NoStatus
  BY <1>0
<1>5. d \in posted => provider[d].status = NoStatus
  BY DEF IInv, SentHasRow
<1>6. \A c \in Attempt : provider[c].status \in GaveUp \/ c \in late
                         => provider'[c].status \in GaveUp \/ c \in late'
  BY <1>0, <1>5
<1>7. LiveSet' \subseteq LiveSet
  <2> SUFFICES ASSUME NEW c \in Attempt, c \notin late', Live(c)'
               PROVE  c \notin late /\ Live(c)
    BY DEF LiveSet
  <2>1. CASE c = d
    BY <2>1 DEF Live
  <2>2. CASE c # d
    BY <2>2 DEF Live, ledger
  <2> QED
    BY <2>1, <2>2
<1>8. \A r \in reports' : r \in reports \/ Said(r.about, r.status)'
  <2>1. Said(d, s)'
    BY <1>0 DEF Said
  <2> QED
    BY <2>1
<1> QED
  BY <1>1, <1>2, <1>3, <1>4, <1>6, <1>7, <1>8, ProviderStep

LEMMA StatusKnown ==
    ASSUME NEW c \in Attempt
    PROVE  ProviderStatus[c] \subseteq Known
BY ChargesConstants DEF Known

\* The goroutines that wait for the answer about attempt c.
LEMMA AnsweredTyped ==
    ASSUME IInv, NEW c \in Attempt, NEW pc \in {"created", "refused"},
           NEW s \in Known \cup {NoStatus}, procs' = Answered(c, pc, s)
    PROVE  /\ procs' \in [Proc -> Work]
           /\ \A w \in Proc :
                 procs'[w] = procs[w]
                 \/ /\ procs[w].pc = "create" /\ procs[w].attempt = c
                    /\ procs'[w].pc = pc /\ procs'[w].attempt = c /\ procs'[w].status = s
<1> DEFINE r == [Doing(pc, c) EXCEPT !.status = s]
<1>1. r \in Work /\ r.pc = pc /\ r.attempt = c /\ r.status = s
  BY DEF Doing, Idle, Work, Pc
<1>2. procs' = [w \in Proc |-> IF procs[w].pc = "create" /\ procs[w].attempt = c
                               THEN r ELSE procs[w]]
  BY DEF Answered
<1> HIDE DEF r
<1> QED
  BY <1>1, <1>2 DEF IInv, Typed

LEMMA ProviderCreatesKeeps ==
    ASSUME IInv, NEW c \in Attempt, ProviderCreates(c)
    PROVE  IInv'
<1>1. PICK s \in ProviderStatus[c] :
         /\ provider' = [provider EXCEPT ![c].status = s]
         /\ procs' = Answered(c, "created", s)
         /\ reports' = reports \cup {[about |-> c, status |-> s]}
  BY DEF ProviderCreates
<1>2. c \in posted /\ posted' = posted \ {c} /\ UNCHANGED <<ledger, late, misjudged, cancels>>
  BY DEF ProviderCreates
<1>3. s \in Known /\ s # NoStatus
  BY StatusKnown DEF Known, Open, GaveUp, NoStatus
<1>4. /\ provider' \in [Attempt -> [status : Known \cup {NoStatus},
                                   from : Open \cup {NoStatus}]]
      /\ provider'[c].status = s
      /\ \A d \in Attempt : d # c => provider'[d] = provider[d]
  BY <1>1, <1>3 DEF IInv, Typed
<1>5. /\ procs' \in [Proc -> Work]
      /\ \A w \in Proc :
            procs'[w] = procs[w]
            \/ /\ procs[w].pc = "create" /\ procs[w].attempt = c
               /\ procs'[w].pc = "created" /\ procs'[w].attempt = c /\ procs'[w].status = s
  BY <1>1, <1>3, AnsweredTyped
<1>6. \A w \in Proc : procs'[w] = procs[w] \/ WorkSound(procs[w])'
  <2>1. ByTerminal(c)' /\ Said(c, s)'
    <3>1. ByTerminal(c)
      BY <1>2 DEF IInv, SentHasRow, Sent
    <3> QED
      BY <1>2, <1>3, <1>4, <3>1 DEF ByTerminal, Rows, Said, ledger
  <2> SUFFICES ASSUME NEW w \in Proc, procs'[w] # procs[w]
               PROVE  WorkSound(procs[w])'
    OBVIOUS
  <2>2. procs'[w].pc = "created" /\ procs'[w].attempt = c /\ procs'[w].status = s
    BY <1>5
  <2> QED
    BY <2>1, <2>2 DEF WorkSound
<1> QED
  BY <1>1, <1>2, <1>3, <1>4, <1>5, <1>6, MoveStep

\* A request that is refused or lost leaves nothing at the provider.
LEMMA UnsentStep ==
    ASSUME IInv, NEW c \in posted, posted' = posted \ {c},
           UNCHANGED <<ledger, provider, reports, late, misjudged, cancels>>,
           procs' \in [Proc -> Work],
           \A w \in Proc : procs'[w] = procs[w] \/ WorkSound(procs[w])'
    PROVE  IInv'
<1>1. Typed'
  BY DEF IInv, Typed, ledger
<1>2. \A d \in Attempt : Sent(d)' => Sent(d)
  BY DEF Sent
<1>3. \A d \in Attempt : d \in posted' => provider'[d].status = NoStatus
  BY DEF IInv, SentHasRow
<1>4. LiveSet' \subseteq LiveSet
  BY DEF LiveSet, Live, ledger
<1> QED
  BY <1>1, <1>2, <1>3, <1>4, ProviderStep

LEMMA ProviderRefusesKeeps ==
    ASSUME IInv, NEW c \in Attempt, ProviderRefuses(c)
    PROVE  IInv'
<1>1. /\ procs' \in [Proc -> Work]
      /\ \A w \in Proc :
            procs'[w] = procs[w]
            \/ /\ procs[w].pc = "create" /\ procs[w].attempt = c
               /\ procs'[w].pc = "refused" /\ procs'[w].attempt = c
               /\ procs'[w].status = NoStatus
  BY AnsweredTyped DEF ProviderRefuses
<1>2. \A w \in Proc : procs'[w] = procs[w] \/ WorkSound(procs[w])'
  <2>1. ByTerminal(c)' /\ ~ Sent(c)'
    BY DEF ProviderRefuses, IInv, SentHasRow, Sent, ByTerminal, Rows, ledger
  <2> SUFFICES ASSUME NEW w \in Proc, procs'[w] # procs[w]
               PROVE  WorkSound(procs[w])'
    OBVIOUS
  <2>2. procs'[w].pc = "refused" /\ procs'[w].attempt = c
    BY <1>1
  <2> QED
    BY <2>1, <2>2 DEF WorkSound
<1> QED
  BY <1>1, <1>2, UnsentStep DEF ProviderRefuses

LEMMA RequestLostKeeps ==
    ASSUME IInv, NEW c \in Attempt, RequestLost(c)
    PROVE  IInv'
BY UnsentStep DEF RequestLost, IInv, Typed

LEMMA ProviderCancelsKeeps ==
    ASSUME IInv, NEW w \in Proc, NEW d \in Attempt, NEW s, ProviderCancels(w, d, s)
    PROVE  IInv'
<1> DEFINE r == IF s = "cancelling" THEN [procs[w] EXCEPT !.pc = "cancelling"]
                ELSE Doing("reread", procs[w].attempt)
<1>0. /\ procs[w] \in Work /\ WorkSound(procs[w]) /\ procs[w].pc = "cancel"
      /\ Goto(w, r)
  BY DEF ProviderCancels, IInv, Typed, WorkTrue
<1>1. r \in Work /\ WorkSound(r)
  BY <1>0, NextStep
<1>2. s \in Known /\ s \in {"cancelling", "cancelled"} /\ provider[d].status \in Open
  BY StatusKnown DEF ProviderCancels
<1>3. UNCHANGED <<ledger, posted, late, misjudged, cancels>>
      /\ reports' = reports \cup {[about |-> d, status |-> s]}
  BY DEF ProviderCancels
<1>4. posted' = posted \ {d}
  BY <1>2, <1>3 DEF IInv, SentHasRow, Open, NoStatus
<1>5. /\ provider' \in [Attempt -> [status : Known \cup {NoStatus},
                                   from : Open \cup {NoStatus}]]
      /\ provider'[d].status = s
      /\ \A c \in Attempt : c # d => provider'[c] = provider[c]
  BY <1>2 DEF ProviderCancels, IInv, Typed
<1> HIDE DEF r
<1>6. procs' \in [Proc -> Work] /\ \A v \in Proc : v # w => procs'[v] = procs[v]
  BY <1>0, <1>1 DEF Goto, IInv, Typed
<1>7. \A v \in Proc : procs'[v] = procs[v] \/ WorkSound(procs[v])'
  <2>1. procs'[w] = r
    BY <1>0 DEF Goto, IInv, Typed
  <2>2. WorkSound(procs[w])'
    <3>1. PICK x : x = r
      OBVIOUS
    <3>2. /\ x.pc \in {"cancelling", "reread"}
          /\ x.attempt \in Attempt /\ ByTerminal(x.attempt)
          /\ x.pc = "cancelling" => x.status \in Open
      <4>1. x.pc \in {"cancelling", "reread"}
        BY <1>0, <3>1 DEF r, Work, Doing, Idle
      <4> QED
        BY <1>1, <3>1, <4>1 DEF WorkSound
    <3>3. ByTerminal(x.attempt)'
      BY <1>3, <3>2 DEF ByTerminal, Rows, ledger
    <3>4. x = procs'[w]
      BY <2>1, <3>1
    <3>5. WorkSound(x)'
      BY <3>2, <3>3 DEF WorkSound
    <3> QED
      BY <3>4, <3>5
  <2> QED
    BY <1>6, <2>2
<1> QED
  BY <1>2, <1>3, <1>4, <1>5, <1>6, <1>7, MoveStep

LEMMA ProviderMovesKeeps ==
    ASSUME IInv, NEW d \in Attempt, NEW s, ProviderMoves(d, s)
    PROVE  IInv'
<1>1. s \in Known /\ provider[d].status \in Open
  BY StatusKnown DEF ProviderMoves
<1>2. posted' = posted \ {d}
  BY <1>1 DEF ProviderMoves, IInv, SentHasRow, Open, NoStatus
<1>3. /\ provider' \in [Attempt -> [status : Known \cup {NoStatus},
                                   from : Open \cup {NoStatus}]]
      /\ provider'[d].status = s
      /\ \A c \in Attempt : c # d => provider'[c] = provider[c]
  BY <1>1 DEF ProviderMoves, IInv, Typed
<1>4. procs' \in [Proc -> Work] /\ procs' = procs
  BY DEF ProviderMoves, IInv, Typed
<1> QED
  BY <1>1, <1>2, <1>3, <1>4, MoveStep DEF ProviderMoves

LEMMA LateCaptureKeeps ==
    ASSUME IInv, NEW d \in Attempt, LateCapture(d)
    PROVE  IInv'
<1>1. "paid" \in Known /\ provider[d].status \in GaveUp
  BY DEF LateCapture, Known
<1>2. posted' = posted \ {d}
  BY <1>1 DEF LateCapture, IInv, SentHasRow, GaveUp, NoStatus
<1>3. /\ provider' \in [Attempt -> [status : Known \cup {NoStatus},
                                   from : Open \cup {NoStatus}]]
      /\ provider'[d].status = "paid"
      /\ \A c \in Attempt : c # d => provider'[c] = provider[c]
  BY <1>1 DEF LateCapture, IInv, Typed
<1>4. procs' \in [Proc -> Work] /\ procs' = procs
  BY DEF LateCapture, IInv, Typed
<1>5. d \notin posted /\ provider[d].status \notin Open
  BY <1>1 DEF IInv, SentHasRow, Open, GaveUp, NoStatus
<1> QED
  BY <1>1, <1>2, <1>3, <1>4, <1>5, MoveStep DEF LateCapture

----------------------------------------------------------------------------
(* A new charge *)

\* What the replay check and the hold let through.
LEMMA NewCharge ==
    ASSUME IInv, NEW c \in Attempt, CheckReplay(c) = "new"
    PROVE  /\ c \notin Rows
           /\ payments[c] = NoPayment
           /\ ~ Sent(c)
           /\ \A d \in Rows : payments[d].status \notin Open
<1>1. c \notin Rows /\ \A d \in Rows : payments[d].status \notin Open
  BY DEF CheckReplay
<1> QED
  BY <1>1 DEF IInv, RowsFilled, SentHasRow, ByTerminal

\* With no payment open, what is live is paid in the ledger.
LEMMA LivePaid ==
    ASSUME IInv, Faithful, \A d \in Rows : payments[d].status \notin Open
    PROVE  LiveSet \subseteq {d \in Rows : payments[d].status \in Captured}
<1> SUFFICES ASSUME NEW d \in LiveSet
             PROVE  d \in Rows /\ payments[d].status \in Captured
  OBVIOUS
<1>1. d \in Attempt /\ payments[d].status \in Open \cup {"paid"}
  BY DEF Faithful, LiveKept, LiveSet
<1>2. d \in Rows
  <2>1. NoPayment.status = NoStatus /\ NoStatus \notin Open \cup {"paid"}
    BY DEF NoPayment, NoStatus, Open
  <2> QED
    BY <1>1, <2>1 DEF IInv, RowsFilled
<1> QED
  BY <1>1, <1>2 DEF Captured

LEMMA RowTyped ==
    ASSUME NEW c \in Attempt, NEW channel \in {"cash", "terminal"}, NEW amount \in Amount
    PROVE  LET q == Row(c, channel, amount)
           IN  /\ q \in Types
               /\ q.channel = channel
               /\ q.amount = amount
               /\ q.status = IF channel = "cash" THEN "paid" ELSE "pending"
               /\ q.ref = IF channel = "cash" THEN c ELSE NoAttempt
<1> DEFINE s == IF channel = "cash" THEN "paid" ELSE "pending"
           r == IF channel = "cash" THEN c ELSE NoAttempt
<1>1. s \in Status /\ r \in Attempt \cup {NoAttempt}
  BY DEF Status, Open, Captured
<1>2. Row(c, channel, amount) = [NoPayment EXCEPT !.channel = channel, !.amount = amount,
                                                  !.status = s, !.ref = r]
  BY DEF Row
<1>3. NoPayment \in Types
  BY DEF NoPayment, Types
<1> HIDE DEF s, r
<1>4. LET q == Row(c, channel, amount)
      IN  q \in Types /\ q.channel = channel /\ q.amount = amount /\ q.status = s /\ q.ref = r
  BY <1>1, <1>2, <1>3 DEF Types
<1> QED
  BY <1>4 DEF s, r

LEMMA RowsAppended ==
    ASSUME created \in Seq(Attempt), NEW c \in Attempt, created' = Append(created, c)
    PROVE  /\ created' \in Seq(Attempt)
           /\ Rows' = Rows \cup {c}
           /\ Newest(c)'
<1>1. /\ created' \in Seq(Attempt)
      /\ Len(created') = Len(created) + 1
      /\ Len(created) \in Nat
      /\ created'[Len(created) + 1] = c
      /\ \A i \in 1..Len(created) : created'[i] = created[i]
  BY AppendProperties
<1>2. DOMAIN created = 1..Len(created) /\ DOMAIN created' = 1..(Len(created) + 1)
  BY <1>1
<1>3. Rows' = Rows \cup {c}
  BY <1>1, <1>2 DEF Rows, Range
<1>4. Newest(c)'
  BY <1>1 DEF Newest
<1> QED
  BY <1>1, <1>3, <1>4

\* What has money or may get it stays within the total when c is charged.
LEMMA ChargeWithin ==
    ASSUME IInv, Faithful, NEW c \in Attempt, c \notin LiveSet, NEW q \in Types, q.amount \in Amount,
           \A d \in Rows : payments[d].status \notin Open,
           q.amount <= Total - Paid(Rows, payments),
           payments' = [payments EXCEPT ![c] = q],
           LiveSet' \subseteq LiveSet \cup {c}
    PROVE  LiveWithin'
<1> DEFINE f == Amounts(payments)
           L == LiveSet
           P == {d \in Rows : payments[d].status \in Captured}
<1>1. PICK g : g = Amounts(payments')
  OBVIOUS
<1>2. PICK M : M = LiveSet'
  OBVIOUS
<1>3. Rows \subseteq Attempt /\ payments \in [Attempt -> Types] /\ payments' \in [Attempt -> Types]
  BY DEF Rows, Range, IInv, Typed
<1>4. f \in [Attempt -> Nat] /\ g \in [Attempt -> Nat]
  BY <1>1, <1>3, AmountsTyped
<1>5. g[c] = q.amount /\ \A d \in L : f[d] = g[d]
  <2>1. g[c] = payments'[c].amount /\ \A d \in Attempt : f[d] = payments[d].amount /\ g[d] = payments'[d].amount
    BY <1>1 DEF Amounts
  <2>2. payments'[c] = q /\ \A d \in L : d \in Attempt /\ payments'[d] = payments[d]
    BY <1>3 DEF LiveSet
  <2> QED
    BY <2>1, <2>2
<1>6. /\ IsFiniteSet(Attempt) /\ L \in SUBSET Attempt /\ P \in SUBSET Attempt /\ L \in SUBSET P
      /\ M \in SUBSET (L \cup {c}) /\ L \cup {c} \in SUBSET Attempt
      /\ (L \cup {c}) \ {c} = L /\ c \in L \cup {c}
  BY ChargesConstants, LivePaid, <1>2, <1>3 DEF LiveSet
<1>7. IsFiniteSet(L)
  BY <1>6, FS_Subset
<1> HIDE DEF f, L, P
<1>8. SumOver(f, L) = SumOver(g, L)
  BY <1>5, <1>7, SumAgree
<1>9. SumOver(f, L) <= SumOver(f, P)
  BY <1>4, <1>6, SumSubset
<1>10. SumOver(g, M) <= SumOver(g, L \cup {c})
  BY <1>4, <1>6, SumSubset
<1>11. SumOver(g, L \cup {c}) = g[c] + SumOver(g, L)
  <2>1. PICK Z : Z = L \cup {c}
    OBVIOUS
  <2>2. SumOver(g, Z) = g[c] + SumOver(g, Z \ {c})
    BY <1>4, <1>6, <2>1, SumRemove
  <2> QED
    BY <1>6, <2>1, <2>2
<1>12. /\ SumOver(f, P) \in Nat /\ SumOver(f, L) \in Nat /\ SumOver(g, L) \in Nat
       /\ SumOver(g, M) \in Nat
  <2>1. M \in SUBSET Attempt
    BY <1>6
  <2> QED
    BY <1>4, <1>6, <2>1, SumIsNat
<1>13. Paid(Rows, payments) = SumOver(f, P)
  BY SumAs DEF Paid, f, P
<1>14. Sum(payments', M) = SumOver(g, M)
  BY <1>1, SumAs
<1>15. Total \in Nat /\ q.amount \in Nat
  BY ChargesConstants, AmountsPositive
<1>16. SumOver(g, M) <= Total
  BY <1>5, <1>8, <1>9, <1>10, <1>11, <1>12, <1>13, <1>15
<1> QED
  BY <1>2, <1>14, <1>16 DEF LiveWithin

LEMMA StartChargeKeeps ==
    ASSUME IInv, NEW w \in Proc, NEW t \in Till, NEW c \in Attempt, NEW a \in Amount,
           NEW via \in {"cash", "terminal"}, StartCharge(w, t, c, via, a)
    PROVE  IInv'
<1>1. PICK q : q = Row(c, via, a)
  OBVIOUS
<1>2. /\ q \in Types /\ q.channel = via /\ q.amount = a
      /\ q.status = IF via = "cash" THEN "paid" ELSE "pending"
      /\ q.ref = IF via = "cash" THEN c ELSE NoAttempt
  BY <1>1, RowTyped
<1>3. /\ payments' = [payments EXCEPT ![c] = q]
      /\ created' = Append(created, c)
      /\ UNCHANGED <<provider, reports, late, misjudged, cancels>>
  BY <1>1 DEF StartCharge
<1>4. /\ c \notin Rows /\ payments[c] = NoPayment /\ ~ Sent(c)
      /\ \A d \in Rows : payments[d].status \notin Open
  BY NewCharge DEF StartCharge
<1>5. /\ created' \in Seq(Attempt) /\ Rows' = Rows \cup {c} /\ Newest(c)'
  BY <1>3, RowsAppended DEF IInv, Typed
<1>6. /\ payments'[c] = q
      /\ \A d \in Attempt : d # c => payments'[d] = payments[d]
      /\ Rows \subseteq Attempt
  BY <1>3 DEF IInv, Typed, Rows, Range
<1>7. IF via = "cash" THEN UNCHANGED <<procs, posted>>
      ELSE Goto(w, Doing("create", c)) /\ posted' = posted \cup {c}
  BY DEF StartCharge
<1>8. hold' \in [till : Till \cup {NoTill}, live : BOOLEAN]
  <2>1. hold' = hold \/ \E paid : hold' = settleDocument(paid)
    BY DEF StartCharge
  <2> QED
    BY <2>1, HoldTyped DEF IInv, Typed
<1>9. PICK r : r = Doing("create", c)
  OBVIOUS
<1>10. r \in Work /\ r.pc = "create" /\ r.attempt = c
  BY <1>9 DEF Doing, Idle, Work, Pc
<1>11. Typed'
  <2>1. procs' \in [Proc -> Work]
    BY <1>7, <1>9, <1>10 DEF Goto, IInv, Typed
  <2>2. posted' \in SUBSET Attempt
    BY <1>7 DEF IInv, Typed
  <2> QED
    BY <1>2, <1>3, <1>5, <1>8, <2>1, <2>2 DEF IInv, Typed
<1>12. "pending" \in Open /\ "pending" \in Known /\ "paid" \in Known
  BY DEF Open, Known
<1>13. RowsFilled'
  <2> SUFFICES ASSUME NEW d \in Attempt
               PROVE  RowsFilled!(d)'
    BY DEF RowsFilled
  <2>1. CASE d = c
    BY <1>2, <1>5, <1>6, <1>12, <2>1
  <2>2. CASE d # c
    BY <1>5, <1>6, <2>2 DEF IInv, RowsFilled
  <2> QED
    BY <2>1, <2>2
<1>14. /\ \A d \in Attempt : d # c => Sent(d)' = Sent(d)
       /\ Sent(c)' => via = "terminal"
  BY <1>3, <1>4, <1>7 DEF Sent
<1>15. \A d \in Attempt : ByTerminal(d) => d # c /\ ByTerminal(d)'
  BY <1>4, <1>5, <1>6 DEF ByTerminal
<1>16. SentHasRow'
  <2> SUFFICES ASSUME NEW d \in Attempt
               PROVE  /\ Sent(d)' => ByTerminal(d)'
                      /\ d \in posted' => provider'[d].status = NoStatus
    BY DEF SentHasRow
  <2>1. CASE d = c
    BY <1>2, <1>3, <1>4, <1>5, <1>6, <1>14, <2>1 DEF ByTerminal, Sent
  <2>2. CASE d # c
    BY <1>3, <1>7, <1>14, <1>15, <2>2 DEF IInv, SentHasRow
  <2> QED
    BY <2>1, <2>2
<1>17. ReportsTrue'
  BY <1>3 DEF IInv, ReportsTrue, Said
<1>18. WorkTrue'
  <2> SUFFICES ASSUME NEW v \in Proc
               PROVE  WorkSound(procs[v])'
    BY DEF WorkTrue
  <2>1. PICK x : x = procs'[v]
    OBVIOUS
  <2>2. x = procs[v] \/ (x = r /\ via # "cash")
    <3>1. CASE via = "cash"
      <4>1. procs' = procs
        BY <1>7, <3>1
      <4> QED
        BY <2>1, <4>1
    <3>2. CASE via # "cash"
      <4>1. procs' = [procs EXCEPT ![w] = r] /\ procs \in [Proc -> Work]
        BY <1>7, <1>9, <3>2 DEF Goto, IInv, Typed
      <4> QED
        BY <2>1, <3>2, <4>1
    <3> QED
      BY <3>1, <3>2
  <2>3. CASE x = procs[v]
    <3>1. WorkSound(x)
      BY <2>3 DEF IInv, WorkTrue
    <3>2. \A d, s : Said(d, s) => Said(d, s)'
      BY <1>3 DEF Said
    <3>3. WorkSound(x)'
      BY <1>3, <1>14, <1>15, <3>1, <3>2 DEF WorkSound
    <3> QED
      BY <2>1, <3>3
  <2>4. CASE x = r /\ via # "cash"
    <3>1. ByTerminal(c)'
      BY <1>2, <1>5, <1>6, <2>4 DEF ByTerminal
    <3>2. WorkSound(x)'
      BY <1>10, <2>4, <3>1 DEF WorkSound
    <3> QED
      BY <2>1, <3>2
  <2> QED
    BY <2>2, <2>3, <2>4
<1>20. c \notin LiveSet
  <2>1. payments[c].channel = "none"
    <3>1. NoPayment.channel = "none"
      BY DEF NoPayment
    <3> QED
      BY <1>4, <3>1
  <2>2. c \notin posted /\ provider[c].status \notin Open \cup {"paid"}
    BY <1>4 DEF Sent, NoStatus, Open
  <2> QED
    BY <2>1, <2>2 DEF LiveSet, Live
<1>21. LiveSet' \subseteq LiveSet \cup {c}
  BY <1>3, <1>6, <1>7 DEF LiveSet, Live
<1>22. ASSUME Faithful PROVE Unconfirmed' /\ OwnRefs'
  <2>1. ASSUME NEW d \in Attempt, Sent(d)', payments'[d].ref = NoAttempt
        PROVE  payments'[d].status \in Open /\ Newest(d)'
    <3>1. CASE d = c
      BY <1>2, <1>5, <1>6, <1>12, <2>1, <3>1, ChargesConstants
    <3>2. CASE d # c
      <4>1. Sent(d) /\ payments[d].ref = NoAttempt
        BY <1>6, <1>14, <2>1, <3>2
      <4>2. payments[d].status \in Open /\ d \in Rows
        BY <1>22, <4>1 DEF IInv, Faithful, Unconfirmed, SentHasRow, ByTerminal
      <4> QED
        BY <1>4, <4>2
    <3> QED
      BY <3>1, <3>2
  <2>2. OwnRefs'
    BY <1>2, <1>6, <1>22 DEF Faithful, OwnRefs
  <2> QED
    BY <2>1, <2>2 DEF Unconfirmed
<1>19. ASSUME Faithful PROVE LiveKept'
  <2> SUFFICES ASSUME NEW d \in LiveSet'
               PROVE  payments'[d].status \in Open \cup {"paid"}
    BY DEF LiveKept
  <2>1. CASE d = c
    BY <1>2, <1>6, <1>12, <2>1
  <2>2. CASE d # c
    <3>1. d \in LiveSet /\ d \in Attempt
      BY <1>21, <2>2 DEF LiveSet
    <3> QED
      BY <1>6, <1>19, <2>2, <3>1 DEF Faithful, LiveKept
  <2> QED
    BY <2>1, <2>2
<1>23. ASSUME Faithful PROVE LiveWithin'
  <2>1. q.amount <= Total - Paid(Rows, payments)
    BY <1>2 DEF StartCharge
  <2> QED
    BY <1>2, <1>3, <1>4, <1>20, <1>21, <1>23, <2>1, ChargeWithin
<1>24. OneOpen'
  <2>1. \A d \in Rows' : payments'[d].status \in Open => d = c
    BY <1>4, <1>5, <1>6
  <2> QED
    BY <2>1 DEF OneOpen
<1> QED
  BY <1>3, <1>11, <1>13, <1>16, <1>17, <1>18, <1>19, <1>22, <1>23, <1>24 DEF IInv, Faithful

----------------------------------------------------------------------------
(* The invariant and what follows from it *)

LEMMA InitHolds ==
    Init => IInv
<1> SUFFICES ASSUME Init PROVE IInv
  OBVIOUS
<1> USE DEF Init
<1>1. NoPayment \in Types /\ Idle \in Work
  BY IdleSound DEF NoPayment, Types
<1>2. Typed
  <2>1. NoHold \in [till : Till \cup {NoTill}, live : BOOLEAN]
    BY DEF NoHold
  <2>2. cancels \in 0..MaxCancels /\ created \in Seq(Attempt)
    BY ChargesConstants
  <2> QED
    BY <1>1, <2>1, <2>2 DEF Typed
<1>3. Rows = {}
  BY DEF Rows, Range
<1>4. \A c \in Attempt : /\ payments[c] = NoPayment /\ ~ Sent(c)
                         /\ payments[c].channel = "none" /\ payments[c].ref = NoAttempt
  BY DEF Sent, NoPayment
<1>5. RowsFilled /\ SentHasRow /\ Unconfirmed /\ OwnRefs /\ OneOpen
  BY <1>3, <1>4 DEF RowsFilled, SentHasRow, Sent, Unconfirmed, OwnRefs, OneOpen
<1>6. ReportsTrue
  BY DEF ReportsTrue
<1>7. WorkTrue
  BY IdleSound DEF WorkTrue
<1>8. LiveSet = {}
  BY <1>4 DEF LiveSet, Live, Sent, Open, NoStatus
<1>9. LiveKept /\ LiveWithin
  <2>1. Sum(payments, LiveSet) = 0
    BY <1>8, SumAs, SumOfNone
  <2> QED
    BY <1>8, <2>1, ChargesConstants DEF LiveKept, LiveWithin
<1> QED
  BY <1>2, <1>5, <1>6, <1>7, <1>9 DEF IInv, Faithful

LEMMA NextKeeps ==
    IInv /\ [Next]_vars => IInv'
<1> SUFFICES ASSUME IInv, [Next]_vars PROVE IInv'
  OBVIOUS
<1>1. CASE UNCHANGED vars
  <2>1. hold' \in [till : Till \cup {NoTill}, live : BOOLEAN]
        /\ UNCHANGED <<created, payments, procs, outside>>
    BY <1>1 DEF vars, outside, world, IInv, Typed
  <2> QED
    BY <2>1, HoldStep
<1>2. CASE HoldExpires \/ \E t \in Till : AcquireHold(t) \/ ReleaseHold(t)
  BY <1>2, HoldKeeps
<1>3. ASSUME NEW w \in Channel, NEW t \in Till, NEW c \in Attempt, NEW a \in Amount,
             NEW channel \in {"cash", "terminal"}, StartCharge(w, t, c, channel, a)
      PROVE  IInv'
  BY <1>3, StartChargeKeeps DEF Proc
<1>4. ASSUME NEW c \in Attempt, ProviderCreates(c) \/ ProviderRefuses(c) \/ RequestLost(c)
      PROVE  IInv'
  BY <1>4, ProviderCreatesKeeps, ProviderRefusesKeeps, RequestLostKeeps
<1>5. ASSUME NEW w \in Proc, LedgerStep(w) \/ Crash(w)
      PROVE  IInv'
  BY <1>5, RecordCreatedKeeps, markFailedKeeps, ObserveReadingKeeps, CommitKeeps,
     RecordCancellingKeeps, LocalKeeps DEF LedgerStep
<1>6. ASSUME NEW w \in Proc, NEW r \in reports, Webhook(w, r)
      PROVE  IInv'
  BY <1>6, WebhookKeeps
<1>7. ASSUME NEW w \in Reconciler, NEW c \in Attempt, Refresh(w, c, "reconcile") \/ List(w, c)
      PROVE  IInv'
  BY <1>7, LocalKeeps DEF Proc
<1>8. ASSUME NEW w \in Channel, NEW c \in Attempt,
             \/ Refresh(w, c, "poll") \/ Cancel(w, c)
             \/ \E s \in ProviderStatus[c] : ProviderCancels(w, c, s)
      PROVE  IInv'
  BY <1>8, LocalKeeps, CancelKeeps, ProviderCancelsKeeps DEF Proc
<1>9. ASSUME NEW c \in Attempt, \E s \in ProviderStatus[c] : ProviderMoves(c, s)
      PROVE  IInv'
  BY <1>9, ProviderMovesKeeps
<1>10. ASSUME NEW c \in Attempt, LateCapture(c)
       PROVE  IInv'
  BY <1>10, LateCaptureKeeps
<1> QED
  BY <1>1, <1>2, <1>3, <1>4, <1>5, <1>6, <1>7, <1>8, <1>9, <1>10, AskedIsAmount DEF Next, Proc

\* The invariant that the theorems below are read off.
THEOREM InvariantHolds == Spec => []IInv
BY InitHolds, NextKeeps, PTL DEF Spec

\* The tables, the goroutines and the provider keep their types: a reading raises
\* no flag and records no event other than those of a document without refunds.
THEOREM TypeCorrect == Spec => []TypeOK
<1>1. IInv => TypeOK
  <2>1. Known \subseteq Status
    BY DEF Known, Status, Captured
  <2> QED
    BY <2>1 DEF IInv, Typed, TypeOK
<1> QED
  BY <1>1, InvariantHolds, PTL

\* StartCharge opens no second payment of a document while one is open, and no
\* reading opens one again other than by a correction.
THEOREM SingleOpen == Spec => []OneOpen
<1>1. IInv => OneOpen
  BY DEF IInv
<1> QED
  BY <1>1, InvariantHolds, PTL

\* The money that the provider and the drawer have of a document is never more
\* than its total, for any attempts and amounts and however calls are lost or late,
\* except what the provider captured after giving it up, and until markFailed takes
\* an error for the refusal of a request that reached the provider.
THEOREM ChargedAtMostOnce == Spec => []ChargedOnce
<1>1. IInv => ChargedOnce
  <2> SUFFICES ASSUME IInv, misjudged = {}
               PROVE  Sum(payments, {c \in Attempt \ late : HasMoney(c)}) <= Total
    BY DEF ChargedOnce
  <2> DEFINE M == {c \in Attempt \ late : HasMoney(c)}
  <2>1. M \in SUBSET LiveSet /\ LiveSet \in SUBSET Attempt /\ payments \in [Attempt -> Types]
    BY DEF HasMoney, LiveSet, Live, IInv, Typed
  <2> HIDE DEF M
  <2>2. /\ Sum(payments, M) \in Nat /\ Sum(payments, LiveSet) \in Nat
        /\ Sum(payments, M) <= Sum(payments, LiveSet)
    BY <2>1, SumKept
  <2>3. Sum(payments, LiveSet) <= Total /\ Total \in Nat
    BY ChargesConstants DEF IInv, Faithful, LiveWithin
  <2>4. Sum(payments, M) <= Total
    BY <2>2, <2>3
  <2> QED
    BY <2>4 DEF M
<1> QED
  BY <1>1, InvariantHolds, PTL

\* Until markFailed takes an error for the refusal of a request that reached the
\* provider, findPayment takes no update for another payment than the one it is
\* about, also before the answer to the creation request has named the payment.
THEOREM ReadingsFindTheirRow == Spec => []Attributed
BY Found, InvariantHolds, PTL

----------------------------------------------------------------------------
(* What a step may never do *)

\* An update about payment d is recorded on row c.
Reads(c, d, s, source) ==
    /\ Said(d, s)
    /\ Record(c, d, s, source)
    /\ Written(c, d, s, source)
    /\ c = NoAttempt \/ (c \in Attempt /\ ByTerminal(c))
    /\ misjudged = {} => c = d
    /\ created' = created

LEMMA TakeReads ==
    ASSUME IInv, NEW w, NEW d, NEW s, NEW source, Said(d, s), Take(w, d, s, source)
    PROVE  \/ UNCHANGED <<created, payments>>
           \/ \E c : Reads(c, d, s, source) /\ ~ Settles(c, d, s, source)
<1>1. PICK c : c = findPayment(d)
  OBVIOUS
<1>2. /\ c = NoAttempt \/ (c \in Attempt /\ ByTerminal(c))
      /\ misjudged = {} => c = d
  <2>1. d \in Attempt /\ Sent(d) /\ provider[d].status # NoStatus
    BY DEF Said, Sent
  <2> QED
    BY <1>1, <2>1, RowFound, Found DEF Attributed
<1>3. CASE Settles(c, d, s, source)
  BY <1>1, <1>3 DEF Take
<1>4. CASE ~ Settles(c, d, s, source)
  <2>1. Record(c, d, s, source) /\ created' = created
    BY <1>1, <1>4 DEF Take
  <2>2. Written(c, d, s, source)
    BY <1>2, <2>1, Recorded, OrphanRecorded
  <2> QED
    BY <1>2, <1>4, <2>1, <2>2 DEF Reads
<1> QED
  BY <1>3, <1>4

LEMMA CommitReads ==
    ASSUME IInv, NEW w \in Proc, Commit(w)
    PROVE  Reads(procs[w].attempt, procs[w].about, procs[w].status, procs[w].source)
<1>1. /\ procs[w].attempt \in Attempt /\ ByTerminal(procs[w].attempt)
      /\ Said(procs[w].about, procs[w].status)
      /\ misjudged = {} => procs[w].attempt = procs[w].about
  BY CommitRow DEF Commit
<1>2. Record(procs[w].attempt, procs[w].about, procs[w].status, procs[w].source)
      /\ created' = created
  BY DEF Commit
<1>3. Written(procs[w].attempt, procs[w].about, procs[w].status, procs[w].source)
  BY <1>1, <1>2, Recorded
<1> QED
  BY <1>1, <1>2, <1>3 DEF Reads

\* The steps that change rows of the ledger: a charge, an answer, an update.
LEMMA RowSteps ==
    ASSUME IInv, [Next]_vars
    PROVE  \/ UNCHANGED <<created, payments>>
           \/ \E w \in Channel, t \in Till, c \in Attempt, a \in Amount,
                 channel \in {"cash", "terminal"} : StartCharge(w, t, c, channel, a)
           \/ \E w \in Proc : RecordCreated(w) \/ markFailed(w) \/ RecordCancelling(w)
           \/ \E c, d, s, source : Reads(c, d, s, source) /\ ~ Settles(c, d, s, source)
           \/ \E w \in Proc : Commit(w)
<1>1. CASE UNCHANGED vars
  BY <1>1 DEF vars
<1>2. CASE HoldExpires \/ \E t \in Till : AcquireHold(t) \/ ReleaseHold(t)
  BY <1>2 DEF HoldExpires, AcquireHold, ReleaseHold
<1>3. ASSUME NEW c \in Attempt, ProviderCreates(c) \/ ProviderRefuses(c) \/ RequestLost(c)
      PROVE  UNCHANGED <<created, payments>>
  BY <1>3 DEF ProviderCreates, ProviderRefuses, RequestLost, ledger
<1>4. ASSUME NEW w \in Proc,
             Indeterminate(w) \/ CancelUnanswered(w) \/ RereadCancelled(w) \/ Crash(w)
      PROVE  UNCHANGED <<created, payments>>
  BY <1>4 DEF Indeterminate, CancelUnanswered, RereadCancelled, Crash, ledger
<1>5. ASSUME NEW w, NEW c \in Attempt,
             \/ Refresh(w, c, "reconcile") \/ List(w, c) \/ Refresh(w, c, "poll")
             \/ Cancel(w, c) \/ \E s \in ProviderStatus[c] : ProviderCancels(w, c, s)
      PROVE  UNCHANGED <<created, payments>>
  BY <1>5 DEF Refresh, List, Cancel, ProviderCancels, ledger
<1>6. ASSUME NEW c \in Attempt,
             LateCapture(c) \/ \E s \in ProviderStatus[c] : ProviderMoves(c, s)
      PROVE  UNCHANGED <<created, payments>>
  BY <1>6 DEF LateCapture, ProviderMoves, ledger
<1>7. ASSUME NEW w \in Proc, ObserveReading(w)
      PROVE  \/ UNCHANGED <<created, payments>>
             \/ \E c, d, s, source : Reads(c, d, s, source) /\ ~ Settles(c, d, s, source)
  <2>1. Said(procs[w].about, procs[w].status)
    BY <1>7 DEF ObserveReading, IInv, WorkTrue, WorkSound
  <2> QED
    BY <1>7, <2>1, TakeReads DEF ObserveReading
<1>8. ASSUME NEW w \in Proc, NEW r \in reports, Webhook(w, r)
      PROVE  \/ UNCHANGED <<created, payments>>
             \/ \E c, d, s, source : Reads(c, d, s, source) /\ ~ Settles(c, d, s, source)
  <2>1. Said(r.about, r.status)
    BY DEF IInv, ReportsTrue
  <2>2. PICK source : source = "webhook"
    OBVIOUS
  <2> QED
    BY <1>8, <2>1, <2>2, TakeReads DEF Webhook
<1> QED
  BY <1>1, <1>2, <1>3, <1>4, <1>5, <1>6, <1>7, <1>8, AskedIsAmount DEF Next, LedgerStep, Proc

\* The answer to a request changes a status to failed or cancelling only.
LEMMA AnswerSteps ==
    ASSUME IInv, NEW w \in Proc, RecordCreated(w) \/ markFailed(w) \/ RecordCancelling(w),
           NEW d \in Attempt
    PROVE  /\ created' = created
           /\ payments'[d] \in Types
           /\ payments'[d].amount = payments[d].amount
           /\ \/ payments'[d].status = payments[d].status
              \/ payments'[d].status \in {"failed", "cancelling"}
<1> DEFINE c == procs[w].attempt
           from == procs[w].status
<1>1. /\ c \in Attempt /\ payments[c] \in Types /\ payments \in [Attempt -> Types]
  <2>1. procs[w].pc \in {"create", "created", "refused", "cancelling"}
    BY DEF RecordCreated, markFailed, RecordCancelling
  <2> QED
    BY <2>1, WorkRow DEF IInv, Typed
<1>2. created' = created
  BY DEF RecordCreated, markFailed, RecordCancelling
<1>3. \/ payments' = payments
      \/ \E r \in Attempt \cup {NoAttempt} :
            payments' = [payments EXCEPT ![c] = Referenced(payments[c], r)]
      \/ payments' = [payments EXCEPT ![c] = Failing(payments[c])]
      \/ /\ payments' = [payments EXCEPT ![c] = Cancelling(payments[c], from)]
         /\ from \in Open
  <2>1. CASE RecordCreated(w)
    <3>1. payments[c].ref \in Attempt \cup {NoAttempt}
      BY <1>1 DEF Types
    <3> QED
      BY <1>1, <2>1, <3>1, CreatedRow
  <2>2. CASE markFailed(w)
    BY <1>1, <2>2 DEF markFailed, FailPending, Failing
  <2>3. CASE RecordCancelling(w)
    <3>1. \/ payments' = payments
          \/ payments' = [payments EXCEPT ![c].status = "cancelling", ![c].cancelledFrom = from]
      BY <2>3 DEF RecordCancelling
    <3>2. from \in Open
      BY <2>3 DEF RecordCancelling, IInv, WorkTrue, WorkSound
    <3> QED
      BY <1>1, <3>1, <3>2 DEF Cancelling
  <2> QED
    BY <2>1, <2>2, <2>3
<1> HIDE DEF c, from
<1>4. \A r \in Attempt \cup {NoAttempt} :
         /\ Referenced(payments[c], r) \in Types
         /\ Referenced(payments[c], r).amount = payments[c].amount
         /\ Referenced(payments[c], r).status = payments[c].status
  BY <1>1, ReferencedRow
<1>5. /\ Failing(payments[c]) \in Types
      /\ Failing(payments[c]).amount = payments[c].amount
      /\ Failing(payments[c]).status \in {payments[c].status, "failed"}
  BY <1>1, FailingRow DEF SameCharge
<1>6. from \in Open => /\ Cancelling(payments[c], from) \in Types
                       /\ Cancelling(payments[c], from).amount = payments[c].amount
                       /\ Cancelling(payments[c], from).status = "cancelling"
  BY <1>1, CancellingRow DEF SameCharge
<1> QED
  BY <1>1, <1>2, <1>3, <1>4, <1>5, <1>6

Before == {"pending", "requires_action", "at_device"}

\* A reading does not take an authorization back.
LEMMA ReadingForward ==
    ASSUME NEW p \in Types, p.status \in Known, NEW s \in Known, NEW q,
           NEW applied \in BOOLEAN, NEW d,
           RowAfter(p, d, s, q, applied), Authorized(p)
    PROVE  q.status \notin Before
<1>1. p.status \in {"authorized", "cancelling"} /\ p.status \notin GaveUp \cup {"paid"}
  BY DEF Authorized, GaveUp
<1>2. CASE ~ applied
  BY <1>1, <1>2 DEF RowAfter, Kept, Before
<1>3. CASE applied
  <2>1. q.status = s /\ ~ staleAfterCancelling(p, s) /\ Reachable(p.status, s)
    BY <1>1, <1>3 DEF RowAfter
  <2>2. CASE p.status = "authorized"
    BY <2>1, <2>2, PastAuthorized DEF Before
  <2>3. CASE p.status = "cancelling" /\ p.cancelledFrom = "authorized"
    <3>1. /\ openRank["authorized"] = 2 /\ openRank["pending"] = 0
          /\ openRank["requires_action"] = 1 /\ openRank["at_device"] = 1
      BY DEF openRank
    <3>2. \A x \in Before : x \in Open \ {"cancelling", "authorized"} /\ openRank[x] <= 2
      BY <3>1 DEF Before, Open
    <3>3. "authorized" \in Open \ {"cancelling"}
      BY DEF Open
    <3> QED
      BY <2>1, <2>3, <3>1, <3>2, <3>3 DEF staleAfterCancelling
  <2> QED
    BY <2>2, <2>3 DEF Authorized
<1> QED
  BY <1>2, <1>3

LEMMA AuthorizationStep ==
    ASSUME IInv, [Next]_vars, NEW c \in Attempt, Authorized(payments[c])
    PROVE  payments'[c].status \notin Before
<1>0. /\ payments[c].status \in {"authorized", "cancelling"}
      /\ payments \in [Attempt -> Types]
      /\ "authorized" \notin Before /\ "cancelling" \notin Before
  BY DEF Authorized, IInv, Typed, Before
<1>1. c \in Rows /\ payments[c].status \in Known
  <2>1. NoPayment.status = NoStatus /\ NoStatus \notin {"authorized", "cancelling"}
    BY DEF NoPayment, NoStatus
  <2> QED
    BY <1>0, <2>1 DEF IInv, RowsFilled
<1>2. CASE UNCHANGED <<created, payments>>
  BY <1>0, <1>2
<1>3. ASSUME NEW w, NEW t, NEW d \in Attempt, NEW a, NEW via, StartCharge(w, t, d, via, a)
      PROVE  payments'[c].status \notin Before
  <2>1. d # c
    BY <1>1, <1>3, NewCharge DEF StartCharge
  <2>2. payments'[c] = payments[c]
    BY <1>0, <1>3, <2>1 DEF StartCharge
  <2> QED
    BY <1>0, <2>2
<1>4. ASSUME NEW w \in Proc, RecordCreated(w) \/ markFailed(w) \/ RecordCancelling(w)
      PROVE  payments'[c].status \notin Before
  BY <1>0, <1>4, AnswerSteps DEF Before
<1>5. ASSUME NEW e, NEW d, NEW s, NEW source, Reads(e, d, s, source)
      PROVE  payments'[c].status \notin Before
  <2>1. Written(e, d, s, source) /\ s \in Known
    BY <1>5 DEF Reads, Said
  <2>2. CASE e = c
    <3>1. /\ Taken(c, d, s, source) \in BOOLEAN
          /\ RowAfter(payments[c], d, s, payments'[c], Taken(c, d, s, source))
      BY <2>1, <2>2, ChargesConstants DEF Written
    <3> QED
      BY <1>0, <1>1, <2>1, <3>1, ReadingForward
  <2>3. CASE e # c
    BY <1>0, <2>1, <2>3 DEF Written, Kept
  <2> QED
    BY <2>2, <2>3
<1>6. ASSUME NEW w \in Proc, Commit(w)
      PROVE  payments'[c].status \notin Before
  BY <1>5, <1>6, CommitReads
<1> QED
  BY <1>2, <1>3, <1>4, <1>5, <1>6, RowSteps

\* Whatever arrives late, twice or in any order, no step takes an authorized
\* payment, or one whose cancellation the ledger asked for then, to a step before it.
THEOREM AuthorizationKept == Spec => NoLostAuthorization
<1>1. IInv /\ [Next]_vars => [\A c \in Attempt :
          Authorized(payments[c]) =>
              payments'[c].status \notin {"pending", "requires_action", "at_device"}]_vars
  BY AuthorizationStep DEF Before
<1> QED
  BY <1>1, InvariantHolds, PTL DEF Spec, NoLostAuthorization

\* What is paid does not grow when nothing new is captured.
LEMMA PaidShrinks ==
    ASSUME IInv, IInv',
           \A d \in Attempt : d \in Rows' /\ payments'[d].status \in Captured
                              => /\ d \in Rows /\ payments[d].status \in Captured
                                 /\ payments'[d].amount = payments[d].amount
    PROVE  /\ Paid(Rows, payments)' <= Paid(Rows, payments)
           /\ Paid(Rows, payments)' \in Nat
           /\ Paid(Rows, payments) \in Nat
<1> DEFINE f == Amounts(payments)
           P == {d \in Rows : payments[d].status \in Captured}
<1>1. PICK g : g = Amounts(payments')
  OBVIOUS
<1>2. PICK Q : Q = {d \in Rows' : payments'[d].status \in Captured}
  OBVIOUS
<1>3. /\ Rows \subseteq Attempt /\ Rows' \subseteq Attempt
      /\ payments \in [Attempt -> Types] /\ payments' \in [Attempt -> Types]
  BY DEF Rows, Range, IInv, Typed
<1>4. f \in [Attempt -> Nat] /\ g \in [Attempt -> Nat]
  BY <1>1, <1>3, AmountsTyped
<1>5. IsFiniteSet(Attempt) /\ P \in SUBSET Attempt /\ Q \in SUBSET P /\ Q \in SUBSET Attempt
  BY <1>2, <1>3, ChargesConstants
<1>6. \A d \in Q : g[d] = f[d]
  BY <1>1, <1>2, <1>3 DEF Amounts
<1>7. Paid(Rows, payments)' = SumOver(g, Q)
  <2>1. Paid(Rows, payments)' = Sum(payments', Q)
    BY <1>2 DEF Paid
  <2> QED
    BY <1>1, <2>1, SumAs
<1>8. Paid(Rows, payments) = SumOver(f, P)
  BY SumAs DEF Paid
<1> HIDE DEF f, P
<1>9. SumOver(g, Q) = SumOver(f, Q)
  <2>1. IsFiniteSet(Q)
    BY <1>5, FS_Subset
  <2> QED
    BY <1>6, <2>1, SumAgree
<1>10. SumOver(f, Q) <= SumOver(f, P)
  BY <1>4, <1>5, SumSubset
<1>11. SumOver(f, Q) \in Nat /\ SumOver(f, P) \in Nat
  BY <1>4, <1>5, SumIsNat
<1> QED
  BY <1>7, <1>8, <1>9, <1>10, <1>11

\* Covering the document is the step that takes Paid from below its total to it.
Covers == Paid(Rows, payments) < Total /\ Paid(Rows, payments)' >= Total

LEMMA NotCovered ==
    ASSUME IInv, IInv',
           \A d \in Attempt : d \in Rows' /\ payments'[d].status \in Captured
                              => /\ d \in Rows /\ payments[d].status \in Captured
                                 /\ payments'[d].amount = payments[d].amount
    PROVE  ~ Covers
<1>1. /\ Paid(Rows, payments)' <= Paid(Rows, payments)
      /\ Paid(Rows, payments)' \in Nat /\ Paid(Rows, payments) \in Nat
  BY PaidShrinks
<1>2. Total \in Nat
  BY ChargesConstants
<1> QED
  BY <1>1, <1>2 DEF Covers

\* The total paid once row c has the status s.
LEMMA PaidAfter ==
    ASSUME IInv, NEW c \in Attempt, NEW s \in Status, payments' \in [Attempt -> Types],
           created' = created, payments'[c].status = s,
           payments'[c].amount = payments[c].amount,
           \A e \in Attempt \ {c} : /\ payments'[e].status = payments[e].status
                                    /\ payments'[e].amount = payments[e].amount
    PROVE  Paid(Rows, payments)' = PaidWith(c, s)
<1>1. PICK pay : pay = [payments EXCEPT ![c].status = s]
  OBVIOUS
<1>2. PICK now : now = payments'
  OBVIOUS
<1>3. /\ Rows' = Rows /\ Rows \subseteq Attempt /\ payments \in [Attempt -> Types]
      /\ payments[c] \in Types
  BY DEF Rows, Range, IInv, Typed
<1>4. \A e \in Attempt : pay[e].status = now[e].status /\ pay[e].amount = now[e].amount
  <2>1. pay[c].status = s /\ pay[c].amount = payments[c].amount
    BY <1>1, <1>3 DEF Types
  <2>2. \A e \in Attempt \ {c} : pay[e] = payments[e]
    BY <1>1, <1>3
  <2> QED
    BY <1>2, <2>1, <2>2
<1>5. Amounts(pay) = Amounts(now)
  BY <1>4 DEF Amounts
<1>6. {e \in Rows : pay[e].status \in Captured} = {e \in Rows : now[e].status \in Captured}
  BY <1>3, <1>4
<1>7. PICK S : S = {e \in Rows : now[e].status \in Captured}
  OBVIOUS
<1>8. Paid(Rows, payments)' = Sum(now, S)
  BY <1>2, <1>3, <1>7 DEF Paid
<1>9. PaidWith(c, s) = Sum(pay, S)
  BY <1>1, <1>6, <1>7 DEF PaidWith, Paid
<1> QED
  BY <1>5, <1>8, <1>9, SumAs

LEMMA CoverStep ==
    ASSUME IInv, IInv', [Next]_vars, Covers
    PROVE  hold' = NoHold \/ \E w \in Proc : Overtaken(w) /\ Commit(w)
<1>0. /\ Rows \subseteq Attempt /\ Rows' \subseteq Attempt
      /\ payments \in [Attempt -> Types] /\ payments' \in [Attempt -> Types]
  BY DEF Rows, Range, IInv, Typed
<1>1. CASE UNCHANGED <<created, payments>>
  <2>1. Rows' = Rows
    BY <1>1 DEF Rows
  <2> QED
    BY <1>1, <2>1, NotCovered
<1>2. ASSUME NEW paid \in Nat, paid >= Total
      PROVE  settleDocument(paid) = NoHold
  <2>1. Total \in Nat
    BY ChargesConstants
  <2>2. ~ (paid < Total)
    BY <1>2, <2>1
  <2> QED
    BY <2>2 DEF settleDocument
<1>3. ASSUME NEW w, NEW t, NEW c \in Attempt, NEW a \in Amount,
             NEW via \in {"cash", "terminal"}, StartCharge(w, t, c, via, a)
      PROVE  hold' = NoHold
  <2>1. PICK q : q = Row(c, via, a)
    OBVIOUS
  <2>2. payments' = [payments EXCEPT ![c] = q] /\ created' = Append(created, c)
    BY <1>3, <2>1 DEF StartCharge
  <2>3. Rows' = Rows \cup {c}
    BY <2>2, RowsAppended DEF IInv, Typed
  <2>4. CASE via = "cash"
    <3>1. PICK paid : paid = Paid(Rows \cup {c}, [payments EXCEPT ![c] = q])
      OBVIOUS
    <3>2. paid = Paid(Rows, payments)' /\ hold' = settleDocument(paid)
      BY <1>3, <2>1, <2>2, <2>3, <2>4, <3>1 DEF StartCharge
    <3>3. paid \in Nat
      <4>1. PICK pay, rows : pay = payments' /\ rows = Rows'
        OBVIOUS
      <4>2. {e \in rows : pay[e].status \in Captured} \in SUBSET Attempt
            /\ pay \in [Attempt -> Types]
        BY <1>0, <4>1
      <4> QED
        BY <2>2, <2>3, <3>1, <4>1, <4>2, SumIsNatural DEF Paid
    <3> QED
      BY <1>2, <3>2, <3>3 DEF Covers
  <2>5. CASE via = "terminal"
    <3>1. q.status = "pending"
      BY <2>1, <2>5, RowTyped
    <3>2. "pending" \notin Captured
      BY DEF Captured
    <3> QED
      BY <1>0, <2>2, <2>3, <3>1, <3>2, NotCovered
  <2> QED
    BY <2>4, <2>5
<1>4. ASSUME NEW w \in Proc, RecordCreated(w) \/ markFailed(w) \/ RecordCancelling(w)
      PROVE  hold' = NoHold
  <2>1. Rows' = Rows /\ "failed" \notin Captured /\ "cancelling" \notin Captured
    BY <1>4 DEF Rows, Captured, RecordCreated, markFailed, RecordCancelling
  <2>2. \A d \in Attempt : /\ payments'[d].amount = payments[d].amount
                           /\ \/ payments'[d].status = payments[d].status
                              \/ payments'[d].status \in {"failed", "cancelling"}
    BY <1>4, AnswerSteps
  <2> QED
    BY <2>1, <2>2, NotCovered
<1>5. ASSUME NEW c, NEW d, NEW s, NEW source, Reads(c, d, s, source),
             c # NoAttempt => ~ Taken(c, d, s, source) \/ s \notin Counts
      PROVE  FALSE
  <2>1. Rows' = Rows /\ s \in Known /\ Written(c, d, s, source)
    BY <1>5 DEF Rows, Reads, Said
  <2>2. s \notin Counts => s \notin Captured
    BY <2>1 DEF Known, Counts, Captured, Open, GaveUp
  <2>3. \A e \in Attempt \ {c} : /\ payments'[e].status = payments[e].status
                                 /\ payments'[e].amount = payments[e].amount
    BY <2>1 DEF Written, Kept, SameCharge
  <2>4. c # NoAttempt => /\ payments'[c].amount = payments[c].amount
                         /\ \/ payments'[c].status = payments[c].status
                            \/ payments'[c].status \notin Captured
    BY <1>5, <2>1, <2>2 DEF Written, RowAfter, Kept
  <2>5. NoAttempt \notin Attempt
    BY ChargesConstants
  <2>6. \A e \in Attempt : /\ payments'[e].amount = payments[e].amount
                           /\ \/ payments'[e].status = payments[e].status
                              \/ payments'[e].status \notin Captured
    BY <2>3, <2>4, <2>5
  <2> QED
    BY <2>1, <2>6, NotCovered
<1>6. ASSUME NEW c, NEW d, NEW s, NEW source, Reads(c, d, s, source),
             ~ Settles(c, d, s, source)
      PROVE  FALSE
  BY <1>5, <1>6 DEF Settles, Taken
<1>7. ASSUME NEW w \in Proc, Commit(w), ~ Overtaken(w)
      PROVE  hold' = NoHold
  <2>1. PICK c, d, s, source : /\ c = procs[w].attempt /\ d = procs[w].about
                               /\ s = procs[w].status /\ source = procs[w].source
    OBVIOUS
  <2>2. Reads(c, d, s, source) /\ c \in Attempt /\ c # NoAttempt
    BY <1>7, <2>1, CommitReads, CommitRow, ChargesConstants DEF Commit
  <2>3. Taken(c, d, s, source)
    BY <1>5, <2>2
  <2>4. procs[w].paid = PaidWith(c, s) /\ (hold = NoHold \/ procs[w].held)
    BY <1>7, <2>1 DEF Overtaken, Commit
  <2>5. s \in Status /\ Written(c, d, s, source) /\ created' = created
    BY <2>2 DEF Reads, Said, Known, Status, Captured
  <2>6. payments'[c].status = s /\ payments'[c].amount = payments[c].amount
    BY <2>2, <2>3, <2>5 DEF Written, RowAfter
  <2>7. \A e \in Attempt \ {c} : /\ payments'[e].status = payments[e].status
                                 /\ payments'[e].amount = payments[e].amount
    BY <2>5 DEF Written, Kept, SameCharge
  <2>8. Paid(Rows, payments)' = procs[w].paid
    BY <1>0, <2>2, <2>4, <2>5, <2>6, <2>7, PaidAfter
  <2>9. procs[w].paid \in Nat /\ procs[w].paid >= Total
    BY <2>8 DEF IInv, Typed, Work, Covers
  <2>10. hold' = IF procs[w].held THEN settleDocument(procs[w].paid) ELSE hold
    BY <1>7 DEF Commit
  <2> QED
    BY <1>2, <2>4, <2>9, <2>10
<1> QED
  BY <1>1, <1>3, <1>4, <1>6, <1>7, RowSteps

\* Whether a document is covered by drawer cash, an answer, a poll, a webhook or
\* the reconciliation job, the step that covers it ends the hold on it, except the
\* commit of a transaction of observe that another one has overtaken: it locks its
\* payment only, not the document.
THEOREM CoveredEndsHold == Spec => PaidEndsHold
<1>1. IInv /\ [Next]_vars =>
         [Paid(Rows, payments) < Total /\ Paid(Rows, payments)' >= Total
          => hold' = NoHold \/ \E w \in Proc : Overtaken(w) /\ Commit(w)]_vars
  BY NextKeeps, CoverStep DEF Covers
<1> QED
  BY <1>1, InvariantHolds, PTL DEF Spec, PaidEndsHold

----------------------------------------------------------------------------
(* Two readings suffice *)

Final == GaveUp \cup {"paid"}

\* An unnumbered reading about the payment of row p.
Heard(p, s) == Told(p.amount, s, FALSE)

\* The id of an unnumbered reading of status s, with a mark of the ledger.
Id(p, s, mark) == EventID(Told(p.amount, s, FALSE), mark)

Reopened(p) == Id(p, "authorized", "corrected") \in p.events

\* What the events of a row tell of its past: a correction opens a payment again
\* at most once, because its flag is raised under an id that is recorded for good;
\* so a payment that is open was not closed twice in the same way.
Traced(p) ==
    /\ Reopened(p) => Id(p, "authorized", "") \in p.events
    /\ p.anomaly = "late_capture" /\ p.anomalyStatus = "authorized"
       => Id(p, "authorized", "") \in p.events /\ ~ Reopened(p)
    /\ \A s \in Final : Id(p, s, "") \in p.events /\ p.status \in Open => Reopened(p)
    /\ \A s \in Final, x \in Open :
          Id(p, s, x) \in p.events => Reopened(p) /\ p.status \notin Open

AllTraced == \A c \in Attempt : Traced(payments[c])

\* Ids of one row tell statuses and marks apart, and depend on its amount only.
LEMMA IdsDiffer ==
    ASSUME NEW p, NEW s, NEW mark, NEW s2, NEW mark2, Id(p, s, mark) = Id(p, s2, mark2)
    PROVE  s = s2 /\ mark = mark2
<1>1. ASSUME NEW o, NEW m
      PROVE  EventID(o, m).status = o.status /\ EventID(o, m).mark = m
  BY DEF EventID
<1> DEFINE o == Told(p.amount, s, FALSE)
           o2 == Told(p.amount, s2, FALSE)
<1>2. o.status = s /\ o2.status = s2
  BY DEF Told, Outcome
<1>3. EventID(o, mark) = EventID(o2, mark2)
  BY DEF Id
<1> HIDE DEF o, o2
<1> QED
  BY <1>1, <1>2, <1>3

LEMMA IdsSame ==
    ASSUME NEW p, NEW q, q.amount = p.amount
    PROVE  \A s, mark : Id(q, s, mark) = Id(p, s, mark)
BY DEF Id, Told

\* What becomes of the flag of a row.
LEMMA FlagMoved ==
    ASSUME NEW p \in Types, NEW s \in Status, NEW from \in Open \cup {NoStatus}
    PROVE  /\ Moved(p, s, from).anomaly = p.anomaly
           /\ Moved(p, s, from).anomalyStatus = p.anomalyStatus
BY DEF Types, Moved

LEMMA FlagNoted ==
    ASSUME NEW p \in Types, NEW ids \in SUBSET EventType
    PROVE  /\ Noted(p, ids).anomaly = p.anomaly
           /\ Noted(p, ids).anomalyStatus = p.anomalyStatus
BY DEF Types, EventType, Noted

LEMMA FlagRaised ==
    ASSUME NEW p \in Types, NEW a, NEW s
    PROVE  Flagged(p, a, s).anomaly = a /\ Flagged(p, a, s).anomalyStatus = s
BY DEF Types, Flagged

SameFlag(q, p) == q.anomaly = p.anomaly /\ q.anomalyStatus = p.anomalyStatus

\* A reading is known, corrects, moves, flags or is noted: what each leaves.
LEMMA Fate ==
    ASSUME NEW p \in Types, p.status \in Known, p.amount \in Amount, NEW s \in Known,
           NEW ev \in BOOLEAN, NEW source
    PROVE  LET o == Told(p.amount, s, ev)
               d == ObserveOutcome(p, o)
               q == observe(p, o, source)
           IN  /\ Duplicate(p, o, source) => q = p
               /\ ~ Duplicate(p, o, source)
                  => q.events = p.events \cup EventRows(p, o, source)
               /\ Corrects(p, o, source)
                  => q.status = s /\ q.anomaly = "" /\ q.anomalyStatus = NoStatus
               /\ ~ Duplicate(p, o, source) /\ ~ Corrects(p, o, source)
                  => /\ d.decision = "apply" => q.status = s /\ SameFlag(q, p)
                     /\ d.decision = "anomaly"
                        => q.status = p.status /\ q.anomaly = d.reason /\ q.anomalyStatus = s
                     /\ d.decision = "ignore" => q.status = p.status /\ SameFlag(q, p)
<1> DEFINE o == Told(p.amount, s, ev)
           d == ObserveOutcome(p, o)
           ids == EventRows(p, o, source)
           r == Noted(p, ids)
           q == observe(p, o, source)
<1>2. ids \in SUBSET EventType
  BY EventsTyped
<1>3. o.status = s /\ s \in Status
  BY Fields DEF Known, Status, Captured
<1>4. r \in Types /\ r.status = p.status /\ r.events = p.events \cup ids /\ SameFlag(r, p)
  <2> HIDE DEF ids
  <2> QED
    BY <1>2, RowNoted, FlagNoted DEF SameFlag
<1> DEFINE x == applyOutcome(r, o)
           c == Flagged(x, "", NoStatus)
           f == Flagged(r, d.reason, o.status)
<1>5. x \in Types /\ x.status = s /\ x.events = p.events \cup ids /\ SameFlag(x, p)
  <2> HIDE DEF r
  <2>1. PICK from \in Open \cup {NoStatus} : x = Moved(r, s, from)
    BY <1>4, OutcomeMoves DEF Told
  <2> HIDE DEF x
  <2> QED
    BY <1>3, <1>4, <2>1, RowMoved, FlagMoved DEF SameFlag
<1>6. q = IF Duplicate(p, o, source) THEN p
          ELSE IF Corrects(p, o, source) THEN c
          ELSE IF d.decision = "apply" THEN x
          ELSE IF d.decision = "anomaly" THEN f
          ELSE r
  <2> HIDE DEF o
  <2> QED
    BY DEF observe, Noted, Flagged
<1>7. d.decision = "anomaly" => d.reason \in Reasons
  <2>1. \/ d = Apply \/ d = Anomaly("late_capture") \/ d = Anomaly("capture_reversed")
        \/ d = Ignore("stale") \/ d = Ignore("duplicate")
    BY Classified
  <2> HIDE DEF d
  <2> QED
    BY <2>1, Decisions DEF Reasons
<1>8. Corrects(p, o, source) => ~ Duplicate(p, o, source)
  BY DEF Duplicate
<1>9. /\ c.status = s /\ c.events = p.events \cup ids
      /\ c.anomaly = "" /\ c.anomalyStatus = NoStatus
  <2> HIDE DEF x, ids
  <2>1. c.status = x.status /\ c.events = x.events
    <3>1. "" \in Reasons \cup {""} /\ NoStatus \in Status \cup {NoStatus}
      OBVIOUS
    <3> QED
      BY <1>5, <3>1, RowFlagged
  <2>2. c.anomaly = "" /\ c.anomalyStatus = NoStatus
    <3>1. \A a, n : Flagged(x, a, n).anomaly = a /\ Flagged(x, a, n).anomalyStatus = n
      BY <1>5, FlagRaised
    <3> QED
      BY <3>1, Zenon
  <2> HIDE DEF c
  <2> QED
    BY <1>5, <2>1, <2>2
<1>10. d.decision = "anomaly" => /\ f.status = p.status /\ f.events = p.events \cup ids
                                 /\ f.anomaly = d.reason /\ f.anomalyStatus = s
  <2> SUFFICES ASSUME d.decision = "anomaly"
               PROVE  /\ f.status = p.status /\ f.events = p.events \cup ids
                      /\ f.anomaly = d.reason /\ f.anomalyStatus = s
    OBVIOUS
  <2> HIDE DEF r, d, o, ids
  <2>1. f.status = r.status /\ f.events = r.events
    <3>1. d.reason \in Reasons \cup {""}
      BY <1>7
    <3>2. o.status \in Status \cup {NoStatus}
      BY <1>3
    <3> QED
      BY <1>4, <3>1, <3>2, RowFlagged
  <2>2. f.anomaly = d.reason /\ f.anomalyStatus = o.status
    BY <1>4, FlagRaised
  <2> HIDE DEF f
  <2> QED
    BY <1>3, <1>4, <2>1, <2>2
<1> HIDE DEF o, d, ids, q, r, x, c, f
<1>11. /\ Duplicate(p, o, source) => q = p
       /\ ~ Duplicate(p, o, source) => q.events = p.events \cup ids
       /\ Corrects(p, o, source)
          => q.status = s /\ q.anomaly = "" /\ q.anomalyStatus = NoStatus
       /\ ~ Duplicate(p, o, source) /\ ~ Corrects(p, o, source)
          => /\ d.decision = "apply" => q.status = s /\ SameFlag(q, p)
             /\ d.decision = "anomaly"
                => q.status = p.status /\ q.anomaly = d.reason /\ q.anomalyStatus = s
             /\ d.decision = "ignore" => q.status = p.status /\ SameFlag(q, p)
  BY <1>4, <1>5, <1>6, <1>8, <1>9, <1>10
<1> QED
  BY <1>11 DEF o, d, ids, q

\* The ways an unnumbered reading of status s changes row p to q.
Correction(p, s, q) ==
    /\ p.status \in Final /\ s \in Final \cup {"authorized"}
    /\ s = "authorized" => p.anomaly = "late_capture"
    /\ p.anomalyStatus = s
    /\ q.status = s
    /\ q.anomaly = ""
    /\ q.events = p.events \cup {Id(p, s, "corrected")}

Move(p, s, q) ==
    /\ p.status \in Open
    /\ q.status = s
    /\ SameFlag(q, p)
    /\ q.events = p.events \cup {Id(p, s, "")}
                  \cup (IF Id(p, s, "") \in p.events THEN {Id(p, s, p.status)} ELSE {})

Flag(p, s, q) ==
    /\ p.status \in Final
    /\ Id(p, s, "") \notin p.events
    /\ q.status = p.status
    /\ q.anomalyStatus = s
    /\ q.events = p.events \cup {Id(p, s, "")}

Note(p, s, q) ==
    /\ q.status = p.status
    /\ s \in Final => p.status \in Final
    /\ SameFlag(q, p)
    /\ q.events = p.events \cup {Id(p, s, "")}

\* An open payment can be moved to any final status.
LEMMA OpenEnds ==
    ASSUME NEW p \in Types, p.status \in Open, p.amount \in Amount, NEW s \in Final, NEW ev
    PROVE  ObserveOutcome(p, Told(p.amount, s, ev)) = Apply
<1>1. p.status \in Known /\ s \in Known /\ p.status \in Status
  BY DEF Final, Known, Status
<1>2. s \notin Open /\ p.status # s
  BY DEF Final, Open, GaveUp
<1>3. ~ staleAfterCancelling(p, s)
  BY <1>2 DEF staleAfterCancelling
<1>4. advances(p.status, s)
  BY <1>2 DEF advances, CanTransition, transitions, OlderOpen, Final, GaveUp, Open
<1>5. p.status \in visited[p.status]
  BY <1>1 DEF visited
<1>6. Reachable(p.status, s)
  BY <1>4, <1>5 DEF Reachable
<1>7. ObserveOutcome(p, Told(p.amount, s, ev)) = Observe(p.status, s)
  BY <1>1, <1>3, StatusDecides DEF Mismatch
<1> QED
  BY <1>2, <1>6, <1>7 DEF Observe

LEMMA ReadingCases ==
    ASSUME NEW p \in Types, p.status \in Known, p.amount \in Amount, NEW s \in Known,
           NEW source
    PROVE  LET q == observe(p, Told(p.amount, s, FALSE), source)
           IN  q = p \/ Correction(p, s, q) \/ Move(p, s, q) \/ Flag(p, s, q) \/ Note(p, s, q)
<1> DEFINE o == Told(p.amount, s, FALSE)
           d == ObserveOutcome(p, o)
           q == observe(p, o, source)
           ids == EventRows(p, o, source)
<1>1. \/ d = Apply /\ p.status \in Open
      \/ /\ d = Anomaly("late_capture")
         /\ p.status \in GaveUp
         /\ s \in {"paid", "authorized"}
      \/ /\ d = Anomaly("capture_reversed")
         /\ p.status = "paid"
         /\ s \in GaveUp
      \/ d = Ignore("stale") \/ d = Ignore("duplicate")
  BY Classified
<1>2. /\ Duplicate(p, o, source) => q = p
      /\ ~ Duplicate(p, o, source) => q.events = p.events \cup ids
      /\ Corrects(p, o, source)
         => q.status = s /\ q.anomaly = "" /\ q.anomalyStatus = NoStatus
      /\ ~ Duplicate(p, o, source) /\ ~ Corrects(p, o, source)
         => /\ d.decision = "apply" => q.status = s /\ SameFlag(q, p)
            /\ d.decision = "anomaly"
               => q.status = p.status /\ q.anomaly = d.reason /\ q.anomalyStatus = s
            /\ d.decision = "ignore" => q.status = p.status /\ SameFlag(q, p)
  <2>1. FALSE \in BOOLEAN
    OBVIOUS
  <2> QED
    BY <2>1, Fate
<1>3. o.status = s /\ ~ o.event
  BY DEF Told, Outcome
<1>4. Duplicate(p, o, source) <=> ~ Corrects(p, o, source) /\ ids \subseteq p.events
  BY DEF Duplicate
<1>5. \A mark : EventID(o, mark) = Id(p, s, mark)
  BY DEF Id
<1>6. Corrects(p, o, source) => /\ d.decision = "anomaly"
                                /\ p.anomaly = d.reason /\ p.anomalyStatus = s
                                /\ ids = {Id(p, s, "corrected")}
  <2> HIDE DEF o
  <2> QED
    BY <1>3, <1>5 DEF Corrects, EventRows
<1>7. ~ Corrects(p, o, source)
      => ids = IF Id(p, s, "") \in p.events /\ d.decision = "apply" /\ p.status # s
               THEN {Id(p, s, ""), Id(p, s, p.status)} ELSE {Id(p, s, "")}
  <2> HIDE DEF o
  <2> QED
    BY <1>3, <1>5 DEF EventRows
<1>8. s \in Final /\ d.decision # "apply" => p.status \in Final
  <2>1. p.status \in Open \/ p.status \in Final
    BY DEF Known, Final
  <2> QED
    BY <2>1, OpenEnds, Decisions
<1>9. d.decision = "apply" => p.status # s
  <2>1. d = IF staleAfterCancelling(p, s) THEN Ignore("stale") ELSE Observe(p.status, s)
    BY StatusDecides DEF Mismatch
  <2>2. p.status # "partially_refunded"
    BY DEF Known, Open, GaveUp
  <2> HIDE DEF d
  <2> QED
    BY <2>1, <2>2, Decisions DEF Observe
<1> HIDE DEF o, d, q, ids
<1>10. CASE d = Apply /\ p.status \in Open
  <2>1. d.decision = "apply" /\ ~ Corrects(p, o, source)
    BY <1>6, <1>10, Decisions
  <2>2. ~ Duplicate(p, o, source) => Move(p, s, q)
    BY <1>2, <1>7, <1>9, <1>10, <2>1 DEF Move
  <2> QED
    BY <1>2, <2>2 DEF q, o
<1>11. CASE /\ p.status \in Final
            /\ \/ d = Anomaly("late_capture") /\ s \in {"paid", "authorized"}
               \/ d = Anomaly("capture_reversed") /\ s \in GaveUp
  <2>1. d.decision = "anomaly" /\ (s = "authorized" => d.reason = "late_capture")
    BY <1>11, Decisions DEF GaveUp
  <2>2. Corrects(p, o, source) => Correction(p, s, q)
    BY <1>2, <1>4, <1>6, <1>11, <2>1 DEF Correction, Final
  <2>3. ~ Duplicate(p, o, source) /\ ~ Corrects(p, o, source) => Flag(p, s, q)
    <3>1. ~ Corrects(p, o, source) => ids = {Id(p, s, "")}
      BY <1>7, <2>1
    <3> QED
      BY <1>2, <1>4, <1>11, <2>1, <3>1 DEF Flag
  <2> QED
    BY <1>2, <2>2, <2>3 DEF q, o
<1>12. CASE d = Ignore("stale") \/ d = Ignore("duplicate")
  <2>1. d.decision = "ignore" /\ ~ Corrects(p, o, source)
    BY <1>6, <1>12, Decisions
  <2>2. ~ Duplicate(p, o, source) => Note(p, s, q)
    BY <1>2, <1>7, <1>8, <2>1 DEF Note
  <2> QED
    BY <1>2, <2>2 DEF q, o
<1>13. CASE \/ d = Anomaly("late_capture") /\ p.status \in GaveUp /\ s \in {"paid", "authorized"}
            \/ d = Anomaly("capture_reversed") /\ p.status = "paid" /\ s \in GaveUp
  BY <1>11, <1>13 DEF Final
<1> QED
  BY <1>1, <1>10, <1>12, <1>13

\* The ids of a row after some are added.
LEMMA IdsAdded ==
    ASSUME NEW p, NEW s, NEW m, NEW old, NEW s1, NEW mark
    PROVE  Id(p, s1, mark) \in old \cup {Id(p, s, m)}
           <=> Id(p, s1, mark) \in old \/ (s1 = s /\ mark = m)
<1>1. Id(p, s1, mark) = Id(p, s, m) => s1 = s /\ mark = m
  BY IdsDiffer
<1> QED
  BY <1>1

LEMMA Apart ==
    /\ "" \notin Open /\ "corrected" \notin Open /\ "authorized" \notin Final
    /\ "authorized" \in Open /\ "" # "corrected" /\ "" # "late_capture"
    /\ \A s \in Final : s \notin Open /\ s # "authorized"
BY DEF Open, Final, GaveUp

LEMMA TracedCorrection ==
    ASSUME NEW p, NEW q, NEW s, q.amount = p.amount, Traced(p), Correction(p, s, q)
    PROVE  Traced(q)
<1>1. \A s1, mark : Id(q, s1, mark) = Id(p, s1, mark)
  BY IdsSame
<1>2. q.events = p.events \cup {Id(p, s, "corrected")}
  BY DEF Correction
<1>3. \A s1, mark : Id(p, s1, mark) \in q.events
                    <=> Id(p, s1, mark) \in p.events \/ (s1 = s /\ mark = "corrected")
  BY <1>2, IdsAdded
<1>4. q.anomaly = "" /\ q.status = s
  BY DEF Correction
<1>5. CASE s = "authorized"
  <2>1. Id(p, "authorized", "") \in p.events /\ ~ Reopened(p)
    BY <1>5 DEF Correction, Traced
  <2>2. Id(p, "authorized", "") \in q.events /\ Reopened(q)
    BY <1>1, <1>3, <1>5, <2>1 DEF Reopened
  <2>3. \A s1 \in Final, x \in Open : Id(p, s1, x) \notin p.events
    BY <2>1 DEF Traced
  <2>4. \A s1 \in Final, x \in Open : Id(q, s1, x) \notin q.events
    BY <1>1, <1>3, <2>3, Apart
  <2> QED
    BY <1>1, <1>4, <2>2, <2>4, Apart DEF Traced
<1>6. CASE s \in Final
  <2>1. Reopened(q) <=> Reopened(p)
    BY <1>1, <1>3, <1>6, Apart DEF Reopened
  <2>2. Reopened(p) => Id(q, "authorized", "") \in q.events
    BY <1>1, <1>2 DEF Traced
  <2>3. q.status \notin Open
    BY <1>4, <1>6, Apart
  <2>4. \A s1 \in Final, x \in Open : Id(q, s1, x) \in q.events => Id(p, s1, x) \in p.events
    BY <1>1, <1>3, Apart
  <2>5. \A s1 \in Final, x \in Open : Id(p, s1, x) \in p.events => Reopened(p)
    BY DEF Traced
  <2> QED
    BY <1>4, <2>1, <2>2, <2>3, <2>4, <2>5, Apart DEF Traced
<1> QED
  BY <1>5, <1>6 DEF Correction

LEMMA TracedMove ==
    ASSUME NEW p, NEW q, NEW s, q.amount = p.amount, Traced(p), Move(p, s, q),
           s \in Final \/ s \in Open
    PROVE  Traced(q)
<1>1. \A s1, mark : Id(q, s1, mark) = Id(p, s1, mark)
  BY IdsSame
<1>2. q.events = p.events \cup {Id(p, s, "")}
                 \cup (IF Id(p, s, "") \in p.events THEN {Id(p, s, p.status)} ELSE {})
  BY DEF Move
<1>5. ASSUME NEW s1, NEW mark, Id(p, s1, mark) \in q.events
      PROVE  \/ Id(p, s1, mark) \in p.events
             \/ s1 = s /\ mark = ""
             \/ s1 = s /\ mark = p.status /\ Id(p, s, "") \in p.events
  <2>1. \/ Id(p, s1, mark) \in p.events
        \/ Id(p, s1, mark) = Id(p, s, "")
        \/ Id(p, s1, mark) = Id(p, s, p.status) /\ Id(p, s, "") \in p.events
    BY <1>2, <1>5
  <2>2. Id(p, s1, mark) = Id(p, s, "") => s1 = s /\ mark = ""
    BY IdsDiffer
  <2>3. Id(p, s1, mark) = Id(p, s, p.status) => s1 = s /\ mark = p.status
    BY IdsDiffer
  <2> QED
    BY <2>1, <2>2, <2>3, Zenon
<1>6. p.events \subseteq q.events /\ p.status \in Open /\ q.status = s /\ SameFlag(q, p)
  BY <1>2 DEF Move
<1>7. Reopened(q) <=> Reopened(p)
  BY <1>1, <1>5, <1>6, Apart DEF Reopened
<1>8. \A s1 \in Final : Id(p, s1, "") \in p.events => Reopened(p)
  BY <1>6 DEF Traced
<1>9. \A s1 \in Final, x \in Open : Id(p, s1, x) \notin p.events
  BY <1>6 DEF Traced
<1>10. /\ Reopened(q) => Id(q, "authorized", "") \in q.events
       /\ q.anomaly = "late_capture" /\ q.anomalyStatus = "authorized"
          => Id(q, "authorized", "") \in q.events /\ ~ Reopened(q)
  BY <1>1, <1>6, <1>7 DEF Traced, SameFlag
<1>11. \A s1 \in Final : Id(q, s1, "") \in q.events /\ q.status \in Open => Reopened(q)
  BY <1>1, <1>5, <1>6, <1>7, <1>8, Apart
<1>12. ASSUME NEW s1 \in Final, NEW x \in Open, Id(q, s1, x) \in q.events
       PROVE  Reopened(q) /\ q.status \notin Open
  <2>1. Id(p, s1, x) \in q.events /\ Id(p, s1, x) \notin p.events /\ x # ""
    BY <1>1, <1>9, <1>12, Apart
  <2>2. s1 = s /\ Id(p, s, "") \in p.events
    <3>1. \/ Id(p, s1, x) \in p.events
          \/ s1 = s /\ x = ""
          \/ s1 = s /\ x = p.status /\ Id(p, s, "") \in p.events
      BY <1>5, <2>1
    <3> QED
      BY <2>1, <3>1, Zenon
  <2> QED
    BY <1>6, <1>7, <1>8, <2>2, Apart
<1> QED
  BY <1>10, <1>11, <1>12 DEF Traced

LEMMA TracedNote ==
    ASSUME NEW p, NEW q, NEW s, q.amount = p.amount, Traced(p), Flag(p, s, q) \/ Note(p, s, q)
    PROVE  Traced(q)
<1>1. \A s1, mark : Id(q, s1, mark) = Id(p, s1, mark)
  BY IdsSame
<1>2. /\ q.events = p.events \cup {Id(p, s, "")} /\ q.status = p.status
      /\ s \in Final => p.status \in Final
  BY DEF Flag, Note
<1>3. \A s1, mark : Id(p, s1, mark) \in q.events
                    <=> Id(p, s1, mark) \in p.events \/ (s1 = s /\ mark = "")
  BY <1>2, IdsAdded
<1>4. Reopened(q) <=> Reopened(p)
  BY <1>1, <1>3, Apart DEF Reopened
<1>5. Reopened(q) => Id(q, "authorized", "") \in q.events
  BY <1>1, <1>2, <1>4 DEF Traced
<1>6. q.anomaly = "late_capture" /\ q.anomalyStatus = "authorized"
      => Id(q, "authorized", "") \in q.events /\ ~ Reopened(q)
  <2>1. CASE Flag(p, s, q)
    <3>1. q.anomalyStatus = s /\ (s = "authorized" => ~ Reopened(p))
      BY <2>1 DEF Flag, Traced
    <3> QED
      BY <1>1, <1>2, <1>4, <3>1
  <2>2. CASE Note(p, s, q)
    BY <1>1, <1>2, <1>4, <2>2 DEF Note, SameFlag, Traced
  <2> QED
    BY <2>1, <2>2
<1>7. ASSUME NEW s1 \in Final, Id(q, s1, "") \in q.events, q.status \in Open
      PROVE  Reopened(q)
  <2>1. Id(p, s1, "") \in p.events
    BY <1>1, <1>2, <1>3, <1>7, Apart
  <2> QED
    BY <1>2, <1>4, <1>7, <2>1 DEF Traced
<1>8. ASSUME NEW s1 \in Final, NEW x \in Open, Id(q, s1, x) \in q.events
      PROVE  Reopened(q) /\ q.status \notin Open
  <2>1. Id(p, s1, x) \in p.events
    BY <1>1, <1>3, <1>8, Apart
  <2> QED
    BY <1>2, <1>4, <2>1 DEF Traced
<1> QED
  BY <1>5, <1>6, <1>7, <1>8 DEF Traced

LEMMA TracedPlain ==
    ASSUME NEW p, NEW q, q.amount = p.amount, Traced(p), q.events = p.events, SameFlag(q, p),
           q.status \in Open => p.status \in Open
    PROVE  Traced(q)
<1>1. \A s1, mark : Id(q, s1, mark) = Id(p, s1, mark)
  BY IdsSame
<1> QED
  BY <1>1 DEF Traced, Reopened, SameFlag

\* Readings keep what the events of a row tell.
LEMMA TracedReading ==
    ASSUME NEW p \in Types, p.status \in Known, p.amount \in Amount, NEW s \in Known,
           NEW source, Traced(p)
    PROVE  Traced(observe(p, Told(p.amount, s, FALSE), source))
<1>1. PICK q : q = observe(p, Told(p.amount, s, FALSE), source)
  OBVIOUS
<1>2. q.amount = p.amount
  <2>1. ASSUME NEW ev \in BOOLEAN
        PROVE  observe(p, Told(p.amount, s, ev), source).amount = p.amount
    BY Effect DEF SameCharge
  <2> QED
    BY <1>1, <2>1
<1>3. q = p \/ Correction(p, s, q) \/ Move(p, s, q) \/ Flag(p, s, q) \/ Note(p, s, q)
  BY <1>1, ReadingCases
<1>4. s \in Final \/ s \in Open
  BY DEF Known, Final
<1>5. Traced(q)
  BY <1>2, <1>3, <1>4, TracedCorrection, TracedMove, TracedNote
<1> QED
  BY <1>1, <1>5

LEMMA TracedBlank ==
    ASSUME NEW p, p.events = {}, p.anomaly = ""
    PROVE  Traced(p)
BY DEF Traced, Reopened

LEMMA TracedInit ==
    Init => AllTraced
<1> SUFFICES ASSUME Init, NEW c \in Attempt
             PROVE  Traced(payments[c])
  BY DEF AllTraced
<1>1. payments[c] = NoPayment
  BY DEF Init
<1>2. NoPayment.events = {} /\ NoPayment.anomaly = ""
  BY DEF NoPayment
<1> QED
  BY <1>1, <1>2, TracedBlank

\* A new row has no events.
LEMMA RowBlank ==
    ASSUME NEW c, NEW channel, NEW amount
    PROVE  Row(c, channel, amount).events = {} /\ Row(c, channel, amount).anomaly = ""
<1> DEFINE s == IF channel = "cash" THEN "paid" ELSE "pending"
           ref == IF channel = "cash" THEN c ELSE NoAttempt
<1>1. Row(c, channel, amount) = [NoPayment EXCEPT !.channel = channel, !.amount = amount,
                                                  !.status = s, !.ref = ref]
  BY DEF Row
<1> HIDE DEF s, ref
<1> QED
  BY <1>1 DEF NoPayment

\* The row a reading leaves, when webhooks are not numbered and it is about the
\* payment of that row.
LEMMA RecordedRow ==
    ASSUME IInv, ~ Numbered, AllTraced, NEW d, NEW s, NEW source,
           Said(d, s), Record(d, d, s, source)
    PROVE  \E q : payments' = [payments EXCEPT ![d] = q] /\ Traced(q)
<1>1. d \in Attempt /\ s \in Known /\ d \in Rows /\ d # NoAttempt
  BY ChargesConstants DEF Said, IInv, SentHasRow, Sent, ByTerminal
<1>2. PICK p : p = payments[d]
  OBVIOUS
<1>3. /\ p \in Types /\ p.status \in Known /\ p.amount \in Amount /\ Traced(p)
      /\ payments \in [Attempt -> Types]
  BY <1>1, <1>2 DEF IInv, Typed, RowsFilled, AllTraced
<1>4. Facing(d, d) = p
  <2>1. p.events \in SUBSET EventType
    BY <1>3 DEF Types, EventType
  <2>2. Facet(p, p.events) = p
    BY <1>3, <2>1, FacetRow
  <2> QED
    BY <1>2, <2>2 DEF Facing, Facet
<1>5. About(d, s, source) = Heard(p, s)
  <2>1. (Numbered /\ source = "webhook") = FALSE
    OBVIOUS
  <2> QED
    BY <1>2, <2>1 DEF About, Heard, Told
<1> DEFINE o == Heard(p, s)
           now == observe(p, o, source)
           applied == Applies(p, o, source)
           r == IF now.ref = NoAttempt /\ applied THEN d ELSE now.ref
           b == now.corrected \/ Corrects(p, o, source)
           row == [now EXCEPT !.events = p.events, !.ref = r, !.corrected = b]
           q == Marked(now, r, b)
<1>6. payments' = [payments EXCEPT ![d] = row, ![d].events = now.events]
  BY <1>1, <1>2, <1>4, <1>5 DEF Record
<1>7. now \in Types /\ now.amount = p.amount
  <2>1. ASSUME NEW ev \in BOOLEAN
        PROVE  LET x == observe(p, Told(p.amount, s, ev), source)
               IN  x \in Types /\ x.amount = p.amount
    BY <1>1, <1>3, <2>1, Effect DEF SameCharge
  <2> QED
    BY <2>1 DEF Heard
<1>8. Traced(now)
  BY <1>1, <1>3, TracedReading DEF Heard
<1>9. r \in Attempt \cup {NoAttempt} /\ b \in BOOLEAN
  <2>1. now.ref \in Attempt \cup {NoAttempt} /\ now.corrected \in BOOLEAN
    <3> HIDE DEF now
    <3> QED
      BY <1>7 DEF Types
  <2>2. Corrects(p, o, source) \in BOOLEAN
    BY DEF Corrects
  <2> HIDE DEF now, applied, o
  <2> QED
    BY <1>1, <2>1, <2>2
<1> HIDE DEF o, now, applied, r, b
<1>10. payments' = [payments EXCEPT ![d] = q]
  <2>1. [row EXCEPT !.events = now.events] = q
    BY <1>7 DEF Types, Marked
  <2>2. payments' = [payments EXCEPT ![d] = [row EXCEPT !.events = now.events]]
    <3> HIDE DEF row
    <3> QED
      BY <1>1, <1>3, <1>6
  <2> HIDE DEF row, q
  <2> QED
    BY <2>1, <2>2
<1>11. /\ q.amount = now.amount /\ q.events = now.events /\ q.status = now.status
       /\ SameFlag(q, now)
  BY <1>7, <1>9, MarkedRow DEF SameFlag
<1> HIDE DEF q
<1>12. Traced(q)
  BY <1>8, <1>11, TracedPlain
<1> QED
  BY <1>10, <1>12

\* The answer to a request records no event and leaves the flag.
LEMMA AnswersPlain ==
    ASSUME IInv, NEW w \in Proc, RecordCreated(w) \/ markFailed(w) \/ RecordCancelling(w),
           NEW d \in Attempt
    PROVE  /\ payments'[d].amount = payments[d].amount
           /\ payments'[d].events = payments[d].events
           /\ SameFlag(payments'[d], payments[d])
           /\ payments'[d].status \in Open => payments[d].status \in Open
<1> DEFINE c == procs[w].attempt
           from == procs[w].status
<1>1. c \in Attempt /\ payments[c] \in Types /\ payments \in [Attempt -> Types]
  <2>1. procs[w].pc \in {"create", "created", "refused", "cancelling"}
    BY DEF RecordCreated, markFailed, RecordCancelling
  <2> QED
    BY <2>1, WorkRow DEF IInv, Typed
<1>2. \/ payments' = payments
      \/ \E r \in Attempt \cup {NoAttempt} :
            payments' = [payments EXCEPT ![c] = Referenced(payments[c], r)]
      \/ payments' = [payments EXCEPT ![c] = Failing(payments[c])]
      \/ /\ payments' = [payments EXCEPT ![c] = Cancelling(payments[c], from)]
         /\ from \in Open /\ payments[c].status = from
  <2>1. CASE RecordCreated(w)
    <3>1. payments[c].ref \in Attempt \cup {NoAttempt}
      BY <1>1 DEF Types
    <3> QED
      BY <1>1, <2>1, <3>1, CreatedRow
  <2>2. CASE markFailed(w)
    BY <1>1, <2>2 DEF markFailed, FailPending, Failing
  <2>3. CASE RecordCancelling(w)
    <3>1. \/ payments' = payments
          \/ /\ payments' = [payments EXCEPT ![c].status = "cancelling",
                                             ![c].cancelledFrom = from]
             /\ payments[c].status = from
      BY <2>3 DEF RecordCancelling
    <3>2. from \in Open
      BY <2>3 DEF RecordCancelling, IInv, WorkTrue, WorkSound
    <3> QED
      BY <1>1, <3>1, <3>2 DEF Cancelling
  <2> QED
    BY <2>1, <2>2, <2>3
<1> HIDE DEF c, from
<1> DEFINE Same(q, p) == /\ q.amount = p.amount /\ q.events = p.events /\ SameFlag(q, p)
                         /\ q.status \in Open => p.status \in Open
<1>3. ASSUME NEW r \in Attempt \cup {NoAttempt}
      PROVE  Same(Referenced(payments[c], r), payments[c])
  <2>1. SameFlag(Referenced(payments[c], r), payments[c])
    BY <1>1 DEF Types, Referenced, SameFlag
  <2> QED
    BY <1>1, <2>1, ReferencedRow
<1>4. Same(Failing(payments[c]), payments[c])
  <2>1. SameFlag(Failing(payments[c]), payments[c])
    BY <1>1 DEF Types, Failing, SameFlag
  <2>2. "failed" \notin Open
    BY DEF Open
  <2> QED
    BY <1>1, <2>1, <2>2, FailingRow DEF SameCharge
<1>5. from \in Open /\ payments[c].status = from
      => Same(Cancelling(payments[c], from), payments[c])
  <2>1. SameFlag(Cancelling(payments[c], from), payments[c])
    BY <1>1 DEF Types, Cancelling, SameFlag
  <2> QED
    BY <1>1, <2>1, CancellingRow DEF SameCharge
<1>6. Same(payments[d], payments[d])
  BY DEF SameFlag
<1>7. \/ payments'[d] = payments[d]
      \/ d = c /\ \E r \in Attempt \cup {NoAttempt} : payments'[d] = Referenced(payments[c], r)
      \/ d = c /\ payments'[d] = Failing(payments[c])
      \/ /\ d = c /\ payments'[d] = Cancelling(payments[c], from)
         /\ from \in Open /\ payments[c].status = from
  BY <1>1, <1>2
<1>8. Same(payments'[d], payments[d])
  <2> HIDE DEF Same
  <2> QED
    BY <1>3, <1>4, <1>5, <1>6, <1>7
<1> QED
  BY <1>8

\* An error that was misjudged stays so.
LEMMA MisjudgedStays ==
    ASSUME [Next]_vars, misjudged' = {}
    PROVE  misjudged = {}
<1>1. ASSUME NEW w \in Proc, LedgerStep(w) \/ Crash(w)
      PROVE  misjudged = {}
  <2>1. CASE markFailed(w)
    BY <2>1 DEF markFailed
  <2>2. CASE ~ markFailed(w)
    BY <1>1, <2>2 DEF LedgerStep, Crash, RecordCreated, Indeterminate, ObserveReading, Take,
                      Commit, CancelUnanswered, RecordCancelling, RereadCancelled, outside
  <2> QED
    BY <2>1, <2>2
<1>2. ASSUME NEW w, NEW c,
             \/ Refresh(w, c, "reconcile") \/ List(w, c) \/ Refresh(w, c, "poll")
             \/ Cancel(w, c) \/ \E s \in ProviderStatus[c] : ProviderCancels(w, c, s)
      PROVE  misjudged = {}
  BY <1>2 DEF Refresh, List, Cancel, ProviderCancels, outside
<1>3. ASSUME NEW c, \/ ProviderCreates(c) \/ ProviderRefuses(c) \/ RequestLost(c)
                    \/ LateCapture(c) \/ \E s \in ProviderStatus[c] : ProviderMoves(c, s)
      PROVE  misjudged = {}
  BY <1>3 DEF ProviderCreates, ProviderRefuses, RequestLost, LateCapture, ProviderMoves
<1>4. ASSUME NEW w, NEW r, Webhook(w, r)
      PROVE  misjudged = {}
  BY <1>4 DEF Webhook, Take, outside
<1>5. ASSUME NEW w, NEW t, NEW c, NEW a, NEW via, StartCharge(w, t, c, via, a)
      PROVE  misjudged = {}
  BY <1>5 DEF StartCharge
<1>6. CASE HoldExpires \/ \E t \in Till : AcquireHold(t) \/ ReleaseHold(t)
  BY <1>6 DEF HoldExpires, AcquireHold, ReleaseHold, outside
<1>7. CASE UNCHANGED vars
  BY <1>7 DEF vars
<1> QED
  BY <1>1, <1>2, <1>3, <1>4, <1>5, <1>6, <1>7 DEF Next

LEMMA TracedStep ==
    ASSUME ~ Numbered, misjudged = {}, IInv, AllTraced, [Next]_vars
    PROVE  AllTraced'
<1>1. CASE UNCHANGED <<created, payments>>
  BY <1>1 DEF AllTraced
<1>2. ASSUME NEW c \in Attempt, NEW q, payments' = [payments EXCEPT ![c] = q], Traced(q)
      PROVE  AllTraced'
  BY <1>2 DEF AllTraced, IInv, Typed
<1>3. ASSUME NEW w, NEW t, NEW c \in Attempt, NEW a, NEW via, StartCharge(w, t, c, via, a)
      PROVE  AllTraced'
  <2>1. PICK q : q = Row(c, via, a)
    OBVIOUS
  <2>2. payments' = [payments EXCEPT ![c] = q]
    BY <1>3, <2>1 DEF StartCharge
  <2>3. Traced(q)
    BY <2>1, RowBlank, TracedBlank
  <2> QED
    BY <1>2, <2>2, <2>3
<1>4. ASSUME NEW w \in Proc, RecordCreated(w) \/ markFailed(w) \/ RecordCancelling(w)
      PROVE  AllTraced'
  <2> SUFFICES ASSUME NEW d \in Attempt
               PROVE  Traced(payments'[d])
    BY DEF AllTraced
  <2>1. PICK p, q : p = payments[d] /\ q = payments'[d]
    OBVIOUS
  <2>2. /\ q.amount = p.amount /\ q.events = p.events /\ SameFlag(q, p)
        /\ q.status \in Open => p.status \in Open
    BY <1>4, <2>1, AnswersPlain
  <2>3. Traced(p)
    BY <2>1 DEF AllTraced
  <2> QED
    BY <2>1, <2>2, <2>3, TracedPlain
<1>5. ASSUME NEW c, NEW d, NEW s, NEW source, Reads(c, d, s, source)
      PROVE  AllTraced'
  <2>1. Said(d, s) /\ Record(d, d, s, source) /\ d \in Attempt
    BY <1>5 DEF Reads, Said
  <2>2. PICK q : payments' = [payments EXCEPT ![d] = q] /\ Traced(q)
    BY <2>1, RecordedRow
  <2> QED
    BY <1>2, <2>1, <2>2
<1>6. ASSUME NEW w \in Proc, Commit(w)
      PROVE  AllTraced'
  BY <1>5, <1>6, CommitReads
<1> QED
  BY <1>1, <1>3, <1>4, <1>5, <1>6, RowSteps

\* A reading of an open payment that has ended settles it.
LEMMA OpenSettles ==
    ASSUME NEW p \in Types, p.status \in Open, p.amount \in Amount, NEW s \in Final,
           NEW source, Traced(p)
    PROVE  observe(p, Told(p.amount, s, FALSE), source).status = s
<1> DEFINE o == Told(p.amount, s, FALSE)
           d == ObserveOutcome(p, o)
           q == observe(p, o, source)
           ids == EventRows(p, o, source)
<1>1. p.status \in Known /\ s \in Known /\ p.status # s
  BY DEF Known, Final, Open, GaveUp
<1>2. d = Apply
  BY OpenEnds
<1>3. d.decision = "apply" /\ ~ Corrects(p, o, source)
  <2>1. d.decision = "apply"
    <3> HIDE DEF d
    <3> QED
      BY <1>2, Decisions
  <2> QED
    BY <2>1 DEF Corrects
<1>4. /\ ~ Duplicate(p, o, source) /\ ~ Corrects(p, o, source)
         => (d.decision = "apply" => q.status = s /\ SameFlag(q, p))
  <2>1. FALSE \in BOOLEAN
    OBVIOUS
  <2> QED
    BY <1>1, <2>1, Fate
<1>5. o.status = s /\ ~ o.event
  BY DEF Told, Outcome
<1>6. \A mark : EventID(o, mark) = Id(p, s, mark)
  BY DEF Id
<1>7. ids = IF Id(p, s, "") \in p.events
            THEN {Id(p, s, ""), Id(p, s, p.status)} ELSE {Id(p, s, "")}
  <2> HIDE DEF o
  <2> QED
    BY <1>1, <1>3, <1>5, <1>6 DEF EventRows
<1>8. Id(p, s, p.status) \notin p.events
  BY DEF Traced
<1>9. ~ (ids \subseteq p.events)
  <2> HIDE DEF ids
  <2> QED
    BY <1>7, <1>8
<1>10. ~ Duplicate(p, o, source)
  BY <1>9 DEF Duplicate
<1> QED
  BY <1>3, <1>4, <1>10

\* A reading leaves the status or is what the row now says.
LEMMA ReadingTyped ==
    ASSUME NEW p \in Types, p.status \in Known, p.amount \in Amount, NEW s \in Known,
           NEW source
    PROVE  LET q == observe(p, Told(p.amount, s, FALSE), source)
           IN  /\ q \in Types /\ q.status \in Known /\ q.amount = p.amount
               /\ q.status \in {p.status, s}
<1>1. ASSUME NEW ev \in BOOLEAN
      PROVE  LET q == observe(p, Told(p.amount, s, ev), source)
             IN  /\ q \in Types /\ q.amount = p.amount
                 /\ q.status \in {p.status, s}
  BY Effect DEF SameCharge
<1>2. PICK q : q = observe(p, Told(p.amount, s, FALSE), source)
  OBVIOUS
<1>3. q \in Types /\ q.amount = p.amount /\ q.status \in {p.status, s}
  BY <1>1, <1>2
<1> QED
  BY <1>2, <1>3

\* What a reading that contradicts the row leaves.
LEMMA Flags ==
    ASSUME NEW p \in Types, p.status \in Known, p.amount \in Amount, NEW s \in Known,
           NEW source
    PROVE  LET o == Heard(p, s)
               d == ObserveOutcome(p, o)
               q == observe(p, o, source)
           IN  /\ Corrects(p, o, source) => q.status = s
               /\ ~ Duplicate(p, o, source) /\ ~ Corrects(p, o, source)
                  => (d.decision = "anomaly"
                      => q.status = p.status /\ q.anomaly = d.reason /\ q.anomalyStatus = s)
<1> DEFINE o == Told(p.amount, s, FALSE)
           d == ObserveOutcome(p, o)
           q == observe(p, o, source)
           ids == EventRows(p, o, source)
<1>1. /\ Duplicate(p, o, source) => q = p
      /\ ~ Duplicate(p, o, source) => q.events = p.events \cup ids
      /\ Corrects(p, o, source)
         => q.status = s /\ q.anomaly = "" /\ q.anomalyStatus = NoStatus
      /\ ~ Duplicate(p, o, source) /\ ~ Corrects(p, o, source)
         => /\ d.decision = "apply" => q.status = s /\ SameFlag(q, p)
            /\ d.decision = "anomaly"
               => q.status = p.status /\ q.anomaly = d.reason /\ q.anomalyStatus = s
            /\ d.decision = "ignore" => q.status = p.status /\ SameFlag(q, p)
  <2>1. FALSE \in BOOLEAN
    OBVIOUS
  <2> QED
    BY <2>1, Fate
<1> HIDE DEF o, d, q, ids
<1>2. /\ Corrects(p, o, source) => q.status = s
      /\ ~ Duplicate(p, o, source) /\ ~ Corrects(p, o, source)
         => (d.decision = "anomaly"
             => q.status = p.status /\ q.anomaly = d.reason /\ q.anomalyStatus = s)
  BY <1>1
<1> QED
  BY <1>2 DEF o, d, q, Heard

\* The first reading of a capture the ledger had given up flags it, and the second
\* one in a row corrects it.
LEMMA CaptureTaken ==
    ASSUME NEW p \in Types, p.status \in GaveUp, p.amount \in Amount
    PROVE  LET o == Heard(p, "paid")
               q == observe(p, o, "reconcile")
           IN  /\ ObserveOutcome(p, o) = Anomaly("late_capture")
               /\ p.anomaly = "late_capture" /\ p.anomalyStatus = "paid" => q.status = "paid"
               /\ EventID(o, "") \notin p.events
                  => \/ q.status = "paid"
                     \/ /\ q.status = p.status
                        /\ q.anomaly = "late_capture" /\ q.anomalyStatus = "paid"
<1> DEFINE o == Heard(p, "paid")
           d == ObserveOutcome(p, o)
           q == observe(p, o, "reconcile")
<1>1. p.status \in Known /\ "paid" \in Known /\ "paid" \in Captured /\ p.status # "paid"
  BY DEF Known, Captured, GaveUp
<1>2. d = Anomaly("late_capture")
  <2>1. ~ staleAfterCancelling(p, "paid")
    BY DEF staleAfterCancelling, Open
  <2>2. ~ Reachable(p.status, "paid")
    BY <1>1, PastEnd
  <2>3. d = Observe(p.status, "paid")
    BY <1>1, <2>1, StatusDecides DEF Heard, Mismatch
  <2> HIDE DEF d
  <2> QED
    BY <1>1, <2>2, <2>3 DEF Observe
<1>3. d.decision = "anomaly" /\ d.reason = "late_capture"
  <2> HIDE DEF d
  <2> QED
    BY <1>2, Decisions
<1>4. /\ Corrects(p, o, "reconcile") => q.status = "paid"
      /\ ~ Duplicate(p, o, "reconcile") /\ ~ Corrects(p, o, "reconcile")
         => (d.decision = "anomaly"
             => q.status = p.status /\ q.anomaly = d.reason /\ q.anomalyStatus = "paid")
  <2>1. p.status \in Known /\ "paid" \in Known
    BY <1>1
  <2> QED
    BY <2>1, Flags
<1>5. o.status = "paid"
  BY DEF Heard, Told, Outcome
<1> HIDE DEF o
<1>6. Corrects(p, o, "reconcile") <=> p.anomaly = "late_capture" /\ p.anomalyStatus = "paid"
  BY <1>3, <1>5 DEF Corrects, moneyMismatch
<1>7. EventID(o, "") \notin p.events => ~ Duplicate(p, o, "reconcile")
  BY DEF Duplicate, EventRows
<1> HIDE DEF d, q
<1>8. /\ p.anomaly = "late_capture" /\ p.anomalyStatus = "paid" => q.status = "paid"
      /\ EventID(o, "") \notin p.events
         => \/ q.status = "paid"
            \/ /\ q.status = p.status
               /\ q.anomaly = "late_capture" /\ q.anomalyStatus = "paid"
  BY <1>3, <1>4, <1>6, <1>7
<1> QED
  BY <1>2, <1>8 DEF o, d, q

LEMMA TwoReadings ==
    ASSUME IInv, ~ Numbered /\ misjudged = {} => AllTraced
    PROVE  TwoReadingsSuffice
<1> SUFFICES ASSUME ~ Numbered, misjudged = {}, NEW d \in Attempt,
                    provider[d].status \in GaveUp \cup {"paid"},
                    ~ FlagLost(Facing(findPayment(d), d),
                               About(d, provider[d].status, "reconcile"))
             PROVE  LET c == findPayment(d)
                        at == provider[d].status
                        o == About(d, at, "reconcile")
                        p == observe(observe(Facing(c, d), o, "reconcile"), o, "reconcile")
                    IN  /\ c = d
                        /\ IF at = "paid" THEN p.status = "paid" ELSE p.status \notin Open
  BY DEF TwoReadingsSuffice
<1>1. PICK at : at = provider[d].status
  OBVIOUS
<1>2. PICK p : p = payments[d]
  OBVIOUS
<1>3. at \in Final /\ at \in Known /\ at # NoStatus /\ at \notin Open
  BY <1>1 DEF Final, Known, GaveUp, NoStatus, Open
<1>4. findPayment(d) = d
  BY <1>1, <1>3, Found DEF Attributed
<1>5. d \in Rows
  BY <1>1, <1>3 DEF IInv, SentHasRow, Sent, ByTerminal
<1>6. p \in Types /\ p.status \in Known /\ p.amount \in Amount /\ Traced(p)
  BY <1>2, <1>5 DEF IInv, Typed, RowsFilled, AllTraced
<1>0. Facing(d, d) = p /\ About(d, at, "reconcile") = Told(p.amount, at, FALSE)
  <2>1. p.events \in SUBSET EventType
    BY <1>6 DEF Types, EventType
  <2>2. Facet(p, p.events) = p
    BY <1>6, <2>1, FacetRow
  <2>3. (Numbered /\ "reconcile" = "webhook") = FALSE
    OBVIOUS
  <2> QED
    BY <1>2, <2>2, <2>3 DEF Facing, Facet, About, Told
<1>7. ~ FlagLost(p, Told(p.amount, at, FALSE))
  BY <1>0, <1>1, <1>4
<1>8. PICK q : q = observe(p, Told(p.amount, at, FALSE), "reconcile")
  OBVIOUS
<1>9. /\ q \in Types /\ q.status \in Known /\ q.amount = p.amount
      /\ q.status \in {p.status, at}
  BY <1>3, <1>6, <1>8, ReadingTyped
<1>10. Told(p.amount, at, FALSE) = Told(q.amount, at, FALSE)
  BY <1>9 DEF Told
<1>11. PICK r : r = observe(q, Told(q.amount, at, FALSE), "reconcile")
  OBVIOUS
<1>12. r.status \in {q.status, at}
  BY <1>3, <1>6, <1>9, <1>11, ReadingTyped
<1>13. IF at = "paid" THEN r.status = "paid" ELSE r.status \notin Open
  <2>1. CASE p.status \in Open
    <3>1. q.status = at
      BY <1>3, <1>6, <1>8, <2>1, OpenSettles
    <3> QED
      BY <1>3, <1>12, <3>1
  <2>2. CASE p.status \notin Open /\ at # "paid"
    BY <1>3, <1>9, <1>12, <2>2
  <2>3. CASE p.status = "paid" /\ at = "paid"
    BY <1>9, <1>12, <2>3
  <2>4. CASE p.status \in GaveUp /\ at = "paid"
    <3>1. /\ ObserveOutcome(p, Told(p.amount, at, FALSE)) = Anomaly("late_capture")
          /\ p.anomaly = "late_capture" /\ p.anomalyStatus = "paid" => q.status = "paid"
          /\ EventID(Told(p.amount, at, FALSE), "") \notin p.events
             => \/ q.status = "paid"
                \/ /\ q.status = p.status
                   /\ q.anomaly = "late_capture" /\ q.anomalyStatus = "paid"
      BY <1>6, <1>8, <2>4, CaptureTaken DEF Heard
    <3>2. \/ EventID(Told(p.amount, at, FALSE), "") \notin p.events
          \/ p.anomaly = "late_capture" /\ p.anomalyStatus = "paid"
      <4> DEFINE o == Told(p.amount, at, FALSE)
      <4>1. o.status = at
        BY DEF Told, Outcome
      <4> HIDE DEF o
      <4>2. ObserveOutcome(p, o) = Anomaly("late_capture") /\ ~ FlagLost(p, o)
        BY <1>7, <3>1 DEF o
      <4>3. \/ EventID(o, "") \notin p.events
            \/ p.anomaly = "late_capture" /\ p.anomalyStatus = "paid"
        BY <2>4, <4>1, <4>2, Decisions DEF FlagLost
      <4> QED
        BY <4>3 DEF o
    <3>3. CASE q.status = "paid"
      BY <1>12, <2>4, <3>3
    <3>4. CASE q.status = p.status /\ q.anomaly = "late_capture" /\ q.anomalyStatus = "paid"
      BY <1>6, <1>9, <1>11, <2>4, <3>4, CaptureTaken DEF Heard
    <3> QED
      BY <3>1, <3>2, <3>3, <3>4
  <2> QED
    BY <1>6, <2>1, <2>2, <2>3, <2>4 DEF Known
<1> QED
  BY <1>0, <1>1, <1>4, <1>8, <1>10, <1>11, <1>13

\* Two readings of the reconciliation job settle every payment that has ended at a
\* provider whose webhooks carry no event ids, whatever was delivered before and in
\* whichever order, unless the flag of that reading is lost or an error was taken
\* for the refusal of a request that reached the provider.
THEOREM TwoReadingsSettle == Spec => []TwoReadingsSuffice
<1> DEFINE TracedInv == ~ Numbered /\ misjudged = {} => AllTraced
<1>1. Init => IInv /\ TracedInv
  BY InitHolds, TracedInit
<1>2. IInv /\ TracedInv /\ [Next]_vars => (IInv /\ TracedInv)'
  BY NextKeeps, MisjudgedStays, TracedStep
<1>3. IInv /\ TracedInv => TwoReadingsSuffice
  BY TwoReadings
<1> QED
  BY <1>1, <1>2, <1>3, PTL DEF Spec
=============================================================================
