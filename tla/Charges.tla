------------------------------ MODULE Charges -------------------------------
(***************************************************************************)
(* The charges of one document in the payments ledger: charge attempts     *)
(* under the document lock, their way to the provider and back, webhooks,  *)
(* polls, cancellations, the reconciliation job and the hold a till takes  *)
(* on the document. Calls to the provider run outside every transaction,   *)
(* so what they answer may be old when it is recorded.                     *)
(*                                                                         *)
(* One provider; an attempt is named by its idempotency key and all carry  *)
(* the document's order reference. Refunds are in Refunds.                 *)
(***************************************************************************)
EXTENDS PaymentStatus, Sequences, SequencesExt

CONSTANTS
    Attempt,        \* idempotency keys of charge requests
    Channel,        \* goroutines that charge, poll and cancel
    Reconciler,     \* goroutines of the reconciliation job and of webhooks
    Till,           \* points of sale
    Total,          \* the document's total
    AmountOf,       \* AmountOf[c]: the amounts attempt c may ask for
    ProviderStatus, \* ProviderStatus[c]: statuses the provider gives attempt c
    Numbered,       \* whether its webhooks number the updates they deliver
    MaxCancels,     \* bound: cancellations the provider is asked for
    MaxLate,        \* bound: captures of a payment the provider had given up
    MaxMisjudged,   \* bound: errors taken for a refusal that was none
    NoAttempt, NoTill

Proc == Channel \cup Reconciler

Amount == UNION {AmountOf[c] : c \in Attempt}

ASSUME ChargesConstants ==
    /\ IsFiniteSet(Attempt)
    /\ Total \in Nat \ {0}
    /\ AmountOf \in [Attempt -> SUBSET (Nat \ {0})]
    /\ ProviderStatus \in [Attempt -> SUBSET (Open \cup GaveUp \cup {"paid"})]
    /\ Numbered \in BOOLEAN
    /\ MaxCancels \in Nat
    /\ MaxLate \in Nat
    /\ MaxMisjudged \in Nat
    /\ NoAttempt \notin Attempt
    /\ NoTill \notin Till

VARIABLES
    created,  \* the attempts that have a row, in the order of created_at
    payments, \* payments[c]: the row of attempt c
    hold,     \* the active hold of the document
    procs,    \* procs[w]: what goroutine w is doing
    posted,   \* creation requests on their way to the provider
    provider, \* provider[c]: the payment at the provider
    reports,  \* what its webhooks have re-read, to be delivered at any time
    late,     \* attempts captured after the provider had given them up
    misjudged, \* attempts failed by an error though the provider got the request
    cancels   \* cancellations asked for so far

vars == <<created, payments, hold, procs, posted, provider, reports, late,
          misjudged, cancels>>

ledger == <<created, payments, hold>>
world == <<posted, provider, reports, late, cancels>>
outside == <<world, misjudged>>

----------------------------------------------------------------------------
(* The document *)

NoPayment == [status |-> NoStatus, channel |-> "none", amount |-> 0,
              amountRefunded |-> 0, cancelledFrom |-> NoStatus, ref |-> NoAttempt,
              anomaly |-> "", anomalyStatus |-> NoStatus, corrected |-> FALSE,
              events |-> {}]

\* ref: the payment the row is for, at the provider or in the drawer. corrected:
\* a correction is among its events. events: the updates on record about the
\* payment of this attempt, whichever row they were taken for.
Row(c, channel, amount) ==
    [NoPayment EXCEPT !.channel = channel, !.amount = amount,
                      !.status = IF channel = "cash" THEN "paid" ELSE "pending",
                      !.ref = IF channel = "cash" THEN c ELSE NoAttempt]

Rows == Range(created)

Sum(pay, attempts) ==
    LET amount == [c \in Attempt |-> pay[c].amount]
    IN  MapThenSumSet(LAMBDA c : amount[c], attempts)

\* DocumentPaid without refunds that reduced the total.
Paid(rows, pay) == Sum(pay, {c \in rows : pay[c].status \in Captured})

CheckReplayOpenIgnored(c) ==
    IF c \in Rows
    THEN IF payments[c].status \in Captured THEN "replay" ELSE "retry_with_new_key"
    ELSE IF Paid(Rows, payments) >= Total THEN "already_paid"
    ELSE "new"

\* A new key, a total not covered yet and no open payment.
CheckReplay(c) ==
    IF c \in Rows
    THEN IF payments[c].status \in Captured THEN "replay"
         ELSE IF payments[c].status \in Open THEN "in_progress"
         ELSE "retry_with_new_key"
    ELSE IF Paid(Rows, payments) >= Total THEN "already_paid"
    ELSE IF \E d \in Rows : payments[d].status \in Open THEN "in_progress"
    ELSE "new"

----------------------------------------------------------------------------
(* Holds *)

NoHold == [till |-> NoTill, live |-> FALSE]

\* A transaction that will end the hold has locked its row.
HoldLocked ==
    \E w \in Proc : procs[w].pc = "settle" /\ procs[w].held /\ procs[w].paid >= Total

\* The owner renews; an expired hold of another till is replaced.
AcquireHold(t) ==
    /\ hold.till = t \/ ~ hold.live
    /\ ~ HoldLocked
    /\ hold' = [till |-> t, live |-> TRUE]
    /\ UNCHANGED <<created, payments, procs, outside>>

\* An expired hold is closed by whoever releases it.
ReleaseHold(t) ==
    /\ hold.till # NoTill
    /\ ~ hold.live \/ hold.till = t
    /\ ~ HoldLocked
    /\ hold' = NoHold
    /\ UNCHANGED <<created, payments, procs, outside>>

\* Time passes.
HoldExpires ==
    /\ hold.live
    /\ hold' = [hold EXCEPT !.live = FALSE]
    /\ UNCHANGED <<created, payments, procs, outside>>

CheckCharge(t) == hold.till \in {NoTill, t} \/ ~ hold.live

settleDocumentOverpaid(paid) == IF paid <= Total THEN hold ELSE NoHold

\* Any hold on a document paid in full is moot.
settleDocument(paid) == IF paid < Total THEN hold ELSE NoHold

----------------------------------------------------------------------------
(* Goroutines *)

Idle == [pc |-> "idle", attempt |-> NoAttempt, about |-> NoAttempt,
         status |-> NoStatus, source |-> "none", paid |-> 0, held |-> FALSE]

Doing(pc, c) == [Idle EXCEPT !.pc = pc, !.attempt = c]

\* An answer of the provider about payment d, read now.
Reading(d, source) ==
    [Idle EXCEPT !.pc = "observe", !.about = d, !.status = provider[d].status,
                 !.source = source]

Goto(w, state) == procs' = [procs EXCEPT ![w] = state]

\* A deploy, a crash or a cancelled request ends what a goroutine is doing; an
\* open transaction is rolled back.
Crash(w) ==
    /\ procs[w].pc # "idle"
    /\ Goto(w, Idle)
    /\ UNCHANGED <<ledger, outside>>

----------------------------------------------------------------------------
(* Charges *)

\* The transaction of StartCharge: drawer cash is captured at once, any other
\* attempt is pending and goes to the provider.
StartCharge(w, t, c, channel, amount) ==
    LET rows == Rows \cup {c}
        pay == [payments EXCEPT ![c] = Row(c, channel, amount)]
    IN  /\ procs[w].pc = "idle"
        /\ CheckCharge(t)
        /\ CheckReplay(c) = "new"
        /\ amount <= Total - Paid(Rows, payments)
        /\ created' = Append(created, c)
        /\ payments' = pay
        /\ hold' = IF channel = "cash" THEN settleDocument(Paid(rows, pay)) ELSE hold
        /\ hold' = hold \/ ~ HoldLocked
        /\ IF channel = "cash"
           THEN UNCHANGED <<procs, posted>>
           ELSE /\ Goto(w, Doing("create", c))
                /\ posted' = posted \cup {c}
        /\ UNCHANGED <<provider, reports, late, misjudged, cancels>>

\* The provider gets a creation request, creates the payment or refuses it, and
\* answers whoever still waits.
Answered(c, pc, status) ==
    [w \in Proc |-> IF procs[w].pc = "create" /\ procs[w].attempt = c
                    THEN [Doing(pc, c) EXCEPT !.status = status]
                    ELSE procs[w]]

ProviderCreates(c) ==
    /\ c \in posted
    /\ posted' = posted \ {c}
    /\ \E s \in ProviderStatus[c] \ {"cancelling", "cancelled", "expired"} :
          /\ provider' = [provider EXCEPT ![c].status = s]
          /\ procs' = Answered(c, "created", s)
          /\ reports' = reports \cup {[about |-> c, status |-> s]}
    /\ UNCHANGED <<ledger, late, misjudged, cancels>>

ProviderRefuses(c) ==
    /\ c \in posted
    /\ posted' = posted \ {c}
    /\ procs' = Answered(c, "refused", NoStatus)
    /\ UNCHANGED <<ledger, provider, reports, late, misjudged, cancels>>

RequestLost(c) ==
    /\ c \in posted
    /\ posted' = posted \ {c}
    /\ UNCHANGED <<ledger, procs, provider, reports, late, misjudged, cancels>>

\* Another transaction has written the row of c, or a row for the payment of c.
Locked(c) ==
    \E w \in Proc : procs[w].pc = "settle" /\ c \in {procs[w].attempt, procs[w].about}

FailPending(c) ==
    payments' = [payments EXCEPT ![c].status = IF @ = "pending" THEN "failed" ELSE @]

IndeterminateFails(w) ==
    /\ procs[w].pc \in {"create", "created", "refused"}
    /\ ~ Locked(procs[w].attempt)
    /\ FailPending(procs[w].attempt)
    /\ Goto(w, Idle)
    /\ UNCHANGED <<created, hold, outside>>

\* No answer in time: the payment may exist, so it stays pending.
Indeterminate(w) ==
    /\ procs[w].pc \in {"create", "created", "refused"}
    /\ Goto(w, Idle)
    /\ UNCHANGED <<ledger, outside>>

\* The request of c has not been lost or refused.
Sent(c) == c \in posted \/ provider[c].status # NoStatus

\* Any other error fails the payment if it is still pending: the provider's
\* refusal, but also an error of the invoker on the way, a panic, or an answer
\* that is not the contract's output, about a payment that has been created.
markFailed(w) ==
    LET c == procs[w].attempt
    IN  /\ procs[w].pc \in {"create", "created", "refused"}
        /\ ~ Locked(c)
        /\ FailPending(c)
        /\ misjudged' = IF payments[c].status = "pending" /\ Sent(c)
                        THEN misjudged \cup {c} ELSE misjudged
        /\ Cardinality(misjudged') <= MaxMisjudged
        /\ Goto(w, Idle)
        /\ UNCHANGED <<created, hold, world>>

\* The answer names the payment at the provider (a reference is unique); a status
\* other than pending is then recorded like any other reading.
RecordCreated(w) ==
    LET c == procs[w].attempt
        unique == \A d \in Attempt \ {c} : payments[d].ref # c
    IN  /\ procs[w].pc = "created"
        /\ ~ Locked(c)
        /\ payments' = [payments EXCEPT ![c].ref = IF unique THEN c ELSE @]
        /\ Goto(w, IF procs[w].status = "pending" \/ ~ unique THEN Idle
                   ELSE [procs[w] EXCEPT !.pc = "observe", !.about = c,
                                         !.source = "poll"])
        /\ UNCHANGED <<created, hold, outside>>

----------------------------------------------------------------------------
(* Observations *)

\* The row an update about d is for: the one with its reference, else the newest
\* of the order that has none yet.
findPayment(d) ==
    LET referenced == {c \in Rows : payments[c].ref = d}
        blank == {i \in DOMAIN created : payments[created[i]].ref = NoAttempt}
    IN  IF referenced # {} THEN CHOOSE c \in referenced : TRUE
        ELSE IF blank = {} THEN NoAttempt ELSE created[Max(blank)]

\* What is said about payment d, and row c with the updates on record about d.
About(d, status, source) ==
    Outcome(status, "payment", payments[d].amount, NoTotal,
            Numbered /\ source = "webhook")

Facing(c, d) == [payments[c] EXCEPT !.events = payments[d].events]

\* Row c and the events about d after the update, which is the one thing recorded
\* of a payment no row is found for.
Record(c, d, status, source) ==
    LET o == About(d, status, source)
        was == Facing(c, d)
        now == observe(was, o, source)
        row == [now EXCEPT
                  !.events = payments[c].events,
                  !.ref = IF @ = NoAttempt /\ Applies(was, o, source) THEN d ELSE @,
                  !.corrected = @ \/ Corrects(was, o, source)]
    IN  payments' = IF c = NoAttempt
                    THEN [payments EXCEPT ![d].events = @ \cup {EventID(o, "")}]
                    ELSE [payments EXCEPT ![c] = row, ![d].events = now.events]

\* A capture that is applied: the document's paid total is read too.
Settles(c, d, status, source) ==
    /\ c # NoAttempt
    /\ status \in Counts
    /\ Applies(Facing(c, d), About(d, status, source), source)

\* The total read in the transaction that gives row c the status.
PaidWith(c, status) == Paid(Rows, [payments EXCEPT ![c].status = status])

\* The transaction of observe. It locks one row and reads the others as they are
\* committed, so one that settles the document ends in a step of its own.
Take(w, d, status, source) ==
    LET c == findPayment(d)
        paid == PaidWith(c, status)
    IN  /\ ~ Locked(c) /\ ~ Locked(d)
        /\ IF Settles(c, d, status, source)
           THEN /\ paid < Total \/ ~ HoldLocked
                /\ Goto(w, [pc |-> "settle", attempt |-> c, about |-> d,
                            status |-> status, source |-> source, paid |-> paid,
                            held |-> hold.till # NoTill])
                /\ UNCHANGED payments
           ELSE /\ Record(c, d, status, source)
                /\ Goto(w, Idle)
        /\ UNCHANGED <<created, hold, outside>>

ObserveReading(w) ==
    /\ procs[w].pc = "observe"
    /\ Take(w, procs[w].about, procs[w].status, procs[w].source)

\* A webhook delivers what it re-read: late, more than once, in any order.
Webhook(w, r) ==
    /\ procs[w].pc = "idle"
    /\ r \in reports
    /\ Take(w, r.about, r.status, "webhook")

\* The commit: the row, its events and the end of the hold it found.
Commit(w) ==
    LET r == procs[w]
    IN  /\ r.pc = "settle"
        /\ Record(r.attempt, r.about, r.status, r.source)
        /\ hold' = IF r.held THEN settleDocument(r.paid) ELSE hold
        /\ Goto(w, Idle)
        /\ UNCHANGED <<created, outside>>

\* The payment at the provider a row is read by: its reference, or any payment
\* of the order.
AtProvider(c) ==
    {d \in Attempt : /\ provider[d].status # NoStatus
                     /\ payments[c].ref \in {NoAttempt, d}}

\* A poll of the screen, and steps 1 and 3 of the reconciliation job: open and
\* flagged payments.
Refresh(w, c, source) ==
    /\ procs[w].pc = "idle"
    /\ c \in Rows /\ payments[c].channel # "cash"
    /\ source = "reconcile" => \/ payments[c].status \in Open
                               \/ payments[c].anomaly # ""
    /\ \E d \in AtProvider(c) : Goto(w, Reading(d, source))
    /\ UNCHANGED <<ledger, outside>>

\* Step 4 of the reconciliation job: the provider lists its recent payments.
List(w, d) ==
    /\ procs[w].pc = "idle"
    /\ \E c \in Rows : payments[c].channel # "cash"
    /\ provider[d].status # NoStatus
    /\ Goto(w, Reading(d, "reconcile"))
    /\ UNCHANGED <<ledger, outside>>

----------------------------------------------------------------------------
(* Cancellation *)

\* A cashier, or step 2 of the reconciliation job, cancels an open payment.
Cancel(w, c) ==
    /\ procs[w].pc = "idle"
    /\ c \in Rows /\ payments[c].channel # "cash"
    /\ payments[c].status \in Open
    /\ cancels < MaxCancels
    /\ cancels' = cancels + 1
    /\ Goto(w, [Doing("cancel", c) EXCEPT !.status = payments[c].status])
    /\ UNCHANGED <<ledger, posted, provider, reports, late, misjudged>>

\* The provider queues the cancellation, cancels at once, or cannot.
ProviderCancels(w, d, s) ==
    /\ procs[w].pc = "cancel"
    /\ d \in AtProvider(procs[w].attempt)
    /\ provider[d].status \in Open \ {"cancelling"}
    /\ s \in {"cancelling", "cancelled"} \cap ProviderStatus[d]
    /\ provider' = [provider EXCEPT ![d].status = s, ![d].from = provider[d].status]
    /\ reports' = reports \cup {[about |-> d, status |-> s]}
    /\ Goto(w, IF s = "cancelling" THEN [procs[w] EXCEPT !.pc = s]
               ELSE Doing("reread", procs[w].attempt))
    /\ UNCHANGED <<ledger, posted, late, misjudged, cancels>>

\* Not cancellable, refused or no answer: re-read all the same.
CancelUnanswered(w) ==
    /\ procs[w].pc \in {"cancel", "cancelling"}
    /\ Goto(w, Doing("reread", procs[w].attempt))
    /\ UNCHANGED <<ledger, outside>>

\* The request is recorded only on the status it was made in.
RecordCancelling(w) ==
    LET c == procs[w].attempt
        from == procs[w].status
    IN  /\ procs[w].pc = "cancelling"
        /\ ~ Locked(c)
        /\ payments' =
              IF /\ from # "cancelling"
                 /\ CanTransition(from, "cancelling")
                 /\ payments[c].status = from
              THEN [payments EXCEPT ![c].status = "cancelling",
                                    ![c].cancelledFrom = from]
              ELSE payments
        /\ Goto(w, Doing("reread", procs[w].attempt))
        /\ UNCHANGED <<created, hold, outside>>

RereadCancelled(w) ==
    /\ procs[w].pc = "reread"
    /\ \/ \E d \in AtProvider(procs[w].attempt) : Goto(w, Reading(d, "poll"))
       \/ /\ AtProvider(procs[w].attempt) = {}
          /\ Goto(w, Idle)
    /\ UNCHANGED <<ledger, outside>>

----------------------------------------------------------------------------
(* The provider *)

\* It moves a payment forward; a refused cancellation puts it back.
ProviderMoves(d, s) ==
    LET at == provider[d].status
    IN  /\ at \in Open
        /\ s \in ProviderStatus[d] \ {"cancelling"}
        /\ IF at = "cancelling"
           THEN s \notin Open \/ s = provider[d].from
           ELSE s # "cancelled" /\ advances(at, s)
        /\ provider' = [provider EXCEPT ![d].status = s]
        /\ reports' = reports \cup {[about |-> d, status |-> s]}
        /\ UNCHANGED <<ledger, procs, posted, late, misjudged, cancels>>

\* A device captures what the provider had given up.
LateCapture(d) ==
    /\ provider[d].status \in GaveUp
    /\ Cardinality(late) < MaxLate
    /\ late' = late \cup {d}
    /\ provider' = [provider EXCEPT ![d].status = "paid"]
    /\ reports' = reports \cup {[about |-> d, status |-> "paid"]}
    /\ UNCHANGED <<ledger, procs, posted, misjudged, cancels>>

----------------------------------------------------------------------------
(* Specification *)

Init ==
    /\ created = <<>>
    /\ payments = [c \in Attempt |-> NoPayment]
    /\ hold = NoHold
    /\ procs = [w \in Proc |-> Idle]
    /\ posted = {}
    /\ provider = [c \in Attempt |-> [status |-> NoStatus, from |-> NoStatus]]
    /\ reports = {}
    /\ late = {}
    /\ misjudged = {}
    /\ cancels = 0

LedgerStep(w) ==
    \/ RecordCreated(w)
    \/ markFailed(w)
    \/ Indeterminate(w)
    \/ ObserveReading(w)
    \/ Commit(w)
    \/ CancelUnanswered(w)
    \/ RecordCancelling(w)
    \/ RereadCancelled(w)

Next ==
    \/ \E t \in Till : AcquireHold(t) \/ ReleaseHold(t)
    \/ HoldExpires
    \/ \E w \in Channel, t \in Till, c \in Attempt, channel \in {"cash", "terminal"} :
          \E a \in AmountOf[c] : StartCharge(w, t, c, channel, a)
    \/ \E c \in Attempt : ProviderCreates(c) \/ ProviderRefuses(c) \/ RequestLost(c)
    \/ \E w \in Proc : LedgerStep(w) \/ Crash(w)
    \/ \E w \in Reconciler, r \in reports : Webhook(w, r)
    \/ \E w \in Reconciler, c \in Attempt : Refresh(w, c, "reconcile") \/ List(w, c)
    \/ \E w \in Channel, c \in Attempt :
          \/ Refresh(w, c, "poll")
          \/ Cancel(w, c)
          \/ \E s \in ProviderStatus[c] : ProviderCancels(w, c, s)
    \/ \E c \in Attempt : \E s \in ProviderStatus[c] : ProviderMoves(c, s)
    \/ \E c \in Attempt : LateCapture(c)

Spec == Init /\ [][Next]_vars

----------------------------------------------------------------------------
(* Properties *)

Types ==
    [status : Status \cup {NoStatus}, channel : {"none", "cash", "terminal"},
     amount : Amount \cup {0}, amountRefunded : {0},
     cancelledFrom : Open \cup {NoStatus}, ref : Attempt \cup {NoAttempt},
     anomaly : {"", "late_capture", "capture_reversed", "amount_mismatch"},
     anomalyStatus : Status \cup {NoStatus}, corrected : BOOLEAN,
     events : SUBSET [kind : {"payment"}, status : Status, amount : Amount,
                      amountRefunded : {NoTotal}, event : BOOLEAN,
                      mark : Status \cup {"", "corrected"}]]

TypeOK ==
    /\ created \in Seq(Attempt)
    /\ \A c \in Attempt : payments[c] \in Types
    /\ hold \in [till : Till \cup {NoTill}, live : BOOLEAN]
    /\ posted \subseteq Attempt
    /\ provider \in [Attempt -> [status : Status \cup {NoStatus},
                                 from : Open \cup {NoStatus}]]
    /\ reports \subseteq [about : Attempt, status : Status]
    /\ late \subseteq Attempt
    /\ misjudged \subseteq Attempt
    /\ cancels \in 0..MaxCancels

HasMoney(c) == provider[c].status = "paid" \/ payments[c].channel = "cash"

\* The buyer is never charged more than the document's total, whatever is lost,
\* late or cancelled on the way, unless the provider captures a payment it had
\* given up, or an error was taken for the refusal of a request that reached the
\* provider: its attempt is failed, and a new one may charge as well.
ChargedOnce ==
    misjudged = {} => Sum(payments, {c \in Attempt \ late : HasMoney(c)}) <= Total

\* An error of the creation call that is not a timeout means that nothing was
\* created at the provider: the buyer does not pay what was failed for it.
NothingCreated ==
    \A c \in Rows \ late : payments[c].status = "failed" => provider[c].status # "paid"

\* At most one payment of the document is open, so that no two devices hold its
\* order, unless a correction opened one again.
OneOpen ==
    \A c, d \in Rows :
        /\ payments[c].status \in Open
        /\ payments[d].status \in Open
        => c = d \/ payments[c].corrected \/ payments[d].corrected

\* An authorization is never taken back to a step before it by an update that
\* arrives late, a refused cancellation in between included if the ledger asked
\* for it. A cancellation it only reads of leaves cancelled_from empty, and the
\* authorization before it is forgotten.
Authorized(p) ==
    \/ p.status = "authorized"
    \/ p.status = "cancelling" /\ p.cancelledFrom = "authorized"

NoLostAuthorization ==
    [][\A c \in Attempt :
          Authorized(payments[c]) =>
              payments'[c].status \notin {"pending", "requires_action", "at_device"}]_vars

\* What the transaction of w has read of the document is no longer so: another
\* capture has been committed, or a hold taken, since.
Overtaken(w) ==
    /\ procs[w].pc = "settle"
    /\ \/ procs[w].paid # PaidWith(procs[w].attempt, procs[w].status)
       \/ hold # NoHold /\ ~ procs[w].held

\* The step that covers the document's total ends the hold on it, whichever way
\* the money is learned of, unless it is the commit of a transaction that another
\* one has overtaken: two captures recorded at once may each miss the other.
PaidEndsHold ==
    [][Paid(Rows, payments) < Total /\ Paid(Rows, payments)' >= Total
       => hold' = NoHold \/ \E w \in Proc : Overtaken(w) /\ Commit(w)]_vars

\* A reading that contradicts the row and is on record, while the flag it raised
\* has been overwritten or corrected away: the ledger takes it for a duplicate.
FlagLost(p, o) ==
    LET d == ObserveOutcome(p, o)
    IN  /\ d.decision = "anomaly"
        /\ EventID(o, "") \in p.events
        /\ ~ (p.anomaly = d.reason /\ p.anomalyStatus = o.status)

\* Two readings of the reconciliation job are enough to learn what became of the
\* money, whatever was recorded before, unless the flag of that reading is lost:
\* a capture is recorded, of a payment the ledger had given up too, and a payment
\* the provider gave up is not open. This is for a provider that does not number
\* its webhooks, and while no error was taken for the refusal of a request that
\* reached it.
TwoReadingsSuffice ==
    ~ Numbered /\ misjudged = {} =>
    \A d \in Attempt :
        LET c == findPayment(d)
            at == provider[d].status
            o == About(d, at, "reconcile")
            p == observe(observe(Facing(c, d), o, "reconcile"), o, "reconcile")
        IN  /\ at \in GaveUp \cup {"paid"}
            /\ ~ FlagLost(Facing(c, d), o)
            => /\ c = d
               /\ IF at = "paid" THEN p.status = "paid" ELSE p.status \notin Open
=============================================================================
