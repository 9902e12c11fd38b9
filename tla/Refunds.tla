------------------------------ MODULE Refunds -------------------------------
(***************************************************************************)
(* The refunds of one captured payment in the payments ledger: their rows  *)
(* under the payment's lock, the requests to the provider that run outside *)
(* every transaction, retries by callers and by the reconciliation job     *)
(* inside the provider's key lifetime, manual review past it, settlement   *)
(* by hand, and the payment's refunded total, which the provider may raise *)
(* on its own.                                                             *)
(*                                                                         *)
(* A refund is named by its idempotency key, of a size of its own (the same *)
(* key with other data is refused and changes nothing). Wallet refunds are *)
(* like cash ones: the channel that pays them settles them. Time is a      *)
(* count of units since a refund was created.                              *)
(***************************************************************************)
EXTENDS PaymentStatus, FiniteSetsExt

CONSTANTS
    Key,        \* idempotency keys of refund requests
    Size,       \* Size[k]: the amount of refund k
    Dest,       \* Dest[k]: where it may go
    Amount,     \* the amount the payment captured
    Proc,       \* goroutines that serve requests
    Reconciler, \* those of them that also run the reconciliation job
    InFlight,   \* how long a first request may be waiting for its answer
    Window,     \* how long the same request may be sent again
    KeyLife,    \* how long the provider remembers a key
    AskTime,    \* how long a request may take
    Busy,       \* whether the organization has other, open or recent, payments
    Unnumbered, \* whether the provider may answer without a refund id
    MaxPanel,   \* bound: refunded in the provider's panel
    NoKey

ASSUME RefundsConstants ==
    /\ Amount \in Nat \ {0}
    /\ IsFiniteSet(Key)
    /\ Size \in [Key -> Nat \ {0}]
    /\ Dest \in [Key -> SUBSET {"original_method", "cash"}]
    /\ Reconciler \subseteq Proc
    /\ InFlight \in Nat
    /\ Window \in Nat
    /\ KeyLife \in Nat
    /\ AskTime \in Nat
    /\ Busy \in BOOLEAN
    /\ Unnumbered \in BOOLEAN
    /\ MaxPanel \in Nat
    /\ NoKey \notin Key

\* What the windows are chosen for: an answer comes before the request counts as
\* lost, and a request sent inside the window meets a key still remembered.
ASSUME WindowsFit ==
    /\ AskTime <= InFlight
    /\ Window + AskTime <= KeyLife

MaxAge == KeyLife + 1

VARIABLES
    pay,        \* the payment's row
    refunds,    \* refunds[k]: the row of refund k
    procs,      \* procs[w]: what goroutine w is doing
    adrift,     \* <<k, n>>: a request for k sent n ago that nobody waits for
    books,      \* books[k]: what the provider made of refund k
    accepted,   \* accepted[k]: how often it accepted a request for k
    panel,      \* what was refunded in its panel
    overlapped, \* refunds requested again while their first request ran
    misjudged,  \* refunds failed though their first request went through, or may
    byHand      \* refunds through the provider settled by hand

vars == <<pay, refunds, procs, adrift, books, accepted, panel,
          overlapped, misjudged, byHand>>

outside == <<books, accepted, panel>>
history == <<overlapped, misjudged, byHand>>

----------------------------------------------------------------------------
(* Rows *)

RefundStatus == {"pending", "succeeded", "failed", "manual_required"}

refundTransitions ==
    [pending |-> {"succeeded", "failed", "manual_required"},
     manual_required |-> {"succeeded", "failed"},
     succeeded |-> {}, failed |-> {}, none |-> {}]

CanTransitionRefund(from, to) == to \in refundTransitions[from]

NoRefund == [status |-> "none", dest |-> "none", num |-> FALSE,
             review |-> FALSE, due |-> FALSE, age |-> 0]

\* What the refunds of a set come to.
Total(keys) == MapThenSumSet(LAMBDA k : Size[k], keys)

sumRefunds(statuses) == Total({k \in Key : refunds[k].status \in statuses})

Larger(a, b) == IF a >= b THEN a ELSE b

RefundableIfSettled ==
    IF pay.status \notin Counts THEN 0
    ELSE Larger(0, Amount - Larger(pay.amountRefunded, sumRefunds({"succeeded"})))

Refundable ==
    IF pay.status \notin Counts THEN 0
    ELSE Larger(0, Amount - Larger(pay.amountRefunded, sumRefunds({"succeeded"}))
                          - sumRefunds({"pending", "manual_required"}))

\* A new refund is checked against the others under the payment's lock.
CheckRefund(k) ==
    /\ refunds[k].status = "none"
    /\ pay.status \in Counts
    /\ Size[k] <= Refundable

----------------------------------------------------------------------------
(* Goroutines *)

Idle == [pc |-> "idle", key |-> NoKey, first |-> FALSE, num |-> FALSE,
         status |-> "none", waited |-> 0]

Doing(pc, k) == [Idle EXCEPT !.pc = pc, !.key = k]

Goto(w, state) == procs' = [procs EXCEPT ![w] = state]

\* At the provider: request sent, or answer not recorded yet.
Asking(w) == procs[w].pc \in {"post", "read", "answer", "refused", "erred"}

\* A request is not delivered after its time.
Delivered(w) == procs[w].pc = "post" /\ procs[w].waited <= AskTime

\* The goroutine no longer waits; a request it sent may still be delivered.
Abandon(w) ==
    adrift' = IF Delivered(w) THEN adrift \cup {<<procs[w].key, procs[w].waited>>}
              ELSE adrift

Crash(w) ==
    /\ procs[w].pc # "idle"
    /\ Goto(w, Idle)
    /\ Abandon(w)
    /\ UNCHANGED <<pay, refunds, outside, history>>

----------------------------------------------------------------------------
(* Requests *)

\* The transaction of CreateRefund with a new key; for the original method the
\* provider is asked next.
CreateRefund(w, k, dest) ==
    /\ procs[w].pc = "idle"
    /\ CheckRefund(k)
    /\ refunds' = [refunds EXCEPT ![k] =
                      [NoRefund EXCEPT !.status = "pending", !.dest = dest, !.due = TRUE]]
    /\ IF dest = "original_method"
       THEN Goto(w, [Doing("post", k) EXCEPT !.first = TRUE])
       ELSE UNCHANGED procs
    /\ UNCHANGED <<pay, adrift, outside, history>>

\* A row is read to be asked about.
Snapshot(w, k) ==
    /\ Goto(w, [Doing("recheck", k) EXCEPT !.num = refunds[k].num])
    /\ overlapped' = IF \E v \in Proc : Asking(v) /\ procs[v].first /\ procs[v].key = k
                     THEN overlapped \cup {k} ELSE overlapped

Waiting(k) ==
    /\ refunds[k].status = "pending"
    /\ refunds[k].dest = "original_method"
    /\ ~ refunds[k].review

\* CreateRefund with a known key: a refund still pending is asked about at once.
ReplayRefund(w, k) ==
    /\ procs[w].pc = "idle"
    /\ Waiting(k)
    /\ Snapshot(w, k)
    /\ UNCHANGED <<pay, refunds, adrift, outside, misjudged, byHand>>

\* Orgs: the job looks at organizations with open, flagged or recent payments.
\* This payment itself is captured, and is recent for less than a unit of time.
Listed == Busy

recheckInWindow(w, k) ==
    /\ procs[w].pc = "idle"
    /\ Listed
    /\ Waiting(k)
    /\ refunds[k].due
    /\ refunds[k].num \/ refunds[k].age \in InFlight + 1..Window
    /\ Snapshot(w, k)
    /\ UNCHANGED <<pay, refunds, adrift, outside, misjudged, byHand>>

\* Step 5 of the job: refunds that are due and not in flight.
recheckRefunds(w, k) ==
    /\ procs[w].pc = "idle"
    /\ Listed
    /\ Waiting(k)
    /\ refunds[k].due
    /\ refunds[k].num \/ refunds[k].age > InFlight
    /\ Snapshot(w, k)
    /\ UNCHANGED <<pay, refunds, adrift, outside, misjudged, byHand>>

repostForever(k, num) == FALSE

repostExpired(k, num) == ~ num /\ refunds[k].age > Window

\* A numbered refund is read, one that is not is sent again while the window
\* lasts, and goes to review after it.
recheckRefund(w) ==
    LET k == procs[w].key
    IN  /\ procs[w].pc = "recheck"
        /\ Goto(w, Doing(IF procs[w].num THEN "read"
                         ELSE IF repostExpired(k, procs[w].num) THEN "review"
                         ELSE "post", k))
        /\ UNCHANGED <<pay, refunds, adrift, outside, history>>

----------------------------------------------------------------------------
(* The provider *)

Returned == Total({k \in Key : books[k] = "succeeded"}) + panel

\* Money it returned or is about to.
Held == Total({k \in Key : books[k] \in {"pending", "succeeded"}}) + panel

Answer(w, status, num) ==
    Goto(w, [procs[w] EXCEPT !.pc = "answer", !.status = status, !.num = num,
                             !.waited = 0])

\* A key it does not know, or forgot: the refund is carried out, now or later,
\* declined or left to the merchant.
CarriesOut(k, status) ==
    LET takes == status \in {"pending", "succeeded"}
    IN  /\ books[k] = "none" \/ refunds[k].age > KeyLife
        /\ takes => Held + Size[k] <= Amount
        /\ accepted[k] < 2
        /\ accepted' = [accepted EXCEPT ![k] = IF takes THEN @ + 1 ELSE @]
        /\ books' = [books EXCEPT ![k] = status]
        /\ UNCHANGED <<pay, refunds, adrift, panel, history>>

ProviderRefunds(w, status, num) ==
    /\ Delivered(w)
    /\ CarriesOut(procs[w].key, status)
    /\ Answer(w, status, num)

\* Nobody waits for the answer.
ProviderRefundsLate(k, status) ==
    /\ \E n \in 0..AskTime : <<k, n>> \in adrift
    /\ CarriesOut(k, status)
    /\ UNCHANGED procs

\* A key it knows, or a read: what it has. A status that is not one of the
\* contract's counts as pending.
ProviderAnswers(w, num) ==
    /\ Delivered(w) \/ procs[w].pc = "read"
    /\ books[procs[w].key] # "none"
    /\ Answer(w, books[procs[w].key], num)
    /\ UNCHANGED <<pay, refunds, adrift, outside, history>>

Failed(w, pc) == [Doing(pc, procs[w].key) EXCEPT !.first = procs[w].first]

\* A definite error that stops the request, from the provider or on the way to it.
ProviderRefuses(w) ==
    /\ procs[w].pc \in {"post", "read"}
    /\ Goto(w, Failed(w, "refused"))
    /\ UNCHANGED <<pay, refunds, adrift, outside, history>>

\* An error that passes for one, though the request went through or still may: one
\* of the invoker, a panic, an answer that is not the contract's output.
ErrorAnswer(w) ==
    /\ procs[w].pc \in {"post", "answer"}
    /\ Goto(w, Failed(w, IF procs[w].first THEN "erred" ELSE "refused"))
    /\ Abandon(w)
    /\ UNCHANGED <<pay, refunds, outside, history>>

ProviderSettles(k, status) ==
    /\ books[k] = "pending"
    /\ books' = [books EXCEPT ![k] = status]
    /\ UNCHANGED <<pay, refunds, procs, adrift, accepted, panel, history>>

\* Somebody refunds in the provider's panel.
PanelRefund ==
    /\ panel < MaxPanel
    /\ Held + 1 <= Amount
    /\ panel' = panel + 1
    /\ UNCHANGED <<pay, refunds, procs, adrift, books, accepted, history>>

----------------------------------------------------------------------------
(* Answers *)

AfterAsk(w) == IF procs[w].first THEN Idle ELSE Doing("backoff", procs[w].key)

\* No answer in time: it may have gone through, so the refund stays pending.
Indeterminate(w) ==
    /\ Asking(w)
    /\ Goto(w, AfterAsk(w))
    /\ Abandon(w)
    /\ UNCHANGED <<pay, refunds, outside, history>>

Moved(r, status) ==
    IF CanTransitionRefund(r.status, status) THEN [r EXCEPT !.status = status] ELSE r

\* The refund is failed though its request went through, or may have.
Misjudge(w) ==
    misjudged' = IF procs[w].pc = "erred" /\ refunds' # refunds
                 THEN misjudged \cup {procs[w].key} ELSE misjudged

RefusalFailsAny(w) ==
    LET k == procs[w].key
    IN  /\ procs[w].pc \in {"refused", "erred"}
        /\ refunds' = [refunds EXCEPT ![k] = Moved(@, "failed")]
        /\ Misjudge(w)
        /\ Goto(w, AfterAsk(w))
        /\ UNCHANGED <<pay, adrift, outside, overlapped, byHand>>

\* Only the first request fails the refund on a definite error.
RecordRefusal(w) ==
    LET k == procs[w].key
    IN  /\ procs[w].pc \in {"refused", "erred"}
        /\ refunds' = IF procs[w].first
                      THEN [refunds EXCEPT ![k] = Moved(@, "failed")]
                      ELSE refunds
        /\ Misjudge(w)
        /\ Goto(w, AfterAsk(w))
        /\ UNCHANGED <<pay, adrift, outside, overlapped, byHand>>

\* The lifecycle is monotone: a late answer does not take back a final status,
\* but the number is recorded all the same.
updateRefund(w) ==
    LET k == procs[w].key
        r == Moved(refunds[k], procs[w].status)
    IN  /\ procs[w].pc = "answer"
        /\ refunds' = [refunds EXCEPT ![k] = [r EXCEPT !.num = @ \/ procs[w].num]]
        /\ Goto(w, IF r.status = "succeeded" THEN Doing("apply", k) ELSE AfterAsk(w))
        /\ UNCHANGED <<pay, adrift, outside, history>>

ReviewRegardless(w) ==
    LET k == procs[w].key
    IN  /\ procs[w].pc = "review"
        /\ refunds' = [refunds EXCEPT ![k].review =
                          @ \/ refunds[k].status = "pending"]
        /\ Goto(w, Idle)
        /\ UNCHANGED <<pay, adrift, outside, history>>

\* Past the window: review, unless an answer numbered the refund meanwhile.
SendToReview(w) ==
    LET k == procs[w].key
    IN  /\ procs[w].pc = "review"
        /\ refunds' = [refunds EXCEPT ![k].review =
                          @ \/ (refunds[k].status = "pending" /\ ~ refunds[k].num)]
        /\ Goto(w, Idle)
        /\ UNCHANGED <<pay, adrift, outside, history>>

\* Still pending: due again after a while.
BackOff(w) ==
    LET k == procs[w].key
    IN  /\ procs[w].pc = "backoff"
        /\ refunds' = [refunds EXCEPT ![k].due = @ /\ refunds[k].status # "pending"]
        /\ Goto(w, Idle)
        /\ UNCHANGED <<pay, adrift, outside, history>>

applyRefundsAgain(w) ==
    LET total == pay.amountRefunded + sumRefunds({"succeeded"})
    IN  /\ procs[w].pc = "apply"
        /\ pay' = [pay EXCEPT !.amountRefunded = total,
                              !.status = StatusAfterRefunds(Amount, total)]
        /\ Goto(w, Idle)
        /\ UNCHANGED <<refunds, adrift, outside, history>>

\* ApplySucceededRefunds never lowers what is recorded.
applyRefunds(w) ==
    LET done == sumRefunds({"succeeded"})
        total == Larger(pay.amountRefunded, done)
        applied == [pay EXCEPT !.amountRefunded = total,
                               !.status = StatusAfterRefunds(Amount, total)]
    IN  /\ procs[w].pc = "apply"
        /\ IF pay.status \in Captured /\ done <= Amount /\ applied # pay
           THEN pay' = applied
           ELSE UNCHANGED pay
        /\ Goto(w, Idle)
        /\ UNCHANGED <<refunds, adrift, outside, history>>

\* Settled by hand: a payout in cash, a manual refund, a reviewed one.
SettleRefund(w, k, status) ==
    /\ procs[w].pc = "idle"
    /\ CanTransitionRefund(refunds[k].status, status)
    /\ refunds' = [refunds EXCEPT ![k].status = status, ![k].review = FALSE]
    /\ Goto(w, IF status = "succeeded" THEN Doing("apply", k) ELSE Idle)
    /\ byHand' = IF refunds[k].dest = "original_method"
                 THEN byHand \cup {k} ELSE byHand
    /\ UNCHANGED <<pay, adrift, outside, overlapped, misjudged>>

----------------------------------------------------------------------------
(* The payment's refunded total *)

\* A reading of the payment is recorded. It is applied when it is a valid move,
\* or as the correction of a flag an earlier one raised; the flags, and the
\* dedupe that may ignore it, are in PaymentStatus and Charges. A total that went
\* up makes the pending refunds due: it does not tell which of them it was.
ObservePayment ==
    LET total == Returned
        o == Outcome(StatusAfterRefunds(Amount, total), "payment", Amount, total, FALSE)
        d == ObserveOutcome(pay, o)
    IN  /\ d.decision \in {"apply", "anomaly"}
        /\ d.reason \notin moneyMismatch
        /\ pay' = applyOutcome(pay, o)
        /\ refunds' = IF total > pay.amountRefunded
                      THEN [k \in Key |-> [refunds[k] EXCEPT !.due = @ \/ Waiting(k)]]
                      ELSE refunds
        /\ UNCHANGED <<procs, adrift, outside, history>>

----------------------------------------------------------------------------
(* Time *)

\* A unit is longer than any backoff.
Tick ==
    /\ procs' = [w \in Proc |-> IF procs[w].pc = "post"
                                THEN [procs[w] EXCEPT !.waited = IF @ <= AskTime THEN @ + 1 ELSE @]
                                ELSE procs[w]]
    /\ refunds' = [k \in Key |-> IF refunds[k].dest = "original_method"
                                 THEN [refunds[k] EXCEPT !.due = TRUE,
                                          !.age = IF @ < MaxAge THEN @ + 1 ELSE @]
                                 ELSE refunds[k]]
    /\ adrift' = {<<r[1], r[2] + 1>> : r \in {r \in adrift : r[2] < AskTime}}
    /\ UNCHANGED <<pay, outside, history>>

----------------------------------------------------------------------------
(* Specification *)

Init ==
    /\ pay = [status |-> "paid", amount |-> Amount, amountRefunded |-> 0,
              cancelledFrom |-> NoStatus]
    /\ refunds = [k \in Key |-> NoRefund]
    /\ procs = [w \in Proc |-> Idle]
    /\ books = [k \in Key |-> "none"]
    /\ accepted = [k \in Key |-> 0]
    /\ panel = 0
    /\ adrift = {}
    /\ overlapped = {}
    /\ misjudged = {}
    /\ byHand = {}

\* What a goroutine does until it is idle again.
Proceed(w) ==
    \/ recheckRefund(w)
    \/ Indeterminate(w)
    \/ RecordRefusal(w)
    \/ updateRefund(w)
    \/ SendToReview(w)
    \/ BackOff(w)
    \/ applyRefunds(w)

Request(w, k) ==
    \/ \E dest \in Dest[k] : CreateRefund(w, k, dest)
    \/ ReplayRefund(w, k)
    \/ \E status \in RefundStatus : SettleRefund(w, k, status)

Provider(w) ==
    \/ \E num \in {TRUE, ~ Unnumbered} :
          \/ ProviderAnswers(w, num)
          \/ \E status \in RefundStatus \ {"failed"} : ProviderRefunds(w, status, num)
    \/ ProviderRefuses(w)
    \/ ErrorAnswer(w)

Next ==
    \/ \E w \in Proc : Proceed(w) \/ Provider(w) \/ Crash(w)
    \/ \E w \in Proc, k \in Key : Request(w, k)
    \/ \E w \in Reconciler, k \in Key : recheckRefunds(w, k)
    \/ \E k \in Key, status \in {"succeeded", "failed"} : ProviderSettles(k, status)
    \/ \E k \in Key, status \in RefundStatus \ {"failed"} : ProviderRefundsLate(k, status)
    \/ PanelRefund
    \/ ObservePayment
    \/ Tick

Spec == Init /\ [][Next]_vars

\* Requests end, time passes, the job comes to every due refund of the
\* organizations it lists, and does not die at the same point every time.
FairSpec ==
    /\ Spec
    /\ \A w \in Reconciler :
          /\ WF_vars(Proceed(w))
          /\ SF_vars(recheckRefund(w))
          /\ SF_vars(SendToReview(w))
          /\ \A k \in Key : SF_vars(recheckRefunds(w, k))
    /\ WF_vars(Tick)

----------------------------------------------------------------------------
(* Properties *)

TypeOK ==
    /\ pay.status \in Captured /\ pay.amountRefunded \in 0..Amount
    /\ refunds \in [Key -> [status : RefundStatus \cup {"none"},
                            dest : {"none", "original_method", "cash"},
                            num : BOOLEAN, review : BOOLEAN, due : BOOLEAN,
                            age : 0..MaxAge]]
    /\ adrift \subseteq Key \X (0..AskTime)
    /\ books \in [Key -> RefundStatus \cup {"none"}]
    /\ accepted \in [Key -> 0..2]
    /\ panel \in 0..MaxPanel

\* The provider never accepts the same refund twice, however often it is asked
\* for, however late, and though it forgets keys (DefaultRefundRepostWindow).
NoDoubleRefund == \A k \in Key : accepted[k] <= 1

\* What the ledger holds for final is so at the provider: a refund it failed, and
\* whose amount is free again, did not go through, and one it holds for returned
\* was returned, whatever was refunded in the panel meanwhile. Excepted are
\* refunds settled by hand, and failures of a first request that a caller had
\* repeated while it ran, or that ended in an error after it was carried out.
FinalIsTrue ==
    \A k \in Key \ byHand :
        refunds[k].dest = "original_method" =>
            /\ refunds[k].status = "failed" /\ k \notin overlapped \cup misjudged
               => books[k] \notin {"pending", "succeeded"}
            /\ refunds[k].status = "succeeded" => books[k] = "succeeded"

\* What the refunds of the ledger have returned or may still return is never
\* more than the payment captured, with the same exceptions.
Committed(k) ==
    \/ refunds[k].status \in {"pending", "manual_required", "succeeded"}
    \/ books[k] = "succeeded" /\ k \notin byHand \cup overlapped \cup misjudged

ReturnedWithinCapture == Total({k \in Key : Committed(k)}) <= Amount

\* A refund the provider numbered is never sent to review, however old the row
\* was that the decision is made on.
NumberedIsNotReviewed ==
    [][\A k \in Key : ~ refunds[k].review /\ refunds'[k].review
                      => ~ refunds[k].num]_vars

\* No refund stays reserved in silence: it is settled, numbered by the provider
\* (and then read) or put before somebody.
InSilence(k) == Waiting(k) /\ ~ refunds[k].num

RefundsResolve ==
    \A k \in {k \in Key : "original_method" \in Dest[k]} : InSilence(k) ~> ~ InSilence(k)
=============================================================================
