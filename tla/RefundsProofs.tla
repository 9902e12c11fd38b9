--------------------------- MODULE RefundsProofs ----------------------------
(***************************************************************************)
(* Proofs about Refunds for any finite set of refunds of any sizes and     *)
(* destinations, any number of goroutines, and any windows that fit.       *)
(***************************************************************************)
EXTENDS Refunds, SumProofs

----------------------------------------------------------------------------
(* The inductive invariant *)

Row == [status : RefundStatus \cup {"none"},
        dest : {"none", "original_method", "cash"},
        num : BOOLEAN, review : BOOLEAN, due : BOOLEAN, age : 0..MaxAge]

Pc == {"idle", "post", "read", "answer", "refused", "erred", "recheck", "review",
       "backoff", "apply"}

Work == [pc : Pc, key : Key \cup {NoKey}, first : BOOLEAN, num : BOOLEAN,
         status : RefundStatus \cup {"none"}, waited : Nat]

PayType == [status : Captured, amount : {Amount}, amountRefunded : 0..Amount,
            cancelledFrom : {NoStatus}]

Types ==
    /\ pay \in PayType
    /\ refunds \in [Key -> Row]
    /\ procs \in [Proc -> Work]
    /\ adrift \subseteq Key \X (0..AskTime)
    /\ books \in [Key -> RefundStatus \cup {"none"}]
    /\ accepted \in [Key -> 0..2]
    /\ panel \in 0..MaxPanel

\* A refund that is asked about, or was answered, has a row that goes back to the
\* original method.
Routed(k) == refunds[k].status # "none" /\ refunds[k].dest = "original_method"

On(w, pcs, k) == procs[w].pc \in pcs /\ procs[w].key = k

Keyed ==
    \A w \in Proc :
        /\ procs[w].pc \notin {"idle", "apply"}
           => procs[w].key \in Key /\ Routed(procs[w].key)
        /\ procs[w].first => procs[w].pc \in {"post", "answer", "refused", "erred"}

\* A request on its way is no older than the window and the time it may take.
PostYoung ==
    \A w \in Proc :
        procs[w].pc = "post" /\ procs[w].waited <= AskTime
        => refunds[procs[w].key].age <= Window + procs[w].waited

\* So is one that nobody waits for any more.
AdriftYoung ==
    \A k \in Key, n \in 0..AskTime :
        <<k, n>> \in adrift => Routed(k) /\ refunds[k].age <= Window + n

Adrift(k) == \E n \in 0..AskTime : <<k, n>> \in adrift

\* The provider's books are about refunds of the ledger, and it accepted only
\* what is in them.
BooksKnown ==
    \A k \in Key :
        /\ books[k] # "none" => Routed(k)
        /\ books[k] = "none" => accepted[k] = 0
        /\ accepted[k] <= 1

\* An answer says what the books say, or said before a pending refund was settled.
AnswerTrue ==
    \A w \in Proc :
        procs[w].pc = "answer" =>
            LET b == books[procs[w].key]
            IN  /\ procs[w].status # "none"
                /\ \/ procs[w].status = b
                   \/ procs[w].status = "pending" /\ b \in {"succeeded", "failed"}

\* Nobody but the first request is sent, or about to be, unless it overlapped, and
\* no other is on its way.
FirstAlone ==
    \A v \in Proc, w \in Proc :
        /\ v # w
        /\ procs[v].first
        /\ procs[v].key \notin overlapped
        => ~ On(w, {"recheck", "post"}, procs[v].key)

FirstOnly ==
    \A v \in Proc :
        /\ procs[v].first
        /\ procs[v].pc # "erred"
        /\ procs[v].key \notin overlapped
        => ~ Adrift(procs[v].key)

\* So what a first request is refused for is unknown to the provider.
FirstUnknown ==
    \A v \in Proc :
        /\ procs[v].first
        /\ procs[v].pc \in {"post", "refused"}
        /\ procs[v].key \notin overlapped
        => books[procs[v].key] = "none"

\* A failed refund is failed at the provider, or unknown to it and nobody is about
\* to send it.
FailedTrue ==
    \A k \in Key \ (byHand \cup overlapped \cup misjudged) :
        /\ refunds[k].status = "failed"
        /\ refunds[k].dest = "original_method"
        => \/ books[k] = "failed"
           \/ /\ books[k] = "none"
              /\ ~ Adrift(k)
              /\ \A w \in Proc : ~ On(w, {"recheck", "post"}, k)

SucceededTrue ==
    \A k \in Key \ byHand :
        refunds[k].status = "succeeded" /\ refunds[k].dest = "original_method"
        => books[k] = "succeeded"

\* The amounts the ledger has promised or returned fit the payment.
Promised == {k \in Key : refunds[k].status \in {"pending", "manual_required", "succeeded"}}

Within == Total(Promised) <= Amount

IInv ==
    /\ Types
    /\ Keyed
    /\ PostYoung
    /\ AdriftYoung
    /\ BooksKnown
    /\ AnswerTrue
    /\ FirstAlone
    /\ FirstOnly
    /\ FirstUnknown
    /\ FailedTrue
    /\ SucceededTrue
    /\ Within

----------------------------------------------------------------------------
(* Rows and goroutines have their types *)

\* Doing nothing, and starting something.
LEMMA IdleIsWork ==
    /\ Idle \in Work
    /\ Idle.pc = "idle"
    /\ Idle.first = FALSE
  BY DEF Idle, Work, Pc

LEMMA DoingIsWork ==
    ASSUME NEW pc \in Pc, NEW k \in Key \cup {NoKey}
    PROVE  /\ Doing(pc, k) \in Work
           /\ Doing(pc, k).pc = pc
           /\ Doing(pc, k).key = k
           /\ Doing(pc, k).first = FALSE
           /\ Doing(pc, k).waited = 0
  BY DEF Doing, Idle, Work

FirstPost(k) == [Doing("post", k) EXCEPT !.first = TRUE]

Recheck(k, num) == [Doing("recheck", k) EXCEPT !.num = num]

LEMMA StartedIsWork ==
    ASSUME NEW k \in Key, NEW num \in BOOLEAN
    PROVE  /\ FirstPost(k) \in Work
           /\ FirstPost(k).pc = "post"
           /\ FirstPost(k).key = k
           /\ FirstPost(k).waited = 0
           /\ Recheck(k, num) \in Work
           /\ Recheck(k, num).pc = "recheck"
           /\ Recheck(k, num).key = k
           /\ Recheck(k, num).first = FALSE
  BY DEF FirstPost, Recheck, Doing, Idle, Work, Pc

\* An answer, and a failure, are about the same key.
Answered(p, status, num) ==
    [p EXCEPT !.pc = "answer", !.status = status, !.num = num, !.waited = 0]

LEMMA AnsweredIsWork ==
    ASSUME NEW p \in Work, NEW status \in RefundStatus \cup {"none"},
           NEW num \in BOOLEAN
    PROVE  /\ Answered(p, status, num) \in Work
           /\ Answered(p, status, num).pc = "answer"
           /\ Answered(p, status, num).key = p.key
           /\ Answered(p, status, num).first = p.first
           /\ Answered(p, status, num).status = status
  BY DEF Answered, Work, Pc

LEMMA FailedIsWork ==
    ASSUME NEW w, procs[w] \in Work, NEW pc \in {"refused", "erred"}
    PROVE  /\ Failed(w, pc) \in Work
           /\ Failed(w, pc).pc = pc
           /\ Failed(w, pc).key = procs[w].key
           /\ Failed(w, pc).first = procs[w].first
  BY DEF Failed, Doing, Idle, Work, Pc

\* What comes after a request.
LEMMA AfterAskIsWork ==
    ASSUME NEW w, procs[w] \in Work
    PROVE  /\ AfterAsk(w) \in Work
           /\ AfterAsk(w).pc \in {"idle", "backoff"}
           /\ AfterAsk(w).pc = "backoff" => AfterAsk(w).key = procs[w].key
           /\ AfterAsk(w).first = FALSE
<1>1. procs[w].key \in Key \cup {NoKey} /\ "backoff" \in Pc
  BY DEF Work, Pc
<1>2. CASE procs[w].first
  BY <1>2, IdleIsWork DEF AfterAsk
<1>3. CASE ~ procs[w].first
  BY <1>1, <1>3, DoingIsWork DEF AfterAsk
<1> QED
  BY <1>2, <1>3

\* A new row.
NewRow(dest) == [NoRefund EXCEPT !.status = "pending", !.dest = dest, !.due = TRUE]

LEMMA NewIsRow ==
    ASSUME NEW dest \in {"original_method", "cash"}
    PROVE  /\ NoRefund \in Row
           /\ NoRefund.status = "none"
           /\ NewRow(dest) \in Row
           /\ NewRow(dest).status = "pending"
           /\ NewRow(dest).dest = dest
           /\ NewRow(dest).age = 0
           /\ ~ NewRow(dest).review
<1>1. 0 \in 0..MaxAge
  BY RefundsConstants DEF MaxAge
<1> QED
  BY <1>1 DEF NewRow, NoRefund, Row, RefundStatus

\* A row whose status moves: along the table, from a status that is not final.
LEMMA MovedIsRow ==
    ASSUME NEW r \in Row, NEW status \in RefundStatus \cup {"none"}
    PROVE  /\ Moved(r, status) \in Row
           /\ Moved(r, status).dest = r.dest
           /\ Moved(r, status).age = r.age
           /\ Moved(r, status).review = r.review
           /\ Moved(r, status).num = r.num
           /\ Moved(r, status).status # r.status
              => /\ Moved(r, status).status = status
                 /\ status \in {"succeeded", "failed", "manual_required"}
                 /\ r.status \in {"pending", "manual_required"}
<1>1. CASE ~ CanTransitionRefund(r.status, status)
  BY <1>1 DEF Moved
<1>2. CASE CanTransitionRefund(r.status, status)
  <2>1. /\ status \in {"succeeded", "failed", "manual_required"}
        /\ r.status \in {"pending", "manual_required"}
    BY <1>2 DEF CanTransitionRefund, refundTransitions, Row, RefundStatus
  <2>2. Moved(r, status) = [r EXCEPT !.status = status]
    BY <1>2 DEF Moved
  <2> QED
    BY <2>1, <2>2 DEF Row
<1> QED
  BY <1>1, <1>2

\* Columns that are written besides.
Numbered(r, num) == [r EXCEPT !.num = @ \/ num]

Flagged(r, review) == [r EXCEPT !.review = @ \/ review]

Delayed(r, due) == [r EXCEPT !.due = @ /\ due]

Settled(r, status) == [r EXCEPT !.status = status, !.review = FALSE]

\* Writes that leave a row where it is in its lifecycle.
Kept(r, s) == s.status = r.status /\ s.dest = r.dest /\ s.age = r.age

LEMMA ColumnWrites ==
    ASSUME NEW r \in Row, NEW b \in BOOLEAN
    PROVE  /\ Numbered(r, b) \in Row /\ Kept(r, Numbered(r, b))
           /\ Numbered(r, b).review = r.review
           /\ Flagged(r, b) \in Row /\ Kept(r, Flagged(r, b))
           /\ Flagged(r, b).review = (r.review \/ b)
           /\ Delayed(r, b) \in Row /\ Kept(r, Delayed(r, b))
           /\ Delayed(r, b).review = r.review
<1>1. /\ Numbered(r, b) \in Row /\ Kept(r, Numbered(r, b))
      /\ Numbered(r, b).review = r.review
  BY DEF Numbered, Kept, Row
<1>2. /\ Flagged(r, b) \in Row /\ Kept(r, Flagged(r, b))
      /\ Flagged(r, b).review = (r.review \/ b)
  BY DEF Flagged, Kept, Row
<1>3. /\ Delayed(r, b) \in Row /\ Kept(r, Delayed(r, b))
      /\ Delayed(r, b).review = r.review
  BY DEF Delayed, Kept, Row
<1> QED
  BY <1>1, <1>2, <1>3

\* A row the payment's total made due, and one a unit of time older.
Due(r, due) == [r EXCEPT !.due = @ \/ due]

Older(r) == [r EXCEPT !.due = TRUE, !.age = IF @ < MaxAge THEN @ + 1 ELSE @]

LEMMA OlderIsRow ==
    ASSUME NEW r \in Row, NEW b \in BOOLEAN
    PROVE  /\ Due(r, b) \in Row /\ Kept(r, Due(r, b))
           /\ Due(r, b).review = r.review
           /\ Older(r) \in Row
           /\ Older(r).status = r.status
           /\ Older(r).dest = r.dest
           /\ Older(r).review = r.review
           /\ Older(r).age <= r.age + 1
<1>1. /\ Due(r, b) \in Row /\ Kept(r, Due(r, b))
      /\ Due(r, b).review = r.review
  BY DEF Due, Kept, Row
<1>2. r.age \in 0..MaxAge /\ MaxAge \in Nat
  BY RefundsConstants DEF Row, MaxAge
<1>3. PICK a \in 0..MaxAge : a <= r.age + 1 /\ a = IF r.age < MaxAge THEN r.age + 1 ELSE r.age
  BY <1>2
<1>4. Older(r) = [r EXCEPT !.due = TRUE, !.age = a]
  BY <1>3 DEF Older
<1> QED
  BY <1>1, <1>3, <1>4 DEF Row

----------------------------------------------------------------------------
(* What the steps do, as the invariant sees it *)

\* Goroutine w moves on, alone.
Only(w) == \A v \in Proc \ {w} : procs'[v] = procs[v]

Same(w) == procs'[w].key = procs[w].key /\ procs'[w].first = procs[w].first

\* No row moves in its lifecycle and the provider takes no part.
Quiet ==
    /\ \A k \in Key : Kept(refunds[k], refunds'[k])
    /\ UNCHANGED <<books, accepted, misjudged, byHand>>

\* A request of w may go adrift.
Loosed(w) ==
    \A k \in Key, n \in 0..AskTime :
        <<k, n>> \in adrift' => \/ <<k, n>> \in adrift
                                \/ On(w, {"post"}, k) /\ procs[w].waited = n

\* w stops asking, reads, or turns to the row.
Calm(w) ==
    /\ Quiet
    /\ Loosed(w)
    /\ overlapped' = overlapped
    /\ Only(w)
    /\ ~ procs'[w].first
    /\ procs'[w].pc \in {"idle", "read", "review", "backoff"}
    /\ procs'[w].pc # "idle" => /\ procs[w].pc \notin {"idle", "apply"}
                                /\ procs'[w].key = procs[w].key

\* w sends a request again, inside the window.
Reposted(w) ==
    /\ Quiet
    /\ adrift' = adrift
    /\ overlapped' = overlapped
    /\ Only(w)
    /\ procs[w].pc = "recheck"
    /\ procs'[w].pc = "post"
    /\ procs'[w].key = procs[w].key
    /\ ~ procs'[w].first
    /\ refunds[procs[w].key].age <= Window

\* w is told what the books say, or refused.
Told(w) ==
    /\ Quiet
    /\ adrift' = adrift
    /\ overlapped' = overlapped
    /\ Only(w)
    /\ Same(w)
    /\ procs[w].pc \in {"post", "read"}
    /\ procs'[w].pc = "answer"
    /\ procs'[w].status = books[procs[w].key]
    /\ books[procs[w].key] # "none"

Denied(w) ==
    /\ Quiet
    /\ Loosed(w)
    /\ overlapped' = overlapped
    /\ Only(w)
    /\ Same(w)
    /\ procs[w].pc \in {"post", "read", "answer"}
    /\ procs'[w].pc \in {"refused", "erred"}
    /\ procs[w].first /\ procs'[w].pc = "refused"
       => procs[w].pc \in {"post", "read"} /\ adrift' = adrift

\* w notices that k is still pending.
Noticed(w, k) ==
    /\ Quiet
    /\ adrift' = adrift
    /\ Only(w)
    /\ refunds[k].status = "pending"
    /\ refunds[k].dest = "original_method"
    /\ procs'[w].pc = "recheck"
    /\ procs'[w].key = k
    /\ ~ procs'[w].first
    /\ overlapped \subseteq overlapped'
    /\ \A v \in Proc : Asking(v) /\ procs[v].first /\ procs[v].key = k
                       => k \in overlapped'

\* Nothing the invariant sees.
Still == Quiet /\ UNCHANGED <<procs, adrift, overlapped>>

\* One row moves.
Row1(k) == \A j \in Key \ {k} : refunds'[j] = refunds[j]

Same1(k) == refunds'[k].dest = refunds[k].dest /\ refunds'[k].age = refunds[k].age

\* Writing one row, and moving one goroutine.
Write(k, r) == refunds' = [refunds EXCEPT ![k] = r]

LEMMA OneRow ==
    ASSUME refunds \in [Key -> Row], NEW k \in Key, NEW r \in Row, Write(k, r)
    PROVE  /\ refunds' \in [Key -> Row]
           /\ refunds'[k] = r
           /\ Row1(k)
           /\ Kept(refunds[k], r) => \A j \in Key : Kept(refunds[j], refunds'[j])
  BY DEF Row1, Kept, Write

LEMMA OneProc ==
    ASSUME procs \in [Proc -> Work], NEW w \in Proc, NEW p \in Work, Goto(w, p)
    PROVE  /\ procs' \in [Proc -> Work]
           /\ procs'[w] = p
           /\ Only(w)
  BY DEF Goto, Only

\* Rows that are left alone are kept.
LEMMA RowsAlone ==
    ASSUME refunds' = refunds
    PROVE  \A k \in Key : Kept(refunds[k], refunds'[k])
  BY DEF Kept

\* What a goroutine that stops waiting leaves behind.
LEMMA AbandonShape ==
    ASSUME Types, Keyed, NEW w \in Proc, Abandon(w)
    PROVE  adrift' \subseteq Key \X (0..AskTime) /\ Loosed(w)
<1>1. CASE Delivered(w)
  <2>1. /\ procs[w].pc = "post" /\ procs[w].key \in Key
        /\ procs[w].waited \in 0..AskTime
    BY <1>1, RefundsConstants DEF Delivered, Keyed, Types, Work
  <2>2. adrift' = adrift \cup {<<procs[w].key, procs[w].waited>>}
    BY <1>1 DEF Abandon
  <2> QED
    BY <2>1, <2>2 DEF Types, Loosed, On
<1>2. CASE ~ Delivered(w)
  BY <1>2 DEF Abandon, Types, Loosed
<1> QED
  BY <1>1, <1>2

\* The goroutines' own steps.
LEMMA RecheckShape ==
    ASSUME Types, Keyed, NEW w \in Proc, recheckRefund(w)
    PROVE  Types' /\ (Calm(w) \/ Reposted(w))
<1> DEFINE k == procs[w].key
           pc == IF procs[w].num THEN "read"
                 ELSE IF repostExpired(k, procs[w].num) THEN "review" ELSE "post"
<1>1. k \in Key /\ Routed(k) /\ procs[w].pc = "recheck"
  BY DEF Keyed, recheckRefund
<1>2. pc \in Pc /\ k \in Key \cup {NoKey}
  BY <1>1 DEF Pc
<1>3. Goto(w, Doing(pc, k)) /\ UNCHANGED <<pay, refunds, adrift, outside, history>>
  BY DEF recheckRefund
<1>4. pc = "post" => refunds[k].age <= Window
  <2>1. pc = "post" => ~ repostExpired(k, procs[w].num) /\ ~ procs[w].num
    OBVIOUS
  <2>2. refunds[k].age \in Int /\ Window \in Int
    BY <1>1, RefundsConstants DEF Types, Row
  <2> QED
    BY <2>1, <2>2 DEF repostExpired
<1>5. pc \in {"read", "review", "post"}
  OBVIOUS
<1> HIDE DEF pc
<1>6. Doing(pc, k) \in Work
  BY <1>2, DoingIsWork
<1>7. procs' \in [Proc -> Work] /\ procs'[w] = Doing(pc, k) /\ Only(w)
  BY <1>3, <1>6, OneProc DEF Types
<1>8. procs'[w].pc = pc /\ procs'[w].key = k /\ procs'[w].first = FALSE
  <2>1. /\ Doing(pc, k).pc = pc
        /\ Doing(pc, k).key = k
        /\ Doing(pc, k).first = FALSE
    BY <1>2, DoingIsWork
  <2> QED
    BY <1>7, <2>1, Zenon
<1>9. Quiet /\ overlapped' = overlapped /\ adrift' = adrift /\ Loosed(w)
  BY <1>3, RowsAlone DEF Quiet, Loosed, outside, history
<1>10. Types'
  BY <1>3, <1>7 DEF Types, outside, history
<1>11. CASE pc = "post"
  BY <1>1, <1>4, <1>7, <1>8, <1>9, <1>10, <1>11 DEF Reposted
<1>12. CASE pc # "post"
  BY <1>1, <1>5, <1>7, <1>8, <1>9, <1>10, <1>12 DEF Calm
<1> QED
  BY <1>11, <1>12

LEMMA IndeterminateShape ==
    ASSUME Types, Keyed, NEW w \in Proc, Indeterminate(w)
    PROVE  Types' /\ Calm(w)
<1>1. procs[w].pc \notin {"idle", "apply"}
  BY DEF Indeterminate, Asking
<1>2. Goto(w, AfterAsk(w)) /\ Abandon(w) /\ UNCHANGED <<pay, refunds, outside, history>>
  BY DEF Indeterminate
<1>3. procs[w] \in Work
  BY DEF Types
<1>4. /\ AfterAsk(w) \in Work
      /\ AfterAsk(w).pc \in {"idle", "backoff"}
      /\ AfterAsk(w).pc = "backoff" => AfterAsk(w).key = procs[w].key
      /\ AfterAsk(w).first = FALSE
  BY <1>3, AfterAskIsWork
<1>5. procs' \in [Proc -> Work] /\ procs'[w] = AfterAsk(w) /\ Only(w)
  BY <1>2, <1>4, OneProc DEF Types
<1>6. Quiet /\ overlapped' = overlapped
  BY <1>2, RowsAlone DEF Quiet, outside, history
<1>7. adrift' \subseteq Key \X (0..AskTime) /\ Loosed(w)
  BY <1>2, AbandonShape
<1>8. Types'
  BY <1>2, <1>5, <1>7 DEF Types, outside, history
<1> QED
  BY <1>1, <1>4, <1>5, <1>6, <1>7, <1>8 DEF Calm

\* Becoming idle.
LEMMA IdleShape ==
    ASSUME Types, NEW w \in Proc, Goto(w, Idle), pay' \in PayType,
           refunds' \in [Key -> Row], \A k \in Key : Kept(refunds[k], refunds'[k]),
           adrift' \subseteq Key \X (0..AskTime), Loosed(w),
           UNCHANGED <<outside, history>>
    PROVE  Types' /\ Calm(w)
<1>1. procs' \in [Proc -> Work] /\ procs'[w] = Idle /\ Only(w)
  BY IdleIsWork, OneProc DEF Types
<1>2. Quiet /\ overlapped' = overlapped
  BY DEF Quiet, outside, history
<1>3. Types'
  BY <1>1 DEF Types, outside, history
<1> QED
  BY <1>1, <1>2, <1>3, IdleIsWork DEF Calm

LEMMA Unloosed ==
    ASSUME Types, NEW w, adrift' = adrift
    PROVE  adrift' \subseteq Key \X (0..AskTime) /\ Loosed(w)
  BY DEF Types, Loosed

LEMMA CrashShape ==
    ASSUME Types, Keyed, NEW w \in Proc, Crash(w)
    PROVE  Types' /\ Calm(w)
<1>1. Goto(w, Idle) /\ Abandon(w) /\ UNCHANGED <<pay, refunds, outside, history>>
  BY DEF Crash
<1>2. pay' \in PayType /\ refunds' \in [Key -> Row]
  BY <1>1 DEF Types
<1> QED
  BY <1>1, <1>2, RowsAlone, AbandonShape, IdleShape

LEMMA ReviewShape ==
    ASSUME Types, Keyed, NEW w \in Proc, SendToReview(w)
    PROVE  Types' /\ Calm(w)
<1> DEFINE k == procs[w].key
           b == refunds[k].status = "pending" /\ ~ refunds[k].num
<1>1. k \in Key /\ Goto(w, Idle) /\ UNCHANGED <<pay, adrift, outside, history>>
  BY DEF Keyed, SendToReview
<1>2. refunds[k] \in Row /\ pay' \in PayType
  BY <1>1 DEF Types
<1>3. b \in BOOLEAN
  BY <1>2 DEF Row
<1>4. Write(k, Flagged(refunds[k], b))
  BY <1>1 DEF SendToReview, Flagged, Types, Write
<1> HIDE DEF b
<1>5. Flagged(refunds[k], b) \in Row /\ Kept(refunds[k], Flagged(refunds[k], b))
  BY <1>2, <1>3, ColumnWrites DEF RefundStatus
<1>6. refunds' \in [Key -> Row] /\ \A j \in Key : Kept(refunds[j], refunds'[j])
  BY <1>1, <1>4, <1>5, OneRow DEF Types
<1> QED
  BY <1>1, <1>2, <1>6, Unloosed, IdleShape

LEMMA BackOffShape ==
    ASSUME Types, Keyed, NEW w \in Proc, BackOff(w)
    PROVE  Types' /\ Calm(w)
<1> DEFINE k == procs[w].key
           b == refunds[k].status # "pending"
<1>1. k \in Key /\ Goto(w, Idle) /\ UNCHANGED <<pay, adrift, outside, history>>
  BY DEF Keyed, BackOff
<1>2. refunds[k] \in Row /\ pay' \in PayType
  BY <1>1 DEF Types
<1>3. b \in BOOLEAN
  OBVIOUS
<1>4. Write(k, Delayed(refunds[k], b))
  BY <1>1 DEF BackOff, Delayed, Types, Write
<1> HIDE DEF b
<1>5. Delayed(refunds[k], b) \in Row /\ Kept(refunds[k], Delayed(refunds[k], b))
  BY <1>2, <1>3, ColumnWrites DEF RefundStatus
<1>6. refunds' \in [Key -> Row] /\ \A j \in Key : Kept(refunds[j], refunds'[j])
  BY <1>1, <1>4, <1>5, OneRow DEF Types
<1> QED
  BY <1>1, <1>2, <1>6, Unloosed, IdleShape

\* Amounts are naturals, and add up.
LEMMA SizesNat ==
    IsFiniteSet(Key) /\ Size \in [Key -> Nat]
  BY RefundsConstants

LEMMA TotalIsSum ==
    ASSUME NEW S
    PROVE  Total(S) = SumOver(Size, S)
  BY Zenon DEF Total, SumOver

LEMMA TotalIsNat ==
    ASSUME NEW S \in SUBSET Key
    PROVE  Total(S) \in Nat
  BY SizesNat, TotalIsSum, SumIsNat

LEMMA SumRefundsIsNat ==
    ASSUME NEW statuses
    PROVE  sumRefunds(statuses) \in Nat
<1> DEFINE S == {k \in Key : refunds[k].status \in statuses}
<1>1. S \in SUBSET Key
  OBVIOUS
<1> HIDE DEF S
<1>2. Total(S) \in Nat
  BY <1>1, TotalIsNat
<1> QED
  BY <1>2 DEF sumRefunds, S

LEMMA ReturnedIsNat ==
    ASSUME panel \in Nat
    PROVE  Returned \in Nat
<1> DEFINE S == {k \in Key : books[k] = "succeeded"}
<1>1. S \in SUBSET Key
  OBVIOUS
<1> HIDE DEF S
<1>2. Total(S) \in Nat
  BY <1>1, TotalIsNat
<1> QED
  BY <1>2 DEF Returned, S

\* The status that follows from a refunded total is one of a captured payment.
LEMMA StatusIsCaptured ==
    ASSUME NEW total \in Nat
    PROVE  /\ StatusAfterRefunds(Amount, total) \in Captured
           /\ StatusAfterRefunds(Amount, total) # "refunded" => total <= Amount
  BY RefundsConstants DEF StatusAfterRefunds, Captured

LEMMA ApplyShape ==
    ASSUME Types, NEW w \in Proc, applyRefunds(w)
    PROVE  Types' /\ Calm(w)
<1> DEFINE done == sumRefunds({"succeeded"})
           total == Larger(pay.amountRefunded, done)
           st == StatusAfterRefunds(Amount, total)
<1>1. Goto(w, Idle) /\ UNCHANGED <<refunds, adrift, outside, history>>
  BY DEF applyRefunds
<1>2. refunds' \in [Key -> Row]
  BY <1>1 DEF Types
<1>3. done \in Nat
  BY SumRefundsIsNat
<1> HIDE DEF done
<1>4. pay \in PayType /\ pay.amountRefunded \in 0..Amount
  BY DEF Types, PayType
<1>5. total \in Nat /\ (done <= Amount => total \in 0..Amount)
  BY <1>3, <1>4, RefundsConstants DEF Larger
<1>6. /\ (pay' = [pay EXCEPT !.amountRefunded = total, !.status = st] /\ done <= Amount)
         \/ pay' = pay
  BY DEF applyRefunds, done
<1> HIDE DEF total
<1>7. st \in Captured
  BY <1>5, StatusIsCaptured
<1> HIDE DEF st
<1>8. pay' \in PayType
  BY <1>4, <1>5, <1>6, <1>7 DEF PayType
<1> QED
  <2>1. adrift' \subseteq Key \X (0..AskTime) /\ Loosed(w)
    BY <1>1, Unloosed
  <2>2. \A k \in Key : Kept(refunds[k], refunds'[k])
    BY <1>1, RowsAlone
  <2> QED
    BY <1>1, <1>2, <1>8, <2>1, <2>2, IdleShape

\* The provider's answers.
LEMMA AnswersShape ==
    ASSUME Types, Keyed, NEW w \in Proc, NEW num \in BOOLEAN, ProviderAnswers(w, num)
    PROVE  Types' /\ Told(w)
<1> DEFINE k == procs[w].key
<1>1. /\ procs[w].pc \in {"post", "read"}
      /\ books[k] # "none"
      /\ Goto(w, Answered(procs[w], books[k], num))
      /\ UNCHANGED <<pay, refunds, adrift, outside, history>>
  <2>1. procs[w].pc \in {"post", "read"} /\ Answer(w, books[k], num)
    BY DEF ProviderAnswers, Delivered
  <2>2. books[k] # "none" /\ UNCHANGED <<pay, refunds, adrift, outside, history>>
    BY Zenon DEF ProviderAnswers
  <2> QED
    BY <2>1, <2>2, Zenon DEF Answer, Answered
<1>2. k \in Key /\ procs[w] \in Work
  BY <1>1 DEF Keyed, Types
<1>3. books[k] \in RefundStatus \cup {"none"}
  BY <1>2 DEF Types
<1> DEFINE p == Answered(procs[w], books[k], num)
<1>4. /\ p \in Work /\ p.pc = "answer" /\ p.key = k /\ p.first = procs[w].first
      /\ p.status = books[k]
  <2>1. PICK q \in Work : q = procs[w]
    BY <1>2
  <2>2. PICK b \in RefundStatus \cup {"none"} : b = books[k]
    BY <1>3
  <2>3. /\ Answered(q, b, num) \in Work
        /\ Answered(q, b, num).pc = "answer"
        /\ Answered(q, b, num).key = q.key
        /\ Answered(q, b, num).first = q.first
        /\ Answered(q, b, num).status = b
    BY AnsweredIsWork
  <2> QED
    BY <2>1, <2>2, <2>3, Zenon
<1> HIDE DEF p
<1>5. procs' \in [Proc -> Work] /\ procs'[w] = p /\ Only(w)
  BY <1>1, <1>4, OneProc DEF Types, p
<1>6. Quiet /\ overlapped' = overlapped
  BY <1>1, RowsAlone DEF Quiet, outside, history
<1>7. Types'
  BY <1>1, <1>5 DEF Types, outside, history
<1> QED
  BY <1>1, <1>4, <1>5, <1>6, <1>7 DEF Told, Same

\* A definite error, about a request that was stopped or not.
LEMMA FailedShape ==
    ASSUME Types, Keyed, NEW w \in Proc, NEW pc \in {"refused", "erred"},
           procs[w].pc \in {"post", "read", "answer"},
           Goto(w, Failed(w, pc)), Abandon(w) \/ adrift' = adrift,
           procs[w].first /\ pc = "refused"
           => procs[w].pc \in {"post", "read"} /\ adrift' = adrift,
           UNCHANGED <<pay, refunds, outside, history>>
    PROVE  Types' /\ Denied(w)
<1>1. PICK p \in Work : p = Failed(w, pc)
  BY FailedIsWork DEF Types
<1>2. p.pc = pc /\ p.key = procs[w].key /\ p.first = procs[w].first
  <2>1. procs[w] \in Work
    BY DEF Types
  <2> QED
    BY <1>1, <2>1, FailedIsWork
<1>3. procs' \in [Proc -> Work] /\ procs'[w] = p /\ Only(w)
  BY <1>1, OneProc DEF Types
<1>4. Quiet /\ overlapped' = overlapped
  BY RowsAlone DEF Quiet, outside, history
<1>5. adrift' \subseteq Key \X (0..AskTime) /\ Loosed(w)
  BY AbandonShape, Unloosed
<1>6. Types'
  BY <1>3, <1>5 DEF Types, outside, history
<1> QED
  BY <1>2, <1>3, <1>4, <1>5, <1>6 DEF Denied, Same

LEMMA RefusesShape ==
    ASSUME Types, Keyed, NEW w \in Proc, ProviderRefuses(w) \/ ErrorAnswer(w)
    PROVE  Types' /\ Denied(w)
<1>1. CASE ProviderRefuses(w)
  BY <1>1, FailedShape DEF ProviderRefuses
<1>2. CASE ErrorAnswer(w) /\ procs[w].first
  <2>1. /\ procs[w].pc \in {"post", "answer"} /\ Goto(w, Failed(w, "erred"))
        /\ Abandon(w) /\ UNCHANGED <<pay, refunds, outside, history>>
    BY <1>2 DEF ErrorAnswer
  <2> QED
    BY <2>1, FailedShape
<1>3. CASE ErrorAnswer(w) /\ ~ procs[w].first
  <2>1. /\ procs[w].pc \in {"post", "answer"} /\ Goto(w, Failed(w, "refused"))
        /\ Abandon(w) /\ UNCHANGED <<pay, refunds, outside, history>>
    BY <1>3 DEF ErrorAnswer
  <2> QED
    BY <1>3, <2>1, FailedShape
<1> QED
  BY <1>1, <1>2, <1>3

\* A row is read to be asked about.
LEMMA SnapshotShape ==
    ASSUME Types, NEW w \in Proc, NEW k \in Key, Waiting(k), Snapshot(w, k),
           UNCHANGED <<pay, refunds, adrift, outside, misjudged, byHand>>
    PROVE  Types' /\ Noticed(w, k)
<1> DEFINE num == refunds[k].num
           p == Recheck(k, num)
<1>1. num \in BOOLEAN
  BY DEF Types, Row
<1>2. Goto(w, p)
  BY DEF Snapshot, Recheck
<1> HIDE DEF num
<1>3. p \in Work /\ p.pc = "recheck" /\ p.key = k /\ p.first = FALSE
  BY <1>1, StartedIsWork
<1> HIDE DEF p
<1>4. procs' \in [Proc -> Work] /\ procs'[w] = p /\ Only(w)
  BY <1>2, <1>3, OneProc DEF Types
<1>5. Quiet
  BY RowsAlone DEF Quiet, outside
<1>6. /\ overlapped \subseteq overlapped'
      /\ \A v \in Proc : Asking(v) /\ procs[v].first /\ procs[v].key = k
                         => k \in overlapped'
  BY DEF Snapshot
<1>7. Types'
  BY <1>4 DEF Types, outside
<1> QED
  BY <1>3, <1>4, <1>5, <1>6, <1>7 DEF Noticed, Waiting

LEMMA PanelShape ==
    ASSUME Types, PanelRefund
    PROVE  Types' /\ Still
<1>1. /\ panel' \in 0..MaxPanel
      /\ UNCHANGED <<pay, refunds, procs, adrift, books, accepted, history>>
  BY RefundsConstants DEF PanelRefund, Types
<1>2. Types'
  BY <1>1 DEF Types, history
<1> QED
  BY <1>1, <1>2, RowsAlone DEF Still, Quiet, history

\* An update of the payment keeps its type.
LEMMA OutcomeKeepsPay ==
    ASSUME NEW p \in PayType, NEW total \in Nat
    PROVE  applyOutcome(p, Outcome(StatusAfterRefunds(Amount, total), "payment",
                                   Amount, total, FALSE)) \in PayType
<1> DEFINE st == StatusAfterRefunds(Amount, total)
           o == Outcome(st, "payment", Amount, total, FALSE)
<1>1. st \in Captured /\ (st # "refunded" => total <= Amount)
  BY StatusIsCaptured
<1> HIDE DEF st
<1>2. o.status = st /\ o.amountRefunded = total
  BY DEF Outcome
<1> HIDE DEF o
<1> DEFINE a == IF st = "refunded" THEN p.amount ELSE total
<1>3. a \in 0..Amount
  BY <1>1, RefundsConstants DEF PayType
<1>4. total # NoTotal /\ st # "cancelling"
  BY <1>1 DEF NoTotal, Captured
<1>5. applyOutcome(p, o) = [p EXCEPT !.status = st, !.cancelledFrom = NoStatus,
                                     !.amountRefunded = a]
  BY <1>2, <1>4 DEF applyOutcome
<1> HIDE DEF a
<1>6. applyOutcome(p, o) \in PayType
  BY <1>1, <1>3, <1>5 DEF PayType
<1> QED
  BY <1>6 DEF o, st

LEMMA ObserveShape ==
    ASSUME Types, ObservePayment
    PROVE  Types' /\ Still
<1>1. panel \in Nat
  BY RefundsConstants DEF Types
<1>2. Returned \in Nat
  BY <1>1, ReturnedIsNat
<1> DEFINE o == Outcome(StatusAfterRefunds(Amount, Returned), "payment", Amount, Returned, FALSE)
<1>3. /\ pay' = applyOutcome(pay, o)
      /\ \/ refunds' = [k \in Key |-> Due(refunds[k], Waiting(k))]
         \/ refunds' = refunds
      /\ UNCHANGED <<procs, adrift, outside, history>>
  BY DEF ObservePayment, Due
<1>4. pay' \in PayType
  BY <1>2, <1>3, OutcomeKeepsPay DEF Types
<1>5. refunds' \in [Key -> Row] /\ \A k \in Key : Kept(refunds[k], refunds'[k])
  <2>1. CASE refunds' = refunds
    BY <2>1, RowsAlone DEF Types
  <2>2. CASE refunds' = [k \in Key |-> Due(refunds[k], Waiting(k))]
    <3>1. ASSUME NEW k \in Key
          PROVE  Due(refunds[k], Waiting(k)) \in Row
                 /\ Kept(refunds[k], Due(refunds[k], Waiting(k)))
      <4>1. refunds[k] \in Row
        BY DEF Types
      <4>2. Waiting(k) \in BOOLEAN
        BY <4>1 DEF Waiting, Row
      <4> QED
        BY <4>1, <4>2, OlderIsRow
    <3> QED
      BY <2>2, <3>1
  <2> QED
    BY <1>3, <2>1, <2>2
<1>6. Types'
  BY <1>3, <1>4, <1>5 DEF Types, outside, history
<1> QED
  BY <1>3, <1>5, <1>6 DEF Still, Quiet, outside, history

----------------------------------------------------------------------------
(* Steps that move a refund *)

\* A new refund, through the provider or not.
Created(w, k) ==
    /\ CheckRefund(k)
    /\ Row1(k)
    /\ refunds'[k].status = "pending"
    /\ refunds'[k].age = 0
    /\ \/ UNCHANGED procs
       \/ /\ Only(w)
          /\ refunds'[k].dest = "original_method"
          /\ procs'[w].pc = "post"
          /\ procs'[w].key = k
    /\ UNCHANGED <<adrift, books, accepted, overlapped, misjudged, byHand>>

\* The ledger decides on refund k, by an answer, a refusal or a hand.
Decided(w, k) ==
    /\ Row1(k)
    /\ Same1(k)
    /\ \/ refunds'[k].status = refunds[k].status
       \/ /\ refunds[k].status \in {"pending", "manual_required"}
          /\ refunds'[k].status \in {"succeeded", "failed", "manual_required"}
          /\ \/ refunds[k].dest = "original_method" => k \in byHand'
             \/ refunds'[k].status = "manual_required"
             \/ refunds'[k].status = "succeeded" /\ books[k] = "succeeded"
             \/ refunds'[k].status = "failed" /\ books[k] = "failed"
             \/ /\ refunds'[k].status = "failed"
                /\ On(w, {"refused"}, k)
                /\ procs[w].first
             \/ refunds'[k].status = "failed" /\ k \in misjudged'
    /\ Only(w)
    /\ ~ procs'[w].first
    /\ procs'[w].pc \in {"idle", "backoff", "apply"}
    /\ procs'[w].pc = "backoff" => /\ procs[w].pc \notin {"idle", "apply"}
                                   /\ procs'[w].key = procs[w].key
    /\ UNCHANGED <<adrift, books, accepted, overlapped>>
    /\ misjudged \subseteq misjudged'
    /\ byHand \subseteq byHand'

\* The provider takes a request for the first time, of w or of nobody, or settles
\* what it took.
Taken(k) ==
    /\ UNCHANGED <<refunds, adrift, overlapped, misjudged, byHand>>
    /\ books[k] = "none" \/ refunds[k].age > KeyLife
    /\ books'[k] # "none"
    /\ accepted'[k] <= accepted[k] + 1
    /\ \A j \in Key \ {k} : books'[j] = books[j] /\ accepted'[j] = accepted[j]

TakenFor(w) ==
    /\ Taken(procs[w].key)
    /\ Only(w)
    /\ Same(w)
    /\ procs[w].pc = "post"
    /\ procs[w].waited <= AskTime
    /\ procs'[w].pc = "answer"
    /\ procs'[w].status = books'[procs[w].key]

TakenLate(k) ==
    /\ Taken(k)
    /\ Adrift(k)
    /\ procs' = procs

SettledThere(k) ==
    /\ UNCHANGED <<refunds, procs, adrift, accepted, overlapped, misjudged, byHand>>
    /\ books[k] = "pending"
    /\ books'[k] \in {"succeeded", "failed"}
    /\ \A j \in Key \ {k} : books'[j] = books[j]

\* Time passes for rows and for requests on their way.
Passed ==
    /\ UNCHANGED <<books, accepted, overlapped, misjudged, byHand>>
    /\ \A k \in Key, n \in 0..AskTime :
          <<k, n>> \in adrift' => n - 1 \in 0..AskTime /\ <<k, n - 1>> \in adrift
    /\ \A k \in Key : /\ refunds'[k].status = refunds[k].status
                      /\ refunds'[k].dest = refunds[k].dest
                      /\ refunds'[k].age <= refunds[k].age + 1
    /\ \A w \in Proc : /\ procs'[w].pc = procs[w].pc
                       /\ procs'[w].key = procs[w].key
                       /\ procs'[w].first = procs[w].first
                       /\ procs'[w].status = procs[w].status
                       /\ procs[w].pc = "post" /\ procs'[w].waited <= AskTime
                          => procs'[w].waited = procs[w].waited + 1

LEMMA CreateShape ==
    ASSUME Types, NEW w \in Proc, NEW k \in Key, NEW dest \in Dest[k],
           CreateRefund(w, k, dest)
    PROVE  Types' /\ Created(w, k)
<1>1. dest \in {"original_method", "cash"}
  BY RefundsConstants
<1>2. /\ NewRow(dest) \in Row
      /\ NewRow(dest).status = "pending"
      /\ NewRow(dest).dest = dest
      /\ NewRow(dest).age = 0
  BY <1>1, NewIsRow
<1>3. /\ Write(k, NewRow(dest)) /\ UNCHANGED <<pay, adrift, outside, history>>
      /\ CheckRefund(k)
  BY DEF CreateRefund, NewRow, Write
<1>4. refunds' \in [Key -> Row] /\ refunds'[k] = NewRow(dest) /\ Row1(k)
  BY <1>2, <1>3, OneRow DEF Types
<1>5. FirstPost(k) \in Work /\ FirstPost(k).pc = "post" /\ FirstPost(k).key = k
  BY StartedIsWork
<1>6. CASE dest = "original_method"
  <2>1. Goto(w, FirstPost(k))
    BY <1>6 DEF CreateRefund, FirstPost
  <2>2. procs' \in [Proc -> Work] /\ procs'[w] = FirstPost(k) /\ Only(w)
    BY <1>5, <2>1, OneProc DEF Types
  <2>3. Types'
    BY <1>3, <1>4, <2>2 DEF Types, outside, history
  <2> QED
    BY <1>2, <1>3, <1>4, <1>5, <1>6, <2>2, <2>3 DEF Created, outside, history
<1>7. CASE dest # "original_method"
  <2>1. procs' = procs
    BY <1>7 DEF CreateRefund
  <2>2. Types'
    BY <1>3, <1>4, <2>1 DEF Types, outside, history
  <2> QED
    BY <1>2, <1>3, <1>4, <2>1, <2>2 DEF Created, outside, history
<1> QED
  BY <1>6, <1>7

LEMMA RefusalShape ==
    ASSUME Types, Keyed, NEW w \in Proc, RecordRefusal(w)
    PROVE  Types' /\ \E k \in Key : Decided(w, k)
<1> DEFINE k == procs[w].key
           r == Moved(refunds[k], "failed")
<1>1. /\ k \in Key /\ procs[w].pc \in {"refused", "erred"} /\ Goto(w, AfterAsk(w))
      /\ UNCHANGED <<pay, adrift, outside, overlapped, byHand>>
      /\ misjudged \subseteq misjudged'
      /\ procs[w].pc = "refused" \/ refunds' = refunds \/ k \in misjudged'
  BY DEF Keyed, RecordRefusal, Misjudge
<1>2. refunds[k] \in Row /\ procs[w] \in Work
  BY <1>1 DEF Types
<1>3. /\ AfterAsk(w) \in Work
      /\ AfterAsk(w).pc \in {"idle", "backoff"}
      /\ AfterAsk(w).pc = "backoff" => AfterAsk(w).key = procs[w].key
      /\ AfterAsk(w).first = FALSE
  BY <1>2, AfterAskIsWork
<1>4. procs' \in [Proc -> Work] /\ procs'[w] = AfterAsk(w) /\ Only(w)
  BY <1>1, <1>3, OneProc DEF Types
<1>5. /\ r \in Row /\ r.dest = refunds[k].dest /\ r.age = refunds[k].age
      /\ r.status # refunds[k].status
         => r.status = "failed" /\ refunds[k].status \in {"pending", "manual_required"}
  BY <1>2, MovedIsRow DEF RefundStatus
<1>6. CASE procs[w].first
  <2>1. Write(k, r)
    BY <1>1, <1>6 DEF RecordRefusal, Types, Write
  <2> HIDE DEF r
  <2>2. refunds' \in [Key -> Row] /\ refunds'[k] = r /\ Row1(k)
    BY <1>1, <1>5, <2>1, OneRow DEF Types
  <2>3. Types'
    BY <1>1, <1>4, <2>2 DEF Types, outside
  <2>4. Decided(w, k)
    BY <1>1, <1>3, <1>4, <1>5, <1>6, <2>2 DEF Decided, Same1, On, outside
  <2> QED
    BY <1>1, <2>3, <2>4
<1>7. CASE ~ procs[w].first
  <2>1. refunds' = refunds
    BY <1>7 DEF RecordRefusal
  <2>2. Types'
    BY <1>1, <1>4, <2>1 DEF Types, outside
  <2>3. Decided(w, k)
    BY <1>1, <1>3, <1>4, <2>1 DEF Decided, Row1, Same1, outside
  <2> QED
    BY <1>1, <2>2, <2>3
<1> QED
  BY <1>6, <1>7

LEMMA ApplyingIsWork ==
    ASSUME NEW k \in Key
    PROVE  /\ Doing("apply", k) \in Work
           /\ Doing("apply", k).first = FALSE
           /\ Doing("apply", k).pc = "apply"
  BY DoingIsWork DEF Pc

LEMMA UpdateShape ==
    ASSUME Types, Keyed, AnswerTrue, NEW w \in Proc, updateRefund(w)
    PROVE  Types' /\ \E k \in Key : Decided(w, k)
<1> DEFINE k == procs[w].key
           r == Moved(refunds[k], procs[w].status)
           p == IF r.status = "succeeded" THEN Doing("apply", k) ELSE AfterAsk(w)
<1>1. /\ k \in Key /\ procs[w].pc = "answer"
      /\ Goto(w, p) /\ UNCHANGED <<pay, adrift, outside, history>>
  BY DEF Keyed, updateRefund
<1>2. refunds[k] \in Row /\ procs[w] \in Work
  BY <1>1 DEF Types
<1>3. procs[w].status \in RefundStatus \cup {"none"} /\ procs[w].num \in BOOLEAN
  BY <1>2 DEF Work
<1>4. /\ r \in Row /\ r.dest = refunds[k].dest /\ r.age = refunds[k].age
      /\ r.status # refunds[k].status
         => /\ r.status = procs[w].status
            /\ r.status \in {"succeeded", "failed", "manual_required"}
            /\ refunds[k].status \in {"pending", "manual_required"}
  BY <1>2, <1>3, MovedIsRow
<1>5. Write(k, Numbered(r, procs[w].num))
  BY DEF updateRefund, Numbered, Write
<1> HIDE DEF r
<1>6. p \in Work /\ p.first = FALSE /\ p.pc \in {"idle", "backoff", "apply"}
      /\ (p.pc = "backoff" => p.key = k)
  <2>1. CASE r.status = "succeeded"
    <3>1. /\ Doing("apply", k) \in Work
          /\ Doing("apply", k).first = FALSE
          /\ Doing("apply", k).pc = "apply"
      BY <1>1, ApplyingIsWork
    <3>2. p = Doing("apply", k)
      BY <2>1
    <3> HIDE DEF p
    <3> QED
      BY <3>1, <3>2
  <2>2. CASE r.status # "succeeded"
    BY <1>2, <2>2, AfterAskIsWork
  <2> QED
    BY <2>1, <2>2
<1> HIDE DEF p
<1>7. procs' \in [Proc -> Work] /\ procs'[w] = p /\ Only(w)
  BY <1>1, <1>6, OneProc DEF Types
<1>8. Numbered(r, procs[w].num) \in Row /\ Kept(r, Numbered(r, procs[w].num))
  BY <1>3, <1>4, ColumnWrites DEF RefundStatus
<1>9. /\ refunds' \in [Key -> Row] /\ refunds'[k] = Numbered(r, procs[w].num)
      /\ Row1(k)
  BY <1>1, <1>5, <1>8, OneRow DEF Types
<1>10. /\ refunds'[k].status = r.status
       /\ refunds'[k].dest = refunds[k].dest
       /\ refunds'[k].age = refunds[k].age
  BY <1>4, <1>8, <1>9 DEF Kept
<1>11. r.status # refunds[k].status /\ r.status \in {"succeeded", "failed"}
       => books[k] = r.status
  BY <1>1, <1>4 DEF AnswerTrue
<1>12. Types'
  BY <1>1, <1>7, <1>9 DEF Types, outside, history
<1>13. Decided(w, k)
  BY <1>1, <1>4, <1>6, <1>7, <1>9, <1>10, <1>11 DEF Decided, Same1, outside, history
<1> QED
  BY <1>1, <1>12, <1>13

LEMMA SettleShape ==
    ASSUME Types, NEW w \in Proc, NEW k \in Key, NEW status \in RefundStatus,
           SettleRefund(w, k, status)
    PROVE  Types' /\ Decided(w, k)
<1> DEFINE r == Settled(refunds[k], status)
           p == IF status = "succeeded" THEN Doing("apply", k) ELSE Idle
<1>1. /\ Goto(w, p) /\ UNCHANGED <<pay, adrift, outside, overlapped, misjudged>>
      /\ CanTransitionRefund(refunds[k].status, status)
      /\ byHand \subseteq byHand'
      /\ refunds[k].dest = "original_method" => k \in byHand'
  BY DEF SettleRefund
<1>2. refunds[k] \in Row
  BY DEF Types
<1>3. /\ status \in {"succeeded", "failed", "manual_required"}
      /\ refunds[k].status \in {"pending", "manual_required"}
  BY <1>1, <1>2 DEF CanTransitionRefund, refundTransitions, Row, RefundStatus
<1>4. Write(k, r)
  <2> DEFINE f == [refunds EXCEPT ![k].status = status]
  <2>1. refunds' = [f EXCEPT ![k].review = FALSE]
    BY DEF SettleRefund
  <2>2. f = [refunds EXCEPT ![k] = [refunds[k] EXCEPT !.status = status]]
    BY DEF Types
  <2>3. f[k] = [refunds[k] EXCEPT !.status = status]
    BY <2>2 DEF Types
  <2>4. [f EXCEPT ![k].review = FALSE] = [f EXCEPT ![k] = r]
    BY <2>3 DEF Settled
  <2>5. [f EXCEPT ![k] = r] = [refunds EXCEPT ![k] = r]
    BY <2>2 DEF Types
  <2> QED
    BY <2>1, <2>4, <2>5 DEF Write
<1>5. /\ r \in Row /\ r.status = status /\ r.dest = refunds[k].dest
      /\ r.age = refunds[k].age
  BY <1>2 DEF Settled, Row
<1> HIDE DEF r
<1>6. refunds' \in [Key -> Row] /\ refunds'[k] = r /\ Row1(k)
  BY <1>4, <1>5, OneRow DEF Types
<1>7. p \in Work /\ p.first = FALSE /\ p.pc \in {"idle", "apply"}
  <2>1. CASE status = "succeeded"
    <3>1. p = Doing("apply", k)
      BY <2>1
    <3> HIDE DEF p
    <3> QED
      BY <3>1, ApplyingIsWork
  <2>2. CASE status # "succeeded"
    BY <2>2, IdleIsWork
  <2> QED
    BY <2>1, <2>2
<1> HIDE DEF p
<1>8. procs' \in [Proc -> Work] /\ procs'[w] = p /\ Only(w)
  BY <1>1, <1>7, OneProc DEF Types
<1>9. Types'
  BY <1>1, <1>6, <1>8 DEF Types, outside
<1>10. Decided(w, k)
  BY <1>1, <1>3, <1>5, <1>6, <1>7, <1>8 DEF Decided, Same1, outside
<1> QED
  BY <1>9, <1>10

LEMMA CarriesShape ==
    ASSUME Types, NEW k \in Key, NEW status \in RefundStatus \ {"failed"},
           CarriesOut(k, status), procs' \in [Proc -> Work]
    PROVE  Types' /\ Taken(k) /\ books'[k] = status
<1> DEFINE n == IF status \in {"pending", "succeeded"} THEN accepted[k] + 1 ELSE accepted[k]
<1>1. /\ books[k] = "none" \/ refunds[k].age > KeyLife
      /\ accepted[k] < 2
      /\ accepted' = [accepted EXCEPT ![k] = n]
      /\ books' = [books EXCEPT ![k] = status]
      /\ UNCHANGED <<pay, refunds, adrift, panel, history>>
  BY DEF CarriesOut
<1>2. accepted[k] \in 0..2
  BY DEF Types
<1>3. n \in 0..2 /\ n <= accepted[k] + 1
  BY <1>1, <1>2
<1> HIDE DEF n
<1>4. /\ accepted' \in [Key -> 0..2] /\ accepted'[k] = n
      /\ books' \in [Key -> RefundStatus \cup {"none"}] /\ books'[k] = status
      /\ \A j \in Key \ {k} : books'[j] = books[j] /\ accepted'[j] = accepted[j]
  BY <1>1, <1>3 DEF Types
<1>5. Types'
  BY <1>1, <1>4 DEF Types, history
<1>6. status # "none"
  BY DEF RefundStatus
<1>7. Taken(k)
  BY <1>1, <1>3, <1>4, <1>6 DEF Taken, history
<1> QED
  BY <1>4, <1>5, <1>7

LEMMA RefundsShape ==
    ASSUME Types, Keyed, NEW w \in Proc, NEW num \in BOOLEAN,
           NEW status \in RefundStatus \ {"failed"}, ProviderRefunds(w, status, num)
    PROVE  Types' /\ TakenFor(w)
<1> DEFINE k == procs[w].key
           p == Answered(procs[w], status, num)
<1>1. /\ procs[w].pc = "post"
      /\ procs[w].waited <= AskTime
      /\ CarriesOut(k, status)
      /\ Goto(w, p)
  BY DEF ProviderRefunds, Delivered, Answer, Answered
<1>2. k \in Key /\ procs[w] \in Work
  BY <1>1 DEF Keyed, Types
<1>3. /\ p \in Work /\ p.pc = "answer" /\ p.key = k /\ p.first = procs[w].first
      /\ p.status = status
  BY <1>2, AnsweredIsWork
<1> HIDE DEF p
<1>4. procs' \in [Proc -> Work] /\ procs'[w] = p /\ Only(w)
  BY <1>1, <1>3, OneProc DEF Types
<1>5. Types' /\ Taken(k) /\ books'[k] = status
  BY <1>1, <1>2, <1>4, CarriesShape
<1> QED
  BY <1>1, <1>3, <1>4, <1>5 DEF TakenFor, Same

LEMMA LateShape ==
    ASSUME Types, NEW k \in Key, NEW status \in RefundStatus \ {"failed"},
           ProviderRefundsLate(k, status)
    PROVE  Types' /\ TakenLate(k)
<1>1. CarriesOut(k, status) /\ Adrift(k) /\ procs' = procs
  BY DEF ProviderRefundsLate, Adrift
<1>2. Types' /\ Taken(k)
  BY <1>1, CarriesShape DEF Types
<1> QED
  BY <1>1, <1>2 DEF TakenLate

LEMMA SettlesShape ==
    ASSUME Types, NEW k \in Key, NEW status \in {"succeeded", "failed"},
           ProviderSettles(k, status)
    PROVE  Types' /\ SettledThere(k)
<1>1. /\ books[k] = "pending" /\ books' = [books EXCEPT ![k] = status]
      /\ UNCHANGED <<pay, refunds, procs, adrift, accepted, panel, history>>
  BY DEF ProviderSettles
<1>2. books' \in [Key -> RefundStatus \cup {"none"}]
  BY <1>1 DEF Types, RefundStatus
<1>3. Types'
  BY <1>1, <1>2 DEF Types, history
<1>4. books'[k] = status /\ \A j \in Key \ {k} : books'[j] = books[j]
  BY <1>1 DEF Types
<1> QED
  BY <1>1, <1>3, <1>4 DEF SettledThere, history

\* A request a unit of time older.
Waited(p) ==
    IF p.pc = "post"
    THEN [p EXCEPT !.waited = IF @ <= AskTime THEN @ + 1 ELSE @] ELSE p

LEMMA WaitedIsWork ==
    ASSUME NEW p \in Work
    PROVE  /\ Waited(p) \in Work
           /\ Waited(p).pc = p.pc
           /\ Waited(p).key = p.key
           /\ Waited(p).first = p.first
           /\ Waited(p).status = p.status
           /\ p.pc = "post" /\ Waited(p).waited <= AskTime
              => Waited(p).waited = p.waited + 1
<1>1. p.waited \in Nat /\ AskTime \in Nat
  BY RefundsConstants DEF Work
<1>2. PICK n \in Nat : n = IF p.waited <= AskTime THEN p.waited + 1 ELSE p.waited
  BY <1>1
<1>3. CASE p.pc # "post"
  BY <1>3 DEF Waited
<1>4. CASE p.pc = "post"
  <2>1. Waited(p) = [p EXCEPT !.waited = n]
    BY <1>2, <1>4 DEF Waited
  <2> QED
    BY <1>1, <1>2, <2>1 DEF Work
<1> QED
  BY <1>3, <1>4

LEMMA TickShape ==
    ASSUME Types, Tick
    PROVE  Types' /\ Passed
<1>1. /\ procs' = [w \in Proc |-> Waited(procs[w])]
      /\ UNCHANGED <<pay, outside, history>>
  BY DEF Tick, Waited
<1>2. refunds' = [k \in Key |-> IF refunds[k].dest = "original_method"
                                THEN Older(refunds[k]) ELSE refunds[k]]
  BY DEF Tick, Older
<1>3. ASSUME NEW w \in Proc
      PROVE  /\ procs'[w] \in Work
             /\ procs'[w].pc = procs[w].pc
             /\ procs'[w].key = procs[w].key
             /\ procs'[w].first = procs[w].first
             /\ procs'[w].status = procs[w].status
             /\ procs[w].pc = "post" /\ procs'[w].waited <= AskTime
                => procs'[w].waited = procs[w].waited + 1
  <2>1. procs[w] \in Work /\ procs'[w] = Waited(procs[w])
    BY <1>1 DEF Types
  <2> QED
    BY <2>1, WaitedIsWork
<1>4. ASSUME NEW k \in Key
      PROVE  /\ refunds'[k] \in Row
             /\ refunds'[k].status = refunds[k].status
             /\ refunds'[k].dest = refunds[k].dest
             /\ refunds'[k].age <= refunds[k].age + 1
  <2>1. refunds[k] \in Row
    BY DEF Types
  <2>2. refunds[k].age \in Int
    BY <2>1 DEF Row
  <2>3. refunds'[k] = Older(refunds[k]) \/ refunds'[k] = refunds[k]
    BY <1>2
  <2>4. /\ Older(refunds[k]) \in Row
        /\ Older(refunds[k]).status = refunds[k].status
        /\ Older(refunds[k]).dest = refunds[k].dest
        /\ Older(refunds[k]).age <= refunds[k].age + 1
    BY <2>1, OlderIsRow
  <2> QED
    BY <2>1, <2>2, <2>3, <2>4
<1>5. procs' \in [Proc -> Work] /\ refunds' \in [Key -> Row]
  BY <1>1, <1>2, <1>3, <1>4
<1>6. /\ adrift' \subseteq Key \X (0..AskTime)
      /\ \A k \in Key, n \in 0..AskTime :
            <<k, n>> \in adrift' => n - 1 \in 0..AskTime /\ <<k, n - 1>> \in adrift
  <2>1. ASSUME NEW x \in adrift'
        PROVE  /\ x \in Key \X (0..AskTime)
               /\ x[2] - 1 \in 0..AskTime
               /\ <<x[1], x[2] - 1>> \in adrift
    <3>1. PICK y \in adrift : y[2] < AskTime /\ x = <<y[1], y[2] + 1>>
      BY <2>1 DEF Tick
    <3>2. y \in Key \X (0..AskTime) /\ y = <<y[1], y[2]>>
      BY DEF Types
    <3>3. y[1] \in Key /\ y[2] \in 0..AskTime /\ AskTime \in Nat
      BY <3>2, RefundsConstants
    <3>4. x[1] = y[1] /\ x[2] = y[2] + 1
      BY <3>1
    <3>5. y[2] + 1 \in 0..AskTime /\ x[2] - 1 = y[2]
      BY <3>1, <3>3, <3>4
    <3> QED
      BY <3>1, <3>2, <3>3, <3>4, <3>5
  <2> QED
    BY <2>1
<1>7. Types'
  BY <1>1, <1>5, <1>6 DEF Types, outside, history
<1> QED
  BY <1>1, <1>3, <1>4, <1>6, <1>7 DEF Passed, outside, history

----------------------------------------------------------------------------
(* Every step keeps the invariant *)

Parts ==
    /\ Keyed
    /\ PostYoung
    /\ AdriftYoung
    /\ BooksKnown
    /\ AnswerTrue
    /\ FirstAlone
    /\ FirstOnly
    /\ FirstUnknown
    /\ FailedTrue
    /\ SucceededTrue

LEMMA CalmKeeps ==
    ASSUME Types, Parts, NEW w \in Proc, Calm(w)
    PROVE  Parts'
<1> USE DEF Calm, Quiet, Only, Kept
<1>1. Keyed'
  BY DEF Parts, Keyed, Routed
<1>2. PostYoung'
  BY DEF Parts, Keyed, PostYoung
<1>3. BooksKnown'
  BY DEF Parts, BooksKnown, Routed
<1>4. AnswerTrue'
  BY DEF Parts, AnswerTrue
<1>5. FirstAlone'
  BY DEF Parts, FirstAlone, On
<1>6. FirstUnknown'
  BY DEF Parts, FirstUnknown
<1>7. FailedTrue'
  BY DEF Parts, FailedTrue, On, Adrift, Loosed
<1>8. SucceededTrue'
  BY DEF Parts, SucceededTrue
<1>9. AdriftYoung'
  BY DEF Parts, AdriftYoung, Routed, Keyed, PostYoung, Loosed, On
<1>10. FirstOnly'
  BY DEF Parts, Keyed, FirstOnly, FirstAlone, On, Adrift, Loosed
<1> QED
  BY <1>1, <1>2, <1>3, <1>4, <1>5, <1>6, <1>7, <1>8, <1>9, <1>10 DEF Parts

LEMMA RepostedKeeps ==
    ASSUME Types, Types', Parts, NEW w \in Proc, Reposted(w)
    PROVE  Parts'
<1> USE DEF Reposted, Quiet, Only, Kept
<1>1. Keyed'
  BY DEF Parts, Keyed, Routed
<1>2. PostYoung'
  <2>1. procs[w].key \in Key
    BY DEF Parts, Keyed
  <2>2. refunds[procs[w].key].age \in Int /\ procs'[w].waited \in Nat /\ Window \in Nat
    BY <2>1, RefundsConstants DEF Types, Row, Work
  <2> QED
    BY <2>1, <2>2 DEF Parts, Keyed, PostYoung
<1>3. BooksKnown'
  BY DEF Parts, BooksKnown, Routed
<1>4. AnswerTrue'
  BY DEF Parts, AnswerTrue
<1>5. FirstAlone'
  BY DEF Parts, FirstAlone, On
<1>6. FirstUnknown'
  BY DEF Parts, FirstUnknown
<1>7. FailedTrue'
  BY DEF Parts, FailedTrue, On, Adrift
<1>8. SucceededTrue'
  BY DEF Parts, SucceededTrue
<1>9. AdriftYoung'
  BY DEF Parts, AdriftYoung, Routed
<1>10. FirstOnly'
  BY DEF Parts, Keyed, FirstOnly, FirstAlone, On, Adrift
<1> QED
  BY <1>1, <1>2, <1>3, <1>4, <1>5, <1>6, <1>7, <1>8, <1>9, <1>10 DEF Parts

LEMMA ToldKeeps ==
    ASSUME Types, Parts, NEW w \in Proc, Told(w)
    PROVE  Parts'
<1> USE DEF Told, Quiet, Only, Same, Kept
<1>1. Keyed'
  BY DEF Parts, Keyed, Routed
<1>2. PostYoung'
  BY DEF Parts, Keyed, PostYoung
<1>3. BooksKnown'
  BY DEF Parts, BooksKnown, Routed
<1>4. AnswerTrue'
  BY DEF Parts, AnswerTrue
<1>5. FirstAlone'
  BY DEF Parts, FirstAlone, On
<1>6. FirstUnknown'
  BY DEF Parts, FirstUnknown
<1>7. FailedTrue'
  BY DEF Parts, FailedTrue, On, Adrift
<1>8. SucceededTrue'
  BY DEF Parts, SucceededTrue
<1>9. AdriftYoung'
  BY DEF Parts, AdriftYoung, Routed
<1>10. FirstOnly'
  BY DEF Parts, Keyed, FirstOnly, FirstAlone, On, Adrift
<1> QED
  BY <1>1, <1>2, <1>3, <1>4, <1>5, <1>6, <1>7, <1>8, <1>9, <1>10 DEF Parts

LEMMA DeniedKeeps ==
    ASSUME Types, Parts, NEW w \in Proc, Denied(w)
    PROVE  Parts'
<1> USE DEF Denied, Quiet, Only, Same, Kept
<1>1. Keyed'
  BY DEF Parts, Keyed, Routed
<1>2. PostYoung'
  BY DEF Parts, Keyed, PostYoung
<1>3. BooksKnown'
  BY DEF Parts, BooksKnown, Routed
<1>4. AnswerTrue'
  BY DEF Parts, AnswerTrue
<1>5. FirstAlone'
  BY DEF Parts, FirstAlone, On
<1>6. FirstUnknown'
  BY DEF Parts, Keyed, FirstUnknown
<1>7. FailedTrue'
  BY DEF Parts, FailedTrue, On, Adrift, Loosed
<1>8. SucceededTrue'
  BY DEF Parts, SucceededTrue
<1>9. AdriftYoung'
  BY DEF Parts, AdriftYoung, Routed, Keyed, PostYoung, Loosed, On
<1>10. FirstOnly'
  BY DEF Parts, Keyed, FirstOnly, FirstAlone, On, Adrift, Loosed
<1> QED
  BY <1>1, <1>2, <1>3, <1>4, <1>5, <1>6, <1>7, <1>8, <1>9, <1>10 DEF Parts

LEMMA NoticedKeeps ==
    ASSUME Types, Parts, NEW w \in Proc, NEW k \in Key, Noticed(w, k)
    PROVE  Parts'
<1> USE DEF Noticed, Quiet, Only, Kept
<1>1. Keyed'
  BY DEF Parts, Keyed, Routed
<1>2. PostYoung'
  BY DEF Parts, Keyed, PostYoung
<1>3. BooksKnown'
  BY DEF Parts, BooksKnown, Routed
<1>4. AnswerTrue'
  BY DEF Parts, AnswerTrue
<1>5. FirstAlone'
  BY DEF Parts, Keyed, FirstAlone, On, Asking
<1>6. FirstUnknown'
  BY DEF Parts, FirstUnknown
<1>7. FailedTrue'
  BY DEF Parts, FailedTrue, On, Adrift
<1>8. SucceededTrue'
  BY DEF Parts, SucceededTrue
<1>9. AdriftYoung'
  BY DEF Parts, AdriftYoung, Routed
<1>10. FirstOnly'
  BY DEF Parts, Keyed, FirstOnly, FirstAlone, On, Adrift
<1> QED
  BY <1>1, <1>2, <1>3, <1>4, <1>5, <1>6, <1>7, <1>8, <1>9, <1>10 DEF Parts

LEMMA StillKeeps ==
    ASSUME Parts, Still
    PROVE  Parts'
<1> USE DEF Still, Quiet, Kept
<1>1. Keyed'
  BY DEF Parts, Keyed, Routed
<1>2. (PostYoung /\ AdriftYoung)'
  BY DEF Parts, Keyed, PostYoung, AdriftYoung, Routed
<1>3. (BooksKnown /\ AnswerTrue)'
  BY DEF Parts, BooksKnown, Routed, AnswerTrue
<1>4. (FirstAlone /\ FirstOnly /\ FirstUnknown)'
  BY DEF Parts, FirstAlone, FirstOnly, FirstUnknown, On, Adrift
<1>5. (FailedTrue /\ SucceededTrue)'
  BY DEF Parts, FailedTrue, SucceededTrue, On, Adrift
<1> QED
  BY <1>1, <1>2, <1>3, <1>4, <1>5 DEF Parts

\* Nobody is working on a refund that is not there, and the provider does not know it.
LEMMA CreatedKeeps ==
    ASSUME Types, Types', Parts, NEW w \in Proc, NEW k \in Key, Created(w, k)
    PROVE  Parts'
<1> USE DEF Created, Only, Row1
<1>0. refunds[k].status = "none"
  BY DEF CheckRefund
<1>1. /\ \A v \in Proc : procs[v].pc \notin {"idle", "apply"} => procs[v].key # k
      /\ \A v \in Proc : procs[v].first => procs[v].key # k
      /\ books[k] = "none"
      /\ ~ Adrift(k)
  BY <1>0 DEF Parts, Keyed, BooksKnown, AdriftYoung, Adrift, Routed
<1>2. Keyed'
  BY <1>1 DEF Parts, Keyed, Routed
<1>3. PostYoung'
  <2>1. procs'[w].waited \in Nat /\ Window \in Nat
    BY RefundsConstants DEF Types, Work
  <2> QED
    BY <1>1, <2>1 DEF Parts, Keyed, PostYoung
<1>4. BooksKnown'
  BY <1>1 DEF Parts, BooksKnown, Routed
<1>5. AnswerTrue'
  BY DEF Parts, AnswerTrue
<1>6. FirstAlone'
  BY <1>1 DEF Parts, FirstAlone, On
<1>7. FirstUnknown'
  BY <1>1 DEF Parts, FirstUnknown
<1>8. FailedTrue'
  BY DEF Parts, FailedTrue, On, Adrift
<1>9. SucceededTrue'
  BY DEF Parts, SucceededTrue
<1>10. AdriftYoung'
  BY <1>1 DEF Parts, AdriftYoung, Adrift, Routed
<1>11. FirstOnly'
  BY <1>1 DEF Parts, Keyed, FirstOnly, Adrift
<1> QED
  BY <1>2, <1>3, <1>4, <1>5, <1>6, <1>7, <1>8, <1>9, <1>10, <1>11 DEF Parts

LEMMA DecidedKeeps ==
    ASSUME Types, Parts, NEW w \in Proc, NEW k \in Key, Decided(w, k)
    PROVE  Parts'
<1> USE DEF Decided, Only, Row1, Same1
<1>0. \A j \in Key : /\ refunds'[j].dest = refunds[j].dest
                     /\ refunds'[j].age = refunds[j].age
                     /\ refunds[j].status # "none" => refunds'[j].status # "none"
  OBVIOUS
<1>1. Keyed'
  BY <1>0 DEF Parts, Keyed, Routed
<1>2. PostYoung'
  BY <1>0 DEF Parts, Keyed, PostYoung
<1>3. BooksKnown'
  BY <1>0 DEF Parts, BooksKnown, Routed
<1>4. AnswerTrue'
  BY DEF Parts, AnswerTrue
<1>5. FirstAlone'
  BY DEF Parts, FirstAlone, On
<1>6. FirstUnknown'
  BY DEF Parts, FirstUnknown
<1>7. FailedTrue'
  <2> SUFFICES ASSUME NEW j \in Key, j \notin byHand', j \notin overlapped,
                      j \notin misjudged',
                      refunds'[j].status = "failed",
                      refunds'[j].dest = "original_method",
                      books[j] # "failed"
               PROVE  /\ books[j] = "none"
                      /\ ~ Adrift(j)
                      /\ \A v \in Proc : ~ On(v, {"recheck", "post"}, j)'
    BY DEF FailedTrue, Adrift
  <2>1. CASE refunds[j].status = "failed"
    BY <2>1 DEF Parts, FailedTrue, On
  <2>2. CASE refunds[j].status # "failed"
    <3>1. j = k /\ On(w, {"refused"}, k) /\ procs[w].first
      BY <2>2
    <3>2. books[k] = "none"
      BY <3>1 DEF Parts, FirstUnknown, On
    <3>3. \A v \in Proc \ {w} : ~ On(v, {"recheck", "post"}, k)
      BY <3>1 DEF Parts, FirstAlone, On
    <3>4. ~ Adrift(k)
      BY <3>1 DEF Parts, FirstOnly, On
    <3> QED
      BY <3>1, <3>2, <3>3, <3>4 DEF On
  <2> QED
    BY <2>1, <2>2
<1>8. SucceededTrue'
  BY DEF Parts, SucceededTrue
<1>9. AdriftYoung'
  BY <1>0 DEF Parts, AdriftYoung, Routed
<1>10. FirstOnly'
  BY DEF Parts, FirstOnly, Adrift
<1> QED
  BY <1>1, <1>2, <1>3, <1>4, <1>5, <1>6, <1>7, <1>8, <1>9, <1>10 DEF Parts

\* A request that is delivered meets a key the provider still remembers, so one it
\* takes is one it did not know.
LEMMA KeyRemembered ==
    ASSUME Types, NEW k \in Key, NEW n \in 0..AskTime, Taken(k),
           refunds[k].age <= Window + n
    PROVE  books[k] = "none"
<1>1. /\ refunds[k].age \in Int /\ n \in Nat /\ n <= AskTime
      /\ Window \in Nat /\ AskTime \in Nat /\ KeyLife \in Nat
  BY RefundsConstants DEF Types, Row
<1> QED
  BY <1>1, WindowsFit DEF Taken

\* What the books say of other refunds stays.
LEMMA TakenBooks ==
    ASSUME Types, Types', Parts, NEW k \in Key, Routed(k), Taken(k), books[k] = "none"
    PROVE  BooksKnown' /\ SucceededTrue' /\ AdriftYoung'
<1> USE DEF Taken
<1>1. BooksKnown'
  <2>1. accepted[k] = 0 /\ accepted'[k] \in Int
    BY DEF Parts, BooksKnown, Types
  <2>2. accepted'[k] <= 1 /\ books'[k] # "none" /\ Routed(k)'
    BY <2>1 DEF Routed
  <2>3. \A j \in Key \ {k} : /\ books'[j] = books[j]
                             /\ accepted'[j] = accepted[j]
                             /\ Routed(j)' = Routed(j)
    BY DEF Routed
  <2> QED
    BY <2>2, <2>3 DEF Parts, BooksKnown
<1>2. SucceededTrue'
  BY DEF Parts, SucceededTrue, Routed
<1>3. AdriftYoung'
  BY DEF Parts, AdriftYoung, Routed
<1> QED
  BY <1>1, <1>2, <1>3

LEMMA TakenForKeeps ==
    ASSUME Types, Types', Parts, NEW w \in Proc, TakenFor(w)
    PROVE  Parts'
<1> DEFINE k == procs[w].key
<1>0. k \in Key /\ Routed(k) /\ Taken(k)
  BY DEF Parts, Keyed, TakenFor
<1>1. books[k] = "none"
  <2>1. refunds[k].age <= Window + procs[w].waited
    BY DEF Parts, PostYoung, TakenFor
  <2>2. procs[w].waited \in 0..AskTime
    BY RefundsConstants DEF TakenFor, Types, Work
  <2> QED
    BY <1>0, <2>1, <2>2, KeyRemembered
<1>4. BooksKnown' /\ SucceededTrue' /\ AdriftYoung'
  BY <1>0, <1>1, TakenBooks
<1> USE DEF Taken, TakenFor, Only, Same
<1>2. Keyed'
  BY DEF Parts, Keyed, Routed
<1>3. PostYoung'
  BY DEF Parts, Keyed, PostYoung
<1>5. AnswerTrue'
  BY <1>1 DEF Parts, Keyed, AnswerTrue
<1>6. FirstAlone' /\ FirstOnly'
  BY DEF Parts, FirstAlone, FirstOnly, On, Adrift
<1>7. FirstUnknown'
  <2> SUFFICES ASSUME NEW v \in Proc, procs'[v].first,
                      procs'[v].pc \in {"post", "refused"},
                      procs'[v].key \notin overlapped
               PROVE  books'[procs'[v].key] = "none"
    BY DEF FirstUnknown
  <2>1. v # w /\ procs'[v] = procs[v]
    OBVIOUS
  <2>2. procs[v].key # k
    BY <2>1 DEF Parts, FirstAlone, On
  <2>3. procs[v].key \in Key
    BY <2>1 DEF Parts, Keyed
  <2> QED
    BY <2>1, <2>2, <2>3 DEF Parts, FirstUnknown
<1>8. FailedTrue'
  <2>1. k \notin byHand \cup overlapped \cup misjudged => refunds[k].status # "failed"
    BY <1>0, <1>1 DEF Parts, FailedTrue, On, Routed
  <2> QED
    BY <2>1 DEF Parts, FailedTrue, On, Adrift
<1> QED
  BY <1>2, <1>3, <1>4, <1>5, <1>6, <1>7, <1>8 DEF Parts

LEMMA TakenLateKeeps ==
    ASSUME Types, Types', Parts, NEW k \in Key, TakenLate(k)
    PROVE  Parts'
<1>0. Taken(k) /\ Adrift(k) /\ procs' = procs
  BY DEF TakenLate
<1>1. books[k] = "none" /\ Routed(k)
  <2>1. PICK n \in 0..AskTime : <<k, n>> \in adrift
    BY <1>0 DEF Adrift
  <2>2. Routed(k) /\ refunds[k].age <= Window + n
    BY <2>1 DEF Parts, AdriftYoung
  <2> QED
    BY <1>0, <2>2, KeyRemembered
<1>2. BooksKnown' /\ SucceededTrue' /\ AdriftYoung'
  BY <1>0, <1>1, TakenBooks
<1> USE <1>0 DEF Taken
<1>3. Keyed' /\ PostYoung'
  BY DEF Parts, Keyed, PostYoung, Routed
<1>4. AnswerTrue'
  BY <1>1 DEF Parts, Keyed, AnswerTrue
<1>5. FirstAlone' /\ FirstOnly'
  BY DEF Parts, FirstAlone, FirstOnly, On, Adrift
<1>6. FirstUnknown'
  BY DEF Parts, Keyed, FirstUnknown, FirstOnly
<1>7. FailedTrue'
  <2>1. k \notin byHand \cup overlapped \cup misjudged => refunds[k].status # "failed"
    BY <1>1 DEF Parts, FailedTrue, Routed
  <2> QED
    BY <2>1 DEF Parts, FailedTrue, On, Adrift
<1> QED
  BY <1>2, <1>3, <1>4, <1>5, <1>6, <1>7 DEF Parts

LEMMA SettledThereKeeps ==
    ASSUME Types, Parts, NEW k \in Key, SettledThere(k)
    PROVE  Parts'
<1> USE DEF SettledThere
<1>1. Keyed' /\ PostYoung'
  BY DEF Parts, Keyed, Routed, PostYoung
<1>2. BooksKnown'
  BY DEF Parts, BooksKnown, Routed
<1>3. AnswerTrue'
  BY DEF Parts, Keyed, AnswerTrue
<1>4. FirstAlone'
  BY DEF Parts, FirstAlone, On
<1>5. FirstUnknown'
  BY DEF Parts, Keyed, FirstUnknown
<1>6. FailedTrue'
  BY DEF Parts, FailedTrue, On, Adrift
<1>7. SucceededTrue'
  BY DEF Parts, SucceededTrue
<1>8. AdriftYoung' /\ FirstOnly'
  BY DEF Parts, AdriftYoung, FirstOnly, Adrift, Routed
<1> QED
  BY <1>1, <1>2, <1>3, <1>4, <1>5, <1>6, <1>7, <1>8 DEF Parts

LEMMA PassedKeeps ==
    ASSUME Types, Types', Parts, Passed
    PROVE  Parts'
<1> USE DEF Passed
<1>1. Keyed'
  BY DEF Parts, Keyed, Routed
<1>2. PostYoung'
  <2> SUFFICES ASSUME NEW w \in Proc, procs'[w].pc = "post",
                      procs'[w].waited <= AskTime
               PROVE  refunds'[procs'[w].key].age <= Window + procs'[w].waited
    BY DEF PostYoung
  <2>1. procs[w].pc = "post" /\ procs'[w].waited = procs[w].waited + 1
    OBVIOUS
  <2>2. procs[w].key \in Key /\ procs'[w].key = procs[w].key
    BY <2>1 DEF Parts, Keyed
  <2>3. /\ refunds[procs[w].key].age \in Int
        /\ refunds'[procs[w].key].age \in Int
        /\ procs[w].waited \in Nat /\ AskTime \in Nat /\ Window \in Nat
    BY <2>2, RefundsConstants DEF Types, Row, Work
  <2>4. refunds[procs[w].key].age <= Window + procs[w].waited
    BY <2>1, <2>3 DEF Parts, PostYoung
  <2>5. refunds'[procs[w].key].age <= refunds[procs[w].key].age + 1
    BY <2>2
  <2> QED
    BY <2>1, <2>2, <2>3, <2>4, <2>5
<1>3. BooksKnown'
  BY DEF Parts, BooksKnown, Routed
<1>4. AnswerTrue'
  BY DEF Parts, AnswerTrue
<1>5. FirstAlone'
  BY DEF Parts, FirstAlone, On
<1>6. FirstUnknown'
  BY DEF Parts, FirstUnknown
<1>0. \A k \in Key : Adrift(k)' => Adrift(k)
  BY DEF Adrift
<1>7. FailedTrue'
  BY <1>0 DEF Parts, FailedTrue, On
<1>8. SucceededTrue'
  BY DEF Parts, SucceededTrue
<1>9. AdriftYoung'
  <2> SUFFICES ASSUME NEW k \in Key, NEW n \in 0..AskTime, <<k, n>> \in adrift'
               PROVE  Routed(k)' /\ refunds'[k].age <= Window + n
    BY DEF AdriftYoung
  <2>1. n - 1 \in 0..AskTime /\ <<k, n - 1>> \in adrift
    OBVIOUS
  <2>2. Routed(k) /\ refunds[k].age <= Window + (n - 1)
    BY <2>1 DEF Parts, AdriftYoung
  <2>3. /\ refunds[k].age \in Int /\ refunds'[k].age \in Int
        /\ Window \in Nat /\ n \in Int
    BY RefundsConstants DEF Types, Row
  <2>4. refunds'[k].age <= Window + n
    BY <2>2, <2>3
  <2> QED
    BY <2>2, <2>4 DEF Routed
<1>10. FirstOnly'
  BY <1>0 DEF Parts, Keyed, FirstOnly
<1> QED
  BY <1>1, <1>2, <1>3, <1>4, <1>5, <1>6, <1>7, <1>8, <1>9, <1>10 DEF Parts

\* What is promised shrinks, or grows by a refund that was checked.
LEMMA PromisedShrinks ==
    ASSUME Types, Within, \A k \in Key : k \in Promised' => k \in Promised
    PROVE  Within'
<1> PICK P \in SUBSET Key : P = Promised
  BY DEF Promised
<1> PICK Q \in SUBSET Key : Q = Promised'
  BY DEF Promised
<1>1. Q \in SUBSET P
  OBVIOUS
<1>2. SumOver(Size, Q) <= SumOver(Size, P)
  BY <1>1, SizesNat, SumSubset
<1>3. Total(Q) <= Total(P) /\ Total(Q) \in Nat /\ Total(P) \in Nat
  BY <1>2, TotalIsSum, TotalIsNat
<1>4. Total(P) <= Amount
  BY Zenon DEF Within
<1>5. Total(Q) <= Amount
  BY <1>3, <1>4, RefundsConstants
<1> QED
  BY <1>5, Zenon DEF Within

LEMMA CheckedFits ==
    ASSUME Types, NEW k \in Key, CheckRefund(k)
    PROVE  Total(Promised) + Size[k] <= Amount
<1> PICK A \in SUBSET Key : A = {j \in Key : refunds[j].status \in {"succeeded"}}
  OBVIOUS
<1> PICK B \in SUBSET Key :
       B = {j \in Key : refunds[j].status \in {"pending", "manual_required"}}
  OBVIOUS
<1>1. A \cap B = {} /\ Promised = A \cup B
  BY DEF Promised
<1>2. SumOver(Size, A \cup B) = SumOver(Size, A) + SumOver(Size, B)
  BY <1>1, SizesNat, SumUnion
<1>3. SumOver(Size, Promised) = SumOver(Size, A) + SumOver(Size, B)
  BY <1>1, <1>2, Zenon
<1>4. Total(Promised) = Total(A) + Total(B)
  BY <1>3, TotalIsSum
<1>5. sumRefunds({"succeeded"}) = Total(A)
      /\ sumRefunds({"pending", "manual_required"}) = Total(B)
  BY Zenon DEF sumRefunds
<1>6. Total(A) \in Nat /\ Total(B) \in Nat /\ Size[k] \in Nat /\ Size[k] > 0
  BY TotalIsNat, RefundsConstants
<1>7. pay.amountRefunded \in Nat /\ Amount \in Nat
  BY RefundsConstants DEF Types, PayType
<1>8. Size[k] <= Larger(0, Amount - Larger(pay.amountRefunded, Total(A)) - Total(B))
  BY <1>5 DEF CheckRefund, Refundable
<1>9. Size[k] <= Amount - Total(A) - Total(B)
  BY <1>6, <1>7, <1>8 DEF Larger
<1> QED
  BY <1>4, <1>6, <1>7, <1>9

LEMMA CreatedWithin ==
    ASSUME Types, NEW w \in Proc, NEW k \in Key, Created(w, k)
    PROVE  Within'
<1> PICK P \in SUBSET Key : P = Promised
  BY DEF Promised
<1> PICK Q \in SUBSET Key : Q = Promised'
  BY DEF Promised
<1>1. k \in Q /\ Q \ {k} = P
  BY DEF Promised, Created, CheckRefund, Row1
<1>2. SumOver(Size, Q) = Size[k] + SumOver(Size, Q \ {k})
  BY <1>1, SizesNat, SumRemove
<1>3. SumOver(Size, Q) = Size[k] + SumOver(Size, P)
  BY <1>1, <1>2, Zenon
<1>4. Total(Q) = Size[k] + Total(P) /\ Total(P) \in Nat /\ Size[k] \in Nat
  BY <1>3, TotalIsSum, TotalIsNat, SizesNat
<1>5. Total(P) + Size[k] <= Amount
  BY CheckedFits DEF Created
<1>6. Total(Q) <= Amount
  BY <1>4, <1>5
<1> QED
  BY <1>6, Zenon DEF Within

\* One step per shape.
LEMMA QuietWithin ==
    ASSUME Types, Within, Quiet
    PROVE  Within'
<1>1. \A k \in Key : k \in Promised' => k \in Promised
  BY DEF Quiet, Kept, Promised
<1> QED
  BY <1>1, PromisedShrinks

LEMMA InvIs ==
    /\ IInv <=> Types /\ Parts /\ Within
    /\ IInv' <=> Types' /\ Parts' /\ Within'
  BY Zenon DEF IInv, Parts

LEMMA CalmStep ==
    ASSUME IInv, Types', NEW w \in Proc, Calm(w)
    PROVE  IInv'
  BY InvIs, CalmKeeps, QuietWithin DEF Calm

LEMMA NoticedStep ==
    ASSUME IInv, Types', NEW w \in Proc, NEW k \in Key, Noticed(w, k)
    PROVE  IInv'
  BY InvIs, NoticedKeeps, QuietWithin DEF Noticed

LEMMA StillStep ==
    ASSUME IInv, Types', Still
    PROVE  IInv'
  BY InvIs, StillKeeps, QuietWithin DEF Still

LEMMA DecidedStep ==
    ASSUME IInv, Types', NEW w \in Proc, \E k \in Key : Decided(w, k)
    PROVE  IInv'
<1>1. PICK k \in Key : Decided(w, k)
  OBVIOUS
<1>2. Parts'
  BY <1>1, InvIs, DecidedKeeps
<1>3. \A j \in Key : j \in Promised' => j \in Promised
  BY <1>1 DEF Decided, Row1, Promised
<1>4. Within'
  BY <1>3, InvIs, PromisedShrinks
<1> QED
  BY <1>2, <1>4, InvIs

LEMMA ProceedStep ==
    ASSUME IInv, NEW w \in Proc, Proceed(w)
    PROVE  IInv'
<1>0. Types /\ Parts /\ Within /\ Keyed /\ AnswerTrue
  BY InvIs DEF Parts
<1>1. CASE recheckRefund(w)
  <2>1. Types' /\ (Calm(w) \/ Reposted(w))
    BY <1>0, <1>1, RecheckShape
  <2>2. CASE Reposted(w)
    BY <1>0, <2>1, <2>2, RepostedKeeps, QuietWithin, InvIs DEF Reposted
  <2> QED
    BY <2>1, <2>2, CalmStep
<1>2. CASE Indeterminate(w)
  BY <1>0, <1>2, IndeterminateShape, CalmStep
<1>3. CASE RecordRefusal(w)
  BY <1>0, <1>3, RefusalShape, DecidedStep
<1>4. CASE updateRefund(w)
  BY <1>0, <1>4, UpdateShape, DecidedStep
<1>5. CASE SendToReview(w)
  BY <1>0, <1>5, ReviewShape, CalmStep
<1>6. CASE BackOff(w)
  BY <1>0, <1>6, BackOffShape, CalmStep
<1>7. CASE applyRefunds(w)
  BY <1>0, <1>7, ApplyShape, CalmStep
<1> QED
  BY <1>1, <1>2, <1>3, <1>4, <1>5, <1>6, <1>7 DEF Proceed

LEMMA ProviderStep ==
    ASSUME IInv, NEW w \in Proc, Provider(w)
    PROVE  IInv'
<1>0. Types /\ Parts /\ Within /\ Keyed
  BY InvIs DEF Parts
<1>1. ASSUME NEW num \in BOOLEAN, ProviderAnswers(w, num)
      PROVE  IInv'
  <2>1. Types' /\ Told(w)
    BY <1>0, <1>1, AnswersShape
  <2> QED
    BY <1>0, <2>1, ToldKeeps, QuietWithin, InvIs DEF Told
<1>2. ASSUME NEW num \in BOOLEAN, NEW status \in RefundStatus \ {"failed"},
             ProviderRefunds(w, status, num)
      PROVE  IInv'
  <2>1. Types' /\ TakenFor(w)
    BY <1>0, <1>2, RefundsShape
  <2>2. Parts'
    BY <1>0, <2>1, TakenForKeeps
  <2>3. \A k \in Key : k \in Promised' => k \in Promised
    BY <2>1 DEF TakenFor, Taken, Promised
  <2>4. Within'
    BY <1>0, <2>3, PromisedShrinks
  <2> QED
    BY <2>1, <2>2, <2>4, InvIs
<1>3. CASE ProviderRefuses(w) \/ ErrorAnswer(w)
  <2>1. Types' /\ Denied(w)
    BY <1>0, <1>3, RefusesShape
  <2> QED
    BY <1>0, <2>1, DeniedKeeps, QuietWithin, InvIs DEF Denied
<1>4. Unnumbered \in BOOLEAN
  BY RefundsConstants
<1> QED
  BY <1>1, <1>2, <1>3, <1>4 DEF Provider

LEMMA RequestStep ==
    ASSUME IInv, NEW w \in Proc, NEW k \in Key, Request(w, k)
    PROVE  IInv'
<1>0. Types /\ Parts /\ Within
  BY InvIs
<1>1. ASSUME NEW dest \in Dest[k], CreateRefund(w, k, dest)
      PROVE  IInv'
  <2>1. Types' /\ Created(w, k)
    BY <1>0, <1>1, CreateShape
  <2> QED
    BY <1>0, <2>1, CreatedKeeps, CreatedWithin, InvIs
<1>2. CASE ReplayRefund(w, k)
  <2>1. Waiting(k) /\ Snapshot(w, k) /\ UNCHANGED <<pay, refunds, adrift, outside, misjudged, byHand>>
    BY <1>2 DEF ReplayRefund
  <2> QED
    BY <1>0, <2>1, SnapshotShape, NoticedStep
<1>3. ASSUME NEW status \in RefundStatus, SettleRefund(w, k, status)
      PROVE  IInv'
  BY <1>0, <1>3, SettleShape, DecidedStep
<1> QED
  BY <1>1, <1>2, <1>3 DEF Request

LEMMA NextStep ==
    ASSUME IInv, [Next]_vars
    PROVE  IInv'
<1>0. Types /\ Parts /\ Within /\ Keyed
  BY InvIs DEF Parts
<1>1. ASSUME NEW w \in Proc, Proceed(w) \/ Provider(w) \/ Crash(w)
      PROVE  IInv'
  <2>1. CASE Crash(w)
    BY <1>0, <2>1, CrashShape, CalmStep
  <2> QED
    BY <1>1, <2>1, ProceedStep, ProviderStep
<1>2. ASSUME NEW w \in Reconciler, NEW k \in Key, recheckRefunds(w, k)
      PROVE  IInv'
  <2>1. w \in Proc
    BY RefundsConstants
  <2>2. Waiting(k) /\ Snapshot(w, k) /\ UNCHANGED <<pay, refunds, adrift, outside, misjudged, byHand>>
    BY <1>2 DEF recheckRefunds
  <2> QED
    BY <1>0, <2>1, <2>2, SnapshotShape, NoticedStep
<1>3. ASSUME NEW k \in Key, NEW status \in {"succeeded", "failed"},
             ProviderSettles(k, status)
      PROVE  IInv'
  <2>1. Types' /\ SettledThere(k)
    BY <1>0, <1>3, SettlesShape
  <2>2. Parts'
    BY <1>0, <2>1, SettledThereKeeps
  <2>3. \A j \in Key : j \in Promised' => j \in Promised
    BY <2>1 DEF SettledThere, Promised
  <2>4. Within'
    BY <1>0, <2>3, PromisedShrinks
  <2> QED
    BY <2>1, <2>2, <2>4, InvIs
<1>4. CASE PanelRefund
  BY <1>0, <1>4, PanelShape, StillStep
<1>5. CASE ObservePayment
  BY <1>0, <1>5, ObserveShape, StillStep
<1>6. CASE Tick
  <2>1. Types' /\ Passed
    BY <1>0, <1>6, TickShape
  <2>2. Parts'
    BY <1>0, <2>1, PassedKeeps
  <2>3. \A j \in Key : j \in Promised' => j \in Promised
    BY <2>1 DEF Passed, Promised
  <2>4. Within'
    BY <1>0, <2>3, PromisedShrinks
  <2> QED
    BY <2>1, <2>2, <2>4, InvIs
<1>8. ASSUME NEW k \in Key, NEW status \in RefundStatus \ {"failed"},
             ProviderRefundsLate(k, status)
      PROVE  IInv'
  <2>1. Types' /\ TakenLate(k)
    BY <1>0, <1>8, LateShape
  <2>2. Parts'
    BY <1>0, <2>1, TakenLateKeeps
  <2>3. \A j \in Key : j \in Promised' => j \in Promised
    BY <2>1 DEF TakenLate, Taken, Promised
  <2>4. Within'
    BY <1>0, <2>3, PromisedShrinks
  <2> QED
    BY <2>1, <2>2, <2>4, InvIs
<1>7. CASE UNCHANGED vars
  <2>1. Types' /\ Still
    BY <1>0, <1>7, RowsAlone DEF Types, Still, Quiet, vars
  <2> QED
    BY <2>1, StillStep
<1> QED
  BY <1>1, <1>2, <1>3, <1>4, <1>5, <1>6, <1>7, <1>8, RequestStep DEF Next

----------------------------------------------------------------------------
(* Invariants *)

LEMMA InitInv ==
    ASSUME Init
    PROVE  IInv
<1>1. NoRefund \in Row /\ NoRefund.status = "none"
  BY NewIsRow
<1>2. Idle \in Work /\ Idle.pc = "idle" /\ Idle.first = FALSE
  BY IdleIsWork
<1>3. pay \in PayType
  BY RefundsConstants DEF Init, PayType, Captured
<1>4. Types
  BY <1>1, <1>2, <1>3, RefundsConstants DEF Init, Types
<1>5. \A w \in Proc : procs[w].pc = "idle" /\ procs[w].first = FALSE
  BY <1>2 DEF Init
<1>6. \A k \in Key : /\ refunds[k].status = "none"
                     /\ books[k] = "none"
                     /\ accepted[k] = 0
  BY <1>1 DEF Init
<1>7. /\ Keyed /\ PostYoung /\ AdriftYoung /\ AnswerTrue
      /\ FirstAlone /\ FirstOnly /\ FirstUnknown
  BY <1>5 DEF Init, Keyed, PostYoung, AdriftYoung, AnswerTrue, FirstAlone, FirstOnly,
              FirstUnknown, On
<1>8. BooksKnown /\ FailedTrue /\ SucceededTrue
  BY <1>6 DEF BooksKnown, FailedTrue, SucceededTrue
<1>9. Within
  <2>1. Promised = {}
    BY <1>6 DEF Promised
  <2>2. Total({}) = 0
    BY TotalIsSum, SumOfNone
  <2>3. Total(Promised) = 0
    BY <2>1, <2>2, Zenon
  <2> QED
    BY <2>3, RefundsConstants DEF Within
<1> QED
  BY <1>4, <1>7, <1>8, <1>9 DEF IInv

\* The inductive invariant: types, what goroutines work on, how old a request may
\* be, what the provider's books and answers say, when a first request is alone,
\* and that the promised amounts fit, hold in every reachable state.
THEOREM InvariantHolds == Spec => []IInv
<1>1. Init => IInv
  BY InitInv
<1>2. IInv /\ [Next]_vars => IInv'
  BY NextStep
<1> QED
  BY <1>1, <1>2, PTL DEF Spec

\* Rows, the provider's books and the payment keep their types, and the payment's
\* refunded total stays between nothing and what was captured.
THEOREM TypeCorrect == Spec => []TypeOK
<1>1. IInv => TypeOK
  BY DEF IInv, Types, TypeOK, Row, PayType
<1> QED
  BY <1>1, InvariantHolds, PTL

\* The provider accepts no refund twice, whatever is retried, by whom and when, as
\* long as the windows fit its memory.
THEOREM RefundedOnce == Spec => []NoDoubleRefund
<1>1. IInv => NoDoubleRefund
  BY DEF IInv, BooksKnown, NoDoubleRefund
<1> QED
  BY <1>1, InvariantHolds, PTL

\* What the ledger holds for failed did not go through, and what it holds for
\* returned was returned, with the exceptions FinalIsTrue names.
THEOREM FinalStatusTrue == Spec => []FinalIsTrue
<1>1. IInv => FinalIsTrue
  BY DEF IInv, FailedTrue, SucceededTrue, FinalIsTrue
<1> QED
  BY <1>1, InvariantHolds, PTL

\* What the refunds returned or may return never exceeds the captured amount, for
\* refunds of any sizes, with the exceptions Committed names.
THEOREM NeverOverRefunded == Spec => []ReturnedWithinCapture
<1>1. ASSUME IInv
      PROVE  ReturnedWithinCapture
  <2> PICK P \in SUBSET Key : P = Promised
    BY DEF Promised
  <2> PICK C \in SUBSET Key : C = {k \in Key : Committed(k)}
    OBVIOUS
  <2>1. C \in SUBSET P
    <3> SUFFICES ASSUME NEW k \in Key, Committed(k), k \notin Promised
                 PROVE  FALSE
      OBVIOUS
    <3>1. books[k] = "succeeded" /\ k \notin byHand \cup overlapped \cup misjudged
      BY DEF Committed, Promised
    <3>2. Routed(k)
      BY <1>1, <3>1 DEF IInv, BooksKnown
    <3>3. refunds[k].status = "failed"
      BY <1>1, <3>2 DEF IInv, Types, Row, RefundStatus, Routed, Promised
    <3> QED
      BY <1>1, <3>1, <3>2, <3>3 DEF IInv, FailedTrue, Routed
  <2>2. SumOver(Size, C) <= SumOver(Size, P)
    BY <2>1, SizesNat, SumSubset
  <2>3. Total(C) <= Total(P) /\ Total(C) \in Nat /\ Total(P) \in Nat
    BY <2>2, TotalIsSum, TotalIsNat
  <2>4. Total(P) <= Amount
    BY <1>1, Zenon DEF IInv, Within
  <2>5. Total(C) <= Amount
    BY <2>3, <2>4, RefundsConstants
  <2> QED
    BY <2>5, Zenon DEF ReturnedWithinCapture
<1> QED
  BY <1>1, InvariantHolds, PTL

----------------------------------------------------------------------------
(* What a step never does *)

ReviewKept == \A k \in Key : refunds'[k].review => refunds[k].review

ReviewRight == \A k \in Key : ~ refunds[k].review /\ refunds'[k].review
                              => ~ refunds[k].num

\* A row that is written with its flag as it was, or lowered.
LEMMA WriteKeepsReview ==
    ASSUME Types, NEW k \in Key, NEW r \in Row, Write(k, r), r.review => refunds[k].review
    PROVE  ReviewKept
  BY DEF Write, Types, ReviewKept

LEMMA ProceedReview ==
    ASSUME IInv, NEW w \in Proc, Proceed(w)
    PROVE  ReviewRight
<1> DEFINE k == procs[w].key
<1>0. Types /\ Keyed /\ procs[w] \in Work
  BY DEF IInv, Types
<1>1. CASE UNCHANGED refunds
  BY <1>1 DEF ReviewRight
<1>2. CASE RecordRefusal(w) /\ procs[w].first
  <2>1. k \in Key /\ refunds[k] \in Row
    BY <1>0, <1>2 DEF Keyed, RecordRefusal, Types
  <2>2. Write(k, Moved(refunds[k], "failed"))
    BY <1>2, <1>0 DEF RecordRefusal, Write, Types
  <2>3. /\ Moved(refunds[k], "failed") \in Row
        /\ Moved(refunds[k], "failed").review = refunds[k].review
    BY <2>1, MovedIsRow DEF RefundStatus
  <2>4. ReviewKept
    BY <1>0, <2>1, <2>2, <2>3, WriteKeepsReview
  <2> QED
    BY <2>4 DEF ReviewKept, ReviewRight
<1>3. CASE updateRefund(w)
  <2> DEFINE r == Moved(refunds[k], procs[w].status)
  <2>1. k \in Key /\ refunds[k] \in Row
    BY <1>0, <1>3 DEF Keyed, updateRefund, Types
  <2>2. procs[w].status \in RefundStatus \cup {"none"} /\ procs[w].num \in BOOLEAN
    BY <1>0 DEF Work
  <2>3. r \in Row /\ r.review = refunds[k].review
    BY <2>1, <2>2, MovedIsRow
  <2>4. Write(k, Numbered(r, procs[w].num))
    BY <1>3 DEF updateRefund, Numbered, Write
  <2> HIDE DEF r
  <2>5. /\ Numbered(r, procs[w].num) \in Row
        /\ Numbered(r, procs[w].num).review = r.review
    BY <2>2, <2>3, ColumnWrites
  <2>6. ReviewKept
    BY <1>0, <2>1, <2>3, <2>4, <2>5, WriteKeepsReview
  <2> QED
    BY <2>6 DEF ReviewKept, ReviewRight
<1>4. CASE SendToReview(w)
  <2>1. k \in Key /\ refunds[k] \in Row
    BY <1>0, <1>4 DEF Keyed, SendToReview, Types
  <2> DEFINE b == refunds[k].status = "pending" /\ ~ refunds[k].num
  <2>2. Write(k, Flagged(refunds[k], b)) /\ b \in BOOLEAN
    BY <1>0, <1>4, <2>1 DEF SendToReview, Flagged, Write, Types, Row
  <2>3. b => ~ refunds[k].num
    OBVIOUS
  <2> HIDE DEF b
  <2>4. /\ Flagged(refunds[k], b) \in Row
        /\ Flagged(refunds[k], b).review = (refunds[k].review \/ b)
    BY <2>1, <2>2, ColumnWrites
  <2>5. refunds'[k] = Flagged(refunds[k], b) /\ Row1(k)
    BY <1>0, <2>1, <2>2, <2>4, OneRow DEF Types
  <2> QED
    BY <2>1, <2>3, <2>4, <2>5 DEF ReviewRight, Row1
<1>5. CASE BackOff(w)
  <2>1. k \in Key /\ refunds[k] \in Row
    BY <1>0, <1>5 DEF Keyed, BackOff, Types
  <2> DEFINE b == refunds[k].status # "pending"
  <2>2. Write(k, Delayed(refunds[k], b)) /\ b \in BOOLEAN
    BY <1>0, <1>5, <2>1 DEF BackOff, Delayed, Write, Types
  <2> HIDE DEF b
  <2>3. /\ Delayed(refunds[k], b) \in Row
        /\ Delayed(refunds[k], b).review = refunds[k].review
    BY <2>1, <2>2, ColumnWrites
  <2>4. ReviewKept
    BY <1>0, <2>1, <2>2, <2>3, WriteKeepsReview
  <2> QED
    BY <2>4 DEF ReviewKept, ReviewRight
<1>6. recheckRefund(w) \/ Indeterminate(w) \/ applyRefunds(w)
      \/ (RecordRefusal(w) /\ ~ procs[w].first) => UNCHANGED refunds
  BY DEF recheckRefund, Indeterminate, applyRefunds, RecordRefusal
<1> QED
  BY <1>1, <1>2, <1>3, <1>4, <1>5, <1>6 DEF Proceed

LEMMA RequestReview ==
    ASSUME IInv, NEW w \in Proc, NEW k \in Key, Request(w, k)
    PROVE  ReviewKept
<1>0. Types /\ refunds[k] \in Row
  BY DEF IInv, Types
<1>1. ASSUME NEW dest \in Dest[k], CreateRefund(w, k, dest)
      PROVE  ReviewKept
  <2>1. dest \in {"original_method", "cash"}
    BY RefundsConstants
  <2>2. NewRow(dest) \in Row /\ ~ NewRow(dest).review
    BY <2>1, NewIsRow
  <2>3. Write(k, NewRow(dest))
    BY <1>1 DEF CreateRefund, NewRow, Write
  <2> QED
    BY <1>0, <2>2, <2>3, WriteKeepsReview
<1>2. CASE ReplayRefund(w, k)
  BY <1>2 DEF ReplayRefund, ReviewKept
<1>3. ASSUME NEW status \in RefundStatus, SettleRefund(w, k, status)
      PROVE  ReviewKept
  <2> DEFINE f == [refunds EXCEPT ![k].status = status]
  <2>1. refunds' = [f EXCEPT ![k].review = FALSE]
    BY <1>3 DEF SettleRefund
  <2>2. f \in [Key -> Row] /\ \A j \in Key : f[j].review = refunds[j].review
    BY <1>0 DEF Types, Row
  <2> HIDE DEF f
  <2>3. ~ refunds'[k].review /\ \A j \in Key \ {k} : refunds'[j] = f[j]
    BY <2>1, <2>2 DEF Row
  <2> QED
    BY <2>2, <2>3 DEF ReviewKept
<1> QED
  BY <1>1, <1>2, <1>3 DEF Request

LEMMA NextReview ==
    ASSUME IInv, [Next]_vars
    PROVE  ReviewRight
<1>0. Types
  BY DEF IInv
<1>1. CASE UNCHANGED refunds
  BY <1>1 DEF ReviewRight
<1>2. CASE \E w \in Proc, k \in Key : Request(w, k)
  BY <1>2, RequestReview DEF ReviewKept, ReviewRight
<1>3. CASE ObservePayment
  <2>1. CASE refunds' = [k \in Key |-> Due(refunds[k], Waiting(k))]
    <3>1. ASSUME NEW k \in Key
          PROVE  refunds'[k].review = refunds[k].review
      <4>1. refunds[k] \in Row
        BY <1>0 DEF Types
      <4>2. Waiting(k) \in BOOLEAN
        BY <4>1 DEF Waiting, Row
      <4>3. Due(refunds[k], Waiting(k)).review = refunds[k].review
        BY <4>1, <4>2, OlderIsRow
      <4> QED
        BY <2>1, <4>3
    <3> QED
      BY <3>1 DEF ReviewRight
  <2> QED
    BY <1>1, <1>3, <2>1 DEF ObservePayment, Due
<1>4. CASE Tick
  <2>1. ASSUME NEW k \in Key
        PROVE  refunds'[k].review = refunds[k].review
    <3>1. refunds[k] \in Row
      BY <1>0 DEF Types
    <3>2. refunds'[k] = IF refunds[k].dest = "original_method"
                        THEN Older(refunds[k]) ELSE refunds[k]
      BY <1>4 DEF Tick, Older
    <3>3. Older(refunds[k]).review = refunds[k].review
      BY <3>1, OlderIsRow
    <3> QED
      BY <3>2, <3>3
  <2> QED
    BY <2>1 DEF ReviewRight
<1>5. CASE \E w \in Proc : Proceed(w)
  BY <1>5, ProceedReview
<1>6. ASSUME NEW w \in Proc, Provider(w) \/ Crash(w)
      PROVE  UNCHANGED refunds
  BY <1>6 DEF Provider, ProviderAnswers, ProviderRefunds, CarriesOut, ProviderRefuses,
              ErrorAnswer, Crash
<1>7. ASSUME NEW w \in Reconciler, NEW k \in Key, recheckRefunds(w, k)
      PROVE  UNCHANGED refunds
  BY <1>7 DEF recheckRefunds
<1>8. ASSUME NEW k \in Key, NEW status \in {"succeeded", "failed"},
             ProviderSettles(k, status)
      PROVE  UNCHANGED refunds
  BY <1>8 DEF ProviderSettles
<1>9. PanelRefund \/ UNCHANGED vars => UNCHANGED refunds
  BY DEF PanelRefund, vars
<1>10. ASSUME NEW k \in Key, NEW status \in RefundStatus \ {"failed"},
              ProviderRefundsLate(k, status)
       PROVE  UNCHANGED refunds
  BY <1>10 DEF ProviderRefundsLate, CarriesOut
<1> QED
  BY <1>1, <1>2, <1>3, <1>4, <1>5, <1>6, <1>7, <1>8, <1>9, <1>10 DEF Next

\* A refund that has the provider's number is never sent to review, however old
\* the row was that the decision was made on.
THEOREM ReviewedUnnumbered == Spec => NumberedIsNotReviewed
<1>1. IInv /\ [Next]_vars => ReviewRight
  BY NextReview
<1> QED
  BY <1>1, InvariantHolds, PTL DEF Spec, NumberedIsNotReviewed, ReviewRight
=============================================================================
