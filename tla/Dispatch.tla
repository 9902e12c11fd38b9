------------------------------ MODULE Dispatch ------------------------------
(***************************************************************************)
(* The delivery ledger of package dispatch: one row per (event occurrence, *)
(* subscription) that carries payload, next_attempt_at and a lease, the    *)
(* processes that insert rows as events are published and run the first    *)
(* attempt at once, and their sweepers that claim due rows, dead-letter    *)
(* exhausted ones and resume what a dead process left behind.              *)
(*                                                                         *)
(* A delivery is a pair <<c, g>>: generation g of the chain whose root is  *)
(* the row inserted for occurrence and subscription c. Instants are        *)
(* distances from the present, as in Outbox.                               *)
(***************************************************************************)
EXTENDS Integers, FiniteSets

CONSTANTS
    Chain,         \* (occurrence, subscription) pairs: root delivery ids
    MaxGeneration, \* bound on Replay: no chain is replayed more often
    Replica,       \* processes that wired a dispatcher
    Slot,          \* bound on concurrent attempts: goroutines of all processes
    ReplicaOf,     \* ReplicaOf[w]: the process of goroutine w
    MaxAttempts,   \* the values processes give WithMaxAttempts
    ClaimBatch,    \* claimBatch
    Lease,         \* opts.lease
    NotReadyWait,  \* opts.notReadyWait
    Delay,         \* the delays backoffFor and retry_after_ms give
    Outcome,       \* how an attempt can end
    Forgettable,   \* the chains ForgetDeliveries may be called for
    Replayable,    \* the statuses the filters of Replay name
    Token,         \* claim tokens
    NoToken, NoDelivery

Generation == 0..MaxGeneration

Delivery == Chain \X Generation

\* How an attempt ends: the handler succeeds, fails, fails for good
\* (retryable:false) or is not ready; or, before it is invoked, the provider
\* fails, the subscription is gone or the capability is denied.
Outcomes == {"ok", "fail", "fatal", "notReady", "noProvider", "gone", "denied"}

ASSUME DispatchConstants ==
    /\ MaxGeneration \in Nat
    /\ ReplicaOf \in [Slot -> Replica]
    /\ MaxAttempts \subseteq Nat \ {0}
    /\ ClaimBatch \in Nat \ {0}
    /\ Lease \in Nat \ {0}
    /\ NotReadyWait \in Nat
    /\ Delay \subseteq Nat
    /\ Outcome \subseteq Outcomes
    /\ Forgettable \subseteq Chain
    /\ Replayable \subseteq {"pending", "delivered", "dead", "cancelled"}
    /\ NoToken \notin Token
    /\ NoDelivery \notin Delivery

VARIABLES
    rows,     \* rows[i]: the ledger row with delivery id i
    slots,    \* slots[w]: the attempt goroutine w runs
    mode,     \* mode[r]: "down", "up" or "stopped" (its base context is done)
    limit,    \* limit[r]: the maxAttempts process r was wired with
    reaping,  \* reaping[r]: rows r read as exhausted and has yet to update
    owed,     \* <<r, i>>: r marked i dead and has yet to publish the fact
    letters   \* the deliveries a dead-letter event was published for

vars == <<rows, slots, mode, limit, reaping, owed, letters>>

----------------------------------------------------------------------------
(* Rows and attempts *)

Row == [status : {"absent", "pending", "delivered", "dead", "cancelled"},
        attempts : Nat,
        nextAttemptAt : Nat,
        leaseUntil : Int,
        leaseToken : Token \cup {NoToken},
        notReady : Int]          \* time since not_ready_since, -1 for NULL

AbsentRow == [status |-> "absent", attempts |-> 0, nextAttemptAt |-> 0,
              leaseUntil |-> 0, leaseToken |-> NoToken, notReady |-> -1]

Waiting(row) == row.status = "pending" /\ row.leaseToken = NoToken

Leased(row) == row.status = "pending" /\ row.leaseToken # NoToken

LeaseOver(row) == Leased(row) /\ row.leaseUntil < 0

Terminal(row) == row.status \in {"delivered", "dead", "cancelled"}

\* pending and leased for one attempt more
LeasedRow(row, n, t) == [row EXCEPT !.status = "pending", !.attempts = n,
                                    !.leaseUntil = Lease, !.leaseToken = t]

\* reschedule and release: the lease is given up, the next attempt set
WaitingRow(row, n, at, age) == [row EXCEPT !.attempts = n,
                                           !.nextAttemptAt = at,
                                           !.leaseUntil = 0,
                                           !.leaseToken = NoToken,
                                           !.notReady = age]

EndedRowStillLeased(row, s) == [row EXCEPT !.status = s]

EndedRow(row, s) == [AbsentRow EXCEPT !.status = s, !.attempts = row.attempts]

IdleSlot == [pc |-> "idle", row |-> NoDelivery, token |-> NoToken,
             attempts |-> 0, fast |-> FALSE, outcome |-> "none",
             context |-> "live"]

StartedSlot(i, t, n, fast) == [pc |-> "running", row |-> i, token |-> t,
                               attempts |-> n, fast |-> fast,
                               outcome |-> "none", context |-> "live"]

SlotState == [pc : {"idle", "running", "finishing"},
              row : Delivery \cup {NoDelivery},
              token : Token \cup {NoToken},
              attempts : Nat,
              fast : BOOLEAN,
              outcome : Outcomes \cup {"none"},
              context : {"live", "lost", "over"}]

SlotsOf(r) == {w \in Slot : ReplicaOf[w] = r}

FreeSlots(r) == {w \in SlotsOf(r) : slots[w].pc = "idle"}

FenceWithoutToken(w) == /\ slots[w].pc # "idle"
                        /\ Leased(rows[slots[w].row])

\* fenced: WHERE delivery_id = ? AND lease_token = ? AND status = 'pending'
Fenced(w) == /\ slots[w].pc # "idle"
             /\ rows[slots[w].row].status = "pending"
             /\ rows[slots[w].row].leaseToken = slots[w].token

FreshTokens == Token \ ({rows[i].leaseToken : i \in Delivery}
                         \cup {slots[w].token : w \in Slot}
                         \cup UNION {{p[2] : p \in reaping[r]} : r \in Replica})

----------------------------------------------------------------------------
(* enqueue, Replay, ForgetDeliveries *)

\* The row of a new occurrence: attempt 1 and its lease belong to the publisher.
\* A row that exists absorbs the duplicate.
EnqueueRow(i, t) ==
    /\ i[2] = 0
    /\ rows[i].status = "absent"
    /\ rows' = [rows EXCEPT ![i] = LeasedRow(AbsentRow, 1, t)]

\* The fast path: the publisher's goroutine runs the first attempt.
Enqueue(r, i) ==
    /\ mode[r] = "up"
    /\ \E t \in FreshTokens, w \in FreeSlots(r) :
          /\ EnqueueRow(i, t)
          /\ slots' = [slots EXCEPT ![w] = StartedSlot(i, t, 1, TRUE)]
    /\ UNCHANGED <<mode, limit, reaping, owed, letters>>

\* The process stops between the insert and the attempt, or never learns that
\* the insert was committed: the row stays leased to nobody.
EnqueueUnattended(r, i) ==
    /\ mode[r] \in {"up", "stopped"}
    /\ \E t \in FreshTokens : EnqueueRow(i, t)
    /\ UNCHANGED <<slots, mode, limit, reaping, owed, letters>>

\* The next generation of a row whose status the filter names (delivered and dead
\* by default), with a budget of its own; a no-op when that generation exists.
Replay(c, g) ==
    /\ g < MaxGeneration
    /\ rows[<<c, g>>].status \in Replayable
    /\ rows[<<c, g + 1>>].status = "absent"
    /\ rows' = [rows EXCEPT ![<<c, g + 1>>].status = "pending"]
    /\ UNCHANGED <<slots, mode, limit, reaping, owed, letters>>

\* Every row of the chain goes, whatever its status and whoever holds it.
ForgetDeliveries(c) ==
    /\ c \in Forgettable
    /\ \E g \in Generation : rows[<<c, g>>].status # "absent"
    /\ rows' = [i \in Delivery |-> IF i[1] = c THEN AbsentRow ELSE rows[i]]
    /\ UNCHANGED <<slots, mode, limit, reaping, owed, letters>>

----------------------------------------------------------------------------
(* The sweeper: reapExhausted, then claim *)

DueOnlyWaiting(r) == {i \in Delivery : /\ Waiting(rows[i])
                                       /\ rows[i].nextAttemptAt = 0
                                       /\ rows[i].attempts < limit[r]}

DueAnyStatus(r) == {i \in Delivery : /\ rows[i].status # "absent"
                                     /\ rows[i].nextAttemptAt = 0
                                     /\ \/ rows[i].leaseToken = NoToken
                                        \/ rows[i].leaseUntil < 0
                                     /\ rows[i].attempts < limit[r]}

Due(r) == {i \in Delivery : /\ rows[i].status = "pending"
                            /\ rows[i].nextAttemptAt = 0
                            /\ Waiting(rows[i]) \/ LeaseOver(rows[i])
                            /\ rows[i].attempts < limit[r]}

ClaimRows(S, t) ==
    rows' = [i \in Delivery |-> IF i \in S
                                THEN LeasedRow(rows[i], rows[i].attempts + 1, t)
                                ELSE rows[i]]

\* take[w]: the row goroutine w runs
Claim(r, t, take) ==
    /\ mode[r] = "up"
    /\ DOMAIN take # {}
    /\ Cardinality(DOMAIN take) <= ClaimBatch
    /\ \A v, w \in DOMAIN take : v # w => take[v] # take[w]
    /\ ClaimRows({take[w] : w \in DOMAIN take}, t)
    /\ slots' = [w \in Slot |->
                   IF w \in DOMAIN take
                   THEN StartedSlot(take[w], t, rows[take[w]].attempts + 1, FALSE)
                   ELSE slots[w]]
    /\ UNCHANGED <<mode, limit, reaping, owed, letters>>

\* Every claim of r that takes one of the rows in S.
SweepFor(r, S) ==
    \E t \in FreshTokens, W \in SUBSET FreeSlots(r) :
       \E take \in [W -> Due(r)] :
          /\ \E w \in W : take[w] \in S
          /\ Claim(r, t, take)

Sweep(r) == SweepFor(r, Delivery)

\* The claim is committed but its answer is lost (the base context ends, the
\* connection breaks): attempts are counted and nobody runs them.
ClaimAnswerLost(r) ==
    /\ mode[r] = "up"
    /\ \E t \in FreshTokens, S \in SUBSET Due(r) :
          /\ S # {}
          /\ Cardinality(S) <= ClaimBatch
          /\ ClaimRows(S, t)
    /\ UNCHANGED <<slots, mode, limit, reaping, owed, letters>>

Exhausted(r) == {i \in Delivery : /\ LeaseOver(rows[i])
                                  /\ rows[i].attempts >= limit[r]}

\* reapExhausted reads the exhausted rows and their tokens; several sweeps of a
\* process can be at it ...
ReapScan(r) ==
    LET found == {<<i, rows[i].leaseToken>> : i \in Exhausted(r)}
    IN  /\ mode[r] = "up"
        /\ ~(found \subseteq reaping[r])
        /\ reaping' = [reaping EXCEPT ![r] = @ \cup found]
        /\ UNCHANGED <<rows, slots, mode, limit, owed, letters>>

\* ... and updates them one by one, fenced by the token it read: the lease is not
\* looked at again, and the updates do not stop with the base context.
Reap(r, i, t) ==
    /\ <<i, t>> \in reaping[r]
    /\ reaping' = [reaping EXCEPT ![r] = @ \ {<<i, t>>}]
    /\ IF rows[i].status = "pending" /\ rows[i].leaseToken = t
       THEN /\ rows' = [rows EXCEPT ![i] = EndedRow(@, "dead")]
            /\ owed' = owed \cup {<<r, i>>}
       ELSE UNCHANGED <<rows, owed>>
    /\ UNCHANGED <<slots, mode, limit, letters>>

\* emitDeadLetter, after the row is dead; a crash in between loses the event.
EmitDeadLetter(r, i) ==
    /\ <<r, i>> \in owed
    /\ owed' = owed \ {<<r, i>>}
    /\ letters' = letters \cup {i}
    /\ UNCHANGED <<rows, slots, mode, limit, reaping>>

----------------------------------------------------------------------------
(* runClaimed: one attempt *)

Heartbeat(w) ==
    /\ slots[w].pc = "running"
    /\ slots[w].context = "live"
    /\ IF Fenced(w)
       THEN /\ rows' = [rows EXCEPT ![slots[w].row].leaseUntil = Lease]
            /\ UNCHANGED slots
       ELSE /\ slots' = [slots EXCEPT ![w].context = "lost"]
            /\ UNCHANGED rows
    /\ UNCHANGED <<mode, limit, reaping, owed, letters>>

\* attemptTimeout: the context ends and with it the renewals; the handler may
\* go on.
AttemptTimeout(w) ==
    /\ slots[w].pc = "running"
    /\ slots[w].context = "live"
    /\ slots' = [slots EXCEPT ![w].context = "over"]
    /\ UNCHANGED <<rows, mode, limit, reaping, owed, letters>>

\* The attempt comes to an end. On the fast path the subscription is known.
AttemptEnds(w, outcome) ==
    /\ slots[w].pc = "running"
    /\ slots[w].fast => outcome \notin {"noProvider", "gone"}
    /\ slots' = [slots EXCEPT ![w].pc = "finishing", ![w].outcome = outcome]
    /\ UNCHANGED <<rows, mode, limit, reaping, owed, letters>>

Refund(n) == IF n > 0 THEN n - 1 ELSE 0

\* Whether a not-ready answer still waits instead of counting as a failure.
StillWaits(row) == NotReadyWait > 0 /\ row.notReady < NotReadyWait

RetryPastLimit(w, d) ==
    LET s == slots[w]
        row == rows[s.row]
    IN  IF s.outcome = "ok" THEN EndedRow(row, "delivered")
        ELSE IF s.outcome = "gone" THEN EndedRow(row, "cancelled")
        ELSE IF s.outcome \in {"denied", "fatal"} THEN EndedRow(row, "dead")
        ELSE WaitingRow(row, s.attempts, d, -1)

\* The row an attempt writes, in the order the code decides: first what settles
\* the delivery, then what gives the attempt back (provider outage, shutdown, a
\* subscriber that is still awaited), then retry or death.
ResultRow(w, d) ==
    LET s == slots[w]
        r == ReplicaOf[w]
        row == rows[s.row]
        awaited == s.outcome = "notReady" /\ StillWaits(row)
    IN  IF s.outcome = "ok" THEN EndedRow(row, "delivered")
        ELSE IF s.outcome = "gone" THEN EndedRow(row, "cancelled")
        ELSE IF s.outcome = "denied" THEN EndedRow(row, "dead")
        ELSE IF s.outcome = "noProvider"
          THEN WaitingRow(row, Refund(s.attempts), d, row.notReady)
        ELSE IF mode[r] = "stopped"
          THEN WaitingRow(row, Refund(s.attempts), 0, row.notReady)
        ELSE IF awaited
          THEN WaitingRow(row, Refund(s.attempts), d,
                          IF row.notReady < 0 THEN 0 ELSE row.notReady)
        ELSE IF s.outcome # "fatal" /\ s.attempts < limit[r]
          THEN WaitingRow(row, s.attempts, d, -1)
        ELSE EndedRow(row, "dead")

\* A failure is dropped once the lease is known to be lost; a success, a vanished
\* subscription and a denial go to the fence all the same.
Writes(w) == /\ Fenced(w)
             /\ \/ slots[w].context # "lost"
                \/ slots[w].outcome \in {"ok", "gone", "denied", "noProvider"}

FinishUnchecked(w, d) ==
    LET i == slots[w].row
    IN  /\ slots[w].pc = "finishing"
        /\ slots' = [slots EXCEPT ![w] = IdleSlot]
        /\ rows' = IF Writes(w) THEN [rows EXCEPT ![i] = ResultRow(w, d)] ELSE rows
        /\ owed' = IF /\ ResultRow(w, d).status = "dead"
                      /\ slots[w].outcome # "denied"
                   THEN owed \cup {<<ReplicaOf[w], i>>}
                   ELSE owed
        /\ UNCHANGED <<mode, limit, reaping, letters>>

\* The result is written if the row is still this attempt's, and a dead letter is
\* due if that write made the row dead, except for a denied capability.
Finish(w, d) ==
    LET i == slots[w].row
    IN  /\ slots[w].pc = "finishing"
        /\ slots' = [slots EXCEPT ![w] = IdleSlot]
        /\ rows' = IF Writes(w) THEN [rows EXCEPT ![i] = ResultRow(w, d)] ELSE rows
        /\ owed' = IF /\ Writes(w)
                      /\ ResultRow(w, d).status = "dead"
                      /\ slots[w].outcome # "denied"
                   THEN owed \cup {<<ReplicaOf[w], i>>}
                   ELSE owed
        /\ UNCHANGED <<mode, limit, reaping, letters>>

\* The write fails: the lease is left to expire.
FinishFails(w) ==
    /\ slots[w].pc = "finishing"
    /\ slots' = [slots EXCEPT ![w] = IdleSlot]
    /\ UNCHANGED <<rows, mode, limit, reaping, owed, letters>>

----------------------------------------------------------------------------
(* The life of a process, and time *)

Wire(r, n) ==
    /\ mode[r] = "down"
    /\ mode' = [mode EXCEPT ![r] = "up"]
    /\ limit' = [limit EXCEPT ![r] = n]
    /\ UNCHANGED <<rows, slots, reaping, owed, letters>>

\* Wire's cancel: the base context ends, and every attempt's with it.
Stop(r) ==
    /\ mode[r] = "up"
    /\ mode' = [mode EXCEPT ![r] = "stopped"]
    /\ slots' = [w \in Slot |->
                   IF /\ w \in SlotsOf(r)
                      /\ slots[w].pc = "running"
                      /\ slots[w].context = "live"
                   THEN [slots[w] EXCEPT !.context = "over"]
                   ELSE slots[w]]
    /\ UNCHANGED <<rows, limit, reaping, owed, letters>>

\* The process ends, stopped or not.
Exit(r) ==
    /\ mode[r] # "down"
    /\ mode' = [mode EXCEPT ![r] = "down"]
    /\ slots' = [w \in Slot |-> IF w \in SlotsOf(r) THEN IdleSlot ELSE slots[w]]
    /\ reaping' = [reaping EXCEPT ![r] = {}]
    /\ owed' = {p \in owed : p[1] # r}
    /\ UNCHANGED <<rows, limit, letters>>

Sooner(n, floor) == IF n > floor THEN n - 1 ELSE n

Aged(row) ==
    IF row.status # "pending" THEN row
    ELSE [row EXCEPT
            !.nextAttemptAt = Sooner(@, 0),
            !.leaseUntil = IF Leased(row) THEN Sooner(@, -1) ELSE @,
            !.notReady = IF @ \in 0..(NotReadyWait - 1) THEN @ + 1 ELSE @]

Tick ==
    /\ rows' = [i \in Delivery |-> Aged(rows[i])]
    /\ rows' # rows
    /\ UNCHANGED <<slots, mode, limit, reaping, owed, letters>>

----------------------------------------------------------------------------

Init ==
    /\ rows = [i \in Delivery |-> AbsentRow]
    /\ slots = [w \in Slot |-> IdleSlot]
    /\ mode = [r \in Replica |-> "down"]
    /\ limit \in [Replica -> MaxAttempts]
    /\ reaping = [r \in Replica |-> {}]
    /\ owed = {}
    /\ letters = {}

Next ==
    \/ \E r \in Replica, i \in Delivery :
          \/ Enqueue(r, i)
          \/ EnqueueUnattended(r, i)
          \/ EmitDeadLetter(r, i)
          \/ \E t \in Token : Reap(r, i, t)
    \/ \E c \in Chain :
          \/ \E g \in Generation : Replay(c, g)
          \/ ForgetDeliveries(c)
    \/ \E r \in Replica :
          \/ Sweep(r)
          \/ ClaimAnswerLost(r)
          \/ ReapScan(r)
          \/ \E n \in MaxAttempts : Wire(r, n)
          \/ Stop(r)
          \/ Exit(r)
    \/ \E w \in Slot :
          \/ Heartbeat(w)
          \/ AttemptTimeout(w)
          \/ \E outcome \in Outcome : AttemptEnds(w, outcome)
          \/ \E d \in Delay : Finish(w, d)
          \/ FinishFails(w)
    \/ Tick

Spec == Init /\ [][Next]_vars

\* As in Outbox: goroutines of a running process run, handlers return, and the
\* oldest due row is claimed first. Nothing is assumed of heartbeats, timeouts,
\* successful writes or restarts.
Fairness ==
    /\ WF_vars(Tick)
    /\ \A w \in Slot :
          /\ WF_vars(\E outcome \in Outcome : AttemptEnds(w, outcome))
          /\ WF_vars((\E d \in Delay : Finish(w, d)) \/ FinishFails(w))
    /\ \A r \in Replica :
          /\ WF_vars(ReapScan(r))
          /\ WF_vars(\E i \in Delivery, t \in Token : Reap(r, i, t))
          /\ WF_vars(\E i \in Delivery : EmitDeadLetter(r, i))
          /\ \A i \in Delivery : SF_vars(SweepFor(r, {i}))

FairSpec == Spec /\ Fairness

----------------------------------------------------------------------------
(* The abstract queue *)

PhaseOf(i) == CASE Waiting(rows[i]) -> "queued"
                [] Leased(rows[i]) -> "held"
                [] Terminal(rows[i]) -> "ended"
                [] OTHER -> "absent"

HoldersOf(i) == {w \in Slot : Fenced(w) /\ slots[w].row = i}

\* Meant for processes that agree on maxAttempts.
Queue == INSTANCE LeasedQueue WITH
    Item <- Delivery, Actor <- Slot, NoItem <- NoDelivery,
    Budget <- [i \in Delivery |-> CHOOSE n \in MaxAttempts : TRUE],
    Discardable <- {i \in Delivery : i[1] \in Forgettable},
    phase <- [i \in Delivery |-> PhaseOf(i)],
    holder <- [i \in Delivery |-> HoldersOf(i)],
    used <- [i \in Delivery |-> rows[i].attempts],
    work <- [w \in Slot |-> slots[w].row]

----------------------------------------------------------------------------
(* Properties *)

\* The ledger is a leased queue: one attempt at a time can decide a delivery, an
\* attempt whose lease was taken over decides nothing, and no delivery is
\* attempted more often than maxAttempts, attempts given back apart.
ImplementsQueue == Queue!QSpec

\* Every row, attempt and process has its type; a row holds a lease only while it
\* is pending, and an attempt that runs has a row and a token.
TypeOK ==
    /\ rows \in [Delivery -> Row]
    /\ slots \in [Slot -> SlotState]
    /\ mode \in [Replica -> {"down", "up", "stopped"}]
    /\ limit \in [Replica -> MaxAttempts]
    /\ reaping \in [Replica -> SUBSET (Delivery \X Token)]
    /\ owed \subseteq Replica \X Delivery
    /\ letters \subseteq Delivery
    /\ \A i \in Delivery : rows[i].leaseToken # NoToken =>
                             rows[i].status = "pending"
    /\ \A w \in Slot : slots[w].pc # "idle" =>
          slots[w].row \in Delivery /\ slots[w].token \in Token

\* A pending row is the durable work item that any process can pick up. A row
\* without a lease is seen by claim only, which skips spent rows, and not by
\* reapExhausted, so it must never have spent its attempts.
AnyProcessCanResume ==
    \A i \in Delivery, r \in Replica :
        Waiting(rows[i]) /\ mode[r] # "down" => rows[i].attempts < limit[r]

\* A dead-letter event tells the truth: the delivery it names is dead in the
\* ledger, whatever attempts that lost their lease, reapers and late results do.
\* (While ForgetDeliveries leaves the chain alone.)
DeadLettersAreDead ==
    \A i \in Delivery :
        /\ i[1] \notin Forgettable
        /\ i \in letters \/ \E r \in Replica : <<r, i>> \in owed
        => rows[i].status = "dead"

\* Of a chain that is never forgotten only the newest generation can still run:
\* late results, takeovers and claims bring no replayed generation back to life,
\* so no two attempts of one event run side by side. This is for replays of ended
\* deliveries: a filter that names pending ones makes a second live generation.
OneLiveGeneration ==
    "pending" \notin Replayable =>
    \A c \in Chain \ Forgettable, g \in Generation :
        g + 1 \in Generation /\ rows[<<c, g + 1>>].status # "absent"
        => Terminal(rows[<<c, g>>])

\* Every delivery ends, provided one process eventually stays up: crashes, lost
\* answers and subscribers that are never ready do not leave it pending.
Settles ==
    \A i \in Delivery :
        (\E r \in Replica : <>[](mode[r] = "up"))
        => (rows[i].status = "pending" ~> rows[i].status # "pending")
=============================================================================
