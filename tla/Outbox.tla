------------------------------- MODULE Outbox -------------------------------
(***************************************************************************)
(* The durable job queue of package outbox: the table metacore_outbox_jobs *)
(* and the replicas (processes) whose pollers claim jobs from it, run the  *)
(* handlers in worker slots, renew the leases and write the results back.  *)
(*                                                                         *)
(* Time is relative: runAt, lockedUntil and keepUntil are the distance     *)
(* from the reference clock to the instant the column holds, and Tick      *)
(* brings every instant one unit nearer. Replica r reads the clock         *)
(* Skew[r] units ahead of the reference, as cfg.Now does per process.      *)
(***************************************************************************)
EXTENDS Integers, FiniteSets

CONSTANTS
    Job,          \* the ids rows can have; the columns below never change
    Kind,         \* Kind[j]: the kind column
    DedupeKey,    \* DedupeKey[j]: the dedupe_key column, NoKey for NULL
    MaxAttempts,  \* MaxAttempts[j]: the max_attempts column
    Replica,      \* processes that run the queue's loops
    Slot,         \* worker slots of all replicas
    ReplicaOf,    \* ReplicaOf[w]: the replica slot w belongs to
    Registered,   \* Registered[r]: the kinds replica r has handlers for
    Skew,         \* Skew[r]: how far r's clock runs ahead
    BatchSize,    \* cfg.BatchSize
    Lease,        \* cfg.LeaseTimeout
    RetainDone,   \* cfg.RetainDone, 0: keep forever
    RetainDead,   \* cfg.RetainDead, 0: keep forever
    Delay,        \* the delays an Enqueue option, Backoff or RetryAfter gives
    Token,        \* claim tokens
    NoToken, NoJob, NoKey

ASSUME OutboxConstants ==
    /\ MaxAttempts \in [Job -> Nat \ {0}]
    /\ ReplicaOf \in [Slot -> Replica]
    /\ Skew \in [Replica -> Nat]
    /\ BatchSize \in Nat \ {0}
    /\ Lease \in Nat \ {0}
    /\ RetainDone \in Nat
    /\ RetainDead \in Nat
    /\ Delay \subseteq Nat
    /\ NoToken \notin Token
    /\ NoJob \notin Job

VARIABLES
    jobs,   \* jobs[j]: the row with id j, status "absent" when there is none
    slots,  \* slots[w]: what worker slot w is doing
    mode    \* mode[r]: where replica r is in its life

vars == <<jobs, slots, mode>>

----------------------------------------------------------------------------
(* Rows *)

Row == [status : {"absent", "pending", "running", "done", "dead"},
        attempts : Nat,
        runAt : Nat,
        lockedUntil : Int,
        lockedBy : Token \cup {NoToken},
        keepUntil : Int]

AbsentRow == [status |-> "absent", attempts |-> 0, runAt |-> 0,
              lockedUntil |-> 0, lockedBy |-> NoToken, keepUntil |-> 0]

PendingRow(n, at) == [AbsentRow EXCEPT !.status = "pending", !.attempts = n,
                                       !.runAt = at]

RunningRowUnlocked(n, until, t) == [AbsentRow EXCEPT !.status = "running",
                                                     !.attempts = n,
                                                     !.lockedUntil = until]

RunningRow(n, until, t) == [AbsentRow EXCEPT !.status = "running",
                                             !.attempts = n,
                                             !.lockedUntil = until,
                                             !.lockedBy = t]

EndedRow(s, n, until) == [AbsentRow EXCEPT !.status = s, !.attempts = n,
                                           !.keepUntil = until]

Live(j) == jobs[j].status \in {"pending", "running"}

Expired(r, j) == jobs[j].lockedUntil < Skew[r]

\* The instant retention may delete a row that r ends now.
RetainUntil(r, keep) == IF keep = 0 THEN 0 ELSE keep + Skew[r]

----------------------------------------------------------------------------
(* Worker slots *)

IdleSlot == [pc |-> "idle", job |-> NoJob, token |-> NoToken, attempts |-> 0,
             result |-> "none", cause |-> "none"]

StartedSlotBeforeUpdate(j, t, n) ==
    [pc |-> "running", job |-> j, token |-> t, attempts |-> n - 1,
     result |-> "none", cause |-> "none"]

StartedSlot(j, t, n) == [pc |-> "running", job |-> j, token |-> t,
                         attempts |-> n, result |-> "none", cause |-> "none"]

SlotState == [pc : {"idle", "running", "finishing"},
              job : Job \cup {NoJob},
              token : Token \cup {NoToken},
              attempts : Nat,
              result : {"none", "ok", "fail", "permanent"},
              cause : {"none", "lost", "shutdown"}]

Modes == {"down", "up", "stopping", "waiting", "cancelled"}

SlotsOf(r) == {w \in Slot : ReplicaOf[w] = r}

FreeSlots(r) == {w \in SlotsOf(r) : slots[w].pc = "idle"}

\* WHERE id = ? AND status = 'running' AND locked_by = ?
OwnsAnyToken(w) == /\ slots[w].pc # "idle"
                   /\ jobs[slots[w].job].status = "running"

Owns(w) == /\ slots[w].pc # "idle"
           /\ jobs[slots[w].job].status = "running"
           /\ jobs[slots[w].job].lockedBy = slots[w].token

NoFreshness == Token

\* newToken: 64 random bits, taken never to repeat a token still in use.
FreshTokens == Token \ ({jobs[j].lockedBy : j \in Job}
                         \cup {slots[w].token : w \in Slot})

----------------------------------------------------------------------------
(* The API: Enqueue, EnqueueTx, Retry, Cleanup *)

\* The partial unique index on (kind, dedupe_key) over live rows lets j live.
IndexAdmits(j) ==
    DedupeKey[j] # NoKey =>
        \A i \in Job \ {j} : ~ /\ Kind[i] = Kind[j]
                               /\ DedupeKey[i] = DedupeKey[j]
                               /\ Live(i)

\* A fresh id: no row has it and no slot still works on it. A conflict on the
\* dedupe key returns the live job and ErrDuplicate and changes nothing.
Enqueue(r, j, d) ==
    /\ jobs[j] = AbsentRow
    /\ \A w \in Slot : slots[w].job # j
    /\ IndexAdmits(j)
    /\ jobs' = [jobs EXCEPT ![j] = PendingRow(0, Skew[r] + d)]
    /\ UNCHANGED <<slots, mode>>

RetryWithoutIndex(r, j) ==
    /\ jobs[j].status \in {"pending", "dead"}
    /\ jobs' = [jobs EXCEPT ![j] = PendingRow(0, Skew[r])]
    /\ UNCHANGED <<slots, mode>>

\* Other statuses return ErrNotRetryable; a dead row whose key is taken again
\* violates the index and returns ErrDuplicate.
Retry(r, j) ==
    /\ jobs[j].status \in {"pending", "dead"}
    /\ IndexAdmits(j)
    /\ jobs' = [jobs EXCEPT ![j] =
                   PendingRow(IF jobs[j].status = "dead" THEN 0
                                                         ELSE jobs[j].attempts,
                              Skew[r])]
    /\ UNCHANGED <<slots, mode>>

\* What one DELETE of Cleanup removes.
Outdated(r, status, keep) == {j \in Job : /\ keep > 0
                                         /\ jobs[j].status = status
                                         /\ jobs[j].keepUntil < Skew[r]}

\* Done rows are deleted, then dead ones unless the first DELETE was the last
\* to succeed.
Cleanup(r) ==
    LET done == Outdated(r, "done", RetainDone)
        dead == Outdated(r, "dead", RetainDead)
    IN  \E gone \in {done, done \cup dead} :
           /\ gone # {}
           /\ jobs' = [j \in Job |-> IF j \in gone THEN AbsentRow ELSE jobs[j]]
           /\ UNCHANGED <<slots, mode>>

----------------------------------------------------------------------------
(* The poller *)

DueOnlyPending(r) ==
    {j \in Job : /\ Kind[j] \in Registered[r]
                 /\ jobs[j].status = "pending"
                 /\ jobs[j].runAt <= Skew[r]}

\* A pending row is due whatever its attempts: only the running branch of the
\* query compares them with max_attempts.
Due(r) ==
    {j \in Job : /\ Kind[j] \in Registered[r]
                 /\ \/ jobs[j].status = "pending" /\ jobs[j].runAt <= Skew[r]
                    \/ /\ jobs[j].status = "running"
                       /\ Expired(r, j)
                       /\ jobs[j].attempts < MaxAttempts[j]}

\* One poll: a single UPDATE gives some due jobs to free slots under one token.
\* Which due jobs: any, since ORDER BY run_at is not modelled and SKIP LOCKED
\* passes over rows another transaction holds. A poll already past its context
\* check when Shutdown is called still claims; the loop ends after it.
Claim(r, t, take) ==
    /\ mode[r] \in {"up", "stopping"}
    /\ DOMAIN take # {}
    /\ Cardinality(DOMAIN take) <= BatchSize
    /\ \A v, w \in DOMAIN take : v # w => take[v] # take[w]
    /\ jobs' = [j \in Job |->
                  IF \E w \in DOMAIN take : take[w] = j
                  THEN RunningRow(jobs[j].attempts + 1, Lease + Skew[r], t)
                  ELSE jobs[j]]
    /\ slots' = [w \in Slot |->
                   IF w \in DOMAIN take
                   THEN StartedSlot(take[w], t, jobs[take[w]].attempts + 1)
                   ELSE slots[w]]
    /\ mode' = [mode EXCEPT ![r] = IF @ = "up" THEN "up" ELSE "waiting"]

\* Every poll of r that claims one of the jobs in S.
PollFor(r, S) ==
    \E t \in FreshTokens, W \in SUBSET FreeSlots(r) :
       \E take \in [W -> Due(r)] :
          /\ \E w \in W : take[w] \in S
          /\ Claim(r, t, take)

Poll(r) == PollFor(r, Job)

\* The claim is committed but its answer is lost: the attempts are counted and
\* nobody runs the jobs.
ClaimAnswerLost(r) ==
    /\ mode[r] \in {"up", "stopping"}
    /\ \E t \in FreshTokens, S \in SUBSET Due(r) :
          /\ S # {}
          /\ Cardinality(S) <= BatchSize
          /\ jobs' = [j \in Job |->
                        IF j \in S
                        THEN RunningRow(jobs[j].attempts + 1, Lease + Skew[r], t)
                        ELSE jobs[j]]
    /\ mode' = [mode EXCEPT ![r] = IF @ = "up" THEN "up" ELSE "waiting"]
    /\ UNCHANGED slots

----------------------------------------------------------------------------
(* A worker slot: heartbeat, handler, result *)

\* A tick of the heartbeat that reaches the database: it renews the lease, or
\* finds that another claim took the row and cancels the handler's context. The
\* first cancellation of a context gives its cause. A tick that fails does
\* nothing.
Heartbeat(w) ==
    /\ slots[w].pc = "running"
    /\ IF Owns(w)
       THEN /\ jobs' = [jobs EXCEPT ![slots[w].job].lockedUntil =
                                       Lease + Skew[ReplicaOf[w]]]
            /\ UNCHANGED slots
       ELSE /\ slots' = [slots EXCEPT ![w].cause =
                           IF @ = "none" THEN "lost" ELSE @]
            /\ UNCHANGED jobs
    /\ UNCHANGED mode

\* The handler returns (a panic counts as an error), the heartbeat is stopped
\* and the cause of the context is read: later cancellations go unnoticed.
HandlerReturns(w, result) ==
    /\ slots[w].pc = "running"
    /\ slots' = [slots EXCEPT ![w].pc = "finishing", ![w].result = result]
    /\ UNCHANGED <<jobs, mode>>

ResultOffByOne(w, d) ==
    LET s == slots[w]
        now == Skew[ReplicaOf[w]]
    IN  IF s.result = "ok"
          THEN EndedRow("done", s.attempts, RetainUntil(ReplicaOf[w], RetainDone))
        ELSE IF s.cause = "shutdown"
          THEN PendingRow(jobs[s.job].attempts - 1, now)
        ELSE IF s.result = "permanent" \/ s.attempts > MaxAttempts[s.job]
          THEN EndedRow("dead", s.attempts, RetainUntil(ReplicaOf[w], RetainDead))
        ELSE PendingRow(s.attempts, now + d)

\* The row finish writes, from the job as it was claimed: done, requeued with
\* the attempt given back, dead, or pending again after d.
ResultRow(w, d) ==
    LET s == slots[w]
        now == Skew[ReplicaOf[w]]
        n == jobs[s.job].attempts
    IN  IF s.result = "ok"
          THEN EndedRow("done", n, RetainUntil(ReplicaOf[w], RetainDone))
        ELSE IF s.cause = "shutdown"
          THEN PendingRow(IF n > 0 THEN n - 1 ELSE 0, now)
        ELSE IF s.result = "permanent" \/ s.attempts >= MaxAttempts[s.job]
          THEN EndedRow("dead", n, RetainUntil(ReplicaOf[w], RetainDead))
        ELSE PendingRow(n, now + d)

FinishUnfenced(w, d) ==
    /\ slots[w].pc = "finishing"
    /\ slots' = [slots EXCEPT ![w] = IdleSlot]
    /\ jobs' = IF slots[w].cause # "lost" /\ OwnsAnyToken(w)
               THEN [jobs EXCEPT ![slots[w].job] = ResultRow(w, d)]
               ELSE jobs
    /\ UNCHANGED mode

\* finish: nothing is written once the lease is known to be lost, and the write
\* is fenced by the token when it is lost unknowingly. The slot is free again.
Finish(w, d) ==
    /\ slots[w].pc = "finishing"
    /\ slots' = [slots EXCEPT ![w] = IdleSlot]
    /\ jobs' = IF slots[w].cause # "lost" /\ Owns(w)
               THEN [jobs EXCEPT ![slots[w].job] = ResultRow(w, d)]
               ELSE jobs
    /\ UNCHANGED mode

\* The write fails: the result is dropped and the lease is left to expire.
FinishFails(w) ==
    /\ slots[w].pc = "finishing"
    /\ slots' = [slots EXCEPT ![w] = IdleSlot]
    /\ UNCHANGED <<jobs, mode>>

----------------------------------------------------------------------------
(* Maintenance and the life of a replica *)

StuckAnyBudget(r) == {j \in Job : /\ jobs[j].status = "running"
                                  /\ Expired(r, j)}

\* Not restricted to the kinds r has handlers for.
Stuck(r) == {j \in Job : /\ jobs[j].status = "running"
                         /\ Expired(r, j)
                         /\ jobs[j].attempts >= MaxAttempts[j]}

\* Called by the maintenance loop, and by whoever holds the Service.
ReapStuck(r) ==
    /\ Stuck(r) # {}
    /\ jobs' = [j \in Job |->
                  IF j \in Stuck(r)
                  THEN EndedRow("dead", jobs[j].attempts,
                                RetainUntil(r, RetainDead))
                  ELSE jobs[j]]
    /\ UNCHANGED <<slots, mode>>

Start(r) ==
    /\ mode[r] = "down"
    /\ mode' = [mode EXCEPT ![r] = "up"]
    /\ UNCHANGED <<jobs, slots>>

\* Shutdown, or the end of Start's context: the poll and maintenance contexts
\* are cancelled.
Shutdown(r) ==
    /\ mode[r] = "up"
    /\ mode' = [mode EXCEPT ![r] = "stopping"]
    /\ UNCHANGED <<jobs, slots>>

\* loops.Wait returns.
LoopsEnd(r) ==
    /\ mode[r] = "stopping"
    /\ mode' = [mode EXCEPT ![r] = "waiting"]
    /\ UNCHANGED <<jobs, slots>>

\* The grace period ends before the jobs do: their contexts are cancelled.
CancelJobs(r) ==
    /\ mode[r] = "waiting"
    /\ \E w \in SlotsOf(r) : slots[w].pc # "idle"
    /\ slots' = [w \in Slot |->
                   IF /\ w \in SlotsOf(r)
                      /\ slots[w].pc = "running"
                      /\ slots[w].cause = "none"
                   THEN [slots[w] EXCEPT !.cause = "shutdown"]
                   ELSE slots[w]]
    /\ mode' = [mode EXCEPT ![r] = "cancelled"]
    /\ UNCHANGED jobs

ShutdownOnlyByDeadline(r) ==
    /\ mode[r] = "cancelled"
    /\ \A w \in SlotsOf(r) : slots[w].pc = "idle"
    /\ mode' = [mode EXCEPT ![r] = "down"]
    /\ UNCHANGED <<jobs, slots>>

\* jobs.Wait returns: every slot is free and Shutdown returns.
ShutdownReturns(r) ==
    /\ mode[r] \in {"waiting", "cancelled"}
    /\ \A w \in SlotsOf(r) : slots[w].pc = "idle"
    /\ mode' = [mode EXCEPT ![r] = "down"]
    /\ UNCHANGED <<jobs, slots>>

\* The process dies: what its slots were doing is gone, the rows stay.
Crash(r) ==
    /\ mode[r] # "down"
    /\ mode' = [mode EXCEPT ![r] = "down"]
    /\ slots' = [w \in Slot |-> IF w \in SlotsOf(r) THEN IdleSlot ELSE slots[w]]
    /\ UNCHANGED jobs

----------------------------------------------------------------------------
(* Time *)

Sooner(n, floor) == IF n > floor THEN n - 1 ELSE n

\* An instant in the past by more than any clock can tell stays where it is.
Aged(row) ==
    CASE row.status = "pending" -> [row EXCEPT !.runAt = Sooner(@, 0)]
      [] row.status = "running" -> [row EXCEPT !.lockedUntil = Sooner(@, -1)]
      [] row.status = "done" /\ RetainDone > 0 ->
             [row EXCEPT !.keepUntil = Sooner(@, -1)]
      [] row.status = "dead" /\ RetainDead > 0 ->
             [row EXCEPT !.keepUntil = Sooner(@, -1)]
      [] OTHER -> row

Tick ==
    /\ jobs' = [j \in Job |-> Aged(jobs[j])]
    /\ jobs' # jobs
    /\ UNCHANGED <<slots, mode>>

----------------------------------------------------------------------------

Init ==
    /\ jobs = [j \in Job |-> AbsentRow]
    /\ slots = [w \in Slot |-> IdleSlot]
    /\ mode = [r \in Replica |-> "down"]

Next ==
    \/ \E r \in Replica, j \in Job :
          \/ \E d \in Delay : Enqueue(r, j, d)
          \/ Retry(r, j)
    \/ \E r \in Replica :
          \/ Cleanup(r)
          \/ Poll(r)
          \/ ClaimAnswerLost(r)
          \/ ReapStuck(r)
          \/ Start(r)
          \/ Shutdown(r)
          \/ LoopsEnd(r)
          \/ CancelJobs(r)
          \/ ShutdownReturns(r)
          \/ Crash(r)
    \/ \E w \in Slot :
          \/ Heartbeat(w)
          \/ \E result \in {"ok", "fail", "permanent"} :
                HandlerReturns(w, result)
          \/ \E d \in Delay : Finish(w, d)
          \/ FinishFails(w)
    \/ Tick

Spec == Init /\ [][Next]_vars

\* What the code's scheduling gives: the ticker and timer goroutines of a running
\* process run, handlers return, jobs.Wait and loops.Wait return. The poller
\* takes the oldest run_at first and every requeue moves run_at to the present
\* or later, so a job that is due again and again is claimed in the end: strong
\* fairness per job. Nothing is assumed of heartbeats, of successful result
\* writes, of restarts, of the grace period or of the API's callers.
Fairness ==
    /\ WF_vars(Tick)
    /\ \A w \in Slot :
          /\ WF_vars(\E result \in {"ok", "fail", "permanent"} :
                        HandlerReturns(w, result))
          /\ WF_vars((\E d \in Delay : Finish(w, d)) \/ FinishFails(w))
    /\ \A r \in Replica :
          /\ WF_vars(mode[r] = "up" /\ ReapStuck(r))
          /\ WF_vars(LoopsEnd(r))
          /\ WF_vars(ShutdownReturns(r))
          /\ \A j \in Job : SF_vars(PollFor(r, {j}))

FairSpec == Spec /\ Fairness

----------------------------------------------------------------------------
(* The abstract queue *)

PhaseOf(j) == CASE jobs[j].status = "pending" -> "queued"
                [] jobs[j].status = "running" -> "held"
                [] jobs[j].status \in {"done", "dead"} -> "ended"
                [] OTHER -> "absent"

HoldersOf(j) == {w \in Slot : Owns(w) /\ slots[w].job = j}

Queue == INSTANCE LeasedQueue WITH
    Item <- Job, Actor <- Slot, Budget <- MaxAttempts, NoItem <- NoJob, Discardable <- {},
    phase <- [j \in Job |-> PhaseOf(j)],
    holder <- [j \in Job |-> HoldersOf(j)],
    used <- [j \in Job |-> jobs[j].attempts],
    work <- [w \in Slot |-> slots[w].job]

----------------------------------------------------------------------------
(* Properties *)

\* The queue of rows, leases and tokens is a leased queue: one holder at a time,
\* only the holder decides, and no job is started beyond its budget. A stale
\* worker's result or heartbeat is a step that changes nothing.
ImplementsQueue == Queue!QSpec

\* Every row, slot and mode has its type; a row is locked exactly while it is
\* running, and a slot that is not idle has a job and a token.
TypeOK ==
    /\ jobs \in [Job -> Row]
    /\ slots \in [Slot -> SlotState]
    /\ mode \in [Replica -> Modes]
    /\ \A j \in Job : jobs[j].status = "running" <=> jobs[j].lockedBy # NoToken
    /\ \A w \in Slot : slots[w].pc # "idle" =>
          slots[w].job \in Job /\ slots[w].token \in Token

\* claim adds an attempt to a pending row without comparing it with
\* max_attempts, so no writer may leave a pending row with its budget spent: no
\* job is ever started more often than max_attempts allows.
AttemptBudget ==
    \A j \in Job :
        /\ jobs[j].status = "pending" => jobs[j].attempts < MaxAttempts[j]
        /\ jobs[j].status = "running" => jobs[j].attempts \in 1..MaxAttempts[j]
        /\ jobs[j].attempts <= MaxAttempts[j]

\* A claim token fences the result: of all the slots, in whatever replica, that
\* still run or record some job, at most one can change its row.
OneOwner ==
    \A v, w \in Slot :
        Owns(v) /\ Owns(w) /\ slots[v].job = slots[w].job => v = w

\* finish decides between retry and dead letter on the attempts the job had when
\* it was claimed: they are the row's as long as the write can succeed.
SnapshotCurrent ==
    \A w \in Slot : Owns(w) =>
        slots[w].attempts = jobs[slots[w].job].attempts

\* (kind, dedupe_key) is unique among live jobs, through enqueue and the revival
\* of dead jobs alike.
OneLivePerKey ==
    \A i, j \in Job :
        /\ i # j /\ Live(i) /\ Live(j)
        /\ Kind[i] = Kind[j] /\ DedupeKey[i] = DedupeKey[j]
        => DedupeKey[i] = NoKey

LeavesOwner(j) == /\ jobs[j].status = "running"
                  /\ \/ jobs'[j].status # "running"
                     \/ jobs'[j].lockedBy # jobs[j].lockedBy

LeaseIsOver(j) == \E r \in Replica : Expired(r, j)

OwnerRecords(j) == \E w \in Slot : /\ slots[w].pc = "finishing"
                                  /\ slots'[w].pc = "idle"
                                  /\ slots[w].job = j
                                  /\ slots[w].token = jobs[j].lockedBy

\* A running row leaves its owner's hands only when the owner, still holding the
\* token, records a result, or when its lease has expired on some replica's
\* clock: neither a late result nor a late heartbeat of an earlier claim can
\* touch the row of the present one.
LeaseRespected == [][\A j \in Job : LeavesOwner(j) =>
                                     LeaseIsOver(j) \/ OwnerRecords(j)]_vars

Dies(j) == jobs[j].status # "dead" /\ jobs'[j].status = "dead"

\* A job is dead-lettered only by a permanent error or with its budget spent,
\* never by a takeover, a crash or a shutdown alone.
NoEarlyDeath == [][\A j \in Job : Dies(j) =>
                      \/ jobs[j].attempts = MaxAttempts[j]
                      \/ \E w \in Slot : /\ Owns(w)
                                         /\ slots[w].job = j
                                         /\ slots[w].result = "permanent"]_vars

\* Every enqueued job is done or dead in the end, whatever crashes, lost results
\* and takeovers happen, provided one replica with a handler for its kind
\* eventually stays up.
Settles ==
    \A j \in Job :
        (\E r \in Replica : Kind[j] \in Registered[r] /\ <>[](mode[r] = "up"))
        => (Live(j) ~> ~Live(j))

\* A graceful shutdown returns: no slot waits for what the stopped loops would
\* have done.
ShutdownEnds ==
    \A r \in Replica : mode[r] = "stopping" ~> mode[r] = "down"
=============================================================================
